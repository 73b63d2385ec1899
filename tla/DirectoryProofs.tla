--------------------------- MODULE DirectoryProofs ---------------------------
(***************************************************************************)
(* The safety properties of Directory hold for any number of operators and *)
(* clients, whatever they do at the same time and whatever fails.  The     *)
(* invariant adds what an operation in progress knows of its customer and  *)
(* license, that ids are not given out twice, that emails are stored in    *)
(* their normal form, and how the detail rows of the log relate to what    *)
(* was recorded; a second one, how totals and buckets relate to it.        *)
(***************************************************************************)
EXTENDS Directory, FiniteSetTheorems, TLAPS

-----------------------------------------------------------------------------
(* The inductive invariant                                                 *)

Actor == Operator \cup Client

(* The operator will still report a deletion.                              *)
Reporting == {"cleanup", "capture"}

(* Something is left to be reported or to be removed.                      *)
Owing == Reporting \cup {"commit"}

(* A session is being registered.                                          *)
Admitting == {"store", "commit"}

(* What an operation in progress holds; that a warning is due where its    *)
(* entry would be the first; and that the license of an activation stays   *)
(* as long as its transaction holds the row.                               *)
ActorKnown(a) ==
    LET p == actor[a]
    IN  /\ p.pc = "update" => p.customer \in CustomerId /\ p.value \in Spelling
        /\ p.pc \in {"list", "delete", "insert", "transfer"} => p.customer \in CustomerId
        /\ p.pc \in {"transfer", "reload"} => p.license \in LicenseId
        /\ p.pc \in {"row", "before", "add", "remove"} => p.license \in LicenseId \cap issued
        /\ p.pc \in {"before", "add", "remove"} => p.value \in Entry
        /\ p.pc = "add" /\ p.license \in licenses /\ allowed[p.license] = {}
              => p.warning \/ p.removed
        /\ p.pc \in Admitting => /\ a \in Client /\ p.license \in LicenseId
                                 /\ p.token \in Token \cap issued
                                 /\ licenseOf[p.token] = p.license
                                 /\ p.lost \/ p.license \in licenses

(* Rows and sessions have ids that were given out, and so has whatever     *)
(* rows refer to.                                                          *)
IdsIssued ==
    /\ licenses \subseteq issued
    /\ Customers \subseteq issued
    /\ \A l \in LicenseId \cap issued : owner[l] \in CustomerId \cap issued
    /\ sessions \subseteq issued /\ sent \subseteq issued

EmailsNormal == \A c \in Customers : NormalForm[customers[c]] = customers[c]

(* The detail rows are those of the recorded events, but for heartbeats    *)
(* and what is older than the retention.                                   *)
DetailRows ==
    /\ log = [events |-> log.events, totals |-> log.totals, buckets |-> log.buckets]
    /\ \A e \in DOMAIN log.events : /\ e.type # "license.heartbeat"
                                    /\ e \in DOMAIN recorded
                                    /\ log.events[e] = recorded[e]
    /\ \A e \in DOMAIN recorded : e.type # "license.heartbeat" /\ e.at >= Cutoff(now)
                                     => e \in DOMAIN log.events

CustomerReported(c) ==
    \/ \E e \in DOMAIN recorded : e.type = "customer.deleted" /\ e.customer = c
    \/ \E o \in Operator : /\ actor[o].pc \in Reporting
                           /\ actor[o].activity.type = "customer.deleted"
                           /\ actor[o].activity.customer = c
    \/ c \in unaudited

LicenseReported(l) ==
    \/ \E e \in DOMAIN recorded : e.type = "license.deleted" /\ e.license = l
    \/ \E o \in Operator : /\ actor[o].pc \in Reporting
                           /\ actor[o].activity.type = "license.deleted"
                           /\ actor[o].activity.license = l
    \/ l \in unaudited

AuditKnown ==
    /\ \A c \in CustomerId \cap issued : c \in Customers \/ CustomerReported(c)
    /\ \A l \in LicenseId \cap issued :
          l \in licenses \/ LicenseReported(l) \/ owner[l] \notin Customers

IInv ==
    /\ TypeOK
    /\ \A a \in Actor : ActorKnown(a)
    /\ IdsIssued /\ EmailsNormal /\ DetailRows
    /\ SessionsEnd /\ AuditKnown

(* The invariant says what DeletionsAudited does.                          *)
LEMMA AuditedMeans == AuditKnown => DeletionsAudited
<1>1. SUFFICES ASSUME AuditKnown PROVE DeletionsAudited
  OBVIOUS
<1>2. ASSUME NEW c \in (CustomerId \cap issued) \ Customers
      PROVE  \/ \E event \in BagToSet(recorded) :
                   event.type = "customer.deleted" /\ event["customer"] = c
             \/ \E o \in Operator : /\ actor[o].pc \in {"cleanup", "capture"}
                                    /\ actor[o].activity.type = "customer.deleted"
                                    /\ actor[o].activity["customer"] = c
             \/ c \in unaudited
  BY <1>1, <1>2 DEF AuditKnown, CustomerReported, BagToSet, Reporting
<1>3. ASSUME NEW l \in (LicenseId \cap issued) \ licenses, owner[l] \in Customers
      PROVE  \/ \E event \in BagToSet(recorded) :
                   event.type = "license.deleted" /\ event["license"] = l
             \/ \E o \in Operator : /\ actor[o].pc \in {"cleanup", "capture"}
                                    /\ actor[o].activity.type = "license.deleted"
                                    /\ actor[o].activity["license"] = l
             \/ l \in unaudited
  BY <1>1, <1>3 DEF AuditKnown, LicenseReported, BagToSet, Reporting
<1> QED
  BY <1>2, <1>3 DEF DeletionsAudited

-----------------------------------------------------------------------------
(* Local states                                                            *)

LEMMA IdleType ==
    Idle \in ActorState /\ Idle.pc = "idle" /\ Idle.listed = {}
BY DEF Idle, ActorState, Activity, Event, EventType

LEMMA CapturingType ==
    ASSUME NEW s \in ActorState, NEW type \in EventType,
           NEW customer \in CustomerId \cup {None}, NEW license \in LicenseId \cup {None},
           type = "customer.deleted" => customer # None,
           type = "license.deleted" => license # None
    PROVE  /\ Capturing(s, type, customer, license) \in ActorState
           /\ Capturing(s, type, customer, license).pc = "capture"
           /\ Capturing(s, type, customer, license).listed = s.listed
           /\ Capturing(s, type, customer, license).warning = s.warning
           /\ Capturing(s, type, customer, license).activity = Activity(type, customer, license)
<1>1. Activity(type, customer, license) \in Event
  BY DEF Activity, Event
<1> QED
  BY <1>1 DEF Capturing, ActorState

LEMMA CleaningUpType ==
    ASSUME NEW listed \in SUBSET LicenseId, NEW type \in EventType,
           NEW customer \in CustomerId \cup {None}, NEW license \in LicenseId \cup {None},
           type = "customer.deleted" => customer # None,
           type = "license.deleted" => license # None
    PROVE  /\ CleaningUp(listed, type, customer, license) \in ActorState
           /\ CleaningUp(listed, type, customer, license).pc \in Reporting
           /\ listed # {} => CleaningUp(listed, type, customer, license).pc = "cleanup"
           /\ CleaningUp(listed, type, customer, license).listed = listed
           /\ CleaningUp(listed, type, customer, license).activity
                 = Activity(type, customer, license)
<1>1. /\ Capturing(Idle, type, customer, license) \in ActorState
      /\ Capturing(Idle, type, customer, license).activity = Activity(type, customer, license)
  BY IdleType, CapturingType
<1> QED
  BY <1>1 DEF CleaningUp, ActorState, Reporting

LEMMA GotoType ==
    ASSUME TypeOK, NEW a \in Actor, NEW s \in ActorState, Goto(a, s)
    PROVE  actor' \in [Actor -> ActorState] /\ actor'[a] = s
BY DEF TypeOK, Goto, Actor

(* A local state about which nothing need be known.                        *)
Free == {"idle", "cleanup", "admit", "capture"}

LEMMA FreeKnown ==
    ASSUME NEW a \in Actor, actor'[a].pc \in Free
    PROVE  ActorKnown(a)'
BY DEF ActorKnown, Free, Admitting

-----------------------------------------------------------------------------
(* What a step of one actor leaves to the others                           *)

OthersKept(a) ==
    \A b \in Actor \ {a} :
        \/ actor'[b] = actor[b]
        \/ actor[b].pc = "add" /\ actor'[b] = [actor[b] EXCEPT !.removed = TRUE]

LEMMA GotoKeeps ==
    ASSUME TypeOK, NEW a \in Actor, NEW s, Goto(a, s)
    PROVE  OthersKept(a)
BY DEF TypeOK, Goto, OthersKept, Actor

(* What the others know stays true when no license of theirs appears, none *)
(* they have locked goes, and no list of theirs becomes empty unnoticed.   *)
LEMMA OthersKnow ==
    ASSUME IInv, NEW a \in Actor, OthersKept(a), issued \subseteq issued',
           \A l \in LicenseId \cap issued : l \in licenses' => l \in licenses,
           \A t \in Token \cap issued : licenseOf'[t] = licenseOf[t],
           \A l \in licenses : Locked(l) => l \in licenses',
           \A b \in Actor \ {a}, l \in licenses' :
               allowed'[l] = {} /\ actor[b].pc = "add" /\ actor[b].license = l
                   => allowed[l] = {} \/ actor'[b].removed
    PROVE  \A b \in Actor \ {a} : ActorKnown(b)'
<1> SUFFICES ASSUME NEW b \in Actor, b # a
             PROVE  ActorKnown(b)'
  OBVIOUS
<1>1. actor[b] \in ActorState
  BY DEF IInv, TypeOK, Actor
<1>2. CASE actor'[b] = actor[b]
  <2>1. ActorKnown(b)
    BY DEF IInv
  <2>2. ASSUME actor[b].pc = "add", actor[b].license \in licenses', allowed'[actor[b].license] = {}
        PROVE  actor[b].warning \/ actor[b].removed
    <3>1. actor[b].license \in LicenseId \cap issued
      BY <2>1, <2>2 DEF ActorKnown
    <3>2. actor[b].license \in licenses
      BY <2>2, <3>1
    <3>3. CASE allowed[actor[b].license] = {}
      BY <2>1, <2>2, <3>2, <3>3 DEF ActorKnown
    <3>4. CASE allowed[actor[b].license] # {}
      BY <1>2, <2>2, <3>4
    <3> QED
      BY <3>3, <3>4
  <2>3. ASSUME actor[b].pc \in Admitting
        PROVE  /\ licenseOf'[actor[b].token] = actor[b].license
               /\ actor[b].lost \/ actor[b].license \in licenses'
    BY <2>1, <2>3 DEF ActorKnown, Admitting, Locked
  <2> QED
    BY <1>2, <2>1, <2>2, <2>3 DEF ActorKnown
<1>3. CASE actor[b].pc = "add" /\ actor'[b] = [actor[b] EXCEPT !.removed = TRUE]
  <2>1. /\ actor'[b].pc = "add" /\ actor'[b].license = actor[b].license
        /\ actor'[b].value = actor[b].value /\ actor'[b].removed
    BY <1>1, <1>3 DEF ActorState
  <2>2. actor[b].license \in LicenseId \cap issued /\ actor[b].value \in Entry
    BY <1>3 DEF IInv, ActorKnown
  <2> QED
    BY <2>1, <2>2 DEF ActorKnown, Admitting
<1> QED
  BY <1>2, <1>3 DEF OthersKept

(* What the others report or clean up stays so.                            *)
LEMMA OthersReport ==
    ASSUME IInv, NEW a \in Actor, OthersKept(a), NEW b \in Actor \ {a}, actor[b].pc \in Reporting
    PROVE  actor'[b] = actor[b]
BY DEF OthersKept, Reporting

(* Reports are not lost by a step of someone who has nothing to report.    *)
LEMMA ReportsKept ==
    ASSUME IInv, NEW a \in Actor, OthersKept(a), actor[a].pc \notin Reporting,
           UNCHANGED <<recorded, unaudited>>
    PROVE  /\ \A c \in CustomerId : CustomerReported(c) => CustomerReported(c)'
           /\ \A l \in LicenseId : LicenseReported(l) => LicenseReported(l)'
<1>1. \A o \in Operator : actor[o].pc \in Reporting => actor'[o] = actor[o]
  BY OthersReport DEF Actor
<1>2. \A c \in CustomerId : CustomerReported(c) => CustomerReported(c)'
  BY <1>1 DEF CustomerReported
<1>3. \A l \in LicenseId : LicenseReported(l) => LicenseReported(l)'
  BY <1>1 DEF LicenseReported
<1> QED
  BY <1>2, <1>3

(* A session of a license that is gone will be removed by a.               *)
Holds(a, t) ==
    \/ a \in Operator /\ actor[a].pc = "cleanup" /\ licenseOf[t] \in actor[a].listed
    \/ a \in Client /\ actor[a].pc = "commit" /\ actor[a].token = t /\ actor[a].lost

(* Sessions are not forgotten when a removes those it was to remove, or    *)
(* says why it does not.                                                   *)
LEMMA SessionsKept ==
    ASSUME IInv, NEW a \in Actor, OthersKept(a), leftover \subseteq leftover',
           \A t \in sessions' :
               \/ licenseOf'[t] \in licenses'
               \/ {licenseOf'[t], t} \cap leftover' # {}
               \/ Holds(a, t)'
               \/ /\ t \in sessions /\ licenseOf'[t] = licenseOf[t]
                  /\ licenseOf[t] \notin licenses /\ ~Holds(a, t)
    PROVE  SessionsEnd'
<1> SUFFICES ASSUME NEW t \in sessions', licenseOf'[t] \notin licenses',
                    {licenseOf'[t], t} \cap leftover' = {}
             PROVE  \E b \in Actor : Holds(b, t)'
  BY DEF SessionsEnd, Holds, Actor
<1>1. CASE Holds(a, t)'
  BY <1>1
<1>2. CASE /\ t \in sessions /\ licenseOf'[t] = licenseOf[t]
           /\ licenseOf[t] \notin licenses /\ ~Holds(a, t)
  <2>1. {licenseOf[t], t} \cap leftover = {}
    BY <1>2
  <2>2. PICK b \in Actor : Holds(b, t)
    BY <1>2, <2>1 DEF IInv, SessionsEnd, Holds, Actor
  <2>3. b # a /\ actor[b].pc # "add"
    BY <1>2, <2>2 DEF Holds
  <2>4. actor'[b] = actor[b]
    BY <2>3 DEF OthersKept
  <2> QED
    BY <1>2, <2>2, <2>4 DEF Holds
<1> QED
  BY <1>1, <1>2

(* What a step of a may do to sessions while the licenses stay.            *)
TokensStep(a) ==
    /\ licenseOf' = licenseOf
    /\ sessions' \subseteq Token \cap issued /\ sent' \subseteq Token \cap issued
    /\ handed' \subseteq Token
    /\ leftover \subseteq leftover' /\ leftover' \subseteq LicenseId \cup Token
    /\ \A t \in sessions' : \/ licenseOf[t] \in licenses
                            \/ {licenseOf[t], t} \cap leftover' # {}
                            \/ Holds(a, t)'
                            \/ t \in sessions /\ ~Holds(a, t)

(* Someone who need not remove a session only removes what he likes.       *)
LEMMA TokensFewer ==
    ASSUME IInv, NEW a, actor[a].pc \notin {"cleanup", "commit"} \/ ~actor[a].lost,
           actor[a].pc # "cleanup", sessions' \subseteq sessions,
           UNCHANGED <<sent, licenseOf, handed, leftover>>
    PROVE  TokensStep(a)
BY DEF TokensStep, Holds, IInv, TypeOK, IdsIssued

LEMMA LocalStep ==
    ASSUME IInv, NEW a \in Actor, NEW s \in ActorState, Goto(a, s), actor[a].pc \notin Reporting,
           UNCHANGED <<rows, log, now, mix, recorded, unaudited>>,
           operations' \in 0 .. MaxOperations, faults' \in 0 .. MaxFaults,
           TokensStep(a), ActorKnown(a)'
    PROVE  IInv'
<1>1. TypeOK /\ OthersKept(a) /\ actor' \in [Actor -> ActorState]
  BY GotoKeeps, GotoType DEF IInv
<1>2. UNCHANGED <<customers, licenses, owner, updatedAt, allowed, issued>>
  BY DEF rows
<1>3. Customers' = Customers
  BY <1>2 DEF Customers
<1>4. TypeOK'
  <2>1. EmailsUnique' /\ ReferencesHold'
    BY <1>1, <1>2, <1>3 DEF TypeOK, EmailsUnique, ReferencesHold
  <2> QED
    BY <1>1, <1>2, <2>1 DEF TypeOK, TokensStep, Actor
<1>5. \A b \in Actor : ActorKnown(b)'
  BY <1>1, <1>2, OthersKnow DEF TokensStep
<1>6. IdsIssued' /\ EmailsNormal'
  BY <1>2, <1>3 DEF IInv, IdsIssued, EmailsNormal, TokensStep
<1>7. DetailRows'
  BY DEF IInv, DetailRows
<1>8. SessionsEnd'
  BY <1>1, <1>2, SessionsKept DEF TokensStep
<1>9. AuditKnown'
  BY <1>1, <1>2, <1>3, ReportsKept DEF IInv, AuditKnown
<1> QED
  BY <1>4, <1>5, <1>6, <1>7, <1>8, <1>9 DEF IInv

LEMMA RowsStep ==
    ASSUME IInv, NEW a \in Actor, NEW s \in ActorState, Goto(a, s), actor[a].pc \notin Owing,
           UNCHANGED <<rows, tokens, log, now, mix, faults, history>>,
           operations' \in 0 .. MaxOperations, ActorKnown(a)'
    PROVE  IInv'
<1>1. /\ UNCHANGED <<sessions, sent, licenseOf, handed>>
      /\ UNCHANGED <<recorded, leftover, unaudited>>
      /\ faults' \in 0 .. MaxFaults
  BY DEF tokens, history, IInv, TypeOK
<1>2. TokensStep(a)
  BY <1>1, TokensFewer DEF Owing, Reporting
<1> QED
  BY <1>1, <1>2, LocalStep DEF Owing

-----------------------------------------------------------------------------
(* Steps that write no row                                                 *)

LEMMA BeginKnows ==
    ASSUME IInv, NEW a \in Actor, NEW operation, Begin(a, operation)
    PROVE  /\ actor[a].pc = "idle" /\ actor[a].pc \notin Owing
           /\ operations' \in 0 .. MaxOperations /\ UNCHANGED mix
<1>1. actor[a].pc = "idle"
  BY IdleType DEF Begin
<1>2. operations' \in 0 .. MaxOperations
  BY BoundAssumption DEF Begin, IInv, TypeOK
<1> QED
  BY <1>1, <1>2 DEF Begin, Owing, Reporting

LEMMA BoundsKept ==
    ASSUME IInv, UNCHANGED bounds
    PROVE  operations' \in 0 .. MaxOperations /\ UNCHANGED mix
BY DEF IInv, TypeOK, bounds

LEMMA OperatorActs == ASSUME NEW o \in Operator PROVE o \in Actor
BY DEF Actor

LEMMA ClientActs == ASSUME NEW k \in Client PROVE k \in Actor
BY DEF Actor

LEMMA UpdateCustomerKeeps ==
    ASSUME IInv, NEW o \in Operator, UpdateCustomer(o)
    PROVE  IInv'
<1>1. PICK c \in Customers, v \in Spelling :
        Goto(o, [Idle EXCEPT !.pc = "update", !.customer = c, !.value = v])
  BY DEF UpdateCustomer
<1> DEFINE s == [Idle EXCEPT !.pc = "update", !.customer = c, !.value = v]
<1>2. c \in CustomerId
  BY DEF Customers
<1>3. s \in ActorState /\ s.pc = "update" /\ s.customer = c /\ s.value = v
  BY <1>2, IdleType DEF ActorState
<1> HIDE DEF s
<1>4. Goto(o, s) /\ o \in Actor /\ TypeOK
  BY <1>1, OperatorActs DEF s, IInv
<1>5. actor'[o] = s
  BY <1>3, <1>4, GotoType
<1>6. ActorKnown(o)'
  BY <1>2, <1>3, <1>5 DEF ActorKnown, Admitting
<1> QED
  BY <1>3, <1>4, <1>6, BeginKnows, RowsStep DEF UpdateCustomer

(* Operations that start with the customer they are about.                 *)
LEMMA CustomerRead ==
    ASSUME IInv, NEW o \in Operator, NEW operation, Begin(o, operation),
           NEW pc \in {"list", "insert"}, NEW c \in Customers,
           Goto(o, [Idle EXCEPT !.pc = pc, !.customer = c]),
           UNCHANGED <<rows, tokens, log, now, faults, history>>
    PROVE  IInv'
<1> DEFINE s == [Idle EXCEPT !.pc = pc, !.customer = c]
<1>1. c \in CustomerId
  BY DEF Customers
<1>2. s \in ActorState /\ s.pc = pc /\ s.customer = c
  BY <1>1, IdleType DEF ActorState
<1>3. Goto(o, s)
  OBVIOUS
<1> HIDE DEF s
<1>4. o \in Actor /\ TypeOK
  BY OperatorActs DEF IInv
<1>5. actor'[o] = s
  BY <1>2, <1>3, <1>4, GotoType
<1>6. ActorKnown(o)'
  BY <1>1, <1>2, <1>5 DEF ActorKnown, Admitting
<1> QED
  BY <1>2, <1>3, <1>4, <1>6, BeginKnows, RowsStep

LEMMA DeleteCustomerKeeps ==
    ASSUME IInv, NEW o \in Operator, DeleteCustomer(o)
    PROVE  IInv'
BY CustomerRead DEF DeleteCustomer

LEMMA CreateLicenseKeeps ==
    ASSUME IInv, NEW o \in Operator, CreateLicense(o)
    PROVE  IInv'
BY CustomerRead DEF CreateLicense

LEMMA ListLicensesKeeps ==
    ASSUME IInv, NEW o \in Operator, ListLicenses(o)
    PROVE  IInv'
<1> DEFINE owned == {l \in licenses : owner[l] = actor[o].customer}
           s == [actor[o] EXCEPT !.pc = "delete", !.listed = owned]
<1>1. o \in Actor /\ TypeOK /\ actor[o] \in ActorState /\ actor[o].pc = "list"
  BY OperatorActs DEF IInv, TypeOK, Actor, ListLicenses
<1>2. owned \subseteq LicenseId
  BY <1>1 DEF TypeOK
<1>3. Goto(o, s)
  BY DEF ListLicenses
<1> HIDE DEF owned
<1>4. s \in ActorState /\ s.pc = "delete" /\ s.customer = actor[o].customer
  BY <1>1, <1>2 DEF ActorState
<1> HIDE DEF s
<1>5. actor'[o] = s
  BY <1>1, <1>3, <1>4, GotoType
<1>6. actor[o].customer \in CustomerId
  BY <1>1 DEF IInv, ActorKnown
<1>7. ActorKnown(o)'
  BY <1>4, <1>5, <1>6 DEF ActorKnown, Admitting
<1> QED
  BY <1>1, <1>3, <1>4, <1>7, BoundsKept, RowsStep DEF ListLicenses, Owing, Reporting

LEMMA RequireLicenseKeeps ==
    ASSUME IInv, NEW o \in Operator, NEW operation, NEW pc \in {"row", "before", "remove"},
           NEW values \in SUBSET (Entry \cup {None}), pc # "row" => values \subseteq Entry,
           RequireLicense(o, operation, pc, values)
    PROVE  IInv'
<1>1. PICK l \in licenses, v \in values :
        Goto(o, [Idle EXCEPT !.pc = pc, !.customer = owner[l], !.license = l, !.value = v])
  BY DEF RequireLicense
<1> DEFINE s == [Idle EXCEPT !.pc = pc, !.customer = owner[l], !.license = l, !.value = v]
<1>2. /\ o \in Actor /\ TypeOK /\ l \in LicenseId /\ l \in issued
      /\ owner[l] \in CustomerId \cup {None}
  BY OperatorActs DEF IInv, TypeOK, IdsIssued
<1>3. s \in ActorState /\ s.pc = pc /\ s.license = l /\ s.value = v
  BY <1>2, IdleType DEF ActorState
<1>4. Goto(o, s)
  BY <1>1
<1> HIDE DEF s
<1>5. actor'[o] = s
  BY <1>2, <1>3, <1>4, GotoType
<1>6. issued' = issued
  BY DEF RequireLicense, rows
<1>7. ActorKnown(o)'
  BY <1>2, <1>3, <1>5, <1>6 DEF ActorKnown, Admitting
<1> QED
  BY <1>2, <1>3, <1>4, <1>7, BeginKnows, RowsStep DEF RequireLicense

(* Whether the list is empty is what the warning is about.                 *)
LEMMA ReadBeforeKeeps ==
    ASSUME IInv, NEW o \in Operator, ReadBefore(o)
    PROVE  IInv'
<1>1. o \in Actor /\ TypeOK /\ actor[o] \in ActorState /\ actor[o].pc = "before"
  BY OperatorActs DEF IInv, TypeOK, Actor, ReadBefore
<1>2. PICK empty \in BOOLEAN : empty = (allowed[actor[o].license] = {})
  OBVIOUS
<1> DEFINE s == [actor[o] EXCEPT !.pc = "add", !.warning = empty]
<1>3. Goto(o, s)
  BY <1>2 DEF ReadBefore
<1>4. /\ s \in ActorState /\ s.pc = "add" /\ s.license = actor[o].license
      /\ s.value = actor[o].value /\ s.warning = empty
  BY <1>1 DEF ActorState
<1> HIDE DEF s
<1>5. actor'[o] = s
  BY <1>1, <1>3, <1>4, GotoType
<1>6. actor[o].license \in LicenseId \cap issued /\ actor[o].value \in Entry
  BY <1>1 DEF IInv, ActorKnown
<1>7. UNCHANGED <<issued, allowed>>
  BY DEF ReadBefore, rows
<1>8. allowed'[actor'[o].license] = {} => actor'[o].warning
  BY <1>2, <1>4, <1>5, <1>7
<1>9. ActorKnown(o)'
  BY <1>4, <1>5, <1>6, <1>7, <1>8 DEF ActorKnown, Admitting
<1> QED
  BY <1>1, <1>3, <1>4, <1>9, BoundsKept, RowsStep DEF ReadBefore, Owing, Reporting

(* updateLicense reads the license and the customer it goes to.            *)
LEMMA TransferLicenseKeeps ==
    ASSUME IInv, NEW o \in Operator, TransferLicense(o)
    PROVE  IInv'
<1>1. PICK l \in licenses, c \in Customers :
        Goto(o, [Idle EXCEPT !.pc = "transfer", !.customer = c, !.license = l,
                    !.seen = updatedAt[l]])
  BY DEF TransferLicense
<1> DEFINE s == [Idle EXCEPT !.pc = "transfer", !.customer = c, !.license = l,
                    !.seen = updatedAt[l]]
<1>2. /\ o \in Actor /\ TypeOK /\ l \in LicenseId /\ c \in CustomerId /\ updatedAt[l] \in Nat
  BY OperatorActs DEF IInv, TypeOK, Customers
<1>3. s \in ActorState /\ s.pc = "transfer" /\ s.license = l /\ s.customer = c
  BY <1>2, IdleType DEF ActorState
<1>4. Goto(o, s)
  BY <1>1
<1> HIDE DEF s
<1>5. actor'[o] = s
  BY <1>2, <1>3, <1>4, GotoType
<1>6. ActorKnown(o)'
  BY <1>2, <1>3, <1>5 DEF ActorKnown, Admitting
<1> QED
  BY <1>2, <1>3, <1>4, <1>6, BeginKnows, RowsStep DEF TransferLicense

-----------------------------------------------------------------------------
(* Applications                                                            *)

(* A request of a client that removes no session it has to remove.         *)
LEMMA ClientStepKeeps ==
    ASSUME IInv, NEW k \in Client, NEW s \in ActorState, s.pc \in Free, Goto(k, s),
           actor[k].pc \notin Reporting, actor[k].pc = "commit" => ~actor[k].lost,
           UNCHANGED <<rows, sent, licenseOf, handed, log, now, mix, faults, history>>,
           operations' \in 0 .. MaxOperations, sessions' \subseteq sessions
    PROVE  IInv'
<1>1. k \in Actor /\ TypeOK
  BY ClientActs DEF IInv
<1>2. actor'[k] = s
  BY <1>1, GotoType
<1>3. ActorKnown(k)'
  BY <1>1, <1>2, FreeKnown
<1>4. UNCHANGED <<recorded, leftover, unaudited>> /\ faults' \in 0 .. MaxFaults
  BY <1>1 DEF history, TypeOK
<1>5. TokensStep(k)
  BY <1>4, TokensFewer DEF Reporting
<1> QED
  BY <1>1, <1>3, <1>4, <1>5, LocalStep

LEMMA ActivateKeeps ==
    ASSUME IInv, NEW k \in Client, Activate(k)
    PROVE  IInv'
<1>1. PICK l \in LicenseId \cap issued :
        LET license == IF l \in licenses THEN l ELSE None
            customer == IF l \in licenses THEN owner[l] ELSE None
        IN  Goto(k, Capturing([Idle EXCEPT !.customer = customer, !.license = license],
                              "license.activation_attempted", customer, license))
  BY DEF Activate
<1>2. PICK license \in LicenseId \cup {None} : license = IF l \in licenses THEN l ELSE None
  OBVIOUS
<1>3. PICK customer \in CustomerId \cup {None} :
        customer = IF l \in licenses THEN owner[l] ELSE None
  BY DEF IInv, TypeOK
<1> DEFINE p == [Idle EXCEPT !.customer = customer, !.license = license]
           s == Capturing(p, "license.activation_attempted", customer, license)
<1>4. p \in ActorState
  BY IdleType DEF ActorState
<1>5. s \in ActorState /\ s.pc = "capture"
  <2>1. "license.activation_attempted" \in EventType
    BY DEF EventType
  <2> HIDE DEF p
  <2> QED
    BY <1>4, <2>1, CapturingType
<1>6. Goto(k, s)
  BY <1>1, <1>2, <1>3
<1> HIDE DEF s
<1>7. actor[k].pc = "idle" /\ operations' \in 0 .. MaxOperations /\ UNCHANGED mix
  BY ClientActs, BeginKnows DEF Activate
<1>8. UNCHANGED <<sessions, sent, licenseOf, handed>>
  BY DEF Activate, tokens
<1> QED
  BY <1>5, <1>6, <1>7, <1>8, ClientStepKeeps DEF Activate, Free, Reporting

(* How an activation that failed goes on.                                  *)
LEMMA RejectedType ==
    ASSUME IInv, NEW k \in Client
    PROVE  Rejected(k) \in ActorState /\ Rejected(k).pc = "capture"
<1>1. /\ actor[k].license \in LicenseId \cup {None}
      /\ actor[k].customer \in CustomerId \cup {None}
  BY DEF IInv, TypeOK, ActorState
<1>2. "license.activation_rejected" \in EventType
  BY DEF EventType
<1> QED
  BY <1>1, <1>2, IdleType, CapturingType DEF Rejected

(* The token is drawn and the row of the license locked.                   *)
LEMMA TokenDrawn ==
    ASSUME IInv, NEW k \in Client, NEW l \in licenses, l = actor[k].license,
           actor[k].pc = "admit", NEW t \in Token \ issued,
           issued' = issued \cup {t}, licenseOf' = [licenseOf EXCEPT ![t] = l],
           Goto(k, [actor[k] EXCEPT !.pc = "store", !.token = t]),
           UNCHANGED <<customers, licenses, owner, updatedAt, allowed, sessions, sent, handed,
                       log, now, bounds, faults, history>>
    PROVE  IInv'
<1> DEFINE s == [actor[k] EXCEPT !.pc = "store", !.token = t]
<1>1. k \in Actor /\ TypeOK /\ actor[k] \in ActorState /\ l \in LicenseId
  BY ClientActs DEF IInv, TypeOK, Actor
<1>2. s \in ActorState /\ s.pc = "store" /\ s.token = t /\ s.license = l
  BY <1>1 DEF ActorState
<1>3. Goto(k, s)
  OBVIOUS
<1> HIDE DEF s
<1>4. OthersKept(k) /\ actor' \in [Actor -> ActorState] /\ actor'[k] = s
  BY <1>1, <1>2, <1>3, GotoKeeps, GotoType
<1>5. /\ licenseOf' \in [Token -> LicenseId \cup {None}] /\ licenseOf'[t] = l
      /\ \A u \in Token \cap issued : licenseOf'[u] = licenseOf[u]
  BY <1>1 DEF TypeOK
<1>6. t \notin CustomerId /\ t \notin LicenseId
  BY IdAssumption
<1>7. UNCHANGED <<recorded, leftover, unaudited, mix, operations>>
  BY DEF history, bounds
<1>8. Customers' = Customers
  BY DEF Customers
<1>9. TypeOK'
  <2>1. EmailsUnique' /\ ReferencesHold'
    BY <1>1, <1>8 DEF TypeOK, EmailsUnique, ReferencesHold
  <2> QED
    BY <1>1, <1>4, <1>5, <1>7, <2>1 DEF TypeOK, Actor
<1>10. \A b \in Actor : ActorKnown(b)'
  <2>1. ActorKnown(k)'
    BY <1>1, <1>2, <1>4, <1>5 DEF ActorKnown, Admitting
  <2>2. \A b \in Actor \ {k} : ActorKnown(b)'
    BY <1>1, <1>4, <1>5, OthersKnow
  <2> QED
    BY <2>1, <2>2
<1>11. IdsIssued' /\ EmailsNormal'
  BY <1>6, <1>8 DEF IInv, IdsIssued, EmailsNormal
<1>12. DetailRows'
  BY <1>7 DEF IInv, DetailRows
<1>13. SessionsEnd'
  <2>1. \A u \in sessions : u \in Token \cap issued
    BY <1>1 DEF TypeOK, IInv, IdsIssued
  <2> QED
    BY <1>1, <1>4, <1>5, <1>7, <2>1, SessionsKept DEF Holds
<1>14. AuditKnown'
  <2>1. /\ \A c \in CustomerId : CustomerReported(c) => CustomerReported(c)'
        /\ \A m \in LicenseId : LicenseReported(m) => LicenseReported(m)'
    BY <1>1, <1>4, <1>7, ReportsKept DEF Reporting
  <2> QED
    BY <1>6, <1>8, <2>1 DEF IInv, AuditKnown
<1> QED
  BY <1>9, <1>10, <1>11, <1>12, <1>13, <1>14 DEF IInv

LEMMA AdmitActivationKeeps ==
    ASSUME IInv, NEW k \in Client, AdmitActivation(k)
    PROVE  IInv'
<1>1. actor[k].pc = "admit"
  BY DEF AdmitActivation
<1>2. CASE Goto(k, Rejected(k)) /\ UNCHANGED <<issued, licenseOf>>
  <2>1. UNCHANGED rows
    BY <1>2 DEF AdmitActivation, rows
  <2> QED
    BY <1>1, <1>2, <2>1, BoundsKept, RejectedType, ClientStepKeeps
       DEF AdmitActivation, Free, Reporting
<1>3. CASE /\ actor[k].license \in licenses
           /\ \E t \in Token \ issued :
                 /\ issued' = issued \cup {t}
                 /\ licenseOf' = [licenseOf EXCEPT ![t] = actor[k].license]
                 /\ Goto(k, [actor[k] EXCEPT !.pc = "store", !.token = t])
  BY <1>1, <1>3, TokenDrawn DEF AdmitActivation
<1> QED
  BY <1>2, <1>3 DEF AdmitActivation

(* The session is stored while the row is locked, or the handler, having   *)
(* lost its transaction, will remove it.                                   *)
LEMMA StoreSessionKeeps ==
    ASSUME IInv, NEW k \in Client, StoreSession(k)
    PROVE  IInv'
<1>1. /\ k \in Actor /\ TypeOK /\ actor[k] \in ActorState /\ actor[k].pc = "store"
      /\ UNCHANGED <<rows, licenseOf, handed, log, now, bounds, history>>
  BY ClientActs DEF IInv, TypeOK, Actor, StoreSession
<1>2. PICK t : t = actor[k].token
  OBVIOUS
<1>3. /\ t \in Token \cap issued /\ actor[k].license \in LicenseId
      /\ licenseOf[t] = actor[k].license
      /\ actor[k].lost \/ actor[k].license \in licenses
  BY <1>1, <1>2 DEF IInv, ActorKnown, Admitting
<1>4. /\ UNCHANGED <<recorded, leftover, unaudited>>
      /\ leftover \subseteq LicenseId \cup Token
      /\ sessions \subseteq Token \cap issued /\ sent \subseteq Token \cap issued
      /\ handed \subseteq Token /\ issued' = issued
  BY <1>1 DEF history, rows, TypeOK, IInv, IdsIssued
<1>5. operations' \in 0 .. MaxOperations /\ UNCHANGED mix
  BY <1>1, BoundsKept
<1>6. CASE /\ sessions' = sessions \cup {t}
           /\ Goto(k, [actor[k] EXCEPT !.pc = "commit"])
           /\ UNCHANGED <<sent, faults>>
  <2>1. PICK s : s = [actor[k] EXCEPT !.pc = "commit"]
    OBVIOUS
  <2>2. /\ s \in ActorState /\ s.pc = "commit" /\ s.token = t /\ s.lost = actor[k].lost
        /\ s.license = actor[k].license
    BY <1>1, <1>2, <2>1 DEF ActorState
  <2>3. Goto(k, s) /\ actor'[k] = s
    BY <1>1, <1>6, <2>1, <2>2, GotoType
  <2>4. ActorKnown(k)'
    BY <1>1, <1>3, <1>4, <2>2, <2>3 DEF ActorKnown, Admitting, rows
  <2>5. TokensStep(k)
    BY <1>1, <1>3, <1>4, <1>6, <2>2, <2>3 DEF TokensStep, Holds
  <2>6. faults' \in 0 .. MaxFaults
    BY <1>1, <1>6 DEF TypeOK
  <2> QED
    BY <1>1, <1>4, <1>5, <2>2, <2>3, <2>4, <2>5, <2>6, LocalStep DEF Reporting
<1>7. CASE Goto(k, Rejected(k)) /\ UNCHANGED <<sessions, sent, faults>>
  BY <1>1, <1>5, <1>7, RejectedType, ClientStepKeeps DEF Free, Reporting
<1>8. CASE /\ faults < MaxFaults
           /\ faults' = faults + 1
           /\ sent' = sent \cup {t}
           /\ Goto(k, Rejected(k))
           /\ UNCHANGED sessions
  <2>1. ActorKnown(k)'
    BY <1>1, <1>8, RejectedType, GotoType, FreeKnown DEF Free
  <2>2. TokensStep(k)
    BY <1>1, <1>3, <1>4, <1>8 DEF TokensStep, Holds
  <2>3. faults' \in 0 .. MaxFaults
    BY <1>1, <1>8, BoundAssumption DEF TypeOK
  <2> QED
    BY <1>1, <1>4, <1>5, <1>8, <2>1, <2>2, <2>3, RejectedType, LocalStep DEF Reporting
<1> QED
  BY <1>2, <1>6, <1>7, <1>8 DEF StoreSession

LEMMA TransactionLostKeeps ==
    ASSUME IInv, NEW k \in Client, TransactionLost(k)
    PROVE  IInv'
<1>1. /\ k \in Actor /\ TypeOK /\ actor[k] \in ActorState
      /\ actor[k].pc \in Admitting /\ ~actor[k].lost
      /\ UNCHANGED <<rows, tokens, log, now, bounds, history>>
  BY ClientActs DEF IInv, TypeOK, Actor, TransactionLost, Admitting
<1>2. PICK s : s = [actor[k] EXCEPT !.lost = TRUE]
  OBVIOUS
<1>3. /\ s \in ActorState /\ s.pc = actor[k].pc /\ s.token = actor[k].token /\ s.lost
      /\ s.license = actor[k].license
  BY <1>1, <1>2 DEF ActorState
<1>4. Goto(k, s) /\ actor'[k] = s
  BY <1>1, <1>2, <1>3, GotoType DEF TransactionLost
<1>5. /\ UNCHANGED <<sessions, sent, licenseOf, handed>>
      /\ UNCHANGED <<recorded, leftover, unaudited>> /\ issued' = issued
  BY <1>1 DEF tokens, history, rows
<1>6. ActorKnown(k)'
  BY <1>1, <1>3, <1>4, <1>5 DEF IInv, ActorKnown, Admitting
<1>7. TokensStep(k)
  BY <1>1, <1>5, TokensFewer DEF Admitting
<1>8. faults' \in 0 .. MaxFaults
  BY <1>1, BoundAssumption DEF TypeOK, TransactionLost
<1> QED
  BY <1>1, <1>3, <1>4, <1>5, <1>6, <1>7, <1>8, BoundsKept, LocalStep DEF Admitting, Reporting

LEMMA CommitActivationKeeps ==
    ASSUME IInv, NEW k \in Client, CommitActivation(k)
    PROVE  IInv'
<1>1. /\ TypeOK /\ actor[k] \in ActorState /\ actor[k].pc = "commit" /\ ~actor[k].lost
      /\ UNCHANGED <<rows, tokens, log, now, bounds, faults, history>>
  BY ClientActs DEF IInv, TypeOK, Actor, CommitActivation
<1>2. PICK l \in LicenseId, t \in Token : l = actor[k].license /\ t = actor[k].token
  BY <1>1, ClientActs DEF IInv, ActorKnown, Admitting
<1>3. PICK c \in CustomerId \cup {None} : c = owner[l]
  BY <1>1 DEF TypeOK
<1>4. PICK p : p = [Idle EXCEPT !.token = t]
  OBVIOUS
<1>5. p \in ActorState
  BY <1>4, IdleType DEF ActorState
<1>6. PICK s \in ActorState : Goto(k, s) /\ s.pc = "capture"
  <2>1. Goto(k, Capturing(p, "license.activation_succeeded", c, l))
    BY <1>2, <1>3, <1>4 DEF CommitActivation
  <2>2. "license.activation_succeeded" \in EventType
    BY DEF EventType
  <2> QED
    BY <1>2, <1>3, <1>5, <2>1, <2>2, CapturingType
<1>7. UNCHANGED <<sessions, sent, licenseOf, handed>>
  BY <1>1 DEF tokens
<1> QED
  BY <1>1, <1>6, <1>7, BoundsKept, ClientStepKeeps DEF Free, Reporting

LEMMA HeartbeatKeeps ==
    ASSUME IInv, NEW k \in Client, Heartbeat(k)
    PROVE  IInv'
<1>1. PICK t \in sessions \cap handed :
        IF licenseOf[t] \in licenses
        THEN /\ Goto(k, Capturing(Idle, "license.heartbeat", owner[licenseOf[t]], licenseOf[t]))
             /\ UNCHANGED sessions
        ELSE sessions' = sessions \ {t} /\ UNCHANGED actor
  BY DEF Heartbeat
<1>2. TypeOK /\ k \in Actor /\ actor[k] \in ActorState
  BY ClientActs DEF IInv, TypeOK, Actor
<1>3. actor[k].pc = "idle" /\ operations' \in 0 .. MaxOperations /\ UNCHANGED mix
  BY <1>2, BeginKnows DEF Heartbeat
<1>4. CASE licenseOf[t] \in licenses
  <2>1. PICK l \in LicenseId : l = licenseOf[t]
    BY <1>2, <1>4 DEF TypeOK
  <2>2. owner[l] \in CustomerId \cup {None}
    BY <1>2 DEF TypeOK
  <2>3. PICK s \in ActorState : Goto(k, s) /\ s.pc = "capture"
    <3>1. Goto(k, Capturing(Idle, "license.heartbeat", owner[l], l))
      BY <1>1, <1>4, <2>1
    <3>2. "license.heartbeat" \in EventType
      BY DEF EventType
    <3>3. /\ Capturing(Idle, "license.heartbeat", owner[l], l) \in ActorState
          /\ Capturing(Idle, "license.heartbeat", owner[l], l).pc = "capture"
      BY <2>2, <3>2, IdleType, CapturingType
    <3> QED
      BY <3>1, <3>3
  <2> QED
    BY <1>1, <1>3, <1>4, <2>3, ClientStepKeeps DEF Heartbeat, Free, Reporting
<1>5. CASE licenseOf[t] \notin licenses
  <2>1. Goto(k, actor[k])
    BY <1>1, <1>2, <1>5 DEF Goto, TypeOK, Actor
  <2> QED
    BY <1>1, <1>2, <1>3, <1>5, <2>1, ClientStepKeeps DEF Heartbeat, Free, Reporting
<1> QED
  BY <1>4, <1>5

LEMMA DeactivateKeeps ==
    ASSUME IInv, NEW k \in Client, Deactivate(k)
    PROVE  IInv'
<1>1. PICK t \in sessions \cap handed :
        /\ sessions' = sessions \ {t}
        /\ Goto(k, Capturing(Idle, "license.deactivated",
                             IF licenseOf[t] \in licenses THEN owner[licenseOf[t]] ELSE None,
                             licenseOf[t]))
  BY DEF Deactivate
<1>2. TypeOK /\ k \in Actor /\ t \in Token
  BY ClientActs DEF IInv, TypeOK
<1>3. PICK l \in LicenseId \cup {None} : l = licenseOf[t]
  BY <1>2 DEF TypeOK
<1>4. PICK c \in CustomerId \cup {None} : c = IF l \in licenses THEN owner[l] ELSE None
  BY <1>2 DEF TypeOK
<1>5. PICK s \in ActorState : Goto(k, s) /\ s.pc = "capture"
  <2>1. Goto(k, Capturing(Idle, "license.deactivated", c, l))
    BY <1>1, <1>3, <1>4
  <2>2. "license.deactivated" \in EventType
    BY DEF EventType
  <2> QED
    BY <2>1, <2>2, IdleType, CapturingType
<1>6. actor[k].pc = "idle" /\ operations' \in 0 .. MaxOperations /\ UNCHANGED mix
  BY <1>2, BeginKnows DEF Deactivate
<1> QED
  BY <1>1, <1>5, <1>6, ClientStepKeeps DEF Deactivate, Free, Reporting

-----------------------------------------------------------------------------
(* Steps that write rows                                                   *)

(* customerEmail returns a normal form.                                    *)
LEMMA CustomerEmailNormal ==
    ASSUME NEW v \in Spelling
    PROVE  /\ CustomerEmail(v) \in Spelling /\ CustomerEmail(v) # None
           /\ NormalForm[CustomerEmail(v)] = CustomerEmail(v)
<1>1. NormalForm[v] \in Spelling /\ NormalForm[NormalForm[v]] = NormalForm[v]
  BY NormalFormAssumption
<1>2. None \notin Spelling
  BY IdAssumption
<1> QED
  BY <1>1, <1>2 DEF CustomerEmail

(* The unique index keeps the emails apart.                                *)
LEMMA EmailWritten ==
    ASSUME IInv, NEW v \in Spelling, NEW c \in CustomerId, EmailFree(CustomerEmail(v), c),
           customers' = [customers EXCEPT ![c] = CustomerEmail(v)]
    PROVE  /\ customers' \in [CustomerId -> Spelling \cup {None}]
           /\ Customers' = Customers \cup {c}
           /\ EmailsUnique' /\ EmailsNormal'
<1>1. customers \in [CustomerId -> Spelling \cup {None}]
  BY DEF IInv, TypeOK
<1>2. PICK email \in Spelling :
        email = CustomerEmail(v) /\ NormalForm[email] = email /\ email # None
  BY CustomerEmailNormal
<1>3. customers' \in [CustomerId -> Spelling \cup {None}]
  BY <1>1, <1>2
<1>4. customers'[c] = email /\ \A d \in CustomerId \ {c} : customers'[d] = customers[d]
  BY <1>1, <1>2
<1>5. Customers' = Customers \cup {c}
  BY <1>2, <1>4 DEF Customers
<1>6. EmailsNormal'
  BY <1>2, <1>4, <1>5 DEF IInv, EmailsNormal, Customers
<1>7. EmailsUnique'
  <2> SUFFICES ASSUME NEW d \in Customers', NEW f \in Customers', d # f
               PROVE  NormalForm[customers'[d]] # NormalForm[customers'[f]]
    BY DEF EmailsUnique
  <2>1. NormalForm[customers'[d]] = customers'[d] /\ NormalForm[customers'[f]] = customers'[f]
    BY <1>6 DEF EmailsNormal
  <2>2. \A x \in CustomerId \ {c} : customers[x] # email
    BY <1>2 DEF EmailFree
  <2>3. CASE d = c \/ f = c
    BY <1>4, <2>1, <2>2, <2>3 DEF Customers
  <2>4. CASE d # c /\ f # c
    <3>1. /\ d \in Customers /\ f \in Customers
          /\ customers'[d] = customers[d] /\ customers'[f] = customers[f]
      BY <1>4, <1>5, <2>4 DEF Customers
    <3>2. NormalForm[customers[d]] # NormalForm[customers[f]]
      BY <3>1 DEF IInv, TypeOK, EmailsUnique
    <3> QED
      BY <3>1, <3>2
  <2> QED
    BY <2>3, <2>4
<1> QED
  BY <1>3, <1>5, <1>6, <1>7

(* A customer whose row is written: nothing else is touched.               *)
LEMMA CustomerWritten ==
    ASSUME IInv, NEW o \in Operator, NEW v \in Spelling, NEW c \in CustomerId,
           c \in Customers \/ c \notin issued,
           EmailFree(CustomerEmail(v), c),
           customers' = [customers EXCEPT ![c] = CustomerEmail(v)],
           issued' = issued \cup {c}, NEW s \in ActorState, s.pc \in Free, Goto(o, s),
           actor[o].pc \notin Owing,
           UNCHANGED <<licenses, owner, updatedAt, allowed, tokens, log, now, mix, faults,
                       history>>,
           operations' \in 0 .. MaxOperations
    PROVE  IInv'
<1>1. o \in Actor /\ TypeOK
  BY OperatorActs DEF IInv
<1>2. OthersKept(o) /\ actor' \in [Actor -> ActorState] /\ actor'[o] = s
  BY <1>1, GotoKeeps, GotoType
<1>3. /\ customers' \in [CustomerId -> Spelling \cup {None}]
      /\ Customers' = Customers \cup {c}
      /\ EmailsUnique' /\ EmailsNormal'
  BY EmailWritten
<1>4. /\ UNCHANGED <<recorded, leftover, unaudited>>
      /\ UNCHANGED <<sessions, sent, licenseOf, handed>>
  BY DEF history, tokens
<1>5. TypeOK'
  <2>1. ReferencesHold'
    BY <1>1, <1>3 DEF TypeOK, ReferencesHold
  <2>2. issued' \subseteq CustomerId \cup LicenseId \cup Token
    BY <1>1 DEF TypeOK
  <2> QED
    BY <1>1, <1>2, <1>3, <1>4, <2>1, <2>2 DEF TypeOK, Actor
<1>6. \A b \in Actor : ActorKnown(b)'
  <2>1. ActorKnown(o)'
    BY <1>1, <1>2, FreeKnown
  <2>2. \A b \in Actor \ {o} : ActorKnown(b)'
    BY <1>1, <1>2, <1>4, OthersKnow
  <2> QED
    BY <2>1, <2>2
<1>7. c \notin LicenseId
  BY IdAssumption
<1>8. LicenseId \cap issued' = LicenseId \cap issued
  BY <1>7
<1>9. IdsIssued'
  BY <1>3, <1>4, <1>8 DEF IInv, IdsIssued
<1>10. DetailRows'
  BY <1>4 DEF IInv, DetailRows
<1>11. SessionsEnd'
  BY <1>1, <1>2, <1>4, SessionsKept DEF Holds, Owing, Reporting
<1>12. AuditKnown'
  <2>1. /\ \A d \in CustomerId : CustomerReported(d) => CustomerReported(d)'
        /\ \A l \in LicenseId : LicenseReported(l) => LicenseReported(l)'
    BY <1>1, <1>2, <1>4, ReportsKept DEF Owing
  <2>2. \A d \in CustomerId \cap issued' : d \in Customers' \/ CustomerReported(d)'
    BY <1>3, <2>1 DEF IInv, AuditKnown
  <2>3. \A l \in LicenseId \cap issued' :
            l \in licenses' \/ LicenseReported(l)' \/ owner'[l] \notin Customers'
    <3> SUFFICES ASSUME NEW l \in LicenseId, l \in issued, l \notin licenses,
                        owner[l] \in Customers \cup {c}, ~LicenseReported(l)'
                 PROVE  FALSE
      BY <1>3, <1>8
    <3>1. owner[l] \notin Customers
      BY <2>1 DEF IInv, AuditKnown
    <3>2. owner[l] \in issued
      BY DEF IInv, IdsIssued
    <3> QED
      BY <3>1, <3>2
  <2> QED
    BY <2>2, <2>3 DEF AuditKnown
<1> QED
  BY <1>3, <1>5, <1>6, <1>9, <1>10, <1>11, <1>12 DEF IInv

LEMMA CreateCustomerKeeps ==
    ASSUME IInv, NEW o \in Operator, CreateCustomer(o)
    PROVE  IInv'
<1>1. o \in Actor /\ TypeOK /\ actor[o] \in ActorState
  BY OperatorActs DEF IInv, TypeOK, Actor
<1>2. /\ actor[o].pc \notin Owing /\ operations' \in 0 .. MaxOperations /\ UNCHANGED mix
      /\ actor[o].pc = "idle"
  BY <1>1, BeginKnows DEF CreateCustomer
<1>3. PICK v \in Spelling, c \in CustomerId \ issued :
        IF EmailFree(CustomerEmail(v), c)
        THEN /\ customers' = [customers EXCEPT ![c] = CustomerEmail(v)]
             /\ issued' = issued \cup {c}
             /\ Goto(o, Capturing(Idle, "customer.created", c, None))
        ELSE UNCHANGED <<customers, issued, actor>>
  BY DEF CreateCustomer
<1>4. CASE EmailFree(CustomerEmail(v), c)
  <2>1. PICK s \in ActorState : Goto(o, s) /\ s.pc = "capture"
    BY <1>3, <1>4, IdleType, CapturingType DEF EventType
  <2> QED
    BY <1>2, <1>3, <1>4, <2>1, CustomerWritten DEF CreateCustomer, Free
<1>5. CASE ~EmailFree(CustomerEmail(v), c)
  <2>1. UNCHANGED <<customers, issued, actor>>
    BY <1>3, <1>5
  <2>2. Goto(o, actor[o]) /\ actor'[o] = actor[o]
    BY <1>1, <2>1 DEF Goto, TypeOK, Actor
  <2>3. ActorKnown(o)'
    BY <1>1, <1>2, <2>2, FreeKnown DEF Free
  <2> QED
    BY <1>1, <1>2, <2>1, <2>2, <2>3, RowsStep DEF CreateCustomer, rows
<1> QED
  BY <1>4, <1>5

(* An operation that failed.                                               *)
LEMMA GiveUp ==
    ASSUME IInv, NEW o \in Operator, Goto(o, Idle), actor[o].pc \notin Owing,
           UNCHANGED <<rows, tokens, log, now, bounds, faults, history>>
    PROVE  IInv'
<1>1. o \in Actor /\ TypeOK
  BY OperatorActs DEF IInv
<1>2. actor'[o] = Idle
  BY <1>1, IdleType, GotoType
<1>3. ActorKnown(o)'
  BY <1>1, <1>2, IdleType, FreeKnown DEF Free
<1> QED
  BY <1>1, <1>3, IdleType, BoundsKept, RowsStep

LEMMA UpdateCustomerRowKeeps ==
    ASSUME IInv, NEW o \in Operator, UpdateCustomerRow(o)
    PROVE  IInv'
<1>1. o \in Actor /\ TypeOK /\ actor[o].pc = "update"
  BY OperatorActs DEF IInv, UpdateCustomerRow
<1>2. actor[o].customer \in CustomerId /\ actor[o].value \in Spelling
  BY <1>1 DEF IInv, ActorKnown
<1>3. PICK c \in CustomerId, v \in Spelling : c = actor[o].customer /\ v = actor[o].value
  BY <1>2
<1>4. CASE c \in Customers /\ EmailFree(CustomerEmail(v), c)
  <2>1. /\ customers' = [customers EXCEPT ![c] = CustomerEmail(v)]
        /\ Goto(o, Capturing(Idle, "customer.updated", c, None))
    BY <1>3, <1>4 DEF UpdateCustomerRow
  <2>2. PICK s \in ActorState : Goto(o, s) /\ s.pc = "capture"
    BY <2>1, IdleType, CapturingType DEF EventType
  <2>3. issued' = issued \cup {c}
    BY <1>4 DEF UpdateCustomerRow, IInv, IdsIssued
  <2> QED
    BY <1>1, <1>4, <2>1, <2>2, <2>3, BoundsKept, CustomerWritten
       DEF UpdateCustomerRow, Free, Owing, Reporting
<1>5. CASE ~(c \in Customers /\ EmailFree(CustomerEmail(v), c))
  <2>1. Goto(o, Idle) /\ UNCHANGED <<customers, licenses, owner, updatedAt, allowed, issued>>
    BY <1>3, <1>5 DEF UpdateCustomerRow
  <2> QED
    BY <1>1, <2>1, GiveUp DEF UpdateCustomerRow, rows, Owing, Reporting
<1> QED
  BY <1>4, <1>5

(* A deletion takes rows away together with what refers to them, and the   *)
(* operator goes on to clean up and to report it.                          *)
LEMMA RowsDeleted ==
    ASSUME IInv, NEW o \in Operator, NEW s \in ActorState, s.pc \in Reporting, Goto(o, s),
           actor[o].pc \notin Owing,
           customers' \in [CustomerId -> Spelling \cup {None}], Customers' \subseteq Customers,
           \A c \in Customers' : customers'[c] = customers[c],
           licenses' \subseteq licenses, allowed' \in [LicenseId -> SUBSET Entry],
           \A l \in LicenseId : allowed'[l] = IF l \in licenses' THEN allowed[l] ELSE {},
           \A l \in licenses' : owner[l] \in Customers',
           UNCHANGED <<owner, updatedAt, issued, tokens, log, now, bounds, faults, recorded,
                       unaudited>>,
           leftover \subseteq leftover', leftover' \subseteq LicenseId \cup Token,
           \A l \in licenses \ licenses' : ~Locked(l),
           \A l \in licenses \ licenses' : l \in leftover' \/ (s.pc = "cleanup" /\ l \in s.listed),
           \A c \in Customers \ Customers' :
               s.activity.type = "customer.deleted" /\ s.activity.customer = c,
           \A l \in licenses \ licenses' :
               \/ s.activity.type = "license.deleted" /\ s.activity.license = l
               \/ owner[l] \notin Customers'
    PROVE  IInv'
<1>1. o \in Actor /\ TypeOK
  BY OperatorActs DEF IInv
<1>2. OthersKept(o) /\ actor' \in [Actor -> ActorState] /\ actor'[o] = s
  BY <1>1, GotoKeeps, GotoType
<1>3. /\ operations' \in 0 .. MaxOperations /\ UNCHANGED mix
      /\ UNCHANGED <<sessions, sent, licenseOf, handed>>
  BY BoundsKept DEF tokens
<1>4. TypeOK'
  <2>1. EmailsUnique'
    BY <1>1 DEF TypeOK, EmailsUnique
  <2>2. ReferencesHold'
    BY <1>1 DEF TypeOK, ReferencesHold
  <2> QED
    BY <1>1, <1>2, <1>3, <2>1, <2>2 DEF TypeOK, Actor
<1>5. \A b \in Actor : ActorKnown(b)'
  <2>1. ActorKnown(o)'
    BY <1>1, <1>2, FreeKnown DEF Free, Reporting
  <2>2. \A l \in licenses' : allowed'[l] = allowed[l]
    BY <1>1 DEF TypeOK
  <2>3. \A b \in Actor \ {o} : ActorKnown(b)'
    BY <1>1, <1>2, <1>3, <2>2, OthersKnow
  <2> QED
    BY <2>1, <2>3
<1>6. IdsIssued' /\ EmailsNormal'
  BY <1>3 DEF IInv, IdsIssued, EmailsNormal
<1>7. DetailRows'
  BY DEF IInv, DetailRows
<1>8. SessionsEnd'
  BY <1>1, <1>2, <1>3, SessionsKept DEF Holds, Owing, Reporting
<1>9. AuditKnown'
  <2>1. /\ \A d \in CustomerId : CustomerReported(d) => CustomerReported(d)'
        /\ \A l \in LicenseId : LicenseReported(l) => LicenseReported(l)'
    BY <1>1, <1>2, ReportsKept DEF Owing
  <2>2. ASSUME NEW c \in CustomerId \cap issued, c \notin Customers'
        PROVE  CustomerReported(c)'
    <3>1. CASE c \in Customers
      BY <1>2, <2>2, <3>1 DEF CustomerReported
    <3>2. CASE c \notin Customers
      BY <2>1, <2>2, <3>2 DEF IInv, AuditKnown
    <3> QED
      BY <3>1, <3>2
  <2>3. ASSUME NEW l \in LicenseId \cap issued, l \notin licenses', owner[l] \in Customers'
        PROVE  LicenseReported(l)'
    <3>1. CASE l \in licenses
      BY <1>2, <2>3, <3>1 DEF LicenseReported
    <3>2. CASE l \notin licenses
      BY <2>1, <2>3, <3>2 DEF IInv, AuditKnown
    <3> QED
      BY <3>1, <3>2
  <2> QED
    BY <2>2, <2>3 DEF AuditKnown
<1> QED
  BY <1>4, <1>5, <1>6, <1>7, <1>8, <1>9 DEF IInv

LEMMA DeleteCustomerRowKeeps ==
    ASSUME IInv, NEW o \in Operator, DeleteCustomerRow(o)
    PROVE  IInv'
<1>1. o \in Actor /\ TypeOK /\ actor[o] \in ActorState /\ actor[o].pc = "delete"
  BY OperatorActs DEF IInv, TypeOK, Actor, DeleteCustomerRow
<1>2. actor[o].customer \in CustomerId /\ actor[o].listed \in SUBSET LicenseId
  BY <1>1 DEF IInv, ActorKnown, ActorState
<1>3. PICK c \in CustomerId : c = actor[o].customer
  BY <1>2
<1>4. PICK listed \in SUBSET LicenseId : listed = actor[o].listed
  BY <1>2
<1> DEFINE owned == {l \in licenses : owner[l] = c}
           s == CleaningUp(listed, "customer.deleted", c, None)
<1>5. /\ customers' = [customers EXCEPT ![c] = None]
      /\ licenses' = licenses \ owned
      /\ allowed' = [l \in LicenseId |-> IF l \in owned THEN {} ELSE allowed[l]]
      /\ leftover' = leftover \cup (owned \ listed)
      /\ Goto(o, s)
      /\ \A l \in owned : ~Locked(l)
      /\ UNCHANGED <<owner, updatedAt, issued, tokens, log, now, bounds, faults, recorded,
                     unaudited>>
  BY <1>3, <1>4 DEF DeleteCustomerRow, ToCleanUp
<1>6. /\ s \in ActorState /\ s.pc \in Reporting /\ s.listed = listed
      /\ listed # {} => s.pc = "cleanup"
      /\ s.activity = Activity("customer.deleted", c, None)
  <2>1. "customer.deleted" \in EventType /\ None \in LicenseId \cup {None} /\ c # None
    BY IdAssumption DEF EventType
  <2> QED
    BY <2>1, CleaningUpType
<1>7. s.activity.type = "customer.deleted" /\ s.activity.customer = c
  BY <1>6 DEF Activity
<1>8. /\ customers' \in [CustomerId -> Spelling \cup {None}]
      /\ Customers' = Customers \ {c} /\ \A d \in Customers' : customers'[d] = customers[d]
  BY <1>1, <1>5 DEF TypeOK, Customers
<1>9. /\ allowed' \in [LicenseId -> SUBSET Entry]
      /\ \A l \in LicenseId : allowed'[l] = IF l \in licenses' THEN allowed[l] ELSE {}
  BY <1>1, <1>5 DEF TypeOK, ReferencesHold
<1>10. \A l \in licenses' : owner[l] \in Customers'
  BY <1>1, <1>5, <1>8 DEF TypeOK, ReferencesHold
<1>11. /\ licenses' \subseteq licenses
       /\ \A l \in licenses \ licenses' : owner[l] \notin Customers'
       /\ \A l \in licenses \ licenses' : l \in leftover' \/ l \in listed
       /\ leftover \subseteq leftover' /\ leftover' \subseteq LicenseId \cup Token
       /\ \A l \in licenses \ licenses' : ~Locked(l)
  BY <1>1, <1>5, <1>8 DEF TypeOK
<1> HIDE DEF s
<1> QED
  BY <1>1, <1>5, <1>6, <1>7, <1>8, <1>9, <1>10, <1>11, RowsDeleted DEF Owing, Reporting

LEMMA DeleteLicenseRowKeeps ==
    ASSUME IInv, NEW o \in Operator, DeleteLicenseRow(o)
    PROVE  IInv'
<1>1. o \in Actor /\ TypeOK /\ actor[o] \in ActorState /\ actor[o].pc = "row"
  BY OperatorActs DEF IInv, TypeOK, Actor, DeleteLicenseRow
<1>2. actor[o].license \in LicenseId /\ actor[o].customer \in CustomerId \cup {None}
  BY <1>1 DEF IInv, ActorKnown, ActorState
<1>3. PICK l \in LicenseId : l = actor[o].license
  BY <1>2
<1>4. PICK c \in CustomerId \cup {None} : c = actor[o].customer
  BY <1>2
<1> DEFINE s == CleaningUp({l}, "license.deleted", c, l)
<1>5. /\ licenses' = licenses \ {l}
      /\ allowed' = [allowed EXCEPT ![l] = {}]
      /\ Goto(o, s)
      /\ ~Locked(l)
      /\ UNCHANGED <<customers, owner, updatedAt, issued, tokens, log, now, bounds, faults,
                     history>>
  BY <1>3, <1>4 DEF DeleteLicenseRow
<1>6. /\ s \in ActorState /\ s.pc = "cleanup" /\ s.listed = {l}
      /\ s.activity = Activity("license.deleted", c, l)
  <2>1. /\ "license.deleted" \in EventType /\ {l} \in SUBSET LicenseId /\ {l} # {}
        /\ l # None
    BY IdAssumption DEF EventType
  <2> QED
    BY <2>1, CleaningUpType
<1>7. s.activity.type = "license.deleted" /\ s.activity.license = l
  BY <1>6 DEF Activity
<1>8. Customers' = Customers
  BY <1>5 DEF Customers
<1>9. /\ allowed' \in [LicenseId -> SUBSET Entry]
      /\ \A m \in LicenseId : allowed'[m] = IF m \in licenses' THEN allowed[m] ELSE {}
  BY <1>1, <1>5 DEF TypeOK, ReferencesHold
<1>10. \A m \in licenses' : owner[m] \in Customers'
  BY <1>1, <1>5, <1>8 DEF TypeOK, ReferencesHold
<1>11. UNCHANGED <<recorded, leftover, unaudited>>
  BY <1>5 DEF history
<1> HIDE DEF s
<1> QED
  BY <1>1, <1>5, <1>6, <1>7, <1>8, <1>9, <1>10, <1>11, RowsDeleted DEF Owing, Reporting, TypeOK

(* A new license has an id of its own, so nobody was working on it.        *)
LEMMA InsertLicenseKeeps ==
    ASSUME IInv, NEW o \in Operator, InsertLicense(o)
    PROVE  IInv'
<1>1. o \in Actor /\ TypeOK /\ actor[o].pc = "insert"
  BY OperatorActs DEF IInv, InsertLicense
<1>2. CASE ~OwnerThere(o)
  BY <1>1, <1>2, GiveUp DEF InsertLicense, rows, Owing, Reporting
<1>3. CASE OwnerThere(o)
  <2>1. PICK c \in Customers : c = actor[o].customer
    BY <1>3 DEF OwnerThere
  <2>2. PICK l \in LicenseId \ issued :
          /\ licenses' = licenses \cup {l}
          /\ owner' = [owner EXCEPT ![l] = c]
          /\ issued' = issued \cup {l}
          /\ Goto(o, Capturing(Idle, "license.created", c, l))
    BY <1>3, <2>1 DEF InsertLicense
  <2>3. /\ UNCHANGED <<customers, updatedAt, allowed, log, now, bounds, faults>>
        /\ UNCHANGED <<sessions, sent, licenseOf, handed>>
        /\ UNCHANGED <<recorded, leftover, unaudited>>
    BY DEF InsertLicense, history, tokens
  <2>4. c \in CustomerId /\ c \in issued /\ c # l
    BY IdAssumption DEF Customers, IInv, IdsIssued
  <2>5. PICK s \in ActorState : Goto(o, s) /\ s.pc = "capture"
    BY <2>2, <2>4, IdleType, CapturingType DEF EventType
  <2>6. OthersKept(o) /\ actor' \in [Actor -> ActorState] /\ actor'[o] = s
    BY <1>1, <2>5, GotoKeeps, GotoType
  <2>7. operations' \in 0 .. MaxOperations /\ UNCHANGED mix
    BY <2>3, BoundsKept
  <2>8. Customers' = Customers
    BY <2>3 DEF Customers
  <2>9. /\ owner' \in [LicenseId -> CustomerId \cup {None}]
        /\ owner'[l] = c /\ \A m \in LicenseId \ {l} : owner'[m] = owner[m]
    BY <1>1, <2>2, <2>4 DEF TypeOK
  <2>10. TypeOK'
    <3>1. EmailsUnique'
      BY <1>1, <2>3, <2>8 DEF TypeOK, EmailsUnique
    <3>2. ReferencesHold'
      BY <1>1, <2>2, <2>3, <2>8, <2>9 DEF TypeOK, ReferencesHold
    <3> QED
      BY <1>1, <2>2, <2>3, <2>6, <2>7, <2>9, <3>1, <3>2 DEF TypeOK, Actor
  <2>11. \A b \in Actor : ActorKnown(b)'
    <3>1. ActorKnown(o)'
      BY <1>1, <2>5, <2>6, FreeKnown DEF Free
    <3>2. \A b \in Actor \ {o} : ActorKnown(b)'
      BY <1>1, <2>2, <2>3, <2>6, OthersKnow
    <3> QED
      BY <3>1, <3>2
  <2>12. IdsIssued'
    BY <2>2, <2>3, <2>4, <2>8, <2>9 DEF IInv, IdsIssued
  <2>13. EmailsNormal'
    BY <2>3, <2>8 DEF IInv, EmailsNormal
  <2>14. DetailRows'
    BY <2>3 DEF IInv, DetailRows
  <2>15. SessionsEnd'
    BY <1>1, <2>2, <2>3, <2>6, SessionsKept DEF Holds
  <2>16. AuditKnown'
    <3>1. /\ \A d \in CustomerId : CustomerReported(d) => CustomerReported(d)'
          /\ \A m \in LicenseId : LicenseReported(m) => LicenseReported(m)'
      BY <1>1, <2>3, <2>6, ReportsKept DEF Reporting
    <3>2. l \notin CustomerId
      BY IdAssumption
    <3>3. \A d \in CustomerId \cap issued' : d \in Customers' \/ CustomerReported(d)'
      BY <2>2, <2>8, <3>1, <3>2 DEF IInv, AuditKnown
    <3>4. \A m \in LicenseId \cap issued' :
              m \in licenses' \/ LicenseReported(m)' \/ owner'[m] \notin Customers'
      BY <2>2, <2>8, <2>9, <3>1 DEF IInv, AuditKnown
    <3> QED
      BY <3>3, <3>4 DEF AuditKnown
  <2> QED
    BY <2>10, <2>11, <2>12, <2>13, <2>14, <2>15, <2>16 DEF IInv
<1> QED
  BY <1>2, <1>3

(* A license goes to another customer: the foreign key holds, and the rest *)
(* knows nothing of owners.                                                *)
LEMMA TransferLicenseRowKeeps ==
    ASSUME IInv, NEW o \in Operator, TransferLicenseRow(o)
    PROVE  IInv'
<1>1. o \in Actor /\ TypeOK /\ actor[o] \in ActorState /\ actor[o].pc = "transfer"
  BY OperatorActs DEF IInv, TypeOK, Actor, TransferLicenseRow
<1>2. CASE Goto(o, Idle) /\ UNCHANGED <<owner, updatedAt>>
  BY <1>1, <1>2, GiveUp DEF TransferLicenseRow, rows, Owing, Reporting
<1>3. ASSUME NEW l \in licenses, NEW c \in Customers, l = actor[o].license,
             owner' = [owner EXCEPT ![l] = c], updatedAt' = [updatedAt EXCEPT ![l] = @ + 1],
             Goto(o, [actor[o] EXCEPT !.pc = "reload"])
      PROVE  IInv'
  <2>1. PICK s : s = [actor[o] EXCEPT !.pc = "reload"]
    OBVIOUS
  <2>2. s \in ActorState /\ s.pc = "reload" /\ s.license = l
    BY <1>1, <1>3, <2>1 DEF ActorState
  <2>3. OthersKept(o) /\ actor' \in [Actor -> ActorState] /\ actor'[o] = s
    BY <1>1, <1>3, <2>1, <2>2, GotoKeeps, GotoType
  <2>4. /\ UNCHANGED <<customers, licenses, allowed, issued, log, now, bounds, faults>>
        /\ UNCHANGED <<sessions, sent, licenseOf, handed>>
        /\ UNCHANGED <<recorded, leftover, unaudited>>
    BY DEF TransferLicenseRow, tokens, history
  <2>5. operations' \in 0 .. MaxOperations /\ UNCHANGED mix
    BY <2>4, BoundsKept
  <2>6. l \in LicenseId /\ c \in CustomerId \cap issued
    BY <1>1 DEF TypeOK, Customers, IInv, IdsIssued
  <2>7. /\ owner' \in [LicenseId -> CustomerId \cup {None}]
        /\ owner'[l] = c /\ \A m \in LicenseId \ {l} : owner'[m] = owner[m]
        /\ updatedAt' \in [LicenseId -> Nat]
    BY <1>1, <1>3, <2>6 DEF TypeOK
  <2>8. Customers' = Customers
    BY <2>4 DEF Customers
  <2>9. TypeOK'
    <3>1. EmailsUnique' /\ ReferencesHold'
      BY <1>1, <1>3, <2>4, <2>7, <2>8 DEF TypeOK, EmailsUnique, ReferencesHold
    <3> QED
      BY <1>1, <2>3, <2>4, <2>5, <2>7, <3>1 DEF TypeOK, Actor
  <2>10. \A b \in Actor : ActorKnown(b)'
    <3>1. ActorKnown(o)'
      BY <2>2, <2>3, <2>6 DEF ActorKnown, Admitting
    <3>2. \A b \in Actor \ {o} : ActorKnown(b)'
      BY <1>1, <2>3, <2>4, OthersKnow
    <3> QED
      BY <3>1, <3>2
  <2>11. IdsIssued' /\ EmailsNormal'
    BY <2>4, <2>6, <2>7, <2>8 DEF IInv, IdsIssued, EmailsNormal
  <2>12. DetailRows'
    BY <2>4 DEF IInv, DetailRows
  <2>13. SessionsEnd'
    BY <1>1, <2>3, <2>4, SessionsKept DEF Holds
  <2>14. AuditKnown'
    <3>1. /\ \A d \in CustomerId : CustomerReported(d) => CustomerReported(d)'
          /\ \A m \in LicenseId : LicenseReported(m) => LicenseReported(m)'
      BY <1>1, <2>3, <2>4, ReportsKept DEF Reporting
    <3>2. \A m \in LicenseId \cap issued :
              m \in licenses \/ LicenseReported(m)' \/ owner'[m] \notin Customers
      BY <1>3, <2>7, <3>1 DEF IInv, AuditKnown
    <3> QED
      BY <2>4, <2>8, <3>1, <3>2 DEF IInv, AuditKnown
  <2> QED
    BY <2>9, <2>10, <2>11, <2>12, <2>13, <2>14 DEF IInv
<1> QED
  BY <1>2, <1>3 DEF TransferLicenseRow, OwnerThere

LEMMA ReloadLicenseKeeps ==
    ASSUME IInv, NEW o \in Operator, ReloadLicense(o)
    PROVE  IInv'
<1>1. o \in Actor /\ TypeOK /\ actor[o].pc = "reload"
  BY OperatorActs DEF IInv, ReloadLicense
<1>2. PICK l \in LicenseId : l = actor[o].license
  BY <1>1 DEF IInv, ActorKnown
<1>3. CASE l \notin licenses
  BY <1>1, <1>2, <1>3, GiveUp DEF ReloadLicense, Owing, Reporting
<1>4. CASE l \in licenses
  <2>1. PICK c \in CustomerId \cup {None} : c = owner[l]
    BY <1>1 DEF TypeOK
  <2>2. PICK s \in ActorState : Goto(o, s) /\ s.pc = "capture"
    <3>1. Goto(o, Capturing(Idle, "license.updated", c, l))
      BY <1>2, <1>4, <2>1 DEF ReloadLicense
    <3>2. "license.updated" \in EventType
      BY DEF EventType
    <3>3. /\ Capturing(Idle, "license.updated", c, l) \in ActorState
          /\ Capturing(Idle, "license.updated", c, l).pc = "capture"
      BY <3>2, IdleType, CapturingType
    <3> QED
      BY <3>1, <3>3
  <2>3. ActorKnown(o)'
    BY <1>1, <2>2, GotoType, FreeKnown DEF Free
  <2> QED
    BY <1>1, <2>2, <2>3, BoundsKept, RowsStep DEF ReloadLicense, Owing, Reporting
<1> QED
  BY <1>3, <1>4

(* An allowlist is written; whoever has read it empty must not miss it.    *)
LEMMA AllowedWritten ==
    ASSUME IInv, NEW o \in Operator, OthersKept(o), actor' \in [Actor -> ActorState],
           actor'[o].pc \in Free, actor[o].pc \notin Owing,
           allowed' \in [LicenseId -> SUBSET Entry],
           \A l \in LicenseId : allowed'[l] # {} => l \in licenses,
           \A b \in Actor \ {o}, l \in licenses :
               allowed'[l] = {} /\ actor[b].pc = "add" /\ actor[b].license = l
                   => allowed[l] = {} \/ actor'[b].removed,
           UNCHANGED <<customers, licenses, owner, updatedAt, issued, tokens, log, now, bounds,
                       faults, history>>
    PROVE  IInv'
<1>1. o \in Actor /\ TypeOK
  BY OperatorActs DEF IInv
<1>2. /\ UNCHANGED <<recorded, leftover, unaudited>>
      /\ UNCHANGED <<sessions, sent, licenseOf, handed>>
  BY DEF history, tokens
<1>3. operations' \in 0 .. MaxOperations /\ UNCHANGED mix
  BY BoundsKept
<1>4. Customers' = Customers
  BY DEF Customers
<1>5. TypeOK'
  <2>1. EmailsUnique' /\ ReferencesHold'
    BY <1>1, <1>4 DEF TypeOK, EmailsUnique, ReferencesHold
  <2> QED
    BY <1>1, <1>2, <1>3, <2>1 DEF TypeOK, Actor
<1>6. \A b \in Actor : ActorKnown(b)'
  <2>1. ActorKnown(o)'
    BY <1>1, FreeKnown
  <2>2. \A b \in Actor \ {o} : ActorKnown(b)'
    BY <1>1, <1>2, OthersKnow
  <2> QED
    BY <2>1, <2>2
<1>7. IdsIssued' /\ EmailsNormal'
  BY <1>2, <1>4 DEF IInv, IdsIssued, EmailsNormal
<1>8. DetailRows'
  BY <1>2 DEF IInv, DetailRows
<1>9. SessionsEnd'
  BY <1>1, <1>2, SessionsKept DEF Holds, Owing, Reporting
<1>10. AuditKnown'
  BY <1>1, <1>2, <1>4, ReportsKept DEF IInv, AuditKnown, Owing
<1> QED
  BY <1>5, <1>6, <1>7, <1>8, <1>9, <1>10 DEF IInv

LEMMA AddAllowedKeeps ==
    ASSUME IInv, NEW o \in Operator, AddAllowed(o)
    PROVE  IInv'
<1>1. o \in Actor /\ TypeOK /\ actor[o] \in ActorState /\ actor[o].pc = "add"
  BY OperatorActs DEF IInv, TypeOK, Actor, AddAllowed
<1>2. /\ actor[o].license \in LicenseId /\ actor[o].value \in Entry
      /\ actor[o].customer \in CustomerId \cup {None} /\ actor[o].warning \in BOOLEAN
  BY <1>1 DEF IInv, ActorKnown, ActorState
<1>3. PICK l \in LicenseId : l = actor[o].license
  BY <1>2
<1>4. PICK v \in Entry : v = actor[o].value
  BY <1>2
<1>5. PICK c \in CustomerId \cup {None} : c = actor[o].customer
  BY <1>2
<1>6. CASE l \notin licenses
  BY <1>1, <1>3, <1>6, GiveUp DEF AddAllowed, rows, Owing, Reporting
<1>7. CASE l \in licenses
  <2> DEFINE state == [actor[o] EXCEPT !.removed = FALSE, !.warning = Warning(o)]
  <2>1. /\ allowed' = [allowed EXCEPT ![l] = @ \cup {v}]
        /\ Goto(o, Capturing(state, "license.updated", c, l))
    BY <1>3, <1>4, <1>5, <1>7 DEF AddAllowed
  <2>2. state \in ActorState
    BY <1>1, <1>2 DEF ActorState, Warning
  <2> HIDE DEF state
  <2>3. PICK s \in ActorState : Goto(o, s) /\ s.pc = "capture"
    BY <2>1, <2>2, CapturingType DEF EventType
  <2>4. OthersKept(o) /\ actor' \in [Actor -> ActorState] /\ actor'[o] = s
    BY <1>1, <2>3, GotoKeeps, GotoType
  <2>5. /\ allowed' \in [LicenseId -> SUBSET Entry]
        /\ \A m \in LicenseId : allowed'[m] # {} => m \in licenses
        /\ \A m \in LicenseId : allowed'[m] = {} => allowed[m] = {}
    BY <1>1, <1>7, <2>1 DEF TypeOK, ReferencesHold
  <2>6. licenses \subseteq LicenseId
    BY <1>1 DEF TypeOK
  <2> QED
    BY <1>1, <2>3, <2>4, <2>5, <2>6, AllowedWritten DEF AddAllowed, Free, Owing, Reporting
<1> QED
  BY <1>6, <1>7

LEMMA RemoveAllowedKeeps ==
    ASSUME IInv, NEW o \in Operator, RemoveAllowed(o)
    PROVE  IInv'
<1>1. o \in Actor /\ TypeOK /\ actor[o] \in ActorState /\ actor[o].pc = "remove"
  BY OperatorActs DEF IInv, TypeOK, Actor, RemoveAllowed
<1>2. /\ actor[o].license \in LicenseId /\ actor[o].customer \in CustomerId \cup {None}
  BY <1>1 DEF IInv, ActorKnown, ActorState
<1>3. PICK l \in LicenseId : l = actor[o].license
  BY <1>2
<1>4. PICK v : v = actor[o].value
  OBVIOUS
<1>5. PICK c \in CustomerId \cup {None} : c = actor[o].customer
  BY <1>2
<1>6. /\ allowed' = [allowed EXCEPT ![l] = @ \ {v}]
      /\ UNCHANGED <<customers, licenses, owner, updatedAt, issued, tokens, log, now, bounds,
                     faults, history>>
  BY <1>3, <1>4 DEF RemoveAllowed
<1>7. CASE v \notin allowed[l]
  <2>1. allowed' = allowed /\ Goto(o, Idle)
    BY <1>1, <1>3, <1>4, <1>6, <1>7 DEF RemoveAllowed, TypeOK
  <2> QED
    BY <1>1, <1>6, <2>1, GiveUp DEF rows, Owing, Reporting
<1>8. CASE v \in allowed[l]
  <2> DEFINE s == Capturing(actor[o], "license.updated", c, l)
  <2>1. Overtakes(o, l, s)
    BY <1>3, <1>4, <1>5, <1>8 DEF RemoveAllowed
  <2>2. s \in ActorState /\ s.pc = "capture"
    <3>1. "license.updated" \in EventType /\ l \in LicenseId \cup {None}
      BY DEF EventType
    <3> QED
      BY <1>1, <3>1, CapturingType
  <2> HIDE DEF s
  <2>3. /\ actor'[o] = s
        /\ \A b \in Actor \ {o} :
              IF actor[b].pc = "add" /\ actor[b].license = l
              THEN actor'[b] = [actor[b] EXCEPT !.removed = TRUE]
              ELSE actor'[b] = actor[b]
        /\ DOMAIN actor' = Actor
    BY <1>1, <2>1 DEF Overtakes, TypeOK, Actor
  <2>4. \A b \in Actor \ {o} : actor[b] \in ActorState
    BY <1>1 DEF TypeOK, Actor
  <2>5. \A b \in Actor \ {o} : [actor[b] EXCEPT !.removed = TRUE] \in ActorState
                                  /\ [actor[b] EXCEPT !.removed = TRUE].removed
    <3>1. \A r \in ActorState : [r EXCEPT !.removed = TRUE] \in ActorState
                                  /\ [r EXCEPT !.removed = TRUE].removed
      BY ONLY TRUE DEF ActorState
    <3> QED
      BY ONLY <2>4, <3>1
  <2>6. actor' \in [Actor -> ActorState]
    <3>1. \A b \in Actor : actor'[b] \in ActorState
      BY <2>2, <2>3, <2>4, <2>5
    <3>2. actor' = [b \in Actor |-> actor'[b]]
      BY <1>1, <2>1 DEF Overtakes, TypeOK, Actor
    <3> QED
      BY <3>1, <3>2
  <2>7. OthersKept(o)
    BY <2>3 DEF OthersKept
  <2>8. /\ allowed' \in [LicenseId -> SUBSET Entry]
        /\ \A m \in LicenseId : allowed'[m] # {} => m \in licenses
        /\ \A m \in LicenseId \ {l} : allowed'[m] = allowed[m]
    BY <1>1, <1>6 DEF TypeOK, ReferencesHold
  <2>9. ASSUME NEW b \in Actor \ {o}, NEW m \in licenses,
               allowed'[m] = {}, actor[b].pc = "add", actor[b].license = m
        PROVE  allowed[m] = {} \/ actor'[b].removed
    <3>1. m \in LicenseId
      BY <1>1 DEF TypeOK
    <3> QED
      BY <2>3, <2>5, <2>8, <2>9, <3>1
  <2> QED
    BY <1>1, <1>6, <2>2, <2>3, <2>6, <2>7, <2>8, <2>9, AllowedWritten DEF Free, Owing, Reporting
<1> QED
  BY <1>7, <1>8

-----------------------------------------------------------------------------
(* The log                                                                 *)

(* One copy of every element of a set is added to a bag.                   *)
LEMMA BagAdd ==
    ASSUME NEW B, IsABag(B), NEW S
    PROVE  /\ IsABag(B (+) SetToBag(S))
           /\ DOMAIN (B (+) SetToBag(S)) = DOMAIN B \cup S
           /\ \A e \in DOMAIN B \ S : (B (+) SetToBag(S))[e] = B[e]
           /\ \A e \in S : (B (+) SetToBag(S))[e] = (IF e \in DOMAIN B THEN B[e] ELSE 0) + 1
<1> DEFINE C == B (+) SetToBag(S)
<1>1. B \in [DOMAIN B -> {n \in Nat : n > 0}]
  BY DEF IsABag
<1>2. C = [e \in DOMAIN B \cup S |->
             (IF e \in DOMAIN B THEN B[e] ELSE 0) + (IF e \in S THEN 1 ELSE 0)]
  BY DEF (+), SetToBag
<1> HIDE DEF C
<1>3. DOMAIN C = DOMAIN B \cup S
  BY <1>2
<1>4. \A e \in DOMAIN B \ S : C[e] = B[e]
  BY <1>1, <1>2
<1>5. \A e \in S : C[e] = (IF e \in DOMAIN B THEN B[e] ELSE 0) + 1
  BY <1>1, <1>2
<1>6. \A e \in DOMAIN C : C[e] \in {n \in Nat : n > 0}
  BY <1>1, <1>3, <1>4, <1>5
<1>7. IsABag(C)
  BY <1>2, <1>3, <1>6 DEF IsABag
<1> QED
  BY <1>3, <1>4, <1>5, <1>7 DEF C

(* Some rows of a table are a table.                                       *)
LEMMA RowsBag ==
    ASSUME NEW B, IsABag(B), NEW S
    PROVE  IsABag([e \in S \cap DOMAIN B |-> B[e]])
BY DEF IsABag

(* record keeps the detail rows in step with what was recorded.            *)
LEMMA RecordKeeps ==
    ASSUME IInv, NEW event \in Event, event.at = now, UNCHANGED now,
           log' = Recorded(log, event), recorded' = recorded (+) SetToBag({event})
    PROVE  /\ DetailRows'
           /\ IsABag(log'.events) /\ BagToSet(log'.events) \subseteq Event
           /\ IsABag(log'.totals) /\ IsABag(log'.buckets)
           /\ IsABag(recorded') /\ BagToSet(recorded') = BagToSet(recorded) \cup {event}
           /\ BagToSet(recorded') \subseteq Event
<1>1. /\ IsABag(log.events) /\ BagToSet(log.events) \subseteq Event
      /\ IsABag(log.totals) /\ IsABag(log.buckets)
      /\ IsABag(recorded) /\ BagToSet(recorded) \subseteq Event
      /\ now \in Nat
  BY DEF IInv, TypeOK
<1>2. /\ IsABag(recorded') /\ DOMAIN recorded' = DOMAIN recorded \cup {event}
      /\ \A e \in DOMAIN recorded \ {event} : recorded'[e] = recorded[e]
      /\ recorded'[event] = (IF event \in DOMAIN recorded THEN recorded[event] ELSE 0) + 1
  BY <1>1, BagAdd
<1>3. /\ log'.events = IF event.type = "license.heartbeat" THEN log.events
                       ELSE log.events (+) SetToBag({event})
      /\ log'.totals = log.totals (+) SetToBag(ScopesOf(event) \X {event.type})
      /\ log'.buckets = log.buckets (+)
            SetToBag({MinuteOf(event.at)} \X ScopesOf(event) \X {event.type})
      /\ log' = [events |-> log'.events, totals |-> log'.totals, buckets |-> log'.buckets]
  BY DEF Recorded
<1>4. IsABag(log'.totals) /\ IsABag(log'.buckets)
  <2>1. \A S : IsABag(log.totals (+) SetToBag(S)) /\ IsABag(log.buckets (+) SetToBag(S))
    BY <1>1, BagAdd
  <2> QED
    BY <1>3, <2>1
<1>5. /\ \A e \in DOMAIN log.events : /\ e.type # "license.heartbeat"
                                      /\ e \in DOMAIN recorded
                                      /\ log.events[e] = recorded[e]
      /\ \A e \in DOMAIN recorded : e.type # "license.heartbeat" /\ e.at >= Cutoff(now)
                                       => e \in DOMAIN log.events
  BY DEF IInv, DetailRows
<1>6. now >= Cutoff(now)
  BY <1>1, RetentionAssumption DEF Cutoff
<1>7. CASE event.type = "license.heartbeat"
  <2>1. log'.events = log.events
    BY <1>3, <1>7
  <2>2. DetailRows'
    BY <1>2, <1>3, <1>5, <1>7, <2>1 DEF DetailRows
  <2> QED
    BY <1>1, <1>2, <1>4, <2>1, <2>2 DEF BagToSet
<1>8. CASE event.type # "license.heartbeat"
  <2>1. /\ IsABag(log'.events) /\ DOMAIN log'.events = DOMAIN log.events \cup {event}
        /\ \A e \in DOMAIN log.events \ {event} : log'.events[e] = log.events[e]
        /\ log'.events[event] =
              (IF event \in DOMAIN log.events THEN log.events[event] ELSE 0) + 1
    <3>1. PICK B : B = log.events
      OBVIOUS
    <3>2. PICK C : C = B (+) SetToBag({event})
      OBVIOUS
    <3>3. IsABag(B)
      BY <1>1, <3>1
    <3>4. /\ IsABag(C) /\ DOMAIN C = DOMAIN B \cup {event}
          /\ \A e \in DOMAIN B \ {event} : C[e] = B[e]
          /\ \A e \in {event} : C[e] = (IF e \in DOMAIN B THEN B[e] ELSE 0) + 1
      <4>1. PICK S : S = {event}
        OBVIOUS
      <4>2. C = B (+) SetToBag(S)
        BY <3>2, <4>1
      <4>3. /\ IsABag(C) /\ DOMAIN C = DOMAIN B \cup S
            /\ \A e \in DOMAIN B \ S : C[e] = B[e]
            /\ \A e \in S : C[e] = (IF e \in DOMAIN B THEN B[e] ELSE 0) + 1
        <5>1. \A T : /\ IsABag(B (+) SetToBag(T))
                     /\ DOMAIN (B (+) SetToBag(T)) = DOMAIN B \cup T
                     /\ \A e \in DOMAIN B \ T : (B (+) SetToBag(T))[e] = B[e]
                     /\ \A e \in T : (B (+) SetToBag(T))[e]
                                         = (IF e \in DOMAIN B THEN B[e] ELSE 0) + 1
          BY ONLY <3>3, BagAdd
        <5> QED
          BY ONLY <4>2, <5>1
      <4> QED
        BY <4>1, <4>3
    <3>5. log'.events = C
      BY <1>3, <1>8, <3>1, <3>2
    <3> QED
      BY <3>1, <3>4, <3>5
  <2>2. event \in DOMAIN recorded <=> event \in DOMAIN log.events
    BY <1>5, <1>6, <1>8
  <2>3. log'.events[event] = recorded'[event]
    BY <1>2, <1>5, <2>1, <2>2
  <2>4. \A e \in DOMAIN log'.events : /\ e.type # "license.heartbeat"
                                      /\ e \in DOMAIN recorded'
                                      /\ log'.events[e] = recorded'[e]
    BY <1>2, <1>5, <1>8, <2>1, <2>3
  <2>5. \A e \in DOMAIN recorded' : e.type # "license.heartbeat" /\ e.at >= Cutoff(now')
                                       => e \in DOMAIN log'.events
    BY <1>2, <1>5, <2>1
  <2>6. DetailRows'
    BY <1>3, <2>4, <2>5 DEF DetailRows
  <2> QED
    BY <1>1, <1>2, <1>4, <2>1, <2>6 DEF BagToSet
<1> QED
  BY <1>7, <1>8

-----------------------------------------------------------------------------
(* Steps of a report: clean up, capture, crash                             *)

(* A step of a report that writes no row of the directory loses neither a  *)
(* session to be cleaned up nor a deletion to be reported.                 *)
LEMMA ReportStep ==
    ASSUME IInv, NEW a \in Actor, NEW s \in ActorState, Goto(a, s), s.pc \in Free,
           UNCHANGED <<rows, now, bounds>>, faults' \in 0 .. MaxFaults,
           IsABag(log'.events), BagToSet(log'.events) \subseteq Event,
           IsABag(log'.totals), IsABag(log'.buckets), DetailRows',
           IsABag(recorded'), BagToSet(recorded') \subseteq Event,
           BagToSet(recorded) \subseteq BagToSet(recorded'),
           TokensStep(a),
           unaudited \subseteq unaudited', unaudited' \subseteq CustomerId \cup LicenseId,
           actor[a].pc \in Reporting =>
               \/ s.pc \in Reporting /\ s.activity = actor[a].activity
               \/ DeletedBy(actor[a].activity) \subseteq unaudited'
               \/ \E e \in BagToSet(recorded') : /\ e.type = actor[a].activity.type
                                                 /\ e.customer = actor[a].activity.customer
                                                 /\ e.license = actor[a].activity.license
    PROVE  IInv'
<1>1. TypeOK /\ OthersKept(a) /\ actor' \in [Actor -> ActorState] /\ actor'[a] = s
  BY GotoKeeps, GotoType DEF IInv
<1>2. UNCHANGED <<customers, licenses, owner, updatedAt, allowed, issued, mix, operations>>
  BY DEF rows, bounds
<1>3. Customers' = Customers
  BY <1>2 DEF Customers
<1>4. TypeOK'
  <2>1. EmailsUnique' /\ ReferencesHold'
    BY <1>1, <1>2, <1>3 DEF TypeOK, EmailsUnique, ReferencesHold
  <2>2. /\ sessions' \subseteq Token /\ sent' \subseteq Token /\ handed' \subseteq Token
        /\ licenseOf' \in [Token -> LicenseId \cup {None}]
        /\ leftover' \subseteq LicenseId \cup Token
        /\ actor' \in [Operator \cup Client -> ActorState]
    BY <1>1 DEF TypeOK, TokensStep, Actor
  <2>3. /\ customers' \in [CustomerId -> Spelling \cup {None}]
        /\ licenses' \subseteq LicenseId
        /\ owner' \in [LicenseId -> CustomerId \cup {None}]
        /\ updatedAt' \in [LicenseId -> Nat]
        /\ allowed' \in [LicenseId -> SUBSET Entry]
        /\ now' \in 0 .. MaxTime /\ mix' \in Mixes /\ operations' \in 0 .. MaxOperations
        /\ issued' \subseteq CustomerId \cup LicenseId \cup Token
    BY <1>1, <1>2 DEF TypeOK
  <2> QED
    BY <2>1, <2>2, <2>3 DEF TypeOK
<1>5. ActorKnown(a)'
  BY <1>1, FreeKnown
<1>6. \A b \in Actor : ActorKnown(b)'
  BY <1>1, <1>2, <1>5, OthersKnow DEF TokensStep
<1>7. IdsIssued' /\ EmailsNormal'
  BY <1>2, <1>3 DEF IInv, IdsIssued, EmailsNormal, TokensStep
<1>8. SessionsEnd'
  BY <1>1, <1>2, SessionsKept DEF TokensStep
<1>9. AuditKnown'
  <2>1. \A o \in Operator \ {a} : actor[o].pc \in Reporting => actor'[o] = actor[o]
    BY <1>1, OthersReport DEF Actor
  <2>2. ASSUME NEW c \in CustomerId, CustomerReported(c)
        PROVE  CustomerReported(c)'
    <3>1. CASE c \in unaudited
      BY <3>1 DEF CustomerReported
    <3>2. CASE \E e \in DOMAIN recorded : e.type = "customer.deleted" /\ e.customer = c
      BY <3>2 DEF CustomerReported, BagToSet
    <3>3. ASSUME NEW o \in Operator, actor[o].pc \in Reporting,
                 actor[o].activity.type = "customer.deleted", actor[o].activity.customer = c
          PROVE  CustomerReported(c)'
      <4>1. CASE o # a
        BY <2>1, <3>3, <4>1 DEF CustomerReported
      <4>2. CASE o = a
        <5>1. CASE s.pc \in Reporting /\ s.activity = actor[a].activity
          BY <1>1, <3>3, <4>2, <5>1 DEF CustomerReported
        <5>2. CASE DeletedBy(actor[a].activity) \subseteq unaudited'
          BY <3>3, <4>2, <5>2 DEF CustomerReported, DeletedBy
        <5>3. CASE \E e \in BagToSet(recorded') : /\ e.type = actor[a].activity.type
                                                  /\ e.customer = actor[a].activity.customer
          BY <3>3, <4>2, <5>3 DEF CustomerReported, BagToSet
        <5> QED
          BY <3>3, <4>2, <5>1, <5>2, <5>3
      <4> QED
        BY <4>1, <4>2
    <3> QED
      BY <2>2, <3>1, <3>2, <3>3 DEF CustomerReported
  <2>3. ASSUME NEW l \in LicenseId, LicenseReported(l)
        PROVE  LicenseReported(l)'
    <3>1. CASE l \in unaudited
      BY <3>1 DEF LicenseReported
    <3>2. CASE \E e \in DOMAIN recorded : e.type = "license.deleted" /\ e.license = l
      BY <3>2 DEF LicenseReported, BagToSet
    <3>3. ASSUME NEW o \in Operator, actor[o].pc \in Reporting,
                 actor[o].activity.type = "license.deleted", actor[o].activity.license = l
          PROVE  LicenseReported(l)'
      <4>1. CASE o # a
        BY <2>1, <3>3, <4>1 DEF LicenseReported
      <4>2. CASE o = a
        <5>1. CASE s.pc \in Reporting /\ s.activity = actor[a].activity
          BY <1>1, <3>3, <4>2, <5>1 DEF LicenseReported
        <5>2. CASE DeletedBy(actor[a].activity) \subseteq unaudited'
          BY <3>3, <4>2, <5>2 DEF LicenseReported, DeletedBy
        <5>3. CASE \E e \in BagToSet(recorded') : /\ e.type = actor[a].activity.type
                                                  /\ e.license = actor[a].activity.license
          BY <3>3, <4>2, <5>3 DEF LicenseReported, BagToSet
        <5> QED
          BY <3>3, <4>2, <5>1, <5>2, <5>3
      <4> QED
        BY <4>1, <4>2
    <3> QED
      BY <2>3, <3>1, <3>2, <3>3 DEF LicenseReported
  <2> QED
    BY <1>2, <1>3, <2>2, <2>3 DEF IInv, AuditKnown
<1> QED
  BY <1>4, <1>6, <1>7, <1>8, <1>9 DEF IInv

(* The deletion an activity reports is that of a customer or a license.    *)
LEMMA DeletedIds ==
    ASSUME NEW e \in Event
    PROVE  DeletedBy(e) \subseteq CustomerId \cup LicenseId
<1>1. /\ e.type = "customer.deleted" => e.customer \in CustomerId
      /\ e.type = "license.deleted" => e.license \in LicenseId
  BY DEF Event
<1>2. CASE e.type = "customer.deleted"
  BY <1>1, <1>2 DEF DeletedBy
<1>3. CASE e.type = "license.deleted"
  BY <1>1, <1>3 DEF DeletedBy
<1>4. CASE e.type \notin {"customer.deleted", "license.deleted"}
  BY <1>4 DEF DeletedBy
<1> QED
  BY <1>2, <1>3, <1>4

(* What a step that records nothing leaves as it is.                       *)
LEMMA LogKept ==
    ASSUME IInv, UNCHANGED <<log, now, recorded>>
    PROVE  /\ IsABag(log'.events) /\ BagToSet(log'.events) \subseteq Event
           /\ IsABag(log'.totals) /\ IsABag(log'.buckets) /\ DetailRows'
           /\ IsABag(recorded') /\ BagToSet(recorded') \subseteq Event
           /\ BagToSet(recorded) \subseteq BagToSet(recorded')
BY DEF IInv, TypeOK, DetailRows, BagToSet

LEMMA CleanupKeeps ==
    ASSUME IInv, NEW o \in Operator, Cleanup(o)
    PROVE  IInv'
<1>1. /\ actor[o].pc = "cleanup" /\ o \in Actor /\ actor[o] \in ActorState
      /\ UNCHANGED <<rows, sent, licenseOf, handed, log, now, bounds, recorded, unaudited>>
  BY OperatorActs DEF Cleanup, IInv, TypeOK
<1>2. PICK l \in actor[o].listed :
        \/ /\ sessions' = {t \in sessions : licenseOf[t] # l}
           /\ Goto(o, AfterCleanup(o, l, FALSE))
           /\ UNCHANGED <<faults, leftover>>
        \/ /\ faults < MaxFaults
           /\ faults' = faults + 1
           /\ leftover' = leftover \cup {l}
           /\ Goto(o, AfterCleanup(o, l, TRUE))
           /\ UNCHANGED sessions
  BY DEF Cleanup
<1> DEFINE rest == actor[o].listed \ {l}
<1>3. PICK s : s = [actor[o] EXCEPT !.listed = rest,
                                    !.pc = IF rest = {} THEN "capture" ELSE "cleanup"]
  OBVIOUS
<1>4. /\ s \in ActorState /\ s.pc \in Reporting /\ s.listed = rest
      /\ s.activity = actor[o].activity
      /\ rest # {} => s.pc = "cleanup"
  BY <1>1, <1>3 DEF ActorState, Reporting
<1>5. Goto(o, s) /\ s.pc \in Free
  <2>1. Goto(o, s)
    BY <1>2, <1>3 DEF AfterCleanup
  <2> QED
    BY <1>4, <2>1 DEF Reporting, Free
<1>6. /\ faults' \in 0 .. MaxFaults /\ sessions' \subseteq sessions
      /\ leftover \subseteq leftover' /\ leftover' \subseteq LicenseId \cup Token
      /\ l \in leftover' \/ \A t \in sessions' : licenseOf[t] # l
  <2>1. /\ faults \in 0 .. MaxFaults /\ leftover \subseteq LicenseId \cup Token
        /\ actor[o].listed \subseteq LicenseId
    BY <1>1 DEF IInv, TypeOK, ActorState
  <2>2. CASE /\ sessions' = {t \in sessions : licenseOf[t] # l}
             /\ UNCHANGED <<faults, leftover>>
    BY <2>1, <2>2
  <2>3. CASE /\ faults < MaxFaults
             /\ faults' = faults + 1
             /\ leftover' = leftover \cup {l}
             /\ UNCHANGED sessions
    BY <2>1, <2>3, BoundAssumption
  <2> QED
    BY <1>2, <2>2, <2>3
<1>7. TokensStep(o)
  <2>1. actor'[o] = s
    BY <1>1, <1>4, <1>5, GotoType DEF IInv
  <2>2. /\ sessions \subseteq Token \cap issued /\ sent \subseteq Token \cap issued
        /\ handed \subseteq Token
    BY DEF IInv, TypeOK, IdsIssued
  <2>3. ASSUME NEW t \in sessions', Holds(o, t), licenseOf[t] \notin leftover'
        PROVE  Holds(o, t)'
    <3>1. licenseOf[t] \in rest
      BY <1>1, <1>6, <2>3 DEF Holds
    <3> QED
      BY <1>1, <1>4, <2>1, <3>1 DEF Holds
  <2> QED
    BY <1>1, <1>6, <2>2, <2>3 DEF TokensStep
<1>8. unaudited' = unaudited /\ unaudited \subseteq CustomerId \cup LicenseId
  BY <1>1 DEF IInv, TypeOK
<1> QED
  BY <1>1, <1>4, <1>5, <1>6, <1>7, <1>8, LogKept, ReportStep

LEMMA CaptureKeeps ==
    ASSUME IInv, NEW a \in Actor, Capture(a)
    PROVE  IInv'
<1>1. PICK event : event = [actor[a].activity EXCEPT !.at = now]
  OBVIOUS
<1>2. PICK s : s = IF event.type = "license.activation_attempted"
                   THEN [actor[a] EXCEPT !.pc = "admit"] ELSE Idle
  OBVIOUS
<1>3. /\ actor[a] \in ActorState /\ actor[a].activity \in Event
      /\ now \in Nat /\ faults \in 0 .. MaxFaults
      /\ actor[a].token \in Token \cup {None} /\ unaudited \subseteq CustomerId \cup LicenseId
  BY DEF IInv, TypeOK, Actor, ActorState
<1>4. /\ event \in Event /\ event.at = now
      /\ event.type = actor[a].activity.type
      /\ event.customer = actor[a].activity.customer
      /\ event.license = actor[a].activity.license
  BY <1>1, <1>3 DEF Event
<1>5. s \in ActorState /\ s.pc \in Free
  BY <1>2, <1>3, IdleType DEF ActorState, Free
<1>6. /\ actor[a].pc = "capture" /\ Goto(a, s)
      /\ UNCHANGED <<rows, sessions, sent, licenseOf, now, bounds, leftover>>
      /\ handed' = handed \cup ({actor[a].token} \ {None})
      /\ \/ /\ log' = Recorded(log, event)
            /\ recorded' = recorded (+) SetToBag({event})
            /\ UNCHANGED <<faults, unaudited>>
         \/ /\ faults < MaxFaults
            /\ faults' = faults + 1
            /\ unaudited' = unaudited \cup DeletedBy(event)
            /\ UNCHANGED <<log, recorded>>
  BY <1>1, <1>2 DEF Capture
<1>9. TokensStep(a)
  <2>1. /\ sessions \subseteq Token \cap issued /\ sent \subseteq Token \cap issued
        /\ handed' \subseteq Token /\ leftover \subseteq LicenseId \cup Token
    BY <1>3, <1>6 DEF IInv, TypeOK, IdsIssued
  <2> QED
    BY <1>6, <2>1 DEF TokensStep, Holds
<1>7. CASE /\ log' = Recorded(log, event)
           /\ recorded' = recorded (+) SetToBag({event})
           /\ UNCHANGED <<faults, unaudited>>
  <2>1. /\ DetailRows'
        /\ IsABag(log'.events) /\ BagToSet(log'.events) \subseteq Event
        /\ IsABag(log'.totals) /\ IsABag(log'.buckets)
        /\ IsABag(recorded') /\ BagToSet(recorded') = BagToSet(recorded) \cup {event}
        /\ BagToSet(recorded') \subseteq Event
    BY <1>4, <1>6, <1>7, RecordKeeps
  <2>2. \E e \in BagToSet(recorded') : /\ e.type = actor[a].activity.type
                                       /\ e.customer = actor[a].activity.customer
                                       /\ e.license = actor[a].activity.license
    BY <1>4, <2>1
  <2>3. /\ unaudited' = unaudited /\ faults' \in 0 .. MaxFaults
        /\ BagToSet(recorded) \subseteq BagToSet(recorded')
    BY <1>3, <1>6, <1>7, <2>1
  <2> QED
    BY <1>3, <1>5, <1>6, <1>9, <2>1, <2>2, <2>3, ReportStep
<1>8. CASE /\ faults < MaxFaults
           /\ faults' = faults + 1
           /\ unaudited' = unaudited \cup DeletedBy(event)
           /\ UNCHANGED <<log, recorded>>
  <2>1. DeletedBy(event) = DeletedBy(actor[a].activity)
    BY <1>4 DEF DeletedBy
  <2>2. /\ unaudited' \subseteq CustomerId \cup LicenseId
        /\ DeletedBy(actor[a].activity) \subseteq unaudited'
    BY <1>3, <1>4, <1>8, <2>1, DeletedIds
  <2>3. /\ unaudited \subseteq unaudited' /\ faults' \in 0 .. MaxFaults
    BY <1>3, <1>6, <1>8, BoundAssumption
  <2> QED
    BY <1>3, <1>5, <1>6, <1>8, <1>9, <2>2, <2>3, LogKept, ReportStep
<1> QED
  BY <1>6, <1>7, <1>8

(* What an operation leaves behind where it ends is named.                 *)
LEMMA AbandonedNamed ==
    ASSUME IInv, NEW a \in Actor
    PROVE  /\ Abandoned(actor[a]) \subseteq LicenseId \cup Token
           /\ \A t \in sessions : Holds(a, t) => \/ licenseOf[t] \in licenses
                                               \/ {licenseOf[t], t} \cap Abandoned(actor[a]) # {}
<1>1. actor[a] \in ActorState /\ actor[a].listed \subseteq LicenseId
  BY DEF IInv, TypeOK, Actor, ActorState
<1>2. CASE actor[a].pc = "cleanup"
  BY <1>1, <1>2 DEF Abandoned, Holds
<1>3. CASE actor[a].pc = "commit"
  <2>1. actor[a].token \in Token /\ licenseOf[actor[a].token] = actor[a].license
    BY <1>3 DEF IInv, ActorKnown, Admitting
  <2>2. Abandoned(actor[a]) = IF actor[a].license \in licenses THEN {} ELSE {actor[a].token}
    BY <1>3 DEF Abandoned
  <2>3. ASSUME NEW t \in sessions, Holds(a, t)
        PROVE  t = actor[a].token
    BY <1>3, <2>3 DEF Holds
  <2> QED
    BY <2>1, <2>2, <2>3
<1>4. CASE actor[a].pc \notin {"cleanup", "commit"}
  BY <1>4 DEF Abandoned, Holds
<1> QED
  BY <1>2, <1>3, <1>4

LEMMA CrashKeeps ==
    ASSUME IInv, NEW a \in Actor, Crash(a)
    PROVE  IInv'
<1>1. /\ actor[a] \in ActorState /\ actor[a].activity \in Event /\ faults \in 0 .. MaxFaults
      /\ unaudited \subseteq CustomerId \cup LicenseId /\ leftover \subseteq LicenseId \cup Token
      /\ sessions \subseteq Token \cap issued /\ sent \subseteq Token \cap issued
      /\ handed \subseteq Token
  BY DEF IInv, TypeOK, Actor, ActorState, IdsIssued
<1>2. /\ Goto(a, Idle) /\ Idle \in ActorState /\ Idle.pc \in Free
      /\ UNCHANGED <<rows, sessions, licenseOf, handed, log, now, bounds, recorded>>
      /\ leftover' = leftover \cup Abandoned(actor[a])
  BY IdleType DEF Crash, Free
<1>3. faults' \in 0 .. MaxFaults
  BY <1>1, BoundAssumption DEF Crash
<1>4. /\ unaudited \subseteq unaudited' /\ unaudited' \subseteq CustomerId \cup LicenseId
      /\ actor[a].pc \in Reporting => DeletedBy(actor[a].activity) \subseteq unaudited'
  BY <1>1, DeletedIds DEF Crash, Reporting
<1>5. sent' \subseteq Token \cap issued
  <2>1. actor[a].pc = "store" => actor[a].token \in Token \cap issued
    BY DEF IInv, ActorKnown, Admitting
  <2> QED
    BY <1>1, <2>1 DEF Crash
<1>6. TokensStep(a)
  BY <1>1, <1>2, <1>5, AbandonedNamed DEF TokensStep
<1> QED
  BY <1>1, <1>2, <1>3, <1>4, <1>6, LogKept, ReportStep

(* The catch block of an activation removes its session or leaves it.      *)
LEMMA UndoActivationKeeps ==
    ASSUME IInv, NEW k \in Client, UndoActivation(k)
    PROVE  IInv'
<1>1. /\ k \in Actor /\ faults \in 0 .. MaxFaults /\ leftover \subseteq LicenseId \cup Token
      /\ sessions \subseteq Token \cap issued /\ sent \subseteq Token \cap issued
      /\ handed \subseteq Token
  BY ClientActs DEF IInv, TypeOK, IdsIssued
<1>2. /\ actor[k].pc = "commit" /\ Goto(k, Rejected(k))
      /\ UNCHANGED <<rows, sent, licenseOf, handed, log, now, bounds, recorded, unaudited>>
  BY DEF UndoActivation
<1>3. Rejected(k) \in ActorState /\ Rejected(k).pc \in Free
  BY RejectedType DEF Free
<1>4. faults' \in 0 .. MaxFaults /\ TokensStep(k)
  <2>1. CASE sessions' = sessions \ {actor[k].token} /\ UNCHANGED <<faults, leftover>>
    <3>1. \A t \in sessions' : ~Holds(k, t)
      BY <1>2, <2>1 DEF Holds
    <3> QED
      BY <1>1, <1>2, <2>1, <3>1 DEF TokensStep
  <2>2. CASE /\ faults < MaxFaults
             /\ faults' = faults + 1
             /\ leftover' = leftover \cup Abandoned(actor[k])
             /\ UNCHANGED sessions
    <3>1. faults' \in 0 .. MaxFaults
      BY <1>1, <2>2, BoundAssumption
    <3> QED
      BY <1>1, <1>2, <2>2, <3>1, AbandonedNamed DEF TokensStep
  <2> QED
    BY <2>1, <2>2 DEF UndoActivation
<1>5. actor[k].pc \notin Reporting /\ unaudited \subseteq CustomerId \cup LicenseId
  BY <1>2 DEF Reporting, IInv, TypeOK
<1> QED
  BY <1>1, <1>2, <1>3, <1>4, <1>5, LogKept, ReportStep

(* A script whose handler gave up: nobody's session, or one more to end    *)
(* with its license.                                                       *)
LEMMA StoreLateKeeps ==
    ASSUME IInv, NEW t \in Token, StoreLate(t)
    PROVE  IInv'
<1>1. /\ t \in sent /\ sent' = sent \ {t} /\ sessions' = sessions \cup {t}
      /\ leftover' = leftover \cup IF licenseOf[t] \in licenses THEN {} ELSE {t}
      /\ UNCHANGED <<rows, licenseOf, handed, actor, log, now, bounds, faults, recorded,
                     unaudited>>
  BY DEF StoreLate
<1>2. UNCHANGED <<customers, licenses, owner, updatedAt, allowed, issued, mix, operations>>
  BY <1>1 DEF rows, bounds
<1>3. /\ leftover \subseteq leftover' /\ leftover' \subseteq LicenseId \cup Token
      /\ sessions' \subseteq Token /\ sent' \subseteq Token
      /\ sessions' \subseteq issued /\ sent' \subseteq issued
  BY <1>1 DEF IInv, TypeOK, IdsIssued
<1>4. Customers' = Customers
  BY <1>2 DEF Customers
<1>5. TypeOK'
  <2>1. EmailsUnique' /\ ReferencesHold'
    BY <1>2, <1>4 DEF IInv, TypeOK, EmailsUnique, ReferencesHold
  <2> QED
    BY <1>1, <1>2, <1>3, <2>1 DEF IInv, TypeOK
<1>6. \A a \in Actor : ActorKnown(a)'
  BY <1>1, <1>2 DEF IInv, ActorKnown
<1>7. IdsIssued' /\ EmailsNormal'
  BY <1>2, <1>3, <1>4 DEF IInv, IdsIssued, EmailsNormal
<1>8. DetailRows'
  BY <1>1 DEF IInv, DetailRows
<1>9. SessionsEnd'
  BY <1>1, <1>2 DEF IInv, SessionsEnd
<1>10. AuditKnown'
  <2>1. /\ \A c \in CustomerId : CustomerReported(c) => CustomerReported(c)'
        /\ \A l \in LicenseId : LicenseReported(l) => LicenseReported(l)'
    BY <1>1 DEF CustomerReported, LicenseReported
  <2> QED
    BY <1>2, <1>4, <2>1 DEF IInv, AuditKnown
<1> QED
  BY <1>5, <1>6, <1>7, <1>8, <1>9, <1>10 DEF IInv

-----------------------------------------------------------------------------
(* Time                                                                    *)

(* Whatever is not about the log or the time stays true.                   *)
LEMMA TimeStep ==
    ASSUME IInv, UNCHANGED <<rows, tokens, actor, bounds, faults, history>>,
           now' \in 0 .. MaxTime,
           IsABag(log'.events), BagToSet(log'.events) \subseteq Event,
           IsABag(log'.totals), IsABag(log'.buckets), DetailRows'
    PROVE  IInv'
<1>1. /\ UNCHANGED <<customers, licenses, owner, updatedAt, allowed, issued, mix, operations>>
      /\ UNCHANGED <<sessions, sent, licenseOf, handed>>
      /\ UNCHANGED <<recorded, leftover, unaudited>>
  BY DEF rows, tokens, bounds, history
<1>2. Customers' = Customers
  BY <1>1 DEF Customers
<1>3. TypeOK'
  <2>1. EmailsUnique' /\ ReferencesHold'
    BY <1>1, <1>2 DEF IInv, TypeOK, EmailsUnique, ReferencesHold
  <2> QED
    BY <1>1, <2>1 DEF IInv, TypeOK
<1>4. \A a \in Actor : ActorKnown(a)'
  BY <1>1 DEF IInv, ActorKnown
<1>5. IdsIssued' /\ EmailsNormal'
  BY <1>1, <1>2 DEF IInv, IdsIssued, EmailsNormal
<1>6. SessionsEnd'
  BY <1>1 DEF IInv, SessionsEnd
<1>7. AuditKnown'
  <2>1. /\ \A c \in CustomerId : CustomerReported(c) => CustomerReported(c)'
        /\ \A l \in LicenseId : LicenseReported(l) => LicenseReported(l)'
    BY <1>1 DEF CustomerReported, LicenseReported
  <2> QED
    BY <1>1, <1>2, <2>1 DEF IInv, AuditKnown
<1> QED
  BY <1>3, <1>4, <1>5, <1>6, <1>7 DEF IInv

LEMMA TickKeeps ==
    ASSUME IInv, Tick
    PROVE  IInv'
<1>1. /\ now \in 0 .. MaxTime /\ now' = now + 1 /\ now' \in 0 .. MaxTime
      /\ UNCHANGED <<log, recorded>>
  BY BoundAssumption DEF IInv, TypeOK, Tick, history
<1>2. /\ IsABag(log'.events) /\ BagToSet(log'.events) \subseteq Event
      /\ IsABag(log'.totals) /\ IsABag(log'.buckets)
  BY <1>1 DEF IInv, TypeOK
<1>3. \A e \in DOMAIN recorded : e.at >= Cutoff(now') => e.at >= Cutoff(now)
  <2>1. \A e \in DOMAIN recorded : e.at \in Nat
    BY DEF IInv, TypeOK, BagToSet, Event
  <2> QED
    BY <1>1, <2>1, RetentionAssumption DEF Cutoff
<1>4. DetailRows'
  BY <1>1, <1>3 DEF IInv, DetailRows
<1> QED
  BY <1>1, <1>2, <1>4, TimeStep DEF Tick

LEMMA PruneKeeps ==
    ASSUME IInv, Prune
    PROVE  IInv'
<1>1. /\ now \in 0 .. MaxTime /\ UNCHANGED <<now, recorded>>
      /\ IsABag(log.events) /\ BagToSet(log.events) \subseteq Event
      /\ IsABag(log.totals) /\ IsABag(log.buckets)
      /\ log = [events |-> log.events, totals |-> log.totals, buckets |-> log.buckets]
  BY DEF IInv, TypeOK, Prune, history, DetailRows
<1>2. /\ log'.events = [e \in {r \in DOMAIN log.events : r.at >= Cutoff(now)} |-> log.events[e]]
      /\ log'.buckets = [b \in {r \in DOMAIN log.buckets : r[1] >= Cutoff(now)}
                            |-> log.buckets[b]]
      /\ log'.totals = log.totals
      /\ log' = [events |-> log'.events, totals |-> log'.totals, buckets |-> log'.buckets]
  BY <1>1 DEF Prune, PrunedBefore, Rows
<1>3. /\ IsABag(log'.events) /\ BagToSet(log'.events) \subseteq Event
      /\ IsABag(log'.totals) /\ IsABag(log'.buckets)
  BY <1>1, <1>2 DEF IsABag, BagToSet
<1>4. DetailRows'
  BY <1>1, <1>2 DEF IInv, DetailRows
<1> QED
  BY <1>1, <1>3, <1>4, TimeStep DEF Prune

-----------------------------------------------------------------------------
(* Every behaviour                                                         *)

LEMMA InitHolds == Init => IInv
<1>1. SUFFICES ASSUME Init PROVE IInv
  OBVIOUS
<1>2. Customers = {FirstCustomer}
  <2>1. FirstEmail \in Spelling /\ FirstEmail # None
    BY IdAssumption, NormalFormAssumption
  <2> QED
    BY <1>1, <2>1, IdAssumption DEF Init, Customers
<1>3. /\ customers[FirstCustomer] = FirstEmail /\ NormalForm[FirstEmail] = FirstEmail
      /\ owner[FirstLicense] = FirstCustomer /\ issued = {FirstCustomer, FirstLicense}
      /\ licenses = {FirstLicense}
  BY <1>1, IdAssumption, NormalFormAssumption DEF Init
<1>4. /\ DOMAIN recorded = {} /\ IsABag(recorded)
      /\ log = [events |-> recorded, totals |-> recorded, buckets |-> recorded]
  BY <1>1 DEF Init, EmptyLog, EmptyBag, SetToBag, IsABag
<1>5. EmailsUnique /\ ReferencesHold
  BY <1>1, <1>2, <1>3 DEF EmailsUnique, ReferencesHold, Init
<1>6. TypeOK
  <2>1. /\ customers \in [CustomerId -> Spelling \cup {None}]
        /\ owner \in [LicenseId -> CustomerId \cup {None}]
        /\ updatedAt \in [LicenseId -> Nat]
        /\ allowed \in [LicenseId -> SUBSET Entry]
        /\ licenseOf \in [Token -> LicenseId \cup {None}]
    BY <1>1, IdAssumption, NormalFormAssumption DEF Init
  <2>2. actor \in [Operator \cup Client -> ActorState]
    BY <1>1, IdleType DEF Init
  <2>3. /\ IsABag(log.events) /\ BagToSet(log.events) \subseteq Event
        /\ IsABag(log.totals) /\ IsABag(log.buckets)
        /\ BagToSet(recorded) \subseteq Event
    BY <1>4 DEF BagToSet
  <2>4. /\ now \in 0 .. MaxTime /\ mix \in Mixes /\ operations \in 0 .. MaxOperations
        /\ faults \in 0 .. MaxFaults
    BY <1>1, BoundAssumption DEF Init
  <2>5. /\ licenses \subseteq LicenseId
        /\ sessions \subseteq Token /\ sent \subseteq Token /\ handed \subseteq Token
        /\ issued \subseteq CustomerId \cup LicenseId \cup Token
        /\ leftover \subseteq LicenseId \cup Token /\ unaudited \subseteq CustomerId \cup LicenseId
    BY <1>1, IdAssumption DEF Init
  <2> QED
    BY <1>4, <1>5, <2>1, <2>2, <2>3, <2>4, <2>5 DEF TypeOK
<1>7. \A a \in Actor : ActorKnown(a)
  BY <1>1, IdleType DEF Init, Actor, ActorKnown, Admitting
<1>8. IdsIssued
  BY <1>1, <1>2, <1>3, IdAssumption DEF IdsIssued, Init
<1>9. EmailsNormal
  BY <1>2, <1>3 DEF EmailsNormal
<1>10. DetailRows
  BY <1>4 DEF DetailRows
<1>11. SessionsEnd
  BY <1>1 DEF Init, SessionsEnd
<1>12. AuditKnown
  BY <1>2, <1>3, IdAssumption DEF AuditKnown
<1> QED
  BY <1>6, <1>7, <1>8, <1>9, <1>10, <1>11, <1>12 DEF IInv

LEMMA OperatorStepKeeps ==
    ASSUME IInv, NEW o \in Operator, OperatorStep(o)
    PROVE  IInv'
<1>1. ASSUME DeleteLicense(o) \/ AllowLicenseIp(o) \/ RemoveLicenseAllowedIp(o)
      PROVE  IInv'
  BY <1>1, RequireLicenseKeeps DEF DeleteLicense, AllowLicenseIp, RemoveLicenseAllowedIp
<1> QED
  BY <1>1, CreateCustomerKeeps, UpdateCustomerKeeps, UpdateCustomerRowKeeps,
     DeleteCustomerKeeps, ListLicensesKeeps, DeleteCustomerRowKeeps, CreateLicenseKeeps,
     InsertLicenseKeeps, TransferLicenseKeeps, TransferLicenseRowKeeps, ReloadLicenseKeeps,
     DeleteLicenseRowKeeps, ReadBeforeKeeps, AddAllowedKeeps,
     RemoveAllowedKeeps, CleanupKeeps DEF OperatorStep

LEMMA NextKeeps == IInv /\ [Next]_vars => IInv'
<1>1. SUFFICES ASSUME IInv, [Next]_vars PROVE IInv'
  OBVIOUS
<1>2. ASSUME NEW k \in Client, ClientStep(k) PROVE IInv'
  BY <1>1, <1>2, ActivateKeeps, AdmitActivationKeeps, StoreSessionKeeps, TransactionLostKeeps,
     CommitActivationKeeps, UndoActivationKeeps, HeartbeatKeeps, DeactivateKeeps DEF ClientStep
<1>3. ASSUME NEW a \in Operator \cup Client, Capture(a) \/ Crash(a) PROVE IInv'
  BY <1>1, <1>3, CaptureKeeps, CrashKeeps DEF Actor
<1>4. CASE UNCHANGED vars
  <2>1. /\ UNCHANGED <<rows, tokens, actor, bounds, faults, history>>
        /\ UNCHANGED <<log, now, recorded>>
    BY <1>4 DEF vars, history
  <2>2. /\ IsABag(log'.events) /\ BagToSet(log'.events) \subseteq Event
        /\ IsABag(log'.totals) /\ IsABag(log'.buckets) /\ DetailRows'
    BY <1>1, <2>1, LogKept
  <2>3. now' \in 0 .. MaxTime
    BY <1>1, <2>1 DEF IInv, TypeOK
  <2> QED
    BY <1>1, <2>1, <2>2, <2>3, TimeStep
<1> QED
  BY <1>1, <1>2, <1>3, <1>4, OperatorStepKeeps, StoreLateKeeps, TickKeeps, PruneKeeps DEF Next

(* The inductive invariant holds throughout.                               *)
THEOREM Invariance == Spec => []IInv
BY InitHolds, NextKeeps, PTL DEF Spec

(* Every variable keeps its shape, no two customers ever have emails that  *)
(* only differ in their spelling, and no license or entry loses its owner, *)
(* although AdminService checks these things before it writes, if at all.  *)
THEOREM TypeCorrect == Spec => []TypeOK
<1>1. IInv => TypeOK
  BY DEF IInv
<1> QED
  BY <1>1, Invariance, PTL

(* deleteLicense and deleteCustomer end the sessions of what they delete:  *)
(* the row lock keeps activations and deletions of a license apart, and    *)
(* where the lock is lost, a session stored late is removed by the catch   *)
(* block; what stays in Redis stays for a reason leftover names.           *)
THEOREM SessionsEnded == Spec => []SessionsEnd
<1>1. IInv => SessionsEnd
  BY DEF IInv
<1> QED
  BY <1>1, Invariance, PTL

(* Every deletion is in the audit unless recording it failed.              *)
THEOREM Audited == Spec => []DeletionsAudited
<1>1. IInv => DeletionsAudited
  BY AuditedMeans DEF IInv
<1> QED
  BY <1>1, Invariance, PTL

(* The activity view shows exactly what was recorded within the retention, *)
(* whenever and however often processes prune.                             *)
THEOREM DetailComplete == Spec => []DetailKept
<1>1. IInv => DetailKept
  <2>1. SUFFICES ASSUME IInv PROVE DetailKept
    OBVIOUS
  <2>2. {r \in DOMAIN log.events : r.at >= Cutoff(now)}
          = {r \in DOMAIN recorded : r.at >= Cutoff(now) /\ r.type # "license.heartbeat"}
    BY <2>1 DEF IInv, DetailRows
  <2>3. \A r \in DOMAIN log.events : log.events[r] = recorded[r]
    BY <2>1 DEF IInv, DetailRows
  <2>4. [r \in {r \in DOMAIN log.events : r.at >= Cutoff(now)} |-> log.events[r]]
          = [r \in {r \in DOMAIN recorded : r.at >= Cutoff(now)
                                               /\ r.type # "license.heartbeat"} |-> recorded[r]]
    BY <2>2, <2>3
  <2> QED
    BY <2>4 DEF DetailKept, Shown, Rows
<1> QED
  BY <1>1, Invariance, PTL

-----------------------------------------------------------------------------
(* Warnings                                                                *)

(* Nobody but the operator himself takes him from his read to his answer.  *)
LEMMA OthersDoNotAdd ==
    ASSUME IInv, NEW o \in Operator, actor[o].pc = "add", NEW a \in Actor, a # o,
           \/ UNCHANGED actor
           \/ \E s : Goto(a, s)
           \/ \E l, s : Overtakes(a, l, s)
    PROVE  actor'[o].pc = "add"
<1>1. o \in DOMAIN actor /\ actor[o] \in ActorState
  BY DEF IInv, TypeOK
<1>2. CASE UNCHANGED actor
  BY <1>2
<1>3. CASE \E s : Goto(a, s)
  BY <1>1, <1>3 DEF Goto
<1>4. ASSUME NEW l, NEW s, Overtakes(a, l, s)
      PROVE  actor'[o].pc = "add"
  <2>1. actor'[o] = [actor[o] EXCEPT !.removed = TRUE] \/ actor'[o] = actor[o]
    BY <1>1, <1>4 DEF Overtakes
  <2> QED
    BY <1>1, <2>1 DEF ActorState
<1> QED
  BY <1>2, <1>3, <1>4

LEMMA OnlyAddAllowedAdds ==
    ASSUME IInv, [Next]_vars, NEW o \in Operator, actor[o].pc = "add", actor'[o].pc = "capture"
    PROVE  AddAllowed(o)
<1>1. o \in Actor /\ o \notin Client /\ o \in DOMAIN actor /\ actor[o] # Idle
  BY IdAssumption, IdleType DEF Actor, IInv, TypeOK
<1>2. ~ UNCHANGED actor
  OBVIOUS
<1>3. ASSUME NEW p \in Operator, OperatorStep(p)
      PROVE  AddAllowed(o)
  <2>1. CASE p # o
    <3>1. \/ UNCHANGED actor
          \/ \E s : Goto(p, s)
          \/ \E l, s : Overtakes(p, l, s)
      BY <1>3 DEF OperatorStep, CreateCustomer, UpdateCustomer, UpdateCustomerRow,
         DeleteCustomer, ListLicenses, DeleteCustomerRow, CreateLicense, InsertLicense,
         TransferLicense, TransferLicenseRow, ReloadLicense,
         DeleteLicense, DeleteLicenseRow, AllowLicenseIp, RequireLicense, ReadBefore,
         AddAllowed, RemoveLicenseAllowedIp, RemoveAllowed, Cleanup
    <3> QED
      BY <2>1, <3>1, OperatorActs, OthersDoNotAdd
  <2>2. CASE p = o
    BY <1>1, <1>3, <2>2 DEF OperatorStep, CreateCustomer, UpdateCustomer, UpdateCustomerRow,
       DeleteCustomer, ListLicenses, DeleteCustomerRow, CreateLicense, InsertLicense,
       TransferLicense, TransferLicenseRow, ReloadLicense,
       DeleteLicense, DeleteLicenseRow, AllowLicenseIp, RequireLicense, ReadBefore,
       RemoveLicenseAllowedIp, RemoveAllowed, Cleanup, Begin
  <2> QED
    BY <2>1, <2>2
<1>4. ASSUME NEW k \in Client, ClientStep(k)
      PROVE  FALSE
  <2>1. UNCHANGED actor \/ \E s : Goto(k, s)
    BY <1>4 DEF ClientStep, Activate, AdmitActivation, StoreSession, TransactionLost,
       CommitActivation, UndoActivation, Heartbeat, Deactivate
  <2> QED
    BY <1>1, <2>1, ClientActs, OthersDoNotAdd
<1>5. ASSUME NEW a \in Operator \cup Client, Capture(a) \/ Crash(a)
      PROVE  FALSE
  <2>1. \E s : Goto(a, s)
    BY <1>5 DEF Capture, Crash
  <2>2. a = o
    BY <2>1, OthersDoNotAdd DEF Actor
  <2>3. Goto(o, Idle)
    BY <1>5, <2>2 DEF Capture, Crash
  <2> QED
    BY <1>1, <2>3, IdleType DEF Goto
<1>6. /\ ~ Tick /\ ~ Prune /\ ~ UNCHANGED vars
      /\ \A t \in Token : ~ StoreLate(t)
  BY <1>2 DEF Tick, Prune, StoreLate, vars
<1> QED
  BY <1>3, <1>4, <1>5, <1>6 DEF Next

(* The operator whose entry makes a list restrictive is warned, unless     *)
(* somebody removed an entry between his read and his insert: allowLicenseIp *)
(* and allowLicenseDevice decide from the list as it was before, and any   *)
(* number of operators add to it at the same time.                         *)
THEOREM Warned == Spec => RestrictionWarned
<1>1. IInv /\ [Next]_vars =>
        [\A o \in Operator :
           (/\ actor[o].pc = "add" /\ actor'[o].pc = "capture"
            /\ allowed[actor[o].license] = {}
            /\ ~actor[o].removed)
              => actor'[o].warning]_vars
  <2>1. SUFFICES ASSUME IInv, [Next]_vars, NEW o \in Operator, actor[o].pc = "add",
                        actor'[o].pc = "capture", allowed[actor[o].license] = {},
                        ~actor[o].removed
                 PROVE  actor'[o].warning
    OBVIOUS
  <2>2. AddAllowed(o)
    BY <2>1, OnlyAddAllowedAdds
  <2>3. o \in Actor /\ TypeOK /\ actor[o] \in ActorState
    BY <2>1 DEF Actor, IInv, TypeOK
  <2>4. actor[o].license \in licenses
    <3>1. SUFFICES ASSUME actor[o].license \notin licenses PROVE FALSE
      OBVIOUS
    <3>2. actor'[o] = Idle
      BY <2>2, <2>3, <3>1, IdleType, GotoType DEF AddAllowed
    <3> QED
      BY <2>1, <3>2, IdleType
  <2>5. actor[o].warning
    BY <2>1, <2>3, <2>4 DEF IInv, ActorKnown
  <2>6. PICK l : l = actor[o].license
    OBVIOUS
  <2>7. PICK c : c = actor[o].customer
    OBVIOUS
  <2>8. PICK s : s = [actor[o] EXCEPT !.removed = FALSE, !.warning = Warning(o)]
    OBVIOUS
  <2>9. s \in ActorState /\ s.warning
    BY <2>3, <2>5, <2>8 DEF ActorState, Warning
  <2>10. Goto(o, Capturing(s, "license.updated", c, l))
    BY <2>2, <2>4, <2>6, <2>7, <2>8 DEF AddAllowed
  <2>11. /\ "license.updated" \in EventType /\ c \in CustomerId \cup {None}
         /\ l \in LicenseId \cup {None}
    BY <2>3, <2>6, <2>7 DEF EventType, ActorState
  <2>12. PICK t \in ActorState : t = Capturing(s, "license.updated", c, l) /\ t.warning
    BY <2>9, <2>11, CapturingType
  <2> QED
    BY <2>3, <2>10, <2>12, GotoType
<1> QED
  BY <1>1, Invariance, PTL DEF Spec, RestrictionWarned

-----------------------------------------------------------------------------
(* The statistics                                                          *)

(* Rows of totals and buckets count the occurrences recorded, as long as   *)
(* the minute of a bucket is within the retention.  Recording an event     *)
(* adds one occurrence, and one to exactly the rows that it counts for.    *)
StatisticsCount ==
    /\ IsFiniteSet(Occurrences)
    /\ \A scope, type :
          Copies(<<scope, type>>, log.totals) = Cardinality(Counted(scope, type))
    /\ \A minute \in Int : \A scope, type :
          minute >= Cutoff(now) =>
             Copies(<<minute, scope, type>>, log.buckets)
                = Cardinality(CountedAt(minute, scope, type))

(* One copy of every element of a set adds one to its rows.                *)
LEMMA CopiesAdd ==
    ASSUME NEW B, IsABag(B), NEW S, NEW C, C = B (+) SetToBag(S), NEW e
    PROVE  /\ Copies(e, B) \in Nat
           /\ Copies(e, C) = IF e \in S THEN Copies(e, B) + 1 ELSE Copies(e, B)
<1>1. Copies(e, B) \in Nat
  BY DEF Copies, IsABag
<1>2. C = [x \in DOMAIN B \cup S |->
             (IF x \in DOMAIN B THEN B[x] ELSE 0) + (IF x \in S THEN 1 ELSE 0)]
  BY DEF (+), SetToBag
<1>3. CASE e \in S
  BY <1>1, <1>2, <1>3 DEF Copies
<1>4. CASE e \notin S
  BY <1>1, <1>2, <1>4 DEF Copies
<1> QED
  BY <1>1, <1>3, <1>4

(* Recording an event adds one occurrence of it.                           *)
LEMMA OccurrenceAdded ==
    ASSUME IsABag(recorded), NEW event, recorded' = recorded (+) SetToBag({event})
    PROVE  \E o : o \notin Occurrences /\ o[1] = event /\ Occurrences' = Occurrences \cup {o}
<1>1. PICK n \in Nat : n = IF event \in DOMAIN recorded THEN recorded[event] ELSE 0
  BY DEF IsABag
<1>2. /\ DOMAIN recorded' = DOMAIN recorded \cup {event}
      /\ \A e \in DOMAIN recorded \ {event} : recorded'[e] = recorded[e]
      /\ recorded'[event] = n + 1
  BY <1>1, BagAdd
<1>3. \A x : x \in Occurrences <=>
               \E e \in DOMAIN recorded : \E i \in 1 .. recorded[e] : x = <<e, i>>
  BY DEF Occurrences, BagToSet
<1>4. \A x : x \in Occurrences' <=>
               \E e \in DOMAIN recorded' : \E i \in 1 .. recorded'[e] : x = <<e, i>>
  BY DEF Occurrences, BagToSet
<1>5. PICK o : o = <<event, n + 1>>
  OBVIOUS
<1>6. o \notin Occurrences
  <2>1. SUFFICES ASSUME o \in Occurrences PROVE FALSE
    OBVIOUS
  <2>2. PICK e \in DOMAIN recorded : \E i \in 1 .. recorded[e] : o = <<e, i>>
    BY <1>3, <2>1
  <2>3. PICK i \in 1 .. recorded[e] : o = <<e, i>>
    BY <2>2
  <2>4. e = event /\ i = n + 1 /\ recorded[event] = n
    BY <1>1, <1>5, <2>2, <2>3
  <2> QED
    BY <2>3, <2>4
<1>7. ASSUME NEW x \in Occurrences PROVE x \in Occurrences'
  <2>1. PICK e \in DOMAIN recorded : \E i \in 1 .. recorded[e] : x = <<e, i>>
    BY <1>3, <1>7
  <2>2. PICK i \in 1 .. recorded[e] : x = <<e, i>>
    BY <2>1
  <2>3. i \in 1 .. recorded'[e]
    <3>1. CASE e = event
      BY <1>1, <1>2, <2>1, <3>1
    <3>2. CASE e # event
      BY <1>2, <2>1, <3>2
    <3> QED
      BY <3>1, <3>2
  <2> QED
    BY <1>2, <1>4, <2>1, <2>2, <2>3
<1>8. o \in Occurrences'
  <2>1. n + 1 \in 1 .. recorded'[event]
    BY <1>2
  <2> QED
    BY <1>2, <1>4, <1>5, <2>1
<1>9. ASSUME NEW x \in Occurrences', x # o PROVE x \in Occurrences
  <2>1. PICK e \in DOMAIN recorded' : \E i \in 1 .. recorded'[e] : x = <<e, i>>
    BY <1>4, <1>9
  <2>2. PICK i \in 1 .. recorded'[e] : x = <<e, i>>
    BY <2>1
  <2>3. e \in DOMAIN recorded /\ i \in 1 .. recorded[e]
    <3>1. CASE e = event
      <4>1. i \in 1 .. n + 1 /\ i # n + 1
        BY <1>2, <1>5, <1>9, <2>2, <3>1
      <4>2. i \in 1 .. n /\ n # 0
        BY <4>1
      <4> QED
        BY <1>1, <3>1, <4>2
    <3>2. CASE e # event
      BY <1>2, <2>1, <3>2
    <3> QED
      BY <3>1, <3>2
  <2> QED
    BY <1>3, <2>2, <2>3
<1>10. Occurrences' = Occurrences \cup {o} /\ o[1] = event
  BY <1>5, <1>7, <1>8, <1>9
<1> QED
  BY <1>6, <1>10

(* Of a finite set with one more element, the part that satisfies a        *)
(* condition grows by one or not at all.                                   *)
LEMMA PartGrows ==
    ASSUME NEW S, IsFiniteSet(S), NEW o, o \notin S, NEW P, NEW Q, P \in SUBSET S,
           Q = P \/ Q = P \cup {o}
    PROVE  /\ Cardinality(P) \in Nat
           /\ Cardinality(Q) = IF o \in Q THEN Cardinality(P) + 1 ELSE Cardinality(P)
<1>1. IsFiniteSet(P) /\ Cardinality(P) \in Nat /\ o \notin P
  BY FS_Subset, FS_CardinalityType
<1> QED
  BY <1>1, FS_AddElement

(* What a step does to the log: nothing, record one event at the present   *)
(* time, or prune.                                                         *)
LEMMA LogStep ==
    ASSUME IInv, [Next]_vars
    PROVE  \/ UNCHANGED <<log, recorded>> /\ now' \in Nat /\ now <= now'
           \/ \E event \in Event :
                 /\ event.at = now /\ UNCHANGED now
                 /\ log' = Recorded(log, event)
                 /\ recorded' = recorded (+) SetToBag({event})
           \/ log' = PrunedBefore(log, Cutoff(now)) /\ UNCHANGED <<now, recorded>>
<1>1. now \in Nat
  BY DEF IInv, TypeOK
<1>2. CASE UNCHANGED <<log, recorded, now>>
  BY <1>1, <1>2
<1>3. ASSUME NEW o \in Operator, OperatorStep(o)
      PROVE  UNCHANGED <<log, recorded, now>>
  <2>1. CASE \/ CreateCustomer(o) \/ UpdateCustomer(o) \/ UpdateCustomerRow(o)
             \/ DeleteCustomer(o) \/ ListLicenses(o) \/ DeleteCustomerRow(o)
             \/ CreateLicense(o) \/ InsertLicense(o)
             \/ TransferLicense(o) \/ TransferLicenseRow(o) \/ ReloadLicense(o)
    BY <2>1 DEF CreateCustomer, UpdateCustomer, UpdateCustomerRow, DeleteCustomer,
                ListLicenses, DeleteCustomerRow, CreateLicense, InsertLicense,
                TransferLicense, TransferLicenseRow, ReloadLicense, history
  <2>2. CASE \/ DeleteLicense(o) \/ DeleteLicenseRow(o) \/ AllowLicenseIp(o)
             \/ ReadBefore(o) \/ AddAllowed(o) \/ RemoveLicenseAllowedIp(o)
             \/ RemoveAllowed(o) \/ Cleanup(o)
    BY <2>2 DEF DeleteLicense, DeleteLicenseRow, AllowLicenseIp, RequireLicense, ReadBefore,
                AddAllowed, RemoveLicenseAllowedIp, RemoveAllowed, Cleanup, history
  <2> QED
    BY <1>3, <2>1, <2>2 DEF OperatorStep
<1>4. ASSUME NEW k \in Client, ClientStep(k)
      PROVE  UNCHANGED <<log, recorded, now>>
  BY <1>4 DEF ClientStep, Activate, AdmitActivation, StoreSession, TransactionLost,
     CommitActivation, UndoActivation, Heartbeat, Deactivate, history
<1>5. ASSUME NEW a \in Actor, Capture(a)
      PROVE  \/ UNCHANGED <<log, recorded, now>>
             \/ \E event \in Event :
                   /\ event.at = now /\ UNCHANGED now
                   /\ log' = Recorded(log, event)
                   /\ recorded' = recorded (+) SetToBag({event})
  <2>1. PICK event : event = [actor[a].activity EXCEPT !.at = now]
    OBVIOUS
  <2>2. actor[a].activity \in Event
    BY DEF IInv, TypeOK, Actor, ActorState
  <2>3. event \in Event /\ event.at = now
    BY <1>1, <2>1, <2>2 DEF Event
  <2> QED
    BY <1>5, <2>1, <2>3 DEF Capture
<1>6. ASSUME NEW a \in Actor, Crash(a)
      PROVE  UNCHANGED <<log, recorded, now>>
  BY <1>6 DEF Crash
<1>7. CASE Tick
  BY <1>1, <1>7 DEF Tick, history
<1>8. CASE Prune
  BY <1>8 DEF Prune, history
<1>9. CASE UNCHANGED vars
  BY <1>1, <1>9 DEF vars, history
<1>10. ASSUME NEW t \in Token, StoreLate(t)
       PROVE  UNCHANGED <<log, recorded, now>>
  BY <1>10 DEF StoreLate
<1> QED
  BY <1>2, <1>3, <1>4, <1>5, <1>6, <1>7, <1>8, <1>9, <1>10 DEF Next, Actor

LEMMA StatisticsInit == Init => StatisticsCount
<1>1. SUFFICES ASSUME Init PROVE StatisticsCount
  OBVIOUS
<1>2. /\ DOMAIN recorded = {} /\ DOMAIN log.totals = {} /\ DOMAIN log.buckets = {}
  BY <1>1 DEF Init, EmptyLog, EmptyBag, SetToBag
<1>3. Occurrences = {}
  BY <1>2 DEF Occurrences, BagToSet
<1>4. \A scope, type : /\ Counted(scope, type) = {}
                       /\ \A minute : CountedAt(minute, scope, type) = {}
  BY <1>3 DEF Counted, CountedAt
<1>5. \A row : Copies(row, log.totals) = 0 /\ Copies(row, log.buckets) = 0
  BY <1>2 DEF Copies
<1> QED
  BY <1>3, <1>4, <1>5, FS_EmptySet DEF StatisticsCount

(* Recording an event counts it once, for each of its scopes.              *)
LEMMA StatisticsRecord ==
    ASSUME IInv, StatisticsCount, NEW event \in Event, event.at = now, UNCHANGED now,
           log' = Recorded(log, event), recorded' = recorded (+) SetToBag({event})
    PROVE  StatisticsCount'
<1>1. /\ IsABag(recorded) /\ IsABag(log.totals) /\ IsABag(log.buckets)
      /\ IsFiniteSet(Occurrences)
  BY DEF IInv, TypeOK, StatisticsCount
<1>2. PICK o : o \notin Occurrences /\ o[1] = event /\ Occurrences' = Occurrences \cup {o}
  BY <1>1, OccurrenceAdded
<1>3. IsFiniteSet(Occurrences')
  BY <1>1, <1>2, FS_AddElement
<1>4. ASSUME NEW scope, NEW type
      PROVE  Copies(<<scope, type>>, log'.totals) = Cardinality(Counted(scope, type)')
  <2>0. PICK row : row = <<scope, type>>
    OBVIOUS
  <2>1. PICK S : S = ScopesOf(event) \X {event.type}
    OBVIOUS
  <2>2. PICK P : P = Counted(scope, type)
    OBVIOUS
  <2>3. PICK Q : Q = Counted(scope, type)'
    OBVIOUS
  <2>4. /\ P \in SUBSET Occurrences
        /\ o \in Q <=> scope \in ScopesOf(event) /\ event.type = type
        /\ Q = P \/ Q = P \cup {o}
    BY <1>2, <2>2, <2>3 DEF Counted
  <2>5. log'.totals = log.totals (+) SetToBag(S)
    BY <2>1 DEF Recorded
  <2>6. row \in S <=> o \in Q
    BY <2>0, <2>1, <2>4
  <2>7. Copies(row, log.totals) = Cardinality(P)
    BY <2>0, <2>2 DEF StatisticsCount
  <2>8. Copies(row, log'.totals)
          = IF row \in S THEN Copies(row, log.totals) + 1 ELSE Copies(row, log.totals)
    <3>1. PICK B : B = log.totals
      OBVIOUS
    <3>2. PICK C : C = log'.totals
      OBVIOUS
    <3>3. IsABag(B) /\ C = B (+) SetToBag(S)
      BY <1>1, <2>5, <3>1, <3>2
    <3> QED
      BY ONLY <3>1, <3>2, <3>3, CopiesAdd
  <2>9. Cardinality(Q) = IF o \in Q THEN Cardinality(P) + 1 ELSE Cardinality(P)
    BY <1>1, <1>2, <2>4, PartGrows
  <2> QED
    BY <2>0, <2>3, <2>6, <2>7, <2>8, <2>9
<1>5. ASSUME NEW minute \in Int, NEW scope, NEW type, minute >= Cutoff(now)
      PROVE  Copies(<<minute, scope, type>>, log'.buckets)
                = Cardinality(CountedAt(minute, scope, type)')
  <2>0. PICK row : row = <<minute, scope, type>>
    OBVIOUS
  <2>1. PICK S : S = {MinuteOf(event.at)} \X ScopesOf(event) \X {event.type}
    OBVIOUS
  <2>2. PICK P : P = CountedAt(minute, scope, type)
    OBVIOUS
  <2>3. PICK Q : Q = CountedAt(minute, scope, type)'
    OBVIOUS
  <2>4. /\ P \in SUBSET Occurrences
        /\ o \in Q <=> /\ scope \in ScopesOf(event) /\ event.type = type
                       /\ MinuteOf(event.at) = minute
        /\ Q = P \/ Q = P \cup {o}
    BY <1>2, <2>2, <2>3 DEF Counted, CountedAt
  <2>5. log'.buckets = log.buckets (+) SetToBag(S)
    BY <2>1 DEF Recorded
  <2>6. row \in S <=> o \in Q
    BY <2>0, <2>1, <2>4
  <2>7. Copies(row, log.buckets) = Cardinality(P)
    BY <1>5, <2>0, <2>2 DEF StatisticsCount
  <2>8. Copies(row, log'.buckets)
          = IF row \in S THEN Copies(row, log.buckets) + 1 ELSE Copies(row, log.buckets)
    <3>1. PICK B : B = log.buckets
      OBVIOUS
    <3>2. PICK C : C = log'.buckets
      OBVIOUS
    <3>3. IsABag(B) /\ C = B (+) SetToBag(S)
      BY <1>1, <2>5, <3>1, <3>2
    <3> QED
      BY ONLY <3>1, <3>2, <3>3, CopiesAdd
  <2>9. Cardinality(Q) = IF o \in Q THEN Cardinality(P) + 1 ELSE Cardinality(P)
    BY <1>1, <1>2, <2>4, PartGrows
  <2> QED
    BY <2>0, <2>3, <2>6, <2>7, <2>8, <2>9
<1> QED
  BY <1>3, <1>4, <1>5 DEF StatisticsCount

(* Time and pruning only take away buckets of minutes before the cutoff.   *)
LEMMA StatisticsAge ==
    ASSUME IInv, StatisticsCount, recorded' = recorded, now' \in Nat, now <= now',
           log' = log \/ log' = PrunedBefore(log, Cutoff(now))
    PROVE  StatisticsCount'
<1>0. /\ now \in Nat
      /\ log = [events |-> log.events, totals |-> log.totals, buckets |-> log.buckets]
  BY DEF IInv, TypeOK, DetailRows
<1>1. UNCHANGED Occurrences
  BY DEF Occurrences
<1>2. \A minute, scope, type : /\ UNCHANGED Counted(scope, type)
                               /\ UNCHANGED CountedAt(minute, scope, type)
  BY <1>1 DEF Counted, CountedAt
<1>3. log'.totals = log.totals
  BY <1>0 DEF PrunedBefore
<1>4. ASSUME NEW minute \in Int, minute >= Cutoff(now'), NEW scope, NEW type
      PROVE  /\ minute >= Cutoff(now)
             /\ Copies(<<minute, scope, type>>, log'.buckets)
                   = Copies(<<minute, scope, type>>, log.buckets)
  <2>1. minute >= Cutoff(now)
    BY ONLY <1>0, <1>4, RetentionAssumption, now' \in Nat, now <= now', minute \in Int
       DEF Cutoff
  <2>2. CASE log' = log
    BY <2>1, <2>2
  <2>3. CASE log' = PrunedBefore(log, Cutoff(now))
    <3>1. log'.buckets = [row \in {r \in DOMAIN log.buckets : r[1] >= Cutoff(now)}
                            |-> log.buckets[row]]
      BY <1>0, <2>3 DEF PrunedBefore, Rows
    <3>2. PICK row : row = <<minute, scope, type>>
      OBVIOUS
    <3>3. row[1] = minute
      BY <3>2
    <3>4. Copies(row, log'.buckets) = Copies(row, log.buckets)
      BY <2>1, <3>1, <3>3 DEF Copies
    <3> QED
      BY <2>1, <3>2, <3>4
  <2> QED
    BY <2>2, <2>3
<1> QED
  BY <1>1, <1>2, <1>3, <1>4 DEF StatisticsCount

LEMMA StatisticsNext == IInv /\ StatisticsCount /\ [Next]_vars => StatisticsCount'
<1>1. SUFFICES ASSUME IInv, StatisticsCount, [Next]_vars PROVE StatisticsCount'
  OBVIOUS
<1>2. now \in Nat
  BY <1>1 DEF IInv, TypeOK
<1>3. CASE \E event \in Event :
                /\ event.at = now /\ UNCHANGED now
                /\ log' = Recorded(log, event)
                /\ recorded' = recorded (+) SetToBag({event})
  BY <1>1, <1>3, StatisticsRecord
<1>4. CASE UNCHANGED <<log, recorded>> /\ now' \in Nat /\ now <= now'
  <2>1. log' = log /\ recorded' = recorded
    BY <1>4
  <2> QED
    BY <1>1, <1>4, <2>1, StatisticsAge
<1>5. CASE log' = PrunedBefore(log, Cutoff(now)) /\ UNCHANGED <<now, recorded>>
  BY <1>1, <1>2, <1>5, StatisticsAge
<1> QED
  BY <1>1, <1>3, <1>4, <1>5, LogStep

(* The detail view and the statistics never miss an event that was         *)
(* recorded: the totals of every scope count all of them, heartbeats too,  *)
(* the buckets all of the retention, whenever and however often processes  *)
(* prune.                                                                  *)
THEOREM LogIsComplete == Spec => []LogComplete
<1>1. IInv /\ StatisticsCount => StatisticsComplete
  <2>1. SUFFICES ASSUME IInv, StatisticsCount PROVE StatisticsComplete
    OBVIOUS
  <2>2. \A m \in {MinuteOf(t) : t \in 0 .. now} : m \in Int
    BY <2>1, RetentionAssumption DEF MinuteOf, IInv, TypeOK
  <2> QED
    BY <2>1, <2>2 DEF StatisticsCount, StatisticsComplete
<1>2. Spec => []StatisticsComplete
  BY <1>1, StatisticsInit, StatisticsNext, Invariance, PTL DEF Spec
<1> QED
  BY <1>2, DetailComplete, PTL DEF LogComplete
=============================================================================
