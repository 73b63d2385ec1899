------------------------------ MODULE Directory ------------------------------
(***************************************************************************)
(* Customers, the licenses they own and the allowlists of these: what      *)
(* AdminService does to them in several statements, and the activity log   *)
(* it writes.  Operators (administrators of the REST API or of the command *)
(* line) act at the same time; between two awaits of an operation          *)
(* everybody else may act.                                                 *)
(*                                                                         *)
(* LicenseRuntime follows the sessions of one license in detail.  Here     *)
(* activate is followed as far as the deletion of a license meets it: the  *)
(* transaction that holds the row of the license (findLicenseAdmission-    *)
(* Policy, "for update"), the script in Redis between, the connection that *)
(* may be lost meanwhile, the removal in the catch block.  Left out: what  *)
(* makes an activation refuse (any may be refused), and the expiry of a    *)
(* session, which only removes.  The IP and the device allowlist of a      *)
(* license are alike and independent; allowed is either of them.  A        *)
(* request for something that is not there, or with an invalid email, is   *)
(* refused without effect and left out.                                    *)
(***************************************************************************)
EXTENDS ActivityLog

CONSTANTS
    Operator,       \* administrators acting at the same time
    Client,         \* applications acting at the same time
    CustomerId,     \* ids customers may get
    LicenseId,      \* ids licenses may get
    Token,          \* session tokens that may be drawn
    Spelling,       \* emails as they are typed
    NormalForm,     \* trim and toLowerCase of each
    Entry,          \* entries of an allowlist
    Mixes,          \* sets of operations that may happen in one behaviour
    FirstCustomer, FirstLicense, FirstEmail,    \* what is there initially
    MaxTime,        \* bound: the time modelled
    MaxOperations,  \* bound: the operations modelled
    MaxFaults       \* bound: the failures modelled

Operations == {"create", "update", "delete", "issue", "transfer", "withdraw", "allow",
               "disallow", "activate", "heartbeat", "deactivate", "time"}

ASSUME NormalFormAssumption ==
    /\ NormalForm \in [Spelling -> Spelling]
    /\ \A s \in Spelling : NormalForm[NormalForm[s]] = NormalForm[s]
ASSUME IdAssumption ==
    /\ FirstCustomer \in CustomerId /\ FirstLicense \in LicenseId
    /\ FirstEmail \in {NormalForm[s] : s \in Spelling}
    /\ None \notin CustomerId \cup LicenseId \cup Token \cup Spelling
    /\ CustomerId \cap LicenseId = {} /\ Token \cap (CustomerId \cup LicenseId) = {}
    /\ Operator \cap Client = {}
ASSUME MixAssumption == Mixes \subseteq SUBSET Operations
ASSUME BoundAssumption ==
    MaxTime \in Nat /\ MaxOperations \in Nat /\ MaxFaults \in Nat

VARIABLES
    customers,  \* the email of every customer, None without a row
    licenses,   \* the licenses that have a row
    owner,      \* the customer of every license; stays when it is deleted
    updatedAt,  \* counts the updates of a license, nextLicenseUpdatedAt
    allowed,    \* the entries of the allowlist of every license
    sessions,   \* the tokens of the sessions in Redis
    sent,       \* tokens whose script may run yet though its handler gave up
    licenseOf,  \* the license a token was drawn for
    handed,     \* tokens returned to their client
    actor,      \* local state of every operator and client
    log,        \* the activity log
    now,
    mix,        \* which operations happen in this behaviour
    operations, \* bound: operations so far
    faults,     \* bound: failures so far
    issued,     \* ids and tokens drawn so far; none is drawn twice
    recorded,   \* history: every event ever recorded
    leftover,   \* history: licenses and tokens whose sessions nobody removes any more
    unaudited   \* history: deletions whose audit event was not recorded

rows == <<customers, licenses, owner, updatedAt, allowed, issued>>
tokens == <<sessions, sent, licenseOf, handed>>
bounds == <<mix, operations>>
history == <<recorded, leftover, unaudited>>
vars == <<rows, tokens, actor, log, now, bounds, faults, history>>

-----------------------------------------------------------------------------
(* Types                                                                   *)

EventType == {"customer.created", "customer.updated", "customer.deleted",
              "license.created", "license.updated", "license.deleted",
              "license.activation_attempted", "license.activation_succeeded",
              "license.activation_rejected", "license.heartbeat", "license.deactivated"}

(* The event of a deletion names what was deleted.                         *)
Event == {e \in [type : EventType, customer : CustomerId \cup {None},
                 license : LicenseId \cup {None}, at : Nat] :
             /\ e.type = "customer.deleted" => e.customer # None
             /\ e.type = "license.deleted" => e.license # None}

(* An activity before record gives it its time.                            *)
Activity(type, customer, license) ==
    [type |-> type, customer |-> customer, license |-> license, at |-> 0]

ActorState == [pc : {"idle", "update", "row", "list", "insert", "delete", "before", "add",
                     "remove", "transfer", "reload", "cleanup", "admit", "store", "commit",
                     "capture"},
               customer : CustomerId \cup {None},
               license : LicenseId \cup {None},
               value : Spelling \cup Entry \cup {None},
               seen : Nat,                  \* updatedAt as it was read
               token : Token \cup {None},   \* of the session being registered
               lost : BOOLEAN,              \* its transaction is gone, the locks are free
               listed : SUBSET LicenseId,   \* licenses whose sessions are to be removed
               warning : BOOLEAN,           \* before was empty, the answer warns
               removed : BOOLEAN,           \* history: an entry was removed since before
               activity : Event]            \* what is captured next

Idle == [pc |-> "idle", customer |-> None, license |-> None, value |-> None,
         seen |-> 0, token |-> None, lost |-> FALSE,
         listed |-> {}, warning |-> FALSE, removed |-> FALSE,
         activity |-> Activity("customer.created", None, None)]

Customers == {c \in CustomerId : customers[c] # None}

(* Two customers never have emails that only differ in their spelling,     *)
(* although nobody looks before createCustomer and updateCustomer write.   *)
EmailsUnique ==
    \A c, d \in Customers :
        c # d => NormalForm[customers[c]] # NormalForm[customers[d]]

(* A license always has its customer and an entry its license, although    *)
(* createLicense, updateLicense and allowLicenseIp check long before they  *)
(* write.                                                                  *)
ReferencesHold ==
    /\ \A l \in licenses : owner[l] \in Customers
    /\ \A l \in LicenseId : allowed[l] # {} => l \in licenses

(* The type invariant: every variable keeps its shape, and the rows keep   *)
(* the constraints of the schema that no operation checks in time.         *)
TypeOK ==
    /\ customers \in [CustomerId -> Spelling \cup {None}]
    /\ licenses \subseteq LicenseId
    /\ owner \in [LicenseId -> CustomerId \cup {None}]
    /\ updatedAt \in [LicenseId -> Nat]
    /\ allowed \in [LicenseId -> SUBSET Entry]
    /\ sessions \subseteq Token /\ sent \subseteq Token /\ handed \subseteq Token
    /\ licenseOf \in [Token -> LicenseId \cup {None}]
    /\ actor \in [Operator \cup Client -> ActorState]
    /\ IsABag(log.events) /\ BagToSet(log.events) \subseteq Event
    /\ IsABag(log.totals) /\ IsABag(log.buckets)
    /\ now \in 0 .. MaxTime
    /\ mix \in Mixes
    /\ operations \in 0 .. MaxOperations
    /\ faults \in 0 .. MaxFaults
    /\ issued \subseteq CustomerId \cup LicenseId \cup Token
    /\ IsABag(recorded) /\ BagToSet(recorded) \subseteq Event
    /\ leftover \subseteq LicenseId \cup Token
    /\ unaudited \subseteq CustomerId \cup LicenseId
    /\ EmailsUnique
    /\ ReferencesHold

(* A customer with a license, as an earlier createCustomer and             *)
(* createLicense left them.                                                *)
Init ==
    /\ customers = [c \in CustomerId |-> IF c = FirstCustomer THEN FirstEmail ELSE None]
    /\ licenses = {FirstLicense}
    /\ owner = [l \in LicenseId |-> IF l = FirstLicense THEN FirstCustomer ELSE None]
    /\ updatedAt = [l \in LicenseId |-> 0]
    /\ allowed = [l \in LicenseId |-> {}]
    /\ sessions = {} /\ sent = {} /\ handed = {}
    /\ licenseOf = [t \in Token |-> None]
    /\ actor = [a \in Operator \cup Client |-> Idle]
    /\ log = EmptyLog
    /\ now = 0
    /\ mix \in Mixes
    /\ operations = 0
    /\ faults = 0
    /\ issued = {FirstCustomer, FirstLicense}
    /\ recorded = EmptyBag
    /\ leftover = {}
    /\ unaudited = {}

-----------------------------------------------------------------------------
(* Steps in common                                                         *)

Goto(a, state) == actor' = [actor EXCEPT ![a] = state]

(* An operation starts.                                                    *)
Begin(a, operation) ==
    /\ actor[a] = Idle
    /\ operation \in mix
    /\ operations < MaxOperations
    /\ operations' = operations + 1
    /\ UNCHANGED mix

(* On to the capture of an activity.                                       *)
Capturing(state, type, customer, license) ==
    [state EXCEPT !.pc = "capture", !.activity = Activity(type, customer, license)]

(* The id whose deletion an activity reports.                              *)
DeletedBy(activity) ==
    CASE activity.type = "customer.deleted" -> {activity.customer}
      [] activity.type = "license.deleted" -> {activity.license}
      [] OTHER -> {}

(* AdminService.capture and ActivityService.capture: a failure is          *)
(* swallowed.  After the success of an activation, the one capture that    *)
(* comes with a token, the answer leaves.                                  *)
Capture(a) ==
    LET event == [actor[a].activity EXCEPT !.at = now]
        next == IF event.type = "license.activation_attempted"
                THEN [actor[a] EXCEPT !.pc = "admit"] ELSE Idle
    IN  /\ actor[a].pc = "capture"
        /\ \/ /\ log' = Recorded(log, event)
              /\ recorded' = recorded (+) SetToBag({event})
              /\ UNCHANGED <<faults, unaudited>>
           \/ /\ faults < MaxFaults
              /\ faults' = faults + 1
              /\ unaudited' = unaudited \cup DeletedBy(event)
              /\ UNCHANGED <<log, recorded>>
        /\ handed' = handed \cup ({actor[a].token} \ {None})
        /\ Goto(a, next)
        /\ UNCHANGED <<rows, sessions, sent, licenseOf, now, bounds, leftover>>

(* Whose sessions nobody removes when an operation ends here: those listed *)
(* and not yet cleaned up, the one an activation stored for a license that *)
(* is gone.                                                                *)
Abandoned(state) ==
    CASE state.pc = "cleanup" -> state.listed
      [] state.pc = "commit" /\ state.license \notin licenses -> {state.token}
      [] OTHER -> {}

(* The process of an operation dies, or the connection it works on.  The   *)
(* locks of a transaction are free then; a script on its way to Redis may  *)
(* arrive later.                                                           *)
Crash(a) ==
    /\ actor[a].pc # "idle"
    /\ faults < MaxFaults
    /\ faults' = faults + 1
    /\ leftover' = leftover \cup Abandoned(actor[a])
    /\ unaudited' = IF actor[a].pc \in {"cleanup", "capture"}
                    THEN unaudited \cup DeletedBy(actor[a].activity) ELSE unaudited
    /\ sent' = IF actor[a].pc = "store" THEN sent \cup {actor[a].token} ELSE sent
    /\ Goto(a, Idle)
    /\ UNCHANGED <<rows, sessions, licenseOf, handed, log, now, bounds, recorded>>

(* Deliberate fault: the row is read without "for update".                 *)
LockedNever(l) == FALSE

(* The row of a license is locked by an activation in progress: whoever    *)
(* updates or deletes it or refers to it waits.                            *)
Locked(l) ==
    \E k \in Client : /\ actor[k].pc \in {"store", "commit"}
                      /\ actor[k].license = l
                      /\ ~actor[k].lost

-----------------------------------------------------------------------------
(* Customers                                                               *)

(* Deliberate fault: the email is stored as it was typed.                  *)
CustomerEmailTyped(spelling) == spelling

(* customerEmail                                                           *)
CustomerEmail(spelling) == NormalForm[spelling]

(* customers_email_unique                                                  *)
EmailFree(email, c) == \A d \in CustomerId \ {c} : customers[d] # email

(* createCustomer.  A duplicate email ends it with ConflictError.          *)
CreateCustomer(o) ==
    /\ Begin(o, "create")
    /\ \E s \in Spelling, c \in CustomerId \ issued :
          LET email == CustomerEmail(s)
          IN  IF EmailFree(email, c)
              THEN /\ customers' = [customers EXCEPT ![c] = email]
                   /\ issued' = issued \cup {c}
                   /\ Goto(o, Capturing(Idle, "customer.created", c, None))
              ELSE UNCHANGED <<customers, issued, actor>>
    /\ UNCHANGED <<licenses, owner, updatedAt, allowed, tokens, log, now, faults, history>>

(* updateCustomer: getCustomer                                             *)
UpdateCustomer(o) ==
    /\ Begin(o, "update")
    /\ \E c \in Customers, s \in Spelling :
          Goto(o, [Idle EXCEPT !.pc = "update", !.customer = c, !.value = s])
    /\ UNCHANGED <<rows, tokens, log, now, faults, history>>

(* customerRepo.update: a row that is gone meanwhile is an error (status   *)
(* 500), a duplicate email a ConflictError.                                *)
UpdateCustomerRow(o) ==
    LET c == actor[o].customer
        email == CustomerEmail(actor[o].value)
    IN  /\ actor[o].pc = "update"
        /\ IF c \in Customers /\ EmailFree(email, c)
           THEN /\ customers' = [customers EXCEPT ![c] = email]
                /\ Goto(o, Capturing(Idle, "customer.updated", c, None))
           ELSE Goto(o, Idle) /\ UNCHANGED customers
        /\ UNCHANGED <<licenses, owner, updatedAt, allowed, issued, tokens, log, now,
                       bounds, faults, history>>

(* deleteCustomer: getCustomer                                             *)
DeleteCustomer(o) ==
    /\ Begin(o, "delete")
    /\ \E c \in Customers : Goto(o, [Idle EXCEPT !.pc = "list", !.customer = c])
    /\ UNCHANGED <<rows, tokens, log, now, faults, history>>

(* licenseRepo.findAll, filtered by customer                               *)
ListLicenses(o) ==
    /\ actor[o].pc = "list"
    /\ Goto(o, [actor[o] EXCEPT !.pc = "delete",
                    !.listed = {l \in licenses : owner[l] = actor[o].customer}])
    /\ UNCHANGED <<rows, tokens, log, now, bounds, faults, history>>

(* The sessions of these licenses are removed, and then captured what was  *)
(* deleted.                                                                *)
CleaningUp(listed, type, customer, license) ==
    [Capturing(Idle, type, customer, license)
        EXCEPT !.listed = listed, !.pc = IF listed = {} THEN "capture" ELSE "cleanup"]

(* Deliberate fault: the licenses are listed when they are gone already.   *)
ToCleanUpLate(o) == {l \in licenses' : owner[l] = actor[o].customer}

(* The licenses listed before the deletion.                                *)
ToCleanUp(o) == actor[o].listed

(* customerRepo.delete, with the cascade to licenses and allowlists.  A    *)
(* row that is gone already is no error.                                   *)
DeleteCustomerRow(o) ==
    LET c == actor[o].customer
        owned == {l \in licenses : owner[l] = c}
    IN  /\ actor[o].pc = "delete"
        /\ \A l \in owned : ~Locked(l)
        /\ customers' = [customers EXCEPT ![c] = None]
        /\ licenses' = licenses \ owned
        /\ allowed' = [l \in LicenseId |-> IF l \in owned THEN {} ELSE allowed[l]]
        /\ leftover' = leftover \cup (owned \ actor[o].listed)
        /\ Goto(o, CleaningUp(ToCleanUp(o), "customer.deleted", c, None))
        /\ UNCHANGED <<owner, updatedAt, issued, tokens, log, now, bounds, faults,
                       recorded, unaudited>>

(* Deliberate fault: a failed clean up ends the operation.                 *)
AfterCleanupThrowing(o, l, failed) ==
    LET rest == actor[o].listed \ {l}
    IN  IF failed THEN Idle
        ELSE [actor[o] EXCEPT !.listed = rest,
                 !.pc = IF rest = {} THEN "capture" ELSE "cleanup"]

(* Whether it failed or not, the rest is cleaned up and captured.          *)
AfterCleanup(o, l, failed) ==
    LET rest == actor[o].listed \ {l}
    IN  [actor[o] EXCEPT !.listed = rest, !.pc = IF rest = {} THEN "capture" ELSE "cleanup"]

(* removeSessionsBestEffort for one of the licenses listed; Promise.all    *)
(* runs them in any order.                                                 *)
Cleanup(o) ==
    /\ actor[o].pc = "cleanup"
    /\ \E l \in actor[o].listed :
          \/ /\ sessions' = {t \in sessions : licenseOf[t] # l}
             /\ Goto(o, AfterCleanup(o, l, FALSE))
             /\ UNCHANGED <<faults, leftover>>
          \/ /\ faults < MaxFaults
             /\ faults' = faults + 1
             /\ leftover' = leftover \cup {l}
             /\ Goto(o, AfterCleanup(o, l, TRUE))
             /\ UNCHANGED sessions
    /\ UNCHANGED <<rows, sent, licenseOf, handed, log, now, bounds, recorded, unaudited>>

-----------------------------------------------------------------------------
(* Licenses and allowlists                                                 *)

(* createLicense: findById of the customer                                 *)
CreateLicense(o) ==
    /\ Begin(o, "issue")
    /\ \E c \in Customers : Goto(o, [Idle EXCEPT !.pc = "insert", !.customer = c])
    /\ UNCHANGED <<rows, tokens, log, now, faults, history>>

(* Deliberate fault: the check of the customer is trusted.                 *)
OwnerThereTrusted(o) == TRUE

(* The foreign key of licenses.                                            *)
OwnerThere(o) == actor[o].customer \in Customers

(* licenseRepo.create; a customer deleted meanwhile is an error.           *)
InsertLicense(o) ==
    LET c == actor[o].customer
    IN  /\ actor[o].pc = "insert"
        /\ \/ /\ OwnerThere(o)
              /\ \E l \in LicenseId \ issued :
                    /\ licenses' = licenses \cup {l}
                    /\ owner' = [owner EXCEPT ![l] = c]
                    /\ issued' = issued \cup {l}
                    /\ Goto(o, Capturing(Idle, "license.created", c, l))
           \/ /\ ~OwnerThere(o)
              /\ Goto(o, Idle)
              /\ UNCHANGED <<licenses, owner, issued>>
        /\ UNCHANGED <<customers, updatedAt, allowed, tokens, log, now, bounds, faults,
                       history>>

(* updateLicense with a customerId: requireLicense, findById of the new    *)
(* customer                                                                *)
TransferLicense(o) ==
    /\ Begin(o, "transfer")
    /\ \E l \in licenses, c \in Customers :
          Goto(o, [Idle EXCEPT !.pc = "transfer", !.customer = c, !.license = l,
                      !.seen = updatedAt[l]])
    /\ UNCHANGED <<rows, tokens, log, now, faults, history>>

(* licenseRepo.update, unless the license changed since it was read, or    *)
(* the customer is gone (foreign key).  An update of something else        *)
(* changes it too, so the update may always be refused.                    *)
TransferLicenseRow(o) ==
    LET l == actor[o].license
        c == actor[o].customer
    IN  /\ actor[o].pc = "transfer"
        /\ \/ /\ l \in licenses /\ ~Locked(l)
              /\ updatedAt[l] = actor[o].seen
              /\ OwnerThere(o)
              /\ owner' = [owner EXCEPT ![l] = c]
              /\ updatedAt' = [updatedAt EXCEPT ![l] = @ + 1]
              /\ Goto(o, [actor[o] EXCEPT !.pc = "reload"])
           \/ Goto(o, Idle) /\ UNCHANGED <<owner, updatedAt>>
        /\ UNCHANGED <<customers, licenses, allowed, issued, tokens, log, now, bounds, faults,
                       history>>

(* update reads the license again to return it; a license deleted          *)
(* meanwhile is an error, and nothing is captured.                         *)
ReloadLicense(o) ==
    LET l == actor[o].license
    IN  /\ actor[o].pc = "reload"
        /\ Goto(o, IF l \in licenses THEN Capturing(Idle, "license.updated", owner[l], l)
                   ELSE Idle)
        /\ UNCHANGED <<rows, tokens, log, now, bounds, faults, history>>

(* An operation on a license: requireLicense                               *)
RequireLicense(o, operation, pc, values) ==
    /\ Begin(o, operation)
    /\ \E l \in licenses, v \in values :
          Goto(o, [Idle EXCEPT !.pc = pc, !.customer = owner[l], !.license = l, !.value = v])
    /\ UNCHANGED <<rows, tokens, log, now, faults, history>>

DeleteLicense(o) == RequireLicense(o, "withdraw", "row", {None})
AllowLicenseIp(o) == RequireLicense(o, "allow", "before", Entry)
RemoveLicenseAllowedIp(o) == RequireLicense(o, "disallow", "remove", Entry)

(* licenseRepo.delete, with the cascade to the allowlist.                  *)
DeleteLicenseRow(o) ==
    LET l == actor[o].license
    IN  /\ actor[o].pc = "row"
        /\ ~Locked(l)
        /\ licenses' = licenses \ {l}
        /\ allowed' = [allowed EXCEPT ![l] = {}]
        /\ Goto(o, CleaningUp({l}, "license.deleted", actor[o].customer, l))
        /\ UNCHANGED <<customers, owner, updatedAt, issued, tokens, log, now, bounds, faults,
                       history>>

(* getAccessRecords: whether the list is empty before the entry is added.  *)
ReadBefore(o) ==
    /\ actor[o].pc = "before"
    /\ Goto(o, [actor[o] EXCEPT !.pc = "add", !.warning = (allowed[actor[o].license] = {})])
    /\ UNCHANGED <<rows, tokens, log, now, bounds, faults, history>>

(* Deliberate fault: the list is looked at once more after the insert.     *)
WarningReread(o) == FALSE

(* restrictionEnabled, from the list as it was before.                     *)
Warning(o) == actor[o].warning

(* addAllowedIp, addAllowedDevice: an entry that is there already is kept, *)
(* a license deleted meanwhile is an error.                                *)
AddAllowed(o) ==
    LET l == actor[o].license
        state == [actor[o] EXCEPT !.removed = FALSE, !.warning = Warning(o)]
    IN  /\ actor[o].pc = "add"
        /\ ~Locked(l)
        /\ IF l \in licenses
           THEN /\ allowed' = [allowed EXCEPT ![l] = @ \cup {actor[o].value}]
                /\ Goto(o, Capturing(state, "license.updated", actor[o].customer, l))
           ELSE Goto(o, Idle) /\ UNCHANGED allowed
        /\ UNCHANGED <<customers, licenses, owner, updatedAt, issued, tokens, log, now,
                       bounds, faults, history>>

(* Others have read the allowlist and are about to add to it.              *)
Overtakes(o, l, state) ==
    actor' = [a \in DOMAIN actor |->
                CASE a = o -> state
                  [] a # o /\ actor[a].pc = "add" /\ actor[a].license = l ->
                        [actor[a] EXCEPT !.removed = TRUE]
                  [] OTHER -> actor[a]]

(* removeAllowedIp, removeAllowedDevice: captured if there was an entry.   *)
RemoveAllowed(o) ==
    LET l == actor[o].license
        v == actor[o].value
    IN  /\ actor[o].pc = "remove"
        /\ allowed' = [allowed EXCEPT ![l] = @ \ {v}]
        /\ IF v \in allowed[l]
           THEN Overtakes(o, l, Capturing(actor[o], "license.updated", actor[o].customer, l))
           ELSE Goto(o, Idle)
        /\ UNCHANGED <<customers, licenses, owner, updatedAt, issued, tokens, log, now,
                       bounds, faults, history>>

-----------------------------------------------------------------------------
(* Applications                                                            *)

(* activate: the license is looked up by its key, and the attempt captured *)
(* whether it was found or not.                                            *)
Activate(k) ==
    /\ Begin(k, "activate")
    /\ \E l \in LicenseId \cap issued :
          LET license == IF l \in licenses THEN l ELSE None
              customer == IF l \in licenses THEN owner[l] ELSE None
          IN  Goto(k, Capturing([Idle EXCEPT !.customer = customer, !.license = license],
                                "license.activation_attempted", customer, license))
    /\ UNCHANGED <<rows, tokens, log, now, faults, history>>

(* An activation ends with an error, captured for the license and the      *)
(* customer looked up at its start.                                        *)
Rejected(k) ==
    Capturing(Idle, "license.activation_rejected", actor[k].customer, actor[k].license)

(* admitActivation, withLicenseRegistrationLock: the row is locked, the    *)
(* policy of the license admits or refuses, and registerSession draws a    *)
(* token.                                                                  *)
AdmitActivation(k) ==
    LET l == actor[k].license
    IN  /\ actor[k].pc = "admit"
        /\ ~Locked(l)
        /\ \/ /\ l \in licenses
              /\ \E t \in Token \ issued :
                    /\ issued' = issued \cup {t}
                    /\ licenseOf' = [licenseOf EXCEPT ![t] = l]
                    /\ Goto(k, [actor[k] EXCEPT !.pc = "store", !.token = t])
           \/ Goto(k, Rejected(k)) /\ UNCHANGED <<issued, licenseOf>>
        /\ UNCHANGED <<customers, licenses, owner, updatedAt, allowed, sessions, sent, handed,
                       log, now, bounds, faults, history>>

(* The script of registerSession stores the session, or refuses to; Redis  *)
(* does not know of the transaction around it.  A handler that never gets  *)
(* the answer gives up, and the script may run yet.                        *)
StoreSession(k) ==
    LET t == actor[k].token
    IN  /\ actor[k].pc = "store"
        /\ \/ /\ sessions' = sessions \cup {t}
              /\ Goto(k, [actor[k] EXCEPT !.pc = "commit"])
              /\ UNCHANGED <<sent, faults>>
           \/ Goto(k, Rejected(k)) /\ UNCHANGED <<sessions, sent, faults>>
           \/ /\ faults < MaxFaults
              /\ faults' = faults + 1
              /\ sent' = sent \cup {t}
              /\ Goto(k, Rejected(k))
              /\ UNCHANGED sessions
        /\ UNCHANGED <<rows, licenseOf, handed, log, now, bounds, history>>

(* A script runs whose handler gave up: its token is nobody's.             *)
StoreLate(t) ==
    /\ t \in sent
    /\ sent' = sent \ {t}
    /\ sessions' = sessions \cup {t}
    /\ leftover' = leftover \cup IF licenseOf[t] \in licenses THEN {} ELSE {t}
    /\ UNCHANGED <<rows, licenseOf, handed, actor, log, now, bounds, faults, recorded,
                   unaudited>>

(* The database ends the transaction of an activation: its connection, a   *)
(* statement after the script or its COMMIT fails.  The handler learns of  *)
(* it when it next uses the transaction.                                   *)
TransactionLost(k) ==
    /\ actor[k].pc \in {"store", "commit"} /\ ~actor[k].lost
    /\ faults < MaxFaults
    /\ faults' = faults + 1
    /\ Goto(k, [actor[k] EXCEPT !.lost = TRUE])
    /\ UNCHANGED <<rows, tokens, log, now, bounds, history>>

(* The transaction commits: activated for the customer the row names.      *)
CommitActivation(k) ==
    LET l == actor[k].license
    IN  /\ actor[k].pc = "commit" /\ ~actor[k].lost
        /\ Goto(k, Capturing([Idle EXCEPT !.token = actor[k].token],
                             "license.activation_succeeded", owner[l], l))
        /\ UNCHANGED <<rows, tokens, log, now, bounds, faults, history>>

(* The catch block of admitActivation: its own session is removed, or not. *)
UndoActivation(k) ==
    /\ actor[k].pc = "commit" /\ actor[k].lost
    /\ \/ /\ sessions' = sessions \ {actor[k].token}
          /\ UNCHANGED <<faults, leftover>>
       \/ /\ faults < MaxFaults
          /\ faults' = faults + 1
          /\ leftover' = leftover \cup Abandoned(actor[k])
          /\ UNCHANGED sessions
    /\ Goto(k, Rejected(k))
    /\ UNCHANGED <<rows, sent, licenseOf, handed, log, now, bounds, recorded, unaudited>>

(* heartbeat: the session of a license that is gone is removed.            *)
Heartbeat(k) ==
    /\ Begin(k, "heartbeat")
    /\ \E t \in sessions \cap handed :
          LET l == licenseOf[t]
          IN  IF l \in licenses
              THEN /\ Goto(k, Capturing(Idle, "license.heartbeat", owner[l], l))
                   /\ UNCHANGED sessions
              ELSE sessions' = sessions \ {t} /\ UNCHANGED actor
    /\ UNCHANGED <<rows, sent, licenseOf, handed, log, now, faults, history>>

(* deactivate: the customer is known as long as the license is there.      *)
Deactivate(k) ==
    /\ Begin(k, "deactivate")
    /\ \E t \in sessions \cap handed :
          LET l == licenseOf[t]
          IN  /\ sessions' = sessions \ {t}
              /\ Goto(k, Capturing(Idle, "license.deactivated",
                                   IF l \in licenses THEN owner[l] ELSE None, l))
    /\ UNCHANGED <<rows, sent, licenseOf, handed, log, now, faults, history>>

-----------------------------------------------------------------------------
(* Time                                                                    *)

Tick ==
    /\ "time" \in mix
    /\ now < MaxTime
    /\ now' = now + 1
    /\ UNCHANGED <<rows, tokens, actor, log, bounds, faults, history>>

(* pruneExpiredActivity, at the start of a process and then once a day; a  *)
(* process may start at any time.                                          *)
Prune ==
    /\ "time" \in mix
    /\ log' = PrunedBefore(log, Cutoff(now))
    /\ UNCHANGED <<rows, tokens, actor, now, bounds, faults, history>>

-----------------------------------------------------------------------------
OperatorStep(o) ==
    \/ CreateCustomer(o)
    \/ UpdateCustomer(o) \/ UpdateCustomerRow(o)
    \/ DeleteCustomer(o) \/ ListLicenses(o) \/ DeleteCustomerRow(o)
    \/ CreateLicense(o) \/ InsertLicense(o)
    \/ TransferLicense(o) \/ TransferLicenseRow(o) \/ ReloadLicense(o)
    \/ DeleteLicense(o) \/ DeleteLicenseRow(o)
    \/ AllowLicenseIp(o) \/ ReadBefore(o) \/ AddAllowed(o)
    \/ RemoveLicenseAllowedIp(o) \/ RemoveAllowed(o)
    \/ Cleanup(o)

ClientStep(k) ==
    \/ Activate(k) \/ AdmitActivation(k) \/ StoreSession(k)
    \/ TransactionLost(k) \/ CommitActivation(k) \/ UndoActivation(k)
    \/ Heartbeat(k) \/ Deactivate(k)

Next ==
    \/ \E o \in Operator : OperatorStep(o)
    \/ \E k \in Client : ClientStep(k)
    \/ \E a \in Operator \cup Client : Capture(a) \/ Crash(a)
    \/ \E t \in Token : StoreLate(t)
    \/ Tick
    \/ Prune

Spec == Init /\ [][Next]_vars

-----------------------------------------------------------------------------
(* Properties                                                              *)

(* The deletion of a license or of its customer ends its sessions.  A      *)
(* session of a license that is gone is one an operator is still cleaning  *)
(* up, or one an activation whose transaction was lost has stored late and *)
(* will remove, or leftover names why nobody removes it: its clean up      *)
(* failed or died; the license was created for the customer, or moved to   *)
(* it by updateLicense, after deleteCustomer had listed the licenses; the  *)
(* activation that stored it late died or could not remove it, or had      *)
(* given up before its script ran.  (A heartbeat or the expiry ends those.)*)
SessionsEnd ==
    \A t \in sessions :
        LET l == licenseOf[t]
        IN  \/ l \in licenses
            \/ \E o \in Operator : actor[o].pc = "cleanup" /\ l \in actor[o].listed
            \/ \E k \in Client : actor[k].pc = "commit" /\ actor[k].token = t /\ actor[k].lost
            \/ {l, t} \cap leftover # {}

(* Every deletion is in the audit, unless recording it failed: also when   *)
(* sessions could not be removed, when two operators delete the same, or   *)
(* when the customer of a license is deleted instead of the license.       *)
DeletionsAudited ==
    LET Reported(type, field, id) ==
            \/ \E event \in BagToSet(recorded) : event.type = type /\ event[field] = id
            \/ \E o \in Operator : /\ actor[o].pc \in {"cleanup", "capture"}
                                   /\ actor[o].activity.type = type
                                   /\ actor[o].activity[field] = id
            \/ id \in unaudited
    IN  /\ \A c \in (CustomerId \cap issued) \ Customers :
              Reported("customer.deleted", "customer", c)
        /\ \A l \in (LicenseId \cap issued) \ licenses :
              \/ Reported("license.deleted", "license", l)
              \/ owner[l] \notin Customers

(* The operator whose entry makes a list restrictive is warned ("adding    *)
(* its first entry makes that dimension restrictive and returns a          *)
(* warning"), however many add to it at the same time, unless somebody     *)
(* removed an entry between his read and his insert.                       *)
RestrictionWarned ==
    [][\A o \in Operator :
          (/\ actor[o].pc = "add" /\ actor'[o].pc = "capture"
           /\ allowed[actor[o].license] = {}
           /\ ~actor[o].removed)
             => actor'[o].warning]_vars

(* Pruning only removes what is older than the retention: the activity and *)
(* access views show every event of that time, whenever and however often  *)
(* processes prune.                                                        *)
DetailKept ==
    Shown(log, Cutoff(now)) =
        Rows(recorded, LAMBDA event : event.at >= Cutoff(now)
                                         /\ event.type # "license.heartbeat")

(* Every event recorded, each of its copies by itself, and those among     *)
(* them that count for a scope and a type.                                 *)
Occurrences == UNION {{event} \X (1 .. recorded[event]) : event \in BagToSet(recorded)}

Counted(scope, type) ==
    {o \in Occurrences : scope \in ScopesOf(o[1]) /\ o[1].type = type}

CountedAt(minute, scope, type) ==
    {o \in Counted(scope, type) : MinuteOf(o[1].at) = minute}

(* The statistics count every event recorded, heartbeats too: the lifetime *)
(* totals of every scope without exception ("Lifetime totals remain"), the *)
(* buckets of a minute as long as the minute is within the retention.      *)
StatisticsComplete ==
    LET scopes == UNION {ScopesOf(event) : event \in BagToSet(recorded)}
        types == {event.type : event \in BagToSet(recorded)}
        minutes == {m \in {MinuteOf(t) : t \in 0 .. now} : m >= Cutoff(now)}
    IN  \A scope \in scopes, type \in types :
           /\ Copies(<<scope, type>>, log.totals) = Cardinality(Counted(scope, type))
           /\ \A m \in minutes :
                 Copies(<<m, scope, type>>, log.buckets)
                    = Cardinality(CountedAt(m, scope, type))

(* What capture recorded can be looked up and is counted.                  *)
LogComplete == DetailKept /\ StatisticsComplete
=============================================================================
