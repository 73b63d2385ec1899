----------------------------- MODULE ActivityLog -----------------------------
(***************************************************************************)
(* The three tables of DrizzleActivityRepository as bags: the detail rows  *)
(* (activity_events), the lifetime totals per scope and type               *)
(* (activity_totals) and the counts per minute (activity_minute_buckets).  *)
(* record and pruneBefore are one transaction each, so each is one         *)
(* operator on the log.  What an event says besides its type, its scopes   *)
(* and its time is left out.                                               *)
(***************************************************************************)
EXTENDS Integers, FiniteSets, Bags

CONSTANTS
    Retention,  \* KEYZORI_EVENT_RETENTION_DAYS
    Minute,     \* a minute, in the unit of the time stamps
    None        \* no customer, no license

ASSUME RetentionAssumption == Retention \in Nat \ {0} /\ Minute \in Nat \ {0}

EmptyLog == [events |-> EmptyBag, totals |-> EmptyBag, buckets |-> EmptyBag]

(* scopesForEvent                                                          *)
ScopesOf(event) ==
    {<<"global", None>>}
        \cup {<<"customer", c>> : c \in {event.customer} \ {None}}
        \cup {<<"license", l>> : l \in {event.license} \ {None}}

(* setUTCSeconds(0, 0)                                                     *)
MinuteOf(time) == time - (time % Minute)

(* Deliberate fault: a heartbeat is only counted per minute.               *)
RecordedUncounted(log, event) ==
    LET one == SetToBag({event})
        beat == event.type = "license.heartbeat"
    IN  [events |-> IF beat THEN log.events ELSE log.events (+) one,
         totals |-> IF beat THEN log.totals
                    ELSE log.totals (+) SetToBag(ScopesOf(event) \X {event.type}),
         buckets |-> log.buckets (+)
                        SetToBag({MinuteOf(event.at)} \X ScopesOf(event) \X {event.type})]

(* DrizzleActivityRepository.record                                        *)
Recorded(log, event) ==
    [events |-> IF event.type = "license.heartbeat" THEN log.events
                ELSE log.events (+) SetToBag({event}),
     totals |-> log.totals (+) SetToBag(ScopesOf(event) \X {event.type}),
     buckets |-> log.buckets (+)
                    SetToBag({MinuteOf(event.at)} \X ScopesOf(event) \X {event.type})]

(* The rows of a table that satisfy a condition.                           *)
Rows(table, Condition(_)) ==
    [row \in {r \in DOMAIN table : Condition(r)} |-> table[row]]

(* How often a row was written; 0 for one that is not there.               *)
Copies(row, table) == IF row \in DOMAIN table THEN table[row] ELSE 0

(* Deliberate fault: an event at the cutoff is dropped too.                *)
PrunedBeforeInclusive(log, before) ==
    [log EXCEPT !.events = Rows(@, LAMBDA event : event.at > before),
                !.buckets = Rows(@, LAMBDA bucket : bucket[1] > before)]

(* DrizzleActivityRepository.pruneBefore.  The totals are kept.            *)
PrunedBefore(log, before) ==
    [log EXCEPT !.events = Rows(@, LAMBDA event : event.at >= before),
                !.buckets = Rows(@, LAMBDA bucket : bucket[1] >= before)]

(* ActivityService.pruneExpiredActivity                                    *)
Cutoff(now) == now - Retention

(* The detail rows a query with from = before shows: listDetailed, and the *)
(* attempts in getAccessRecords.                                           *)
Shown(log, before) == Rows(log.events, LAMBDA event : event.at >= before)
=============================================================================
