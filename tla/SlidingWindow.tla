---------------------------- MODULE SlidingWindow ----------------------------
(***************************************************************************)
(* RATE_LIMIT_SCRIPT of plugins/ratelimit.ts: one sorted set in Redis per  *)
(* budget.  A member is "<now>:<uuid>" with the stamp now as its score; ids *)
(* stand for the uuids.  A window is the set of its members, and the time   *)
(* at which Redis drops the key.                                           *)
(***************************************************************************)
EXTENDS Integers, FiniteSets

CONSTANTS
    Window,     \* WINDOW_MS, and WINDOW_EXPIRY_SECONDS in the same unit
    Second      \* a second, the unit of Retry-After

ASSUME WindowAssumption ==
    Window \in Nat \ {0} /\ Second \in Nat \ {0} /\ Window % Second = 0

Member == [stamp : Nat, id : Nat]

SortedSet == [members : SUBSET Member, expires : Nat]

EmptyWindow == [members |-> {}, expires |-> 0]

(* Deliberate fault: the oldest second of the window is given up too.      *)
PrunedEarly(window, stamp) ==
    {m \in window.members : m.stamp > stamp + Second - Window}

(* ZREMRANGEBYSCORE 0 .. now - WINDOW_MS; the upper end is included.       *)
Pruned(window, stamp) == {m \in window.members : m.stamp > stamp - Window}

(* ZCARD >= limit                                                          *)
Exhausted(window, stamp, limit) == Cardinality(Pruned(window, stamp)) >= limit

(* ZRANGE 0 0: the member with the lowest score.                           *)
Oldest(members) == CHOOSE m \in members : \A n \in members : m.stamp <= n.stamp

(* Deliberate fault: the wait is rounded down.                             *)
RetryAfterRounded(window, stamp) ==
    LET wait == Oldest(Pruned(window, stamp)).stamp + Window - stamp
    IN  IF wait < Second THEN 1 ELSE wait \div Second

(* The whole seconds until the oldest member leaves the window, at least   *)
(* one.  A limit is positive, so an exhausted window has an oldest member. *)
RetryAfter(window, stamp) ==
    LET wait == Oldest(Pruned(window, stamp)).stamp + Window - stamp
    IN  IF wait < Second THEN 1 ELSE (wait + Second - 1) \div Second

(* Deliberate fault: a refused request is counted as well.                 *)
ConsumedAlways(window, stamp, id, limit, now) ==
    [members |-> Pruned(window, stamp) \cup {[stamp |-> stamp, id |-> id]},
     expires |-> now + Window]

(* What the script leaves behind when it runs at time now of Redis for a   *)
(* request stamped by its process: ZADD unless the window is exhausted,    *)
(* EXPIRE in any case.                                                     *)
Consumed(window, stamp, id, limit, now) ==
    [members |-> Pruned(window, stamp)
                    \cup IF Exhausted(window, stamp, limit) THEN {}
                         ELSE {[stamp |-> stamp, id |-> id]},
     expires |-> now + Window]

(* EXPIRE: Redis drops the key.                                            *)
Aged(window, now) == IF window.expires <= now THEN EmptyWindow ELSE window
=============================================================================
