---------------------------- MODULE HttpGateProofs ----------------------------
(***************************************************************************)
(* The rate limits of HttpGate hold for any number of processes and        *)
(* requests, any clocks, delays, windows and limits.  The invariant ties   *)
(* the members of a window to the admissions they stand for: which of      *)
(* them may be missing, when they were stamped, and what a promise of      *)
(* Retry-After rests on.                                                   *)
(***************************************************************************)
EXTENDS HttpGate, FiniteSetTheorems, WellFoundedInduction, TLAPS

-----------------------------------------------------------------------------
(* The inductive invariant                                                 *)

(* A request at a limiter was stamped by the clock of its process, no      *)
(* longer ago than a script may take.                                      *)
RequestKnown(r) ==
    request[r].pc \in Limiters =>
        /\ request[r].stamp <= Clock(ProcessOf[r])
        /\ Clock(ProcessOf[r]) <= request[r].stamp + MaxDelay
        /\ request[r].route \in Scope => request[r].principal \in Principal
        /\ request[r].pc = "principal" => request[r].route \in Scope

AdmittedInOrder(key) ==
    \A i, j \in DOMAIN admitted[key] :
        /\ i <= j => admitted[key][i] <= admitted[key][j]
        /\ admitted[key][i] <= now

(* A member stands for one admission, stamped shortly before.              *)
MembersAdmitted(key) ==
    /\ \A m \in window[key].members :
          /\ m.id \in DOMAIN admitted[key]
          /\ m.stamp <= admitted[key][m.id] + MaxOffset
          /\ admitted[key][m.id] <= m.stamp + MaxDelay
    /\ \A m, n \in window[key].members : m.id = n.id => m = n

(* An admission has its member until a window less the slack has passed.   *)
StillCounted(key) ==
    \A i \in DOMAIN admitted[key] :
        \/ admitted[key][i] + Window <= now + Slack
        \/ \E m \in window[key].members : m.id = i

(* Redis drops no key before the window of its last admission is over.     *)
KeptAlive(key) ==
    \A i \in DOMAIN admitted[key] :
        \/ admitted[key][i] + Window <= now
        \/ admitted[key][i] + Window <= window[key].expires

(* After a refusal some member leaves the window by the promised time.     *)
PromiseRests(key) ==
    promised[key] # 0 =>
        \/ Cardinality(window[key].members) < LimitOf(key)
        \/ \E m \in window[key].members : m.stamp + Window <= promised[key]

WindowKnown(key) ==
    /\ AdmittedInOrder(key) /\ MembersAdmitted(key) /\ StillCounted(key)
    /\ KeptAlive(key) /\ PromiseRests(key)

IInv ==
    /\ TypeOK
    /\ \A r \in Request : RequestKnown(r)
    /\ \A key \in Key : WindowKnown(key)
    /\ BudgetHeld /\ BudgetNotStolen

-----------------------------------------------------------------------------
(* One window                                                              *)

(* What ZREMRANGEBYSCORE leaves.                                           *)
LEMMA PrunedKnown ==
    ASSUME NEW w \in SortedSet, IsFiniteSet(w.members), NEW stamp \in Nat
    PROVE  /\ Pruned(w, stamp) \subseteq w.members
           /\ IsFiniteSet(Pruned(w, stamp))
           /\ Cardinality(Pruned(w, stamp)) \in Nat
           /\ Cardinality(w.members) \in Nat
           /\ Cardinality(Pruned(w, stamp)) <= Cardinality(w.members)
<1>1. Pruned(w, stamp) \subseteq w.members
  BY DEF Pruned
<1>2. /\ IsFiniteSet(Pruned(w, stamp))
      /\ Cardinality(Pruned(w, stamp)) <= Cardinality(w.members)
  BY <1>1, FS_Subset
<1> QED
  BY <1>1, <1>2, FS_CardinalityType

(* The script never lets a window grow beyond its limit.                   *)
LEMMA ConsumedKnown ==
    ASSUME NEW w \in SortedSet, IsFiniteSet(w.members), NEW stamp \in Nat, NEW id \in Nat,
           NEW limit \in Nat, Cardinality(w.members) <= limit, NEW time \in Nat
    PROVE  /\ Consumed(w, stamp, id, limit, time) \in SortedSet
           /\ IsFiniteSet(Consumed(w, stamp, id, limit, time).members)
           /\ Cardinality(Consumed(w, stamp, id, limit, time).members) <= limit
           /\ Consumed(w, stamp, id, limit, time).expires = time + Window
<1>1. PICK P : P = Pruned(w, stamp)
  OBVIOUS
<1>2. /\ P \subseteq w.members /\ IsFiniteSet(P) /\ Cardinality(P) \in Nat
      /\ Cardinality(w.members) \in Nat /\ Cardinality(P) <= Cardinality(w.members)
  BY <1>1, PrunedKnown
<1>3. PICK m : m = [stamp |-> stamp, id |-> id]
  OBVIOUS
<1>4. m \in Member /\ w.members \subseteq Member /\ time + Window \in Nat
  BY <1>3, WindowAssumption DEF Member, SortedSet
<1>5. CASE Cardinality(P) >= limit
  <2>1. Consumed(w, stamp, id, limit, time) = [members |-> P \cup {}, expires |-> time + Window]
    BY <1>1, <1>5 DEF Consumed, Exhausted
  <2>2. P \cup {} = P
    OBVIOUS
  <2> QED
    BY <1>2, <1>4, <2>1, <2>2 DEF SortedSet
<1>6. CASE ~(Cardinality(P) >= limit)
  <2>1. Consumed(w, stamp, id, limit, time) = [members |-> P \cup {m}, expires |-> time + Window]
    BY <1>1, <1>3, <1>6 DEF Consumed, Exhausted
  <2>2. IsFiniteSet(P \cup {m})
    BY <1>2, FS_AddElement
  <2>3. Cardinality(P \cup {m}) = Cardinality(P) \/ Cardinality(P \cup {m}) = Cardinality(P) + 1
    BY <1>2, FS_AddElement
  <2>4. Cardinality(P \cup {m}) <= limit
    BY <1>2, <1>6, <2>3
  <2> QED
    BY <1>2, <1>4, <2>1, <2>2, <2>4 DEF SortedSet
<1> QED
  BY <1>5, <1>6

(* Natural numbers have a least one.                                       *)
LEMMA LeastNat ==
    ASSUME NEW T \in SUBSET Nat, T # {}
    PROVE  \E x \in T : \A y \in T : x <= y
<1>1. \E x \in T : \A y \in T : ~ (<<y, x>> \in OpToRel(<, Nat))
  BY NatLessThanWellFounded, WFMin
<1>2. PICK x \in T : \A y \in T : ~(y < x)
  BY <1>1 DEF OpToRel
<1>3. \A y \in T : x \in Nat /\ y \in Nat /\ ~(y < x)
  BY <1>2
<1>4. \A y \in T : x <= y
  BY <1>3
<1> QED
  BY <1>4

LEMMA OldestKnown ==
    ASSUME NEW M \in SUBSET Member, M # {}
    PROVE  /\ Oldest(M) \in M
           /\ \A n \in M : Oldest(M).stamp <= n.stamp
<1> DEFINE T == {m.stamp : m \in M}
<1>1. T \in SUBSET Nat /\ T # {}
  BY DEF Member
<1>2. PICK x \in T : \A y \in T : x <= y
  BY <1>1, LeastNat
<1>3. PICK m \in M : m.stamp = x
  OBVIOUS
<1>4. \A n \in M : m.stamp <= n.stamp
  BY <1>2, <1>3
<1> QED
  BY <1>4 DEF Oldest

(* A number of seconds, rounded up, is enough.                             *)
LEMMA RoundedUp ==
    ASSUME NEW a \in Nat, NEW b \in Nat \ {0}
    PROVE  (a + b - 1) \div b \in Nat /\ a <= b * ((a + b - 1) \div b)
OBVIOUS

(* The oldest member leaves the window by the time that Retry-After names. *)
LEMMA RetryAfterKnown ==
    ASSUME NEW w \in SortedSet, NEW stamp \in Nat, Pruned(w, stamp) # {}
    PROVE  /\ stamp + Second * RetryAfter(w, stamp) \in Nat \ {0}
           /\ \E m \in Pruned(w, stamp) :
                 m.stamp + Window <= stamp + Second * RetryAfter(w, stamp)
<1>1. PICK P : P = Pruned(w, stamp)
  OBVIOUS
<1>2. P \in SUBSET Member /\ P # {}
  BY <1>1 DEF Pruned, SortedSet
<1>3. PICK m : m = Oldest(P)
  OBVIOUS
<1>4. m \in P /\ m \in Member
  BY <1>2, <1>3, OldestKnown
<1>5. m.stamp \in Nat /\ Window \in Nat /\ Second \in Nat \ {0}
  BY <1>4, WindowAssumption DEF Member
<1>6. PICK wait : wait = m.stamp + Window - stamp
  OBVIOUS
<1>7. wait \in Int /\ m.stamp + Window = stamp + wait
  BY <1>5, <1>6
<1>8. PICK q : q = RetryAfter(w, stamp)
  OBVIOUS
<1>9. q = IF wait < Second THEN 1 ELSE (wait + Second - 1) \div Second
  BY <1>1, <1>3, <1>6, <1>8 DEF RetryAfter
<1>10. q \in Nat /\ wait <= Second * q /\ Second * q > 0
  <2>1. CASE wait < Second
    BY <1>5, <1>7, <1>9, <2>1
  <2>2. CASE ~(wait < Second)
    <3>1. wait \in Nat /\ wait > 0
      BY <1>5, <1>7, <2>2
    <3>2. q \in Nat /\ wait <= Second * q
      BY <1>5, <1>9, <2>2, <3>1, RoundedUp
    <3>3. Second * q \in Int
      BY <1>5, <3>2
    <3> QED
      BY <3>1, <3>2, <3>3
  <2> QED
    BY <2>1, <2>2
<1>11. Second * q \in Nat
  BY <1>5, <1>10
<1>12. stamp + Second * q \in Nat \ {0} /\ m.stamp + Window <= stamp + Second * q
  BY <1>7, <1>10, <1>11
<1> QED
  BY <1>1, <1>4, <1>8, <1>12

-----------------------------------------------------------------------------
(* Requests and keys                                                       *)

LEMMA LimitKnown ==
    ASSUME NEW key \in Key
    PROVE  LimitOf(key) \in Nat \ {0}
BY LimitAssumption DEF LimitOf, Key

LEMMA IdleKnown == Idle.pc \notin Limiters
BY DEF Idle, Limiters

LEMMA AtLimiter ==
    ASSUME TypeOK, NEW r \in Request, request[r].pc \in Limiters
    PROVE  request[r] \in RequestState
BY IdleKnown DEF TypeOK

(* A limiter knows the key of its request.                                 *)
LEMMA KeyKnown ==
    ASSUME TypeOK, NEW r \in Request, RequestKnown(r), request[r].pc \in Limiters
    PROVE  KeyOf(r) \in Key
<1>1. request[r] \in RequestState
  BY AtLimiter
<1>2. CASE request[r].pc = "principal"
  <2>1. request[r].route \in Scope /\ request[r].principal \in Principal
    BY <1>2 DEF RequestKnown
  <2> QED
    BY <1>2, <2>1 DEF KeyOf, Key
<1>3. CASE request[r].pc # "principal"
  <2>1. request[r].pc \in {"ip", "admin"} /\ request[r].address \in Address
    BY <1>1, <1>3 DEF RequestState, Limiters
  <2> QED
    BY <1>3, <2>1 DEF KeyOf, Key
<1> QED
  BY <1>2, <1>3

(* When a script runs, its stamp is that close to the time of Redis.       *)
LEMMA StampKnown ==
    ASSUME TypeOK, NEW r \in Request, RequestKnown(r), request[r].pc \in Limiters
    PROVE  /\ request[r].stamp \in Nat
           /\ request[r].stamp <= now + MaxOffset
           /\ now <= request[r].stamp + MaxDelay
<1>1. request[r].stamp \in Nat
  BY AtLimiter DEF RequestState
<1>2. Offset[ProcessOf[r]] \in 0 .. MaxOffset /\ MaxOffset \in Nat /\ MaxDelay \in Nat
  BY ProcessAssumption, BoundAssumption
<1>3. now \in Nat
  BY DEF TypeOK
<1> QED
  BY <1>1, <1>2, <1>3 DEF RequestKnown, Clock

-----------------------------------------------------------------------------
(* What the script does to a key                                           *)

(* The counts and times of one key: times are those of its admissions,     *)
(* members those of its window, the script runs at time t for a stamp s.   *)
(* Everything a window has forgotten is older than a window less the       *)
(* slack, so a window that is not exhausted has room for one more.         *)
LEMMA RoomMeans ==
    ASSUME NEW times \in Seq(Nat), NEW M \in SUBSET Member, IsFiniteSet(M), NEW P \in SUBSET M,
           NEW limit \in Nat \ {0}, NEW s \in Nat, NEW t \in Nat, s <= t + MaxOffset,
           P = {m \in M : m.stamp > s - Window},
           \A i, j \in DOMAIN times : i <= j => times[i] <= times[j],
           \A m \in M : m.id \in DOMAIN times /\ times[m.id] <= m.stamp + MaxDelay,
           \A i \in DOMAIN times : \/ times[i] + Window <= t + Slack
                                   \/ \E m \in M : m.id = i,
           ~(Cardinality(P) >= limit),
           NEW i \in DOMAIN times, i + limit = Len(times) + 1
    PROVE  t - times[i] >= Window - Slack
<1>1. SUFFICES ASSUME ~(t - times[i] >= Window - Slack)
               PROVE  FALSE
  OBVIOUS
<1>2. /\ DOMAIN times = 1 .. Len(times) /\ Len(times) \in Nat
      /\ \A k \in DOMAIN times : times[k] \in Nat
  OBVIOUS
<1>3. Window \in Nat /\ MaxDelay \in Nat /\ MaxOffset \in Nat /\ Slack = MaxDelay + MaxOffset
  BY WindowAssumption, BoundAssumption, ProcessAssumption DEF Slack
<1>4. \A k \in i .. Len(times) : \E m \in P : m.id = k
  <2>1. SUFFICES ASSUME NEW k \in i .. Len(times)
                 PROVE  \E m \in P : m.id = k
    OBVIOUS
  <2>2. k \in DOMAIN times /\ i <= k
    <3>1. i \in 1 .. Len(times) /\ Len(times) \in Nat
      BY <1>2
    <3> QED
      BY <1>2, <3>1
  <2>3. PICK a \in Nat : a = times[i]
    BY <1>2
  <2>4. PICK b \in Nat : b = times[k]
    BY <1>2, <2>2
  <2>5. a <= b /\ ~(t - a >= Window - Slack)
    BY <1>1, <2>2, <2>3, <2>4
  <2>6. ~(b + Window <= t + Slack)
    BY ONLY <1>3, <2>5, a \in Nat, b \in Nat, t \in Nat
  <2>7. PICK m \in M : m.id = k
    BY <2>2, <2>4, <2>6
  <2>8. PICK c \in Nat : c = m.stamp
    BY DEF Member
  <2>9. b <= c + MaxDelay
    BY <2>4, <2>7, <2>8
  <2>10. c > s - Window
    BY ONLY <1>3, <2>6, <2>9, b \in Nat, c \in Nat, t \in Nat, s \in Nat, s <= t + MaxOffset
  <2> QED
    BY <2>7, <2>8, <2>10
<1>5. IsFiniteSet(P)
  BY FS_Subset
<1> DEFINE Ids == {m.id : m \in P}
<1>6. IsFiniteSet(Ids) /\ Cardinality(Ids) <= Cardinality(P)
  <2> DEFINE f == [m \in P |-> m.id]
  <2>1. f \in Surjection(P, Ids)
    BY DEF Surjection
  <2> QED
    BY <1>5, <2>1, FS_Surjection
<1>7. i .. Len(times) \subseteq Ids
  BY <1>4
<1>8. Cardinality(i .. Len(times)) <= Cardinality(Ids)
  BY <1>6, <1>7, FS_Subset
<1>9. Cardinality(i .. Len(times)) = limit
  <2>1. i \in Int /\ Len(times) \in Int /\ i <= Len(times)
    BY <1>2
  <2>2. Cardinality(i .. Len(times)) = Len(times) - i + 1
    BY <2>1, FS_Interval
  <2> QED
    BY <1>2, <2>2
<1>10. Cardinality(P) \in Nat /\ Cardinality(Ids) \in Nat
  BY <1>5, <1>6, FS_CardinalityType
<1> QED
  BY <1>6, <1>8, <1>9, <1>10

(* Whatever is not touched stays known while no time passes.               *)
LEMMA KeyKept ==
    ASSUME NEW key \in Key, WindowKnown(key), UNCHANGED now,
           window'[key] = window[key], admitted'[key] = admitted[key],
           promised'[key] = promised[key]
    PROVE  WindowKnown(key)'
BY DEF WindowKnown, AdmittedInOrder, MembersAdmitted, StillCounted, KeptAlive, PromiseRests

(* The facts about one key a script starts from.                           *)
LEMMA KeyFacts ==
    ASSUME TypeOK, NEW key \in Key
    PROVE  /\ window[key] \in SortedSet /\ IsFiniteSet(window[key].members)
           /\ Cardinality(window[key].members) <= LimitOf(key)
           /\ admitted[key] \in Seq(Nat) /\ promised[key] \in Nat
           /\ now \in Nat
BY DEF TypeOK

(* A refused request leaves the window pruned and makes a promise.         *)
LEMMA RefusedKnown ==
    ASSUME TypeOK, NEW key \in Key, WindowKnown(key), UNCHANGED now,
           NEW s \in Nat, s <= now + MaxOffset, NEW id,
           Exhausted(window[key], s, LimitOf(key)),
           window'[key] = Consumed(window[key], s, id, LimitOf(key), now),
           admitted'[key] = admitted[key],
           promised'[key] = s + Second * RetryAfter(window[key], s)
    PROVE  WindowKnown(key)' /\ promised'[key] \in Nat
<1>1. PICK w \in SortedSet : w = window[key]
  BY KeyFacts
<1>2. PICK P : P = Pruned(w, s)
  OBVIOUS
<1>3. /\ window[key].members = w.members /\ IsFiniteSet(w.members)
      /\ now \in Nat /\ admitted[key] \in Seq(Nat) /\ w.members \in SUBSET Member
      /\ Window \in Nat /\ MaxDelay \in Nat /\ MaxOffset \in Nat /\ Slack = MaxDelay + MaxOffset
  BY <1>1, KeyFacts, WindowAssumption, BoundAssumption, ProcessAssumption DEF Slack, SortedSet
<1>4. /\ window'[key].members = P /\ window'[key].expires = now + Window
      /\ P = {m \in w.members : m.stamp > s - Window}
      /\ Cardinality(P) >= LimitOf(key)
  <2>1. Consumed(w, s, id, LimitOf(key), now) = [members |-> P \cup {}, expires |-> now + Window]
    BY <1>1, <1>2 DEF Consumed
  <2>2. P \cup {} = P
    OBVIOUS
  <2> QED
    BY <1>1, <1>2, <2>1, <2>2 DEF Exhausted, Pruned
<1>5. \A i \in DOMAIN admitted[key] : admitted[key][i] \in Nat
  BY <1>3
<1>6. AdmittedInOrder(key)'
  BY DEF WindowKnown, AdmittedInOrder
<1>7. MembersAdmitted(key)'
  BY <1>1, <1>4 DEF WindowKnown, MembersAdmitted
<1>8. StillCounted(key)'
  <2>1. SUFFICES ASSUME NEW i \in DOMAIN admitted[key],
                        ~(admitted[key][i] + Window <= now + Slack)
                 PROVE  \E m \in P : m.id = i
    BY <1>4 DEF StillCounted
  <2>2. PICK m \in w.members : m.id = i
    BY <1>1, <2>1 DEF WindowKnown, StillCounted
  <2>3. PICK c \in Nat : c = m.stamp
    BY <1>3 DEF Member
  <2>4. PICK b \in Nat : b = admitted[key][i]
    BY <1>5
  <2>5. b <= c + MaxDelay
    BY <1>1, <2>2, <2>3, <2>4 DEF WindowKnown, MembersAdmitted
  <2>6. ~(b + Window <= now + Slack)
    BY <2>1, <2>4
  <2>7. c > s - Window
    BY ONLY <1>3, <2>5, <2>6, b \in Nat, c \in Nat, s \in Nat, s <= now + MaxOffset
  <2> QED
    BY <1>4, <2>2, <2>3, <2>7
<1>9. KeptAlive(key)'
  <2>1. \A i \in DOMAIN admitted[key] : admitted[key][i] <= now
    BY DEF WindowKnown, AdmittedInOrder
  <2>2. \A i \in DOMAIN admitted[key] : admitted[key][i] + Window <= now + Window
    BY <1>3, <1>5, <2>1
  <2> QED
    BY <1>4, <2>2 DEF KeptAlive
<1>10. P # {}
  <2>1. Cardinality(P) # 0
    BY <1>1, <1>2, <1>3, <1>4, LimitKnown, PrunedKnown
  <2> QED
    BY <2>1, FS_EmptySet
<1>11. promised'[key] \in Nat /\ \E m \in P : m.stamp + Window <= promised'[key]
  BY <1>1, <1>2, <1>10, RetryAfterKnown
<1>12. PromiseRests(key)'
  BY <1>4, <1>11 DEF PromiseRests
<1> QED
  BY <1>6, <1>7, <1>8, <1>9, <1>11, <1>12 DEF WindowKnown

(* An admitted request adds its member, and the limit + 1 admissions that  *)
(* end with it are far enough apart.                                       *)
LEMMA AdmittedKnown ==
    ASSUME TypeOK, NEW key \in Key, WindowKnown(key), UNCHANGED now,
           NEW s \in Nat, s <= now + MaxOffset, now <= s + MaxDelay,
           ~Exhausted(window[key], s, LimitOf(key)),
           window'[key] = Consumed(window[key], s, Len(admitted[key]) + 1, LimitOf(key), now),
           admitted'[key] = Append(admitted[key], now),
           promised'[key] = 0,
           \A i \in DOMAIN admitted[key] : i + LimitOf(key) \in DOMAIN admitted[key] =>
               admitted[key][i + LimitOf(key)] - admitted[key][i] >= Window - Slack
    PROVE  /\ WindowKnown(key)'
           /\ \A i \in DOMAIN admitted'[key] : i + LimitOf(key) \in DOMAIN admitted'[key] =>
                 admitted'[key][i + LimitOf(key)] - admitted'[key][i] >= Window - Slack
<1>1. PICK w \in SortedSet : w = window[key]
  BY KeyFacts
<1>2. PICK P : P = Pruned(w, s)
  OBVIOUS
<1>3. PICK times \in Seq(Nat) : times = admitted[key]
  BY KeyFacts
<1>4. PICK n \in Nat : n = Len(times)
  BY <1>3
<1>5. PICK new : new = [stamp |-> s, id |-> n + 1]
  OBVIOUS
<1>6. PICK t \in Nat : t = now
  BY KeyFacts
<1>7. PICK limit \in Nat \ {0} : limit = LimitOf(key)
  BY LimitKnown
<1>8. /\ IsFiniteSet(w.members) /\ w.members \in SUBSET Member
      /\ Window \in Nat /\ MaxDelay \in Nat /\ MaxOffset \in Nat /\ Slack = MaxDelay + MaxOffset
  BY <1>1, KeyFacts, WindowAssumption, BoundAssumption, ProcessAssumption DEF Slack, SortedSet
<1>9. /\ window'[key].members = P \cup {new} /\ window'[key].expires = t + Window
      /\ P = {m \in w.members : m.stamp > s - Window}
      /\ ~(Cardinality(P) >= limit)
  <2>1. ~(Cardinality(P) >= limit)
    BY <1>1, <1>2, <1>7 DEF Exhausted
  <2>2. window'[key] = Consumed(w, s, n + 1, limit, t)
    BY <1>1, <1>3, <1>4, <1>6, <1>7
  <2>3. Consumed(w, s, n + 1, limit, t) = [members |-> P \cup {new}, expires |-> t + Window]
    BY <1>2, <1>5, <2>1 DEF Consumed, Exhausted
  <2> QED
    BY <1>2, <2>1, <2>2, <2>3 DEF Pruned
<1>10. PICK after \in Seq(Nat) : after = Append(times, t)
  <2>1. Append(times, t) \in Seq(Nat)
    OBVIOUS
  <2> QED
    BY <2>1
<1>11. /\ DOMAIN times = 1 .. n /\ DOMAIN after = 1 .. n + 1 /\ Len(after) = n + 1
       /\ \A i \in 1 .. n : after[i] = times[i] /\ times[i] \in Nat
       /\ after[n + 1] = t
  BY <1>4, <1>10
<1>12. admitted'[key] = after /\ now' = t
  BY <1>3, <1>6, <1>10
<1>13. /\ \A i, j \in 1 .. n : i <= j => times[i] <= times[j]
       /\ \A i \in 1 .. n : times[i] <= t
       /\ \A m \in w.members : /\ m.id \in 1 .. n
                               /\ m.stamp <= times[m.id] + MaxOffset
                               /\ times[m.id] <= m.stamp + MaxDelay
       /\ \A l, m \in w.members : l.id = m.id => l = m
       /\ \A i \in 1 .. n : times[i] + Window <= t + Slack \/ \E m \in w.members : m.id = i
  BY <1>1, <1>3, <1>6, <1>11 DEF WindowKnown, AdmittedInOrder, MembersAdmitted, StillCounted
<1>14. n + 1 \notin 1 .. n /\ n + 1 \in 1 .. n + 1 /\ 1 .. n + 1 = (1 .. n) \cup {n + 1}
  BY ONLY n \in Nat
<1>15. AdmittedInOrder(key)'
  <2>1. \A i \in 1 .. n + 1 : after[i] <= t
    BY <1>11, <1>13, <1>14
  <2>2. ASSUME NEW i \in 1 .. n + 1, NEW j \in 1 .. n + 1, i <= j
        PROVE  after[i] <= after[j]
    <3>1. CASE j = n + 1
      BY ONLY <1>11, <2>1, <3>1, i \in 1 .. n + 1
    <3>2. CASE j # n + 1
      <4>1. i \in 1 .. n /\ j \in 1 .. n
        BY ONLY <2>2, <3>2, n \in Nat, i \in 1 .. n + 1, j \in 1 .. n + 1
      <4> QED
        BY ONLY <1>11, <1>13, <2>2, <4>1
    <3> QED
      BY ONLY <3>1, <3>2
  <2> QED
    BY <1>11, <1>12, <2>1, <2>2 DEF AdmittedInOrder
<1>16. MembersAdmitted(key)'
  <2>1. new.id = n + 1 /\ new.stamp = s
    BY <1>5
  <2>2. \A m \in P : m.id \in 1 .. n /\ m \in w.members
    BY <1>9, <1>13
  <2>3. ASSUME NEW m \in P \cup {new}
        PROVE  /\ m.id \in DOMAIN after
               /\ m.stamp <= after[m.id] + MaxOffset
               /\ after[m.id] <= m.stamp + MaxDelay
    <3>1. CASE m \in P
      BY <1>11, <1>13, <1>14, <2>2, <3>1
    <3>2. CASE m = new
      BY <1>6, <1>11, <1>14, <2>1, <3>2
    <3> QED
      BY <3>1, <3>2
  <2>4. \A l, m \in P \cup {new} : l.id = m.id => l = m
    BY <1>13, <1>14, <2>1, <2>2
  <2> QED
    BY <1>9, <1>12, <2>3, <2>4 DEF MembersAdmitted
<1>17. StillCounted(key)'
  <2>1. SUFFICES ASSUME NEW i \in DOMAIN after, ~(after[i] + Window <= t + Slack)
                 PROVE  \E m \in P \cup {new} : m.id = i
    BY <1>9, <1>12 DEF StillCounted
  <2>2. CASE i = n + 1
    BY <1>5, <2>2
  <2>3. CASE i \in 1 .. n
    <3>1. PICK m \in w.members : m.id = i
      BY <1>11, <1>13, <2>1, <2>3
    <3>2. PICK c \in Nat : c = m.stamp
      BY <1>8 DEF Member
    <3>3. PICK b \in Nat : b = times[i]
      BY <1>11, <2>3
    <3>4. b <= c + MaxDelay
      BY <1>13, <3>1, <3>2, <3>3
    <3>5. ~(b + Window <= t + Slack)
      BY <1>11, <2>1, <2>3, <3>3
    <3>6. s <= t + MaxOffset
      BY <1>6
    <3>7. c > s - Window
      BY ONLY <1>8, <3>4, <3>5, <3>6, b \in Nat, c \in Nat, s \in Nat, t \in Nat
    <3> QED
      BY <1>9, <3>1, <3>2, <3>7
  <2> QED
    BY <1>11, <1>14, <2>1, <2>2, <2>3
<1>18. KeptAlive(key)'
  <2>1. \A i \in 1 .. n : after[i] \in Nat /\ after[i] <= t
    BY <1>11, <1>13
  <2>2. ASSUME NEW i \in 1 .. n + 1
        PROVE  after[i] \in Nat /\ after[i] <= t
    <3>1. CASE i \in 1 .. n
      BY ONLY <2>1, <3>1
    <3>2. CASE i = n + 1
      BY ONLY <1>11, <3>2, t \in Nat
    <3> QED
      BY ONLY <1>14, <3>1, <3>2, i \in 1 .. n + 1
  <2>3. ASSUME NEW i \in 1 .. n + 1
        PROVE  after[i] + Window <= t + Window
    <3>1. PICK b \in Nat : b = after[i] /\ b <= t
      BY ONLY <2>2, i \in 1 .. n + 1
    <3>2. b + Window <= t + Window
      BY ONLY <1>8, <3>1, b \in Nat, t \in Nat
    <3> QED
      BY ONLY <3>1, <3>2
  <2> QED
    BY <1>9, <1>11, <1>12, <2>3 DEF KeptAlive
<1>19. PromiseRests(key)'
  BY DEF PromiseRests
<1>20. ASSUME NEW i \in 1 .. n + 1, i + limit \in 1 .. n + 1
       PROVE  after[i + limit] - after[i] >= Window - Slack
  <2>1. i \in 1 .. n
    BY ONLY <1>20, n \in Nat, limit \in Nat \ {0}
  <2>2. CASE i + limit = n + 1
    <3>1. /\ s <= t + MaxOffset /\ i + limit = Len(times) + 1
          /\ i \in DOMAIN times
      BY <1>4, <1>6, <1>11, <2>1, <2>2
    <3> DEFINE M == w.members
    <3>2. M \in SUBSET Member /\ IsFiniteSet(M) /\ P = {m \in M : m.stamp > s - Window}
      BY <1>8, <1>9
    <3>3. P \in SUBSET M
      BY <3>2
    <3>4. /\ \A k, j \in DOMAIN times : k <= j => times[k] <= times[j]
          /\ \A m \in M : m.id \in DOMAIN times /\ times[m.id] <= m.stamp + MaxDelay
          /\ \A k \in DOMAIN times : \/ times[k] + Window <= t + Slack
                                     \/ \E m \in M : m.id = k
      BY <1>11, <1>13
    <3>5. ~(Cardinality(P) >= limit)
      BY <1>9
    <3> HIDE DEF M
    <3>6. t - times[i] >= Window - Slack
      BY ONLY <3>1, <3>2, <3>3, <3>4, <3>5, RoomMeans, times \in Seq(Nat),
              limit \in Nat \ {0}, s \in Nat, t \in Nat
    <3> QED
      BY <1>11, <2>1, <2>2, <3>6
  <2>3. CASE i + limit # n + 1
    <3>1. i + limit \in 1 .. n
      BY ONLY <1>20, <2>3, n \in Nat, limit \in Nat \ {0}
    <3>2. times[i + limit] - times[i] >= Window - Slack
      BY <1>3, <1>7, <1>11, <2>1, <3>1
    <3> QED
      BY <1>11, <2>1, <3>1, <3>2
  <2> QED
    BY <2>2, <2>3
<1>21. \A i \in DOMAIN admitted'[key] : i + LimitOf(key) \in DOMAIN admitted'[key] =>
          admitted'[key][i + LimitOf(key)] - admitted'[key][i] >= Window - Slack
  BY <1>7, <1>11, <1>12, <1>20
<1> QED
  BY <1>15, <1>16, <1>17, <1>18, <1>19, <1>21 DEF WindowKnown

(* The script keeps the windows of all keys.                               *)
WindowsKept ==
    /\ window' \in [Key -> SortedSet]
    /\ \A key \in Key : /\ IsFiniteSet(window'[key].members)
                        /\ Cardinality(window'[key].members) <= LimitOf(key)
    /\ admitted' \in [Key -> Seq(Nat)] /\ promised' \in [Key -> Nat]
    /\ \A key \in Key : WindowKnown(key)'
    /\ BudgetHeld'

LEMMA ScriptKeeps ==
    ASSUME IInv, NEW r \in Request, request[r].pc \in Limiters, RunScript(r), UNCHANGED now
    PROVE  WindowsKept
<1>1. PICK k : k = KeyOf(r)
  OBVIOUS
<1>2. PICK s : s = request[r].stamp
  OBVIOUS
<1>3. TypeOK /\ RequestKnown(r) /\ \A key \in Key : WindowKnown(key)
  BY DEF IInv
<1>4. k \in Key
  BY <1>1, <1>3, KeyKnown
<1>5. s \in Nat /\ s <= now + MaxOffset /\ now <= s + MaxDelay
  BY <1>2, <1>3, StampKnown
<1>6. PICK id : id = Len(admitted[k]) + 1
  OBVIOUS
<1>7. /\ window \in [Key -> SortedSet] /\ admitted \in [Key -> Seq(Nat)]
      /\ promised \in [Key -> Nat] /\ now \in Nat
      /\ \A key \in Key : /\ IsFiniteSet(window[key].members)
                          /\ Cardinality(window[key].members) <= LimitOf(key)
  BY <1>3 DEF TypeOK
<1>8. id \in Nat /\ LimitOf(k) \in Nat
  BY <1>4, <1>6, <1>7, LimitKnown
<1>9. PICK w \in SortedSet : w = Consumed(window[k], s, id, LimitOf(k), now)
  BY <1>4, <1>5, <1>7, <1>8, ConsumedKnown
<1>10. IsFiniteSet(w.members) /\ Cardinality(w.members) <= LimitOf(k)
  BY <1>4, <1>5, <1>7, <1>8, <1>9, ConsumedKnown
<1>11. window' = [window EXCEPT ![k] = w]
  BY <1>1, <1>2, <1>6, <1>9 DEF RunScript
<1>12. /\ window' \in [Key -> SortedSet]
       /\ window'[k] = w /\ \A key \in Key \ {k} : window'[key] = window[key]
  BY <1>4, <1>7, <1>11
<1>13. \A key \in Key : /\ IsFiniteSet(window'[key].members)
                        /\ Cardinality(window'[key].members) <= LimitOf(key)
  BY <1>7, <1>10, <1>12
<1>14. \A i \in DOMAIN admitted[k] : i + LimitOf(k) \in DOMAIN admitted[k] =>
           admitted[k][i + LimitOf(k)] - admitted[k][i] >= Window - Slack
  BY <1>4 DEF IInv, BudgetHeld
<1>15. CASE Exhausted(window[k], s, LimitOf(k))
  <2>1. PICK p : p = s + Second * RetryAfter(window[k], s)
    OBVIOUS
  <2>2. admitted' = admitted /\ promised' = [promised EXCEPT ![k] = p]
    BY <1>1, <1>2, <1>15, <2>1 DEF RunScript
  <2>3. promised'[k] = p /\ \A key \in Key \ {k} : promised'[key] = promised[key]
    BY <1>4, <1>7, <2>2
  <2>4. WindowKnown(k)' /\ p \in Nat
    BY <1>3, <1>4, <1>5, <1>9, <1>12, <1>15, <2>1, <2>2, <2>3, RefusedKnown
  <2>5. \A key \in Key \ {k} : WindowKnown(key)'
    BY <1>3, <1>12, <2>2, <2>3, KeyKept
  <2>6. BudgetHeld'
    BY <2>2 DEF IInv, BudgetHeld
  <2>7. promised' \in [Key -> Nat]
    BY <1>7, <2>2, <2>4
  <2> QED
    BY <1>7, <1>12, <1>13, <2>2, <2>4, <2>5, <2>6, <2>7 DEF WindowsKept
<1>16. CASE ~Exhausted(window[k], s, LimitOf(k))
  <2>1. PICK a \in Seq(Nat) : a = Append(admitted[k], now)
    <3>1. admitted[k] \in Seq(Nat)
      BY <1>4, <1>7
    <3>2. Append(admitted[k], now) \in Seq(Nat)
      BY <1>7, <3>1
    <3> QED
      BY <3>2
  <2>2. admitted' = [admitted EXCEPT ![k] = a] /\ promised' = [promised EXCEPT ![k] = 0]
    BY <1>1, <1>2, <1>16, <2>1 DEF RunScript
  <2>3. /\ admitted' \in [Key -> Seq(Nat)] /\ promised' \in [Key -> Nat]
        /\ admitted'[k] = a /\ promised'[k] = 0
        /\ \A key \in Key \ {k} : admitted'[key] = admitted[key] /\ promised'[key] = promised[key]
    BY <1>4, <1>7, <2>2
  <2>4. /\ WindowKnown(k)'
        /\ \A i \in DOMAIN admitted'[k] : i + LimitOf(k) \in DOMAIN admitted'[k] =>
              admitted'[k][i + LimitOf(k)] - admitted'[k][i] >= Window - Slack
    BY <1>3, <1>4, <1>5, <1>6, <1>9, <1>12, <1>14, <1>16, <2>1, <2>3, AdmittedKnown
  <2>5. \A key \in Key \ {k} : WindowKnown(key)'
    BY <1>3, <1>12, <2>3, KeyKept
  <2>6. BudgetHeld'
    <3>1. SUFFICES ASSUME NEW key \in Key, NEW i \in DOMAIN admitted'[key],
                          i + LimitOf(key) \in DOMAIN admitted'[key]
                   PROVE  admitted'[key][i + LimitOf(key)] - admitted'[key][i] >= Window - Slack
      BY DEF BudgetHeld
    <3>2. CASE key = k
      BY <2>4, <3>1, <3>2
    <3>3. CASE key # k
      BY <2>3, <3>1, <3>3 DEF IInv, BudgetHeld
    <3> QED
      BY <3>2, <3>3
  <2> QED
    BY <1>12, <1>13, <2>3, <2>4, <2>5, <2>6 DEF WindowsKept
<1> QED
  BY <1>15, <1>16

(* Without a script nothing happens to the windows.                        *)
LEMMA NoScriptKeeps ==
    ASSUME IInv, UNCHANGED <<window, admitted, promised, now>>
    PROVE  WindowsKept
<1>1. \A key \in Key : WindowKnown(key)'
  BY KeyKept DEF IInv
<1>2. BudgetHeld'
  BY DEF IInv, BudgetHeld
<1> QED
  BY <1>1, <1>2 DEF WindowsKept, IInv, TypeOK

-----------------------------------------------------------------------------
(* The steps                                                               *)

(* A step of one request, given what it does to the windows.               *)
LEMMA RequestStep ==
    ASSUME IInv, WindowsKept, NEW r \in Request, NEW q \in RequestState \cup {Idle}, Goto(r, q),
           UNCHANGED <<charges, now>>,
           started' \in 0 .. MaxRequests, faults' \in 0 .. MaxFaults,
           q \in RequestState =>
               /\ q.stamp = Clock(ProcessOf[r])
               /\ q.route \in Scope => q.principal \in Principal
               /\ q.pc = "principal" => q.route \in Scope
    PROVE  IInv'
<1>1. request \in [Request -> RequestState \cup {Idle}]
  BY DEF IInv, TypeOK
<1>2. /\ request' \in [Request -> RequestState \cup {Idle}]
      /\ request'[r] = q /\ \A p \in Request \ {r} : request'[p] = request[p]
  BY <1>1 DEF Goto
<1>3. TypeOK'
  <2>1. charges' \in SUBSET [source : Client, address : Address] /\ now' \in 0 .. MaxTime
    BY DEF IInv, TypeOK
  <2> QED
    BY <1>2, <2>1 DEF TypeOK, WindowsKept
<1>4. \A p \in Request \ {r} : RequestKnown(p)'
  BY <1>2 DEF IInv, RequestKnown, Clock
<1>5. RequestKnown(r)'
  <2>1. CASE q = Idle
    BY <1>2, <2>1, IdleKnown DEF RequestKnown
  <2>2. CASE q \in RequestState
    <3>1. Clock(ProcessOf[r]) \in Nat /\ MaxDelay \in Nat
      BY ProcessAssumption, BoundAssumption DEF Clock, IInv, TypeOK
    <3>2. Clock(ProcessOf[r])' = Clock(ProcessOf[r])
      BY DEF Clock
    <3> QED
      BY <1>2, <2>2, <3>1, <3>2 DEF RequestKnown
  <2> QED
    BY <2>1, <2>2
<1>6. BudgetNotStolen'
  BY DEF IInv, BudgetNotStolen
<1> QED
  BY <1>3, <1>4, <1>5, <1>6 DEF IInv, WindowsKept

LEMMA AcceptKeeps ==
    ASSUME IInv, NEW r \in Request, Accept(r)
    PROVE  IInv'
<1>1. PICK route \in Route, charge \in charges :
        \E principal \in IF route \in Scope THEN Principal ELSE {Absent} :
            Goto(r, [pc |-> "ip", route |-> route,
                     address |-> charge.address, principal |-> principal,
                     stamp |-> Clock(ProcessOf[r])])
  BY DEF Accept
<1>2. PICK principal \in IF route \in Scope THEN Principal ELSE {Absent} :
        Goto(r, [pc |-> "ip", route |-> route,
                 address |-> charge.address, principal |-> principal,
                 stamp |-> Clock(ProcessOf[r])])
  BY <1>1
<1>3. PICK q : q = [pc |-> "ip", route |-> route,
                    address |-> charge.address, principal |-> principal,
                    stamp |-> Clock(ProcessOf[r])]
  OBVIOUS
<1>4. Clock(ProcessOf[r]) \in Nat /\ charge.address \in Address
  BY ProcessAssumption DEF Clock, IInv, TypeOK
<1>5. q \in RequestState /\ q.pc = "ip" /\ q.stamp = Clock(ProcessOf[r])
      /\ q.route = route /\ q.principal = principal
  BY <1>3, <1>4 DEF RequestState, Limiters
<1>6. WindowsKept /\ UNCHANGED <<charges, now>> /\ faults' \in 0 .. MaxFaults
      /\ started' \in 0 .. MaxRequests
  <2>1. UNCHANGED <<charges, now, window, faults, admitted, promised>>
    BY DEF Accept
  <2>2. started' \in 0 .. MaxRequests
    BY BoundAssumption DEF Accept, IInv, TypeOK
  <2>3. faults' \in 0 .. MaxFaults
    BY <2>1 DEF IInv, TypeOK
  <2> QED
    BY <2>1, <2>2, <2>3, NoScriptKeeps
<1>7. Goto(r, q) /\ (q.route \in Scope => q.principal \in Principal) /\ q.pc # "principal"
  BY <1>2, <1>3, <1>5
<1> QED
  BY <1>5, <1>6, <1>7, RequestStep

LEMMA OnwardKnown ==
    ASSUME IInv, NEW r \in Request, request[r].pc \in Limiters
    PROVE  /\ Onward(r) \in RequestState \cup {Idle}
           /\ Onward(r) \in RequestState =>
                 /\ Onward(r).stamp = Clock(ProcessOf[r])
                 /\ Onward(r).route \in Scope => Onward(r).principal \in Principal
                 /\ Onward(r).pc = "principal" => Onward(r).route \in Scope
<1>1. request[r] \in RequestState /\ RequestKnown(r) /\ Clock(ProcessOf[r]) \in Nat
  BY AtLimiter, ProcessAssumption DEF IInv, TypeOK, Clock
<1>2. Idle \notin RequestState
  BY IdleKnown DEF RequestState
<1>3. CASE request[r].pc = "ip" /\ request[r].route # "webhook"
  <2>1. PICK second : second = IF request[r].route = "admin" THEN "admin" ELSE "principal"
    OBVIOUS
  <2>2. Onward(r) = [request[r] EXCEPT !.pc = second, !.stamp = Clock(ProcessOf[r])]
    BY <1>3, <2>1 DEF Onward
  <2>3. second \in Limiters
    BY <2>1 DEF Limiters
  <2>4. /\ Onward(r) \in RequestState /\ Onward(r).stamp = Clock(ProcessOf[r])
        /\ Onward(r).route = request[r].route /\ Onward(r).principal = request[r].principal
        /\ Onward(r).pc = second
    BY <1>1, <2>2, <2>3 DEF RequestState
  <2>5. second = "principal" => request[r].route \in Scope
    BY <1>1, <1>3, <2>1 DEF RequestState, Route
  <2>6. request[r].route \in Scope => request[r].principal \in Principal
    BY <1>1 DEF RequestKnown
  <2> QED
    BY <2>4, <2>5, <2>6
<1>4. CASE ~(request[r].pc = "ip" /\ request[r].route # "webhook")
  BY <1>2, <1>4 DEF Onward
<1> QED
  BY <1>3, <1>4

LEMMA AdmitKeeps ==
    ASSUME IInv, NEW r \in Request, Admit(r)
    PROVE  IInv'
<1>1. /\ request[r].pc \in Limiters /\ RunScript(r) /\ Goto(r, Onward(r))
      /\ UNCHANGED <<charges, now>>
  BY DEF Admit
<1>2. started' \in 0 .. MaxRequests /\ faults' \in 0 .. MaxFaults
  BY DEF Admit, IInv, TypeOK
<1>3. WindowsKept
  BY <1>1, ScriptKeeps
<1>4. PICK q : q = Onward(r)
  OBVIOUS
<1>5. /\ q \in RequestState \cup {Idle} /\ Goto(r, q)
      /\ q \in RequestState => /\ q.stamp = Clock(ProcessOf[r])
                               /\ q.route \in Scope => q.principal \in Principal
                               /\ q.pc = "principal" => q.route \in Scope
  BY <1>1, <1>4, OnwardKnown
<1> QED
  BY <1>1, <1>2, <1>3, <1>5, RequestStep

LEMMA RefuseKeeps ==
    ASSUME IInv, NEW r \in Request, Refuse(r)
    PROVE  IInv'
<1>1. /\ request[r].pc \in Limiters /\ RunScript(r) /\ Goto(r, Idle)
      /\ UNCHANGED <<charges, now>>
  BY DEF Refuse
<1>2. started' \in 0 .. MaxRequests /\ faults' \in 0 .. MaxFaults
  BY DEF Refuse, IInv, TypeOK
<1>3. WindowsKept /\ Idle \notin RequestState
  BY <1>1, ScriptKeeps, IdleKnown DEF RequestState
<1> QED
  BY <1>1, <1>2, <1>3, RequestStep

LEMMA FailKeeps ==
    ASSUME IInv, NEW r \in Request, Fail(r)
    PROVE  IInv'
<1>1. /\ request[r].pc \in Limiters /\ Goto(r, Idle) /\ UNCHANGED <<charges, now>>
      /\ RunScript(r) \/ UNCHANGED <<window, admitted, promised>>
  BY DEF Fail
<1>2. started' \in 0 .. MaxRequests /\ faults' \in 0 .. MaxFaults
  BY BoundAssumption DEF Fail, IInv, TypeOK
<1>3. WindowsKept /\ Idle \notin RequestState
  BY <1>1, ScriptKeeps, NoScriptKeeps, IdleKnown DEF RequestState
<1> QED
  BY <1>1, <1>2, <1>3, RequestStep

(* A window Redis drops held nothing that still counts.                    *)
LEMMA AgedKnown ==
    ASSUME TypeOK, NEW key \in Key, WindowKnown(key), now' = now + 1,
           window'[key] = Aged(window[key], now + 1),
           UNCHANGED <<admitted, promised>>
    PROVE  /\ WindowKnown(key)'
           /\ window'[key] \in SortedSet /\ IsFiniteSet(window'[key].members)
           /\ Cardinality(window'[key].members) <= LimitOf(key)
<1>1. PICK times \in Seq(Nat) : times = admitted[key]
  BY KeyFacts
<1>2. PICK t \in Nat : t = now
  BY KeyFacts
<1>3. PICK w \in SortedSet : w = window[key]
  BY KeyFacts
<1>4. /\ w.expires \in Nat /\ Window \in Nat /\ Slack \in Nat
      /\ \A i \in DOMAIN times : times[i] \in Nat
      /\ now' = t + 1 /\ admitted'[key] = times
  BY <1>1, <1>2, <1>3, WindowAssumption, BoundAssumption, ProcessAssumption
     DEF SortedSet, Slack
<1>5. /\ \A i, j \in DOMAIN times : i <= j => times[i] <= times[j]
      /\ \A i \in DOMAIN times : times[i] <= t
      /\ \A i \in DOMAIN times : times[i] + Window <= t \/ times[i] + Window <= w.expires
  BY <1>1, <1>2, <1>3 DEF WindowKnown, AdmittedInOrder, KeptAlive
<1>6. AdmittedInOrder(key)'
  <2>1. \A i \in DOMAIN times : times[i] <= t + 1
    BY <1>4, <1>5
  <2> QED
    BY <1>4, <1>5, <2>1 DEF AdmittedInOrder
<1>7. CASE w.expires <= t + 1
  <2>1. window'[key] = EmptyWindow
    BY <1>2, <1>3, <1>7 DEF Aged
  <2>2. window'[key].members = {} /\ EmptyWindow \in SortedSet
    BY <2>1 DEF EmptyWindow, SortedSet
  <2>3. IsFiniteSet(window'[key].members) /\ Cardinality(window'[key].members) = 0
    BY <2>2, FS_EmptySet
  <2>4. 0 < LimitOf(key) /\ 0 <= LimitOf(key)
    BY LimitKnown
  <2>5. MembersAdmitted(key)'
    BY <2>2 DEF MembersAdmitted
  <2>6. ASSUME NEW i \in DOMAIN times
        PROVE  times[i] + Window <= t + 1 /\ times[i] + Window <= t + 1 + Slack
    <3>1. PICK b \in Nat : b = times[i] /\ (b + Window <= t \/ b + Window <= w.expires)
      BY ONLY <1>4, <1>5, i \in DOMAIN times
    <3>2. b + Window <= t + 1 /\ b + Window <= t + 1 + Slack
      BY ONLY <1>4, <1>7, <3>1, b \in Nat, t \in Nat
    <3> QED
      BY ONLY <3>1, <3>2
  <2>7. StillCounted(key)' /\ KeptAlive(key)'
    BY <1>4, <2>6 DEF StillCounted, KeptAlive
  <2>8. PromiseRests(key)'
    BY <2>3, <2>4 DEF PromiseRests
  <2> QED
    BY <1>6, <2>1, <2>2, <2>3, <2>4, <2>5, <2>7, <2>8 DEF WindowKnown
<1>8. CASE ~(w.expires <= t + 1)
  <2>1. window'[key] = window[key]
    BY <1>2, <1>3, <1>8 DEF Aged
  <2>2. MembersAdmitted(key)' /\ PromiseRests(key)'
    BY <2>1 DEF WindowKnown, MembersAdmitted, PromiseRests
  <2>3. \A i \in DOMAIN times : times[i] + Window <= t + 1 \/ times[i] + Window <= w.expires
    BY <1>4, <1>5
  <2>4. KeptAlive(key)'
    BY <1>3, <1>4, <2>1, <2>3 DEF KeptAlive
  <2>5. \A i \in DOMAIN times : times[i] + Window <= t + Slack \/ \E m \in w.members : m.id = i
    BY <1>1, <1>2, <1>3 DEF WindowKnown, StillCounted
  <2>6. ASSUME NEW i \in DOMAIN times
        PROVE  times[i] + Window <= t + 1 + Slack \/ \E m \in w.members : m.id = i
    <3>1. PICK b \in Nat : b = times[i]
      BY ONLY <1>4, i \in DOMAIN times
    <3>2. b + Window <= t + Slack => b + Window <= t + 1 + Slack
      BY ONLY <1>4, b \in Nat, t \in Nat
    <3> QED
      BY ONLY <2>5, <3>1, <3>2, i \in DOMAIN times
  <2>7. StillCounted(key)'
    BY <1>3, <1>4, <2>1, <2>6 DEF StillCounted
  <2> QED
    BY <1>6, <2>1, <2>2, <2>4, <2>7, KeyFacts DEF WindowKnown
<1> QED
  BY <1>7, <1>8

LEMMA TickKeeps ==
    ASSUME IInv, Tick
    PROVE  IInv'
<1>1. /\ TypeOK /\ now' = now + 1 /\ now' \in 0 .. MaxTime
      /\ UNCHANGED <<charges, request, started, faults, admitted, promised>>
      /\ window' = [key \in Key |-> Aged(window[key], now + 1)]
  BY BoundAssumption DEF IInv, TypeOK, Tick
<1>2. \A key \in Key : /\ WindowKnown(key)'
                       /\ window'[key] \in SortedSet /\ IsFiniteSet(window'[key].members)
                       /\ Cardinality(window'[key].members) <= LimitOf(key)
  <2>1. SUFFICES ASSUME NEW key \in Key
                 PROVE  /\ WindowKnown(key)'
                        /\ window'[key] \in SortedSet /\ IsFiniteSet(window'[key].members)
                        /\ Cardinality(window'[key].members) <= LimitOf(key)
    OBVIOUS
  <2>2. window'[key] = Aged(window[key], now + 1) /\ WindowKnown(key)
    BY <1>1 DEF IInv
  <2> QED
    BY <1>1, <2>2, AgedKnown
<1>3. TypeOK'
  BY <1>1, <1>2 DEF TypeOK
<1>4. ASSUME NEW r \in Request
      PROVE  RequestKnown(r)'
  <2>1. SUFFICES ASSUME request[r].pc \in Limiters PROVE RequestKnown(r)'
    BY <1>1 DEF RequestKnown
  <2>2. PICK s \in Nat : s = request[r].stamp
    BY <1>1, <2>1, AtLimiter DEF RequestState
  <2>3. PICK c \in Nat : c = Clock(ProcessOf[r])
    BY <1>1, ProcessAssumption DEF TypeOK, Clock
  <2>4. Clock(ProcessOf[r])' = c + 1
    <3>1. now \in Nat /\ Offset[ProcessOf[r]] \in Nat
      BY <1>1, ProcessAssumption DEF TypeOK
    <3> QED
      BY <1>1, <2>3, <3>1 DEF Clock
  <2>5. s <= c /\ c - s < MaxDelay /\ MaxDelay \in Nat
    BY <2>1, <2>2, <2>3, BoundAssumption DEF IInv, RequestKnown, Tick
  <2>6. s <= c + 1 /\ c + 1 <= s + MaxDelay
    BY <2>5
  <2>7. RequestKnown(r)
    BY DEF IInv
  <2> QED
    BY <1>1, <2>1, <2>2, <2>4, <2>6, <2>7 DEF RequestKnown
<1>5. BudgetHeld' /\ BudgetNotStolen'
  BY <1>1 DEF IInv, BudgetHeld, BudgetNotStolen
<1> QED
  BY <1>2, <1>3, <1>4, <1>5 DEF IInv

-----------------------------------------------------------------------------
(* Addresses                                                               *)

Entries == Address \cup {Junk}

Chain == Seq(Entries)

Reached(hops) == {i \in DOMAIN hops : \A j \in i + 1 .. Len(hops) : IsTrusted(hops[j])}

(* resolveForwardedChain stops somewhere.                                  *)
LEMMA ReachedLeast ==
    ASSUME NEW hops \in Seq(Entries), hops # <<>>
    PROVE  \E i \in Reached(hops) : \A j \in Reached(hops) : i <= j
<1>1. DOMAIN hops = 1 .. Len(hops) /\ Len(hops) \in Nat /\ Len(hops) > 0
  OBVIOUS
<1>2. PICK n \in Nat : n = Len(hops)
  BY <1>1
<1>3. n + 1 .. n = {} /\ n \in 1 .. n
  BY <1>1, <1>2
<1>4. n \in Reached(hops)
  BY <1>1, <1>2, <1>3 DEF Reached
<1>5. Reached(hops) \in SUBSET Nat
  BY <1>1 DEF Reached
<1> QED
  BY <1>4, <1>5, LeastNat

LEMMA ChainAddress ==
    ASSUME NEW chain \in Chain, NEW socket \in Address
    PROVE  ResolveForwardedChain(chain, socket) \in Address
<1>1. PICK hops : hops = chain \o <<socket>>
  OBVIOUS
<1>2. /\ hops \in Seq(Entries) /\ hops # <<>> /\ Len(hops) = Len(chain) + 1
      /\ \A i \in DOMAIN chain : hops[i] = chain[i]
      /\ hops[Len(chain) + 1] = socket
  BY <1>1 DEF Chain, Entries
<1>3. CASE Len(chain) > MaxChain \/ \E i \in DOMAIN chain : chain[i] = Junk
  BY <1>3 DEF ResolveForwardedChain
<1>4. CASE ~(Len(chain) > MaxChain \/ \E i \in DOMAIN chain : chain[i] = Junk)
  <2>1. ResolveForwardedChain(chain, socket)
          = hops[CHOOSE i \in Reached(hops) : \A j \in Reached(hops) : i <= j]
    BY <1>1, <1>4 DEF ResolveForwardedChain, Reached
  <2>2. (CHOOSE i \in Reached(hops) : \A j \in Reached(hops) : i <= j) \in Reached(hops)
    BY <1>2, ReachedLeast
  <2>3. PICK i \in DOMAIN hops :
          i = CHOOSE k \in Reached(hops) : \A j \in Reached(hops) : k <= j
    BY <2>2 DEF Reached
  <2>4. i \in DOMAIN chain \/ i = Len(chain) + 1
    BY <1>2 DEF Chain
  <2>5. \A k \in DOMAIN chain : chain[k] \in Address
    BY <1>4 DEF Chain, Entries
  <2>6. hops[i] \in Address
    BY <1>2, <2>4, <2>5
  <2> QED
    BY <2>1, <2>3, <2>6
<1> QED
  BY <1>3, <1>4

(* It never passes the first hop that is no proxy.                         *)
LEMMA ChainStops ==
    ASSUME NEW chain \in Chain, NEW socket \in Proxy, NEW p \in DOMAIN chain,
           chain[p] \in Client,
           \A j \in p + 1 .. Len(chain) : chain[j] \in Proxy
    PROVE  ResolveForwardedChain(chain, socket) \in {chain[p], socket}
<1>1. PICK hops : hops = chain \o <<socket>>
  OBVIOUS
<1>2. /\ hops \in Seq(Entries) /\ hops # <<>> /\ Len(hops) = Len(chain) + 1
      /\ \A i \in DOMAIN chain : hops[i] = chain[i]
      /\ hops[Len(chain) + 1] = socket
  BY <1>1 DEF Chain, Entries, Address
<1>3. /\ DOMAIN chain = 1 .. Len(chain) /\ Len(chain) \in Nat
      /\ DOMAIN hops = 1 .. Len(hops)
  BY <1>2 DEF Chain
<1>4. CASE Len(chain) > MaxChain \/ \E i \in DOMAIN chain : chain[i] = Junk
  BY <1>4 DEF ResolveForwardedChain
<1>5. CASE ~(Len(chain) > MaxChain \/ \E i \in DOMAIN chain : chain[i] = Junk)
  <2>1. ResolveForwardedChain(chain, socket)
          = hops[CHOOSE i \in Reached(hops) : \A j \in Reached(hops) : i <= j]
    BY <1>1, <1>5 DEF ResolveForwardedChain, Reached
  <2>2. p \in Reached(hops)
    <3>1. \A j \in p + 1 .. Len(hops) : hops[j] \in Proxy
      <4>1. SUFFICES ASSUME NEW j \in p + 1 .. Len(hops) PROVE hops[j] \in Proxy
        OBVIOUS
      <4>2. CASE j = Len(chain) + 1
        BY <1>2, <4>2
      <4>3. CASE j # Len(chain) + 1
        <5>1. j \in p + 1 .. Len(chain) /\ j \in DOMAIN chain
          BY <1>2, <1>3, <4>3
        <5> QED
          BY <1>2, <5>1
      <4> QED
        BY <4>2, <4>3
    <3>2. p \in DOMAIN hops
      BY <1>2, <1>3
    <3> QED
      BY <3>1, <3>2 DEF Reached, IsTrusted
  <2>3. \A i \in Reached(hops) : p <= i
    <3>1. SUFFICES ASSUME NEW i \in Reached(hops), ~(p <= i) PROVE FALSE
      OBVIOUS
    <3>2. i \in Nat /\ p \in Nat /\ p \in i + 1 .. Len(hops)
      BY <1>2, <1>3, <3>1 DEF Reached
    <3>3. hops[p] \in Proxy
      BY <3>2 DEF Reached, IsTrusted
    <3> QED
      BY <1>2, <3>3, AddressAssumption
  <2>4. \A i \in Reached(hops) : (\A j \in Reached(hops) : i <= j) => i = p
    <3>1. SUFFICES ASSUME NEW i \in Reached(hops), \A j \in Reached(hops) : i <= j
                   PROVE  i = p
      OBVIOUS
    <3>2. i \in Nat /\ p \in Nat /\ i <= p /\ p <= i
      BY <1>3, <2>2, <2>3, <3>1 DEF Reached
    <3> QED
      BY <3>2
  <2>5. (CHOOSE i \in Reached(hops) : \A j \in Reached(hops) : i <= j) = p
    BY <2>2, <2>3, <2>4
  <2> QED
    BY <1>2, <2>1, <2>5
<1> QED
  BY <1>4, <1>5

LEMMA ChainsKnown == Chains \subseteq Chain
<1>1. SUFFICES ASSUME NEW c \in Chains PROVE c \in Chain
  OBVIOUS
<1>2. PICK n \in 0 .. MaxForged : c \in [1 .. n -> Entries]
  BY <1>1 DEF Chains, Entries
<1>3. n \in Nat
  BY <1>2, AddressAssumption
<1> QED
  BY <1>2, <1>3 DEF Chain

LEMMA RoutesKnown == Routes \subseteq Seq(Proxy)
<1>1. SUFFICES ASSUME NEW path \in Routes PROVE path \in Seq(Proxy)
  OBVIOUS
<1>2. PICK n \in 0 .. MaxRoute : path \in [1 .. n -> Proxy]
  BY <1>1 DEF Routes
<1>3. n \in Nat
  BY <1>2, AddressAssumption
<1> QED
  BY <1>2, <1>3

LEMMA NotAbsent ==
    /\ \A c \in Chain : c # Absent
    /\ \A a \in Address : a # Absent /\ a # Junk
BY AddressAssumption DEF Chain, Entries

(* What the proxies add to x-forwarded-for is the client, then proxies.    *)
LEMMA Appended ==
    ASSUME NEW f \in Chain, NEW client \in Client, NEW socket \in Proxy, NEW seen \in Chain,
           Len(seen) >= 1, seen[1] = client, \A i \in 2 .. Len(seen) : seen[i] \in Proxy
    PROVE  /\ f \o seen \in Chain
           /\ ResolveForwardedChain(f \o seen, socket) \in {client, socket}
<1>3. PICK chain : chain = f \o seen
  OBVIOUS
<1>4. PICK n \in Nat : n = Len(f)
  BY DEF Chain
<1>5. PICK m \in Nat : m = Len(seen)
  BY DEF Chain
<1>6. /\ chain \in Chain /\ Len(chain) = n + m /\ DOMAIN chain = 1 .. n + m
      /\ \A i \in 1 .. m : chain[n + i] = seen[i]
  BY <1>3, <1>4, <1>5 DEF Chain
<1>7. n + 1 \in DOMAIN chain /\ chain[n + 1] = client
  BY <1>5, <1>6
<1>8. \A j \in n + 1 + 1 .. Len(chain) : chain[j] \in Proxy
  <2>1. SUFFICES ASSUME NEW j \in n + 2 .. n + m PROVE chain[j] \in Proxy
    BY <1>6
  <2>2. PICK i \in Int : i = j - n
    OBVIOUS
  <2>3. i \in 2 .. m /\ i \in 1 .. m /\ j = n + i
    BY <2>1, <2>2
  <2>4. chain[j] = seen[i]
    BY <1>6, <2>3
  <2> QED
    BY <1>5, <2>3, <2>4
<1>9. ResolveForwardedChain(chain, socket) \in {chain[n + 1], socket}
  BY <1>6, <1>7, <1>8, ChainStops
<1> QED
  BY <1>3, <1>6, <1>7, <1>9

(* A request that came through proxies: the headers they set are genuine.  *)
LEMMA DeliveredBehind ==
    ASSUME NEW client \in Client, NEW path \in Routes, path # <<>>, NEW sets,
           NEW forged \in Forged, NEW d, d = Delivered(client, path, sets, forged)
    PROVE  /\ d.socket \in Proxy
           /\ d.forwarded \in Chain \cup {Absent} /\ d.real \in Single /\ d.cf \in Single
           /\ "x-forwarded-for" \in sets =>
                 /\ d.forwarded \in Chain
                 /\ ResolveForwardedChain(d.forwarded, d.socket) \in {client, d.socket}
           /\ "x-real-ip" \in sets => d.real \in {client} \cup Proxy
           /\ "cf-connecting-ip" \in sets => d.cf = client
<1>0. PICK f, real, cf : f = forged.forwarded /\ real = forged.real /\ cf = forged.cf
  OBVIOUS
<1>1. PICK hops : hops = <<client>> \o path
  OBVIOUS
<1>2. PICK seen : seen = SubSeq(hops, 1, Len(hops) - 1)
  OBVIOUS
<1>3. PICK g : g = IF f = Absent THEN <<>> ELSE f
  OBVIOUS
<1>4. g \in Chain /\ f \in Chain \cup {Absent}
  <2>1. <<>> \in Chain
    BY DEF Chain
  <2> QED
    BY <1>0, <1>3, <2>1, ChainsKnown DEF Forged
<1>5. /\ d.socket = hops[Len(hops)]
      /\ d.forwarded = IF "x-forwarded-for" \in sets THEN g \o seen ELSE f
      /\ d.real = IF "x-real-ip" \in sets THEN hops[Len(hops) - 1] ELSE real
      /\ d.cf = IF "cf-connecting-ip" \in sets THEN client ELSE cf
  BY <1>0, <1>1, <1>2, <1>3 DEF Delivered
<1>6. PICK n \in Nat : n = Len(path) /\ n >= 1 /\ path \in Seq(Proxy)
  <2>1. path \in Seq(Proxy)
    BY RoutesKnown
  <2>2. Len(path) \in Nat /\ Len(path) # 0
    BY <2>1
  <2> QED
    BY <2>1, <2>2
<1>7. /\ hops \in Chain /\ Len(hops) = n + 1 /\ hops[1] = client
       /\ \A i \in 2 .. n + 1 : hops[i] \in Proxy
  <2>1. client \in Entries /\ Proxy \subseteq Entries
    BY DEF Entries, Address
  <2>2. path \in Seq(Entries) /\ <<client>> \in Seq(Entries) /\ Len(<<client>>) = 1
    BY <1>6, <2>1
  <2>3. /\ hops \in Seq(Entries) /\ Len(hops) = n + 1 /\ hops[1] = client
        /\ \A i \in 1 .. n : hops[1 + i] = path[i]
    BY <1>1, <1>6, <2>2
  <2>4. ASSUME NEW i \in 2 .. n + 1 PROVE hops[i] \in Proxy
    <3>1. PICK k \in 1 .. n : i = 1 + k
      BY <2>4
    <3>2. path[k] \in Proxy
      BY <1>6, <3>1
    <3> QED
      BY <2>3, <3>1, <3>2
  <2> QED
    BY <2>3, <2>4 DEF Chain
<1>8. hops[Len(hops)] \in Proxy
  <2>1. n + 1 \in 2 .. n + 1
    BY <1>6
  <2> QED
    BY <1>7, <2>1
<1>9. hops[Len(hops) - 1] \in {client} \cup Proxy
  <2>1. Len(hops) - 1 = n /\ (n = 1 \/ n \in 2 .. n + 1)
    BY <1>6, <1>7
  <2> QED
    BY <1>7, <2>1
<1>10. /\ seen \in Chain /\ Len(seen) >= 1 /\ seen[1] = client
       /\ \A i \in 2 .. Len(seen) : seen[i] \in Proxy
  <2>1. seen = SubSeq(hops, 1, n)
    BY <1>2, <1>6, <1>7
  <2>2. seen \in Seq(Entries) /\ Len(seen) = n /\ \A i \in 1 .. n : seen[i] = hops[i]
    BY <1>6, <1>7, <2>1 DEF Chain
  <2>3. \A i \in 2 .. n : i \in 1 .. n /\ i \in 2 .. n + 1
    BY <1>6
  <2> QED
    BY <1>6, <1>7, <2>2, <2>3 DEF Chain
<1>11. PICK socket \in Proxy : socket = d.socket
  BY <1>5, <1>8
<1>12. /\ g \o seen \in Chain
      /\ ResolveForwardedChain(g \o seen, socket) \in {client, socket}
  BY <1>4, <1>10, Appended
<1>13. client \in Single /\ Proxy \subseteq Single /\ real \in Single /\ cf \in Single
  BY <1>0 DEF Single, Address, Forged
<1> QED
  BY <1>4, <1>5, <1>9, <1>11, <1>12, <1>13

(* A client that talks to the server itself is charged for itself.         *)
LEMMA DeliveredDirectly ==
    ASSUME NEW client \in Client, NEW header, NEW sets, NEW forged
    PROVE  Resolve(header, Delivered(client, <<>>, sets, forged)) = client
<1>1. PICK d : d = Delivered(client, <<>>, sets, forged)
  OBVIOUS
<1>2. d.socket = client
  <2>1. <<client>> \o <<>> = <<client>> /\ Len(<<client>>) = 1 /\ <<client>>[1] = client
    OBVIOUS
  <2> QED
    BY <1>1, <2>1 DEF Delivered
<1>3. ~IsTrusted(d.socket)
  BY <1>2, AddressAssumption DEF IsTrusted
<1> QED
  BY <1>1, <1>2, <1>3 DEF Resolve

(* With *, a genuine header among those present decides, or the socket.    *)
LEMMA AgreedKnown ==
    ASSUME NEW client \in Client, NEW d, d.socket \in Proxy,
           d.forwarded \in Chain \cup {Absent}, d.real \in Single, d.cf \in Single,
           \/ /\ d.forwarded \in Chain
              /\ ResolveForwardedChain(d.forwarded, d.socket) \in {client, d.socket}
           \/ d.real \in {client} \cup Proxy
           \/ d.cf = client
    PROVE  ResolveAgreed(d) \in {client} \cup Proxy
<1> DEFINE singles == {d.cf, d.real} \ {Absent}
           chained == IF d.forwarded = Absent THEN {}
                      ELSE {ResolveForwardedChain(d.forwarded, d.socket)}
           resolved == singles \cup chained
<1>1. ResolveAgreed(d) = IF Junk \in singles \/ Cardinality(resolved) # 1 THEN d.socket
                         ELSE CHOOSE address \in resolved : TRUE
  BY DEF ResolveAgreed
<1>2. CASE Junk \in singles \/ Cardinality(resolved) # 1
  BY <1>1, <1>2
<1>3. CASE ~(Junk \in singles \/ Cardinality(resolved) # 1)
  <2>1. \E g \in resolved : g \in {client} \cup Proxy
    <3>1. CASE /\ d.forwarded \in Chain
               /\ ResolveForwardedChain(d.forwarded, d.socket) \in {client, d.socket}
      <4>1. d.forwarded # Absent
        BY <3>1, NotAbsent
      <4> QED
        BY <3>1, <4>1
    <3>2. CASE d.real \in {client} \cup Proxy
      <4>1. d.real # Absent
        BY <3>2, NotAbsent DEF Address
      <4> QED
        BY <3>2, <4>1
    <3>3. CASE d.cf = client
      <4>1. d.cf # Absent
        BY <3>3, NotAbsent DEF Address
      <4> QED
        BY <3>3, <4>1
    <3> QED
      BY <3>1, <3>2, <3>3
  <2>2. IsFiniteSet(resolved)
    <3>1. IsFiniteSet({d.cf, d.real, ResolveForwardedChain(d.forwarded, d.socket)})
      <4>1. PICK a, b, c : a = d.cf /\ b = d.real
                            /\ c = ResolveForwardedChain(d.forwarded, d.socket)
        OBVIOUS
      <4>2. IsFiniteSet({a})
        BY FS_Singleton
      <4>3. IsFiniteSet({a} \cup {b})
        BY <4>2, FS_AddElement
      <4>4. IsFiniteSet(({a} \cup {b}) \cup {c})
        BY <4>3, FS_AddElement
      <4>5. ({a} \cup {b}) \cup {c} = {a, b, c}
        OBVIOUS
      <4> QED
        BY <4>1, <4>4, <4>5
    <3>2. resolved \subseteq {d.cf, d.real, ResolveForwardedChain(d.forwarded, d.socket)}
      OBVIOUS
    <3> QED
      BY <3>1, <3>2, FS_Subset
  <2>3. PICK x : resolved = {x}
    <3> HIDE DEF resolved
    <3> QED
      BY <1>3, <2>2, FS_Singleton
  <2>4. x \in {client} \cup Proxy
    <3> HIDE DEF resolved
    <3> QED
      BY <2>1, <2>3
  <2>5. (CHOOSE address \in resolved : TRUE) = x
    <3> HIDE DEF resolved
    <3> QED
      BY <2>3
  <2> QED
    BY <1>1, <1>3, <2>4, <2>5
<1> QED
  BY <1>2, <1>3

(* Behind proxies a request is charged to its client or to a proxy.        *)
LEMMA ResolvedBehind ==
    ASSUME NEW deployment \in Deployments, NEW client \in Client,
           NEW path \in Routes, path # <<>>,
           NEW forged \in Forged, NEW d,
           d = Delivered(client, path, deployment.sets, forged)
    PROVE  Resolve(deployment.header, d) \in {client} \cup Proxy
<1>1. PICK header : header = deployment.header
  OBVIOUS
<1>2. PICK sets : sets = deployment.sets
  OBVIOUS
<1>3. /\ header \in {"off", "*", "cf-connecting-ip", "x-real-ip", "x-forwarded-for"}
      /\ sets \in SUBSET Headers /\ sets # {}
      /\ header \in Headers => header \in sets
  BY <1>1, <1>2 DEF Deployments, Headers
<1>4. /\ d.socket \in Proxy
      /\ d.forwarded \in Chain \cup {Absent} /\ d.real \in Single /\ d.cf \in Single
      /\ "x-forwarded-for" \in sets =>
            /\ d.forwarded \in Chain
            /\ ResolveForwardedChain(d.forwarded, d.socket) \in {client, d.socket}
      /\ "x-real-ip" \in sets => d.real \in {client} \cup Proxy
      /\ "cf-connecting-ip" \in sets => d.cf = client
  BY <1>2, DeliveredBehind
<1>5. IsTrusted(d.socket)
  BY <1>4 DEF IsTrusted
<1>6. CASE header = "off"
  <2>1. Resolve(header, d) = d.socket
    BY <1>6 DEF Resolve
  <2> QED
    BY <1>1, <1>4, <2>1
<1>7. CASE header = "*"
  <2>1. Resolve(header, d) = ResolveAgreed(d)
    BY <1>5, <1>7 DEF Resolve
  <2>2. \/ "x-forwarded-for" \in sets
        \/ "x-real-ip" \in sets
        \/ "cf-connecting-ip" \in sets
    BY <1>3 DEF Headers
  <2>3. ResolveAgreed(d) \in {client} \cup Proxy
    BY <1>4, <2>2, AgreedKnown
  <2> QED
    BY <1>1, <2>1, <2>3
<1>8. CASE header = "cf-connecting-ip"
  <2>1. Resolve(header, d) = ResolveSingle(d.cf, d.socket)
    BY <1>5, <1>8 DEF Resolve
  <2>2. d.cf = client
    BY <1>3, <1>4, <1>8 DEF Headers
  <2> QED
    BY <1>1, <1>4, <2>1, <2>2 DEF ResolveSingle
<1>9. CASE header = "x-real-ip"
  <2>1. Resolve(header, d) = ResolveSingle(d.real, d.socket)
    BY <1>5, <1>9 DEF Resolve
  <2>2. d.real \in {client} \cup Proxy
    BY <1>3, <1>4, <1>9 DEF Headers
  <2> QED
    BY <1>1, <1>4, <2>1, <2>2 DEF ResolveSingle
<1>10. CASE header = "x-forwarded-for"
  <2>1. /\ d.forwarded \in Chain
        /\ ResolveForwardedChain(d.forwarded, d.socket) \in {client, d.socket}
    BY <1>3, <1>4, <1>10 DEF Headers
  <2>2. d.forwarded # Absent
    BY <2>1, NotAbsent
  <2>3. Resolve(header, d) = ResolveForwardedChain(d.forwarded, d.socket)
    BY <1>5, <1>10, <2>2 DEF Resolve
  <2> QED
    BY <1>1, <1>4, <2>1, <2>3
<1> QED
  BY <1>3, <1>6, <1>7, <1>8, <1>9, <1>10

(* Whatever a client sends, it is charged to itself or to a proxy.         *)
LEMMA ChargesKnown ==
    ASSUME NEW deployment \in Deployments
    PROVE  /\ Charges(deployment) \subseteq [source : Client, address : Address]
           /\ \A c \in Charges(deployment) : c.address \in Client => c.address = c.source
<1>1. SUFFICES ASSUME NEW c \in Charges(deployment)
               PROVE  /\ c \in [source : Client, address : Address]
                      /\ c.address \in Client => c.address = c.source
  OBVIOUS
<1>2. PICK sent \in [client : Client, path : Routes, forged : Forged] :
        c = [source |-> sent.client,
             address |-> Resolve(deployment.header,
                           Delivered(sent.client, sent.path, deployment.sets, sent.forged))]
  BY <1>1 DEF Charges
<1>3. PICK client \in Client, path \in Routes, forged \in Forged :
        client = sent.client /\ path = sent.path /\ forged = sent.forged
  OBVIOUS
<1>4. PICK address :
        address = Resolve(deployment.header,
                          Delivered(client, path, deployment.sets, forged))
  OBVIOUS
<1>5. address \in {client} \cup Proxy
  <2>1. CASE path = <<>>
    BY <1>4, <2>1, DeliveredDirectly
  <2>2. CASE path # <<>>
    BY <1>4, <2>2, ResolvedBehind
  <2> QED
    BY <2>1, <2>2
<1>6. c = [source |-> client, address |-> address]
  BY <1>2, <1>3, <1>4
<1> QED
  BY <1>5, <1>6, AddressAssumption DEF Address

-----------------------------------------------------------------------------
(* What holds of every behaviour                                           *)

LEMMA InitHolds == Init => IInv
<1> SUFFICES ASSUME Init PROVE IInv
  OBVIOUS
<1>1. /\ charges \in SUBSET [source : Client, address : Address]
      /\ BudgetNotStolen
  <2>1. PICK deployment \in Deployments : charges = Charges(deployment)
    BY DEF Init
  <2> QED
    BY <2>1, ChargesKnown DEF BudgetNotStolen
<1>2. \A key \in Key : /\ window[key] = EmptyWindow /\ window[key].members = {}
                       /\ admitted[key] = <<>> /\ promised[key] = 0
  BY DEF Init, EmptyWindow
<1>3. \A key \in Key : /\ IsFiniteSet(window[key].members)
                       /\ Cardinality(window[key].members) <= LimitOf(key)
  <2>1. SUFFICES ASSUME NEW key \in Key
                 PROVE  /\ IsFiniteSet(window[key].members)
                        /\ Cardinality(window[key].members) <= LimitOf(key)
    OBVIOUS
  <2>2. IsFiniteSet({}) /\ Cardinality({}) = 0 /\ 0 <= LimitOf(key)
    BY FS_EmptySet, LimitKnown
  <2> QED
    BY <1>2, <2>2
<1>4. TypeOK
  <2>1. EmptyWindow \in SortedSet /\ <<>> \in Seq(Nat)
    BY DEF EmptyWindow, SortedSet
  <2>2. /\ window \in [Key -> SortedSet] /\ admitted \in [Key -> Seq(Nat)]
        /\ promised \in [Key -> Nat] /\ request \in [Request -> RequestState \cup {Idle}]
    BY <2>1 DEF Init
  <2>3. /\ now \in 0 .. MaxTime /\ started \in 0 .. MaxRequests
        /\ faults \in 0 .. MaxFaults
    BY BoundAssumption DEF Init
  <2> QED
    BY <1>1, <1>3, <2>2, <2>3 DEF TypeOK
<1>5. ASSUME NEW r \in Request PROVE RequestKnown(r)
  <2>1. request[r] = Idle
    BY DEF Init
  <2> QED
    BY <2>1, IdleKnown DEF RequestKnown
<1>6. ASSUME NEW key \in Key PROVE WindowKnown(key)
  <2>1. DOMAIN admitted[key] = {} /\ window[key].members = {} /\ promised[key] = 0
    BY <1>2
  <2> QED
    BY <2>1 DEF WindowKnown, AdmittedInOrder, MembersAdmitted, StillCounted, KeptAlive,
                PromiseRests
<1>7. BudgetHeld
  <2>1. \A key \in Key : DOMAIN admitted[key] = {}
    BY <1>2
  <2> QED
    BY <2>1 DEF BudgetHeld
<1> QED
  BY <1>1, <1>4, <1>5, <1>6, <1>7 DEF IInv

LEMMA NextKeeps == IInv /\ [Next]_vars => IInv'
<1> SUFFICES ASSUME IInv, [Next]_vars PROVE IInv'
  OBVIOUS
<1>1. ASSUME NEW r \in Request, Accept(r) PROVE IInv'
  BY <1>1, AcceptKeeps
<1>2. ASSUME NEW r \in Request, Admit(r) PROVE IInv'
  BY <1>2, AdmitKeeps
<1>3. ASSUME NEW r \in Request, Refuse(r) PROVE IInv'
  BY <1>3, RefuseKeeps
<1>4. ASSUME NEW r \in Request, Fail(r) PROVE IInv'
  BY <1>4, FailKeeps
<1>5. CASE Tick
  BY <1>5, TickKeeps
<1>6. CASE UNCHANGED vars
  <2>1. /\ charges' = charges /\ now' = now /\ window' = window /\ request' = request
        /\ started' = started /\ faults' = faults /\ admitted' = admitted
        /\ promised' = promised
    BY <1>6 DEF vars
  <2>2. TypeOK' /\ BudgetHeld' /\ BudgetNotStolen'
    BY <2>1 DEF IInv, TypeOK, BudgetHeld, BudgetNotStolen
  <2>3. \A r \in Request : RequestKnown(r)'
    BY <2>1 DEF IInv, RequestKnown, Clock
  <2>4. \A key \in Key : WindowKnown(key)'
    BY <2>1 DEF IInv, WindowKnown, AdmittedInOrder, MembersAdmitted, StillCounted,
                KeptAlive, PromiseRests
  <2> QED
    BY <2>2, <2>3, <2>4 DEF IInv
<1> QED
  BY <1>1, <1>2, <1>3, <1>4, <1>5, <1>6 DEF Next

(* The invariant holds of every reachable state.                           *)
THEOREM Invariance == Spec => []IInv
BY InitHolds, NextKeeps, PTL DEF Spec

(* Every variable of the gate keeps its type, and no window ever holds     *)
(* more members than the limit of its key (RATE_LIMIT_SCRIPT).             *)
THEOREM TypeCorrect == Spec => []TypeOK
<1>1. IInv => TypeOK
  BY DEF IInv
<1> QED
  BY <1>1, Invariance, PTL

(* enforceRateLimit never admits more than limit requests of a key within  *)
(* a window, less the delay of the script and the difference of the        *)
(* clocks, whichever scripts are lost or reordered.                        *)
THEOREM LimitsHold == Spec => []BudgetHeld
<1>1. IInv => BudgetHeld
  BY DEF IInv
<1> QED
  BY <1>1, Invariance, PTL

(* ClientIpResolver charges nobody for another client, whatever headers    *)
(* arrive and whichever of them the proxies set.                           *)
THEOREM NotStolen == Spec => []BudgetNotStolen
<1>1. IInv => BudgetNotStolen
  BY DEF IInv
<1> QED
  BY <1>1, Invariance, PTL

(* The members a limiter counts stand for that many recent admissions.     *)
LEMMA CountedRecently ==
    ASSUME IInv, NEW r \in Request, request[r].pc \in Limiters, NEW key \in Key, key = KeyOf(r),
           NEW recent,
           recent = {i \in DOMAIN admitted[key] : now - admitted[key][i] < Window + Slack}
    PROVE  Cardinality(Pruned(window[key], request[r].stamp)) <= Cardinality(recent)
           /\ Cardinality(recent) \in Nat
<1>1. TypeOK /\ RequestKnown(r) /\ WindowKnown(key)
  BY DEF IInv
<1>2. PICK times \in Seq(Nat) : times = admitted[key]
  BY <1>1, KeyFacts
<1>3. PICK t \in Nat : t = now
  BY <1>1, KeyFacts
<1>4. PICK s \in Nat : s = request[r].stamp /\ t <= s + MaxDelay
  BY <1>1, <1>3, StampKnown
<1>5. PICK w \in SortedSet : w = window[key] /\ IsFiniteSet(w.members)
  BY <1>1, KeyFacts
<1>6. PICK P : P = Pruned(w, s)
  OBVIOUS
<1>7. IsFiniteSet(P) /\ P \subseteq w.members /\ P \subseteq Member
  BY <1>5, <1>6, PrunedKnown DEF SortedSet
<1>8. Window \in Nat /\ MaxDelay \in Nat /\ MaxOffset \in Nat /\ Slack = MaxDelay + MaxOffset
  BY WindowAssumption, BoundAssumption, ProcessAssumption DEF Slack
<1>9. \A m \in P : m.id \in recent
  <2>1. SUFFICES ASSUME NEW m \in P PROVE m.id \in recent
    OBVIOUS
  <2>2. m.id \in DOMAIN times /\ m.stamp <= times[m.id] + MaxOffset /\ m.stamp > s - Window
    BY <1>1, <1>2, <1>5, <1>6, <1>7 DEF WindowKnown, MembersAdmitted, Pruned
  <2>3. PICK a \in Nat : a = times[m.id]
    BY <2>2
  <2>4. PICK b \in Nat : b = m.stamp
    BY <1>7 DEF Member
  <2>5. b <= a + MaxOffset /\ b > s - Window
    BY <2>2, <2>3, <2>4
  <2>6. t - a < Window + Slack
    BY <1>4, <1>8, <2>5
  <2> QED
    BY <1>2, <1>3, <2>2, <2>3, <2>6
<1>10. \A m, n \in P : m.id = n.id => m = n
  BY <1>1, <1>5, <1>7 DEF WindowKnown, MembersAdmitted
<1> DEFINE f == [m \in P |-> m.id]
<1>11. f \in Injection(P, recent)
  BY <1>9, <1>10 DEF Injection, IsInjective
<1>12. IsFiniteSet(recent)
  <2>1. PICK n \in Nat : DOMAIN times = 1 .. n
    OBVIOUS
  <2>2. IsFiniteSet(1 .. n)
    BY FS_Interval
  <2>3. recent \subseteq DOMAIN times
    BY <1>2
  <2> QED
    BY <2>1, <2>2, <2>3, FS_Subset
<1>13. Cardinality(P) <= Cardinality(recent)
  BY <1>11, <1>12, FS_Injection
<1> QED
  BY <1>4, <1>5, <1>6, <1>12, <1>13, FS_CardinalityType

(* Whoever is answered 429 was admitted limit times within a window and    *)
(* the slack, for the same endpoint, principal or address: refusals and    *)
(* other budgets never count.                                              *)
THEOREM Earned == Spec => RefusalsEarned
<1>1. IInv /\ [Next]_vars =>
        [\A r \in Request : Refuse(r) =>
            LET own == IF request[r].pc = "principal"
                       THEN <<request[r].route, request[r].principal>>
                       ELSE <<request[r].pc, request[r].address>>
                recent == {i \in DOMAIN admitted[own] :
                              now - admitted[own][i] < Window + Slack}
            IN  Cardinality(recent) >= LimitOf(own)]_vars
  <2>1. SUFFICES ASSUME IInv, NEW r \in Request, Refuse(r)
                 PROVE  Cardinality({i \in DOMAIN admitted[KeyOf(r)] :
                                        now - admitted[KeyOf(r)][i] < Window + Slack})
                           >= LimitOf(KeyOf(r))
    BY DEF KeyOf
  <2>2. request[r].pc \in Limiters /\ TypeOK /\ RequestKnown(r)
    BY <2>1 DEF Refuse, IInv
  <2>3. PICK key \in Key : key = KeyOf(r)
    BY <2>2, KeyKnown
  <2>4. PICK recent :
          recent = {i \in DOMAIN admitted[key] : now - admitted[key][i] < Window + Slack}
    OBVIOUS
  <2>5. /\ Cardinality(Pruned(window[key], request[r].stamp)) <= Cardinality(recent)
        /\ Cardinality(recent) \in Nat
    BY <2>1, <2>2, <2>3, <2>4, CountedRecently
  <2>6. /\ Cardinality(Pruned(window[key], request[r].stamp)) >= LimitOf(key)
        /\ LimitOf(key) \in Nat
    BY <2>1, <2>3, LimitKnown DEF Refuse, Exhausted
  <2>7. Cardinality(Pruned(window[key], request[r].stamp)) \in Nat
    BY <2>2, <2>3, KeyFacts, StampKnown, PrunedKnown
  <2>8. Cardinality(recent) >= LimitOf(key)
    BY <2>5, <2>6, <2>7
  <2> QED
    BY <2>3, <2>4, <2>8
<1> QED
  BY <1>1, Invariance, PTL DEF Spec, RefusalsEarned

(* A request stamped once Retry-After is over is not answered 429 again,   *)
(* unless another one of its key was admitted first.                       *)
THEOREM RetrySuffices == Spec => RetryAfterSuffices
<1>1. IInv /\ [Next]_vars =>
        [\A r \in Request : Refuse(r) =>
            \/ promised[KeyOf(r)] = 0
            \/ request[r].stamp < promised[KeyOf(r)]]_vars
  <2>1. SUFFICES ASSUME IInv, NEW r \in Request, Refuse(r), promised[KeyOf(r)] # 0,
                        ~(request[r].stamp < promised[KeyOf(r)])
                 PROVE  FALSE
    OBVIOUS
  <2>2. request[r].pc \in Limiters /\ TypeOK /\ RequestKnown(r)
    BY <2>1 DEF Refuse, IInv
  <2>3. PICK key \in Key : key = KeyOf(r)
    BY <2>2, KeyKnown
  <2>4. PICK s \in Nat : s = request[r].stamp
    BY <2>2, StampKnown
  <2>5. PICK w \in SortedSet : w = window[key] /\ IsFiniteSet(w.members)
                               /\ Cardinality(w.members) <= LimitOf(key)
    BY <2>2, KeyFacts
  <2>6. PICK u \in Nat : u = promised[key] /\ u <= s /\ u # 0
    BY <2>1, <2>2, <2>3, <2>4, KeyFacts
  <2>7. PICK P : P = Pruned(w, s)
    OBVIOUS
  <2>8. /\ P \subseteq w.members /\ IsFiniteSet(P) /\ Cardinality(P) \in Nat
        /\ Cardinality(w.members) \in Nat /\ Cardinality(P) <= Cardinality(w.members)
    BY <2>5, <2>7, PrunedKnown
  <2>9. Cardinality(P) >= LimitOf(key) /\ LimitOf(key) \in Nat
    BY <2>1, <2>3, <2>4, <2>5, <2>7, LimitKnown DEF Refuse, Exhausted
  <2>10. \/ Cardinality(w.members) < LimitOf(key)
         \/ \E m \in w.members : m.stamp + Window <= u
    <3>1. PromiseRests(key)
      BY <2>1 DEF IInv, WindowKnown
    <3> QED
      BY <2>5, <2>6, <3>1 DEF PromiseRests
  <2>11. PICK m \in w.members : m.stamp + Window <= u
    BY <2>5, <2>8, <2>9, <2>10
  <2>12. m \notin P
    <3>1. m.stamp \in Nat /\ Window \in Nat
      BY <2>5, WindowAssumption DEF SortedSet, Member
    <3>2. ~(m.stamp > s - Window)
      BY <2>6, <2>11, <3>1
    <3> QED
      BY <2>7, <3>2 DEF Pruned
  <2>13. /\ P \subseteq w.members \ {m} /\ IsFiniteSet(w.members \ {m})
         /\ Cardinality(w.members \ {m}) = Cardinality(w.members) - 1
    BY <2>5, <2>8, <2>12, FS_RemoveElement
  <2>14. Cardinality(P) <= Cardinality(w.members \ {m})
    BY <2>13, FS_Subset
  <2> QED
    BY <2>5, <2>8, <2>9, <2>13, <2>14
<1> QED
  BY <1>1, Invariance, PTL DEF Spec, RetryAfterSuffices
=============================================================================
