------------------------- MODULE RedisSessionsProofs -------------------------
(***************************************************************************)
(* What the Lua scripts of RedisSessionRepository.ts preserve, for every   *)
(* set of tokens, every time to live and every store.  Two ideas carry the *)
(* lemmas: a store is Covered when its set names every live session and    *)
(* outlives it, and a script Shrinks a store when it only ends sessions.   *)
(***************************************************************************)
EXTENDS RedisSessions, FiniteSetTheorems, TLAPS

(* Every live token is in the set, and the set expires no earlier.         *)
Covered(store) ==
    \A t \in Live(store) :
        t \in store.members /\ store.session[t].ttl <= store.setTtl

(* No session appears, and those that stay keep revision and binding.      *)
Shrinks(store, next) ==
    \A t \in Live(next) :
        /\ t \in Live(store)
        /\ next.session[t].revision = store.session[t].revision
        /\ next.session[t].binding = store.session[t].binding

(* The value of a live token has every field; the value of another has one.*)
LEMMA LiveValue ==
    ASSUME NEW store \in Store, NEW t \in Token
    PROVE  /\ t \in Live(store) <=> store.session[t] \in Session
           /\ t \notin Live(store) <=> store.session[t] = NoSession
<1>1. store.session[t] \in Session \cup {NoSession}
  BY DEF Store
<1>2. \A v \in Session : v.live = TRUE
  BY DEF Session
<1>3. NoSession.live = FALSE
  BY DEF NoSession
<1>4. NoSession \notin Session
  BY <1>2, <1>3
<1>5. t \in Live(store) <=> store.session[t].live
  BY DEF Live
<1> QED BY <1>1, <1>2, <1>3, <1>4, <1>5

LEMMA EmptyStoreLemma ==
    EmptyStore \in Store /\ Live(EmptyStore) = {} /\ Covered(EmptyStore)
BY SessionTtlAssumption DEF EmptyStore, Store, NoSession, Live, Covered

(* Forget ends exactly the tokens in gone, if whatever else it drops from  *)
(* the set is dead.                                                        *)
LEMMA ForgetLemma ==
    ASSUME NEW store \in Store, NEW gone \in SUBSET Token, NEW dropped \in SUBSET Token
    PROVE  /\ Forget(store, gone, dropped) \in Store
           /\ Live(Forget(store, gone, dropped)) = Live(store) \ gone
           /\ Shrinks(store, Forget(store, gone, dropped))
           /\ Covered(store) /\ dropped \cap Live(store) \subseteq gone
                => Covered(Forget(store, gone, dropped))
<1> DEFINE next == Forget(store, gone, dropped)
<1>1. next \in Store
  BY SessionTtlAssumption DEF Forget, Store
<1>2. \A t \in Token : next.session[t] = IF t \in gone THEN NoSession ELSE store.session[t]
  BY DEF Forget
<1>3. Live(next) = Live(store) \ gone
  BY <1>2 DEF Live, NoSession
<1>4. Shrinks(store, next)
  BY <1>2, <1>3 DEF Shrinks, Live
<1>5. ASSUME Covered(store), dropped \cap Live(store) \subseteq gone
      PROVE  Covered(next)
  <2> SUFFICES ASSUME NEW t \in Live(next)
               PROVE  t \in next.members /\ next.session[t].ttl <= next.setTtl
    BY DEF Covered
  <2>1. t \in Live(store) /\ t \notin gone /\ t \in Token
    BY <1>3 DEF Live
  <2>2. t \in store.members \ dropped
    BY <2>1, <1>5 DEF Covered
  <2>3. next.members = store.members \ dropped /\ next.setTtl = store.setTtl
    BY <2>2 DEF Forget
  <2>4. next.session[t] = store.session[t]
    BY <1>2, <2>1
  <2> QED BY <2>1, <2>2, <2>3, <2>4, <1>5 DEF Covered
<1> QED BY <1>1, <1>3, <1>4, <1>5

(* Put makes one token live, and covers what was covered.                  *)
LEMMA PutLemma ==
    ASSUME NEW store \in Store, NEW token \in Token, NEW revision \in Nat,
           NEW binding \in Binding
    PROVE  /\ Put(store, token, revision, binding) \in Store
           /\ Live(Put(store, token, revision, binding)) = Live(store) \cup {token}
           /\ \A t \in Token \ {token} :
                Put(store, token, revision, binding).session[t] = store.session[t]
           /\ Put(store, token, revision, binding).session[token].revision = revision
           /\ Put(store, token, revision, binding).session[token].binding = binding
           /\ Covered(store) => Covered(Put(store, token, revision, binding))
<1> DEFINE next == Put(store, token, revision, binding)
           value == [live |-> TRUE, revision |-> revision,
                     binding |-> binding, ttl |-> SessionTtl]
<1>1. value \in Session
  BY SessionTtlAssumption DEF Session
<1>2. next.session \in [Token -> Session \cup {NoSession}]
  BY <1>1 DEF Put, Store
<1>3. next \in Store
  BY <1>2, SessionTtlAssumption DEF Put, Store
<1>4. /\ \A t \in Token \ {token} : next.session[t] = store.session[t]
      /\ next.session[token] = value
      /\ next.members = store.members \cup {token} /\ next.setTtl = SessionTtl
  BY DEF Put, Store
<1>5. Live(next) = Live(store) \cup {token}
  BY <1>4 DEF Live
<1>6. ASSUME Covered(store) PROVE Covered(next)
  <2> SUFFICES ASSUME NEW t \in Live(next)
               PROVE  t \in next.members /\ next.session[t].ttl <= next.setTtl
    BY DEF Covered
  <2>1. CASE t = token
    BY <2>1, <1>4, SessionTtlAssumption
  <2>2. CASE t # token
    <3>1. t \in Live(store) /\ t \in Token
      BY <2>2, <1>5 DEF Live
    <3>2. store.session[t] \in Session
      BY <3>1, LiveValue
    <3>3. store.session[t].ttl \in 1 .. SessionTtl
      BY <3>2 DEF Session
    <3> QED BY <3>1, <3>3, <1>4, <1>6, <2>2, SessionTtlAssumption DEF Covered
  <2> QED BY <2>1, <2>2
<1> QED BY <1>3, <1>4, <1>5, <1>6

(* After the purge the set holds only live sessions of the revision.       *)
LEMMA PurgeLemma ==
    ASSUME NEW store \in Store, NEW revision \in Nat
    PROVE  /\ Purge(store, revision) \in Store
           /\ Shrinks(store, Purge(store, revision))
           /\ Purge(store, revision).members = store.members \cap LiveAt(store, revision)
           /\ Covered(store) => Covered(Purge(store, revision))
<1> DEFINE stale == store.members \ LiveAt(store, revision)
<1>1. stale \in SUBSET Token
  BY DEF Store
<1>2. Purge(store, revision) = Forget(store, stale, stale)
  BY DEF Purge
<1>3. Forget(store, stale, stale).members = store.members \ stale
  BY DEF Forget
<1> QED BY <1>1, <1>2, <1>3, ForgetLemma

(* REGISTER_SESSION_SCRIPT adds at most its token, with the revision and   *)
(* binding it was given, and leaves the set covering.                      *)
LEMMA RegisterLemma ==
    ASSUME NEW store \in Store, NEW token \in Token, NEW revision \in Nat,
           NEW binding \in Binding, NEW maximum \in Nat
    PROVE  LET next == Register(store, token, revision, binding, maximum)
           IN  /\ next \in Store
               /\ Covered(store) => Covered(next)
               /\ \A t \in Live(next) : 
                     \/ /\ t = token
                        /\ next.session[t].revision = revision
                        /\ next.session[t].binding = binding
                     \/ /\ t \in Live(store)
                        /\ next.session[t].revision = store.session[t].revision
                        /\ next.session[t].binding = store.session[t].binding
<1> DEFINE purged == Purge(store, revision)
           next == Register(store, token, revision, binding, maximum)
<1>1. /\ purged \in Store /\ Shrinks(store, purged)
      /\ Covered(store) => Covered(purged)
  BY PurgeLemma
<1>2. CASE LimitReached(store, revision, maximum)
  <2>1. next = purged
    BY <1>2 DEF Register
  <2> QED BY <1>1, <2>1 DEF Shrinks
<1>3. CASE ~LimitReached(store, revision, maximum)
  <2>1. next = Put(purged, token, revision, binding)
    BY <1>3 DEF Register
  <2>2. \A t \in Live(next) : t \in Token
    BY DEF Live
  <2> QED BY <1>1, <2>1, <2>2, PutLemma DEF Shrinks
<1> QED BY <1>2, <1>3

(* REFRESH_SESSION_SCRIPT changes no session but its time to live.         *)
LEMMA RefreshLemma ==
    ASSUME NEW store \in Store, NEW token \in Live(store)
    PROVE  /\ Refresh(store, token) \in Store
           /\ Live(Refresh(store, token)) = Live(store)
           /\ Shrinks(store, Refresh(store, token))
           /\ Covered(store) => Covered(Refresh(store, token))
<1>1. token \in Token /\ store.session[token] \in Session
  BY LiveValue DEF Live
<1>2. store.session[token].revision \in Nat /\ store.session[token].binding \in Binding
  BY <1>1 DEF Session
<1>3. \A t \in Live(Refresh(store, token)) : t \in Token
  BY DEF Live
<1>4. Refresh(store, token) =
          Put(store, token, store.session[token].revision, store.session[token].binding)
  BY DEF Refresh
<1>5. /\ Refresh(store, token) \in Store
      /\ Live(Refresh(store, token)) = Live(store) \cup {token}
      /\ Covered(store) => Covered(Refresh(store, token))
      /\ \A t \in Token \ {token} : Refresh(store, token).session[t] = store.session[t]
      /\ Refresh(store, token).session[token].revision = store.session[token].revision
      /\ Refresh(store, token).session[token].binding = store.session[token].binding
  BY <1>1, <1>2, <1>4, PutLemma
<1> QED BY <1>3, <1>5 DEF Shrinks

(* REMOVE_SESSION_SCRIPT ends at most its token.                           *)
LEMMA RemoveLemma ==
    ASSUME NEW store \in Store, NEW token \in Token, NEW binding
    PROVE  /\ Remove(store, token, binding) \in Store
           /\ Shrinks(store, Remove(store, token, binding))
           /\ Live(store) \ {token} \subseteq Live(Remove(store, token, binding))
           /\ Covered(store) => Covered(Remove(store, token, binding))
<1>1. {token} \in SUBSET Token
  OBVIOUS
<1>2. Shrinks(store, store)
  BY DEF Shrinks
<1> QED BY <1>1, <1>2, ForgetLemma DEF Remove

(* REMOVE_ALL_SESSIONS_SCRIPT spares the sessions from the minimum on.     *)
LEMMA RemoveAllLemma ==
    ASSUME NEW store \in Store, NEW minimum \in Int
    PROVE  /\ RemoveAll(store, minimum) \in Store
           /\ Shrinks(store, RemoveAll(store, minimum))
           /\ minimum # NoMinimum =>
                \A t \in Live(store) :
                    store.session[t].revision >= minimum => t \in Live(RemoveAll(store, minimum))
           /\ Covered(store) => Covered(RemoveAll(store, minimum))
<1> DEFINE old == {t \in store.members \cap Live(store) :
                    minimum = NoMinimum \/ store.session[t].revision < minimum}
           dropped == old \cup (store.members \ Live(store))
<1>1. old \in SUBSET Token /\ dropped \in SUBSET Token
  BY DEF Store
<1>2. RemoveAll(store, minimum) = Forget(store, old, dropped)
  BY DEF RemoveAll
<1>3. dropped \cap Live(store) \subseteq old
  OBVIOUS
<1>4. ASSUME minimum # NoMinimum, NEW t \in Live(store), store.session[t].revision >= minimum
      PROVE  t \notin old
  <2>1. t \in Token /\ store.session[t] \in Session
    BY LiveValue DEF Live
  <2>2. store.session[t].revision \in Nat
    BY <2>1 DEF Session
  <2> QED BY <2>2, <1>4
<1> HIDE DEF old, dropped
<1>5. /\ Forget(store, old, dropped) \in Store
      /\ Live(Forget(store, old, dropped)) = Live(store) \ old
      /\ Shrinks(store, Forget(store, old, dropped))
      /\ Covered(store) => Covered(Forget(store, old, dropped))
  BY <1>1, <1>3, ForgetLemma
<1> QED BY <1>2, <1>4, <1>5

(* Time ends sessions, and the set is never the first to go.               *)
LEMMA ElapsedLemma ==
    ASSUME NEW store \in Store
    PROVE  /\ Elapsed(store) \in Store
           /\ Shrinks(store, Elapsed(store))
           /\ Covered(store) => Covered(Elapsed(store))
<1> DEFINE next == Elapsed(store)
           setTtl == IF store.setTtl > 1 THEN store.setTtl - 1 ELSE 0
           after(t) == IF t \notin Live(store) \/ store.session[t].ttl = 1
                       THEN NoSession
                       ELSE [store.session[t] EXCEPT !.ttl = @ - 1]
<1>1. /\ next.session = [t \in Token |-> after(t)]
      /\ next.members = IF setTtl = 0 THEN {} ELSE store.members
      /\ next.setTtl = setTtl
      /\ next = [session |-> next.session, members |-> next.members, setTtl |-> next.setTtl]
  BY DEF Elapsed
<1>2. setTtl \in 0 .. SessionTtl /\ next.members \in SUBSET Token
  BY <1>1, SessionTtlAssumption DEF Store
<1>3. ASSUME NEW t \in Token, t \in Live(store), store.session[t].ttl # 1
      PROVE  /\ after(t) \in Session
             /\ after(t).live
             /\ after(t).revision = store.session[t].revision
             /\ after(t).binding = store.session[t].binding
             /\ after(t).ttl = store.session[t].ttl - 1
             /\ store.session[t].ttl \in 2 .. SessionTtl
  <2>1. store.session[t] \in Session
    BY <1>3, LiveValue
  <2> DEFINE value == store.session[t]
  <2>2. value.ttl \in 1 .. SessionTtl
    BY <2>1 DEF Session
  <2>3. value.ttl \in 2 .. SessionTtl
    BY <2>2, <1>3, SessionTtlAssumption
  <2>4. after(t) = [value EXCEPT !.ttl = @ - 1]
    BY <1>3
  <2>5. value.ttl - 1 \in 1 .. SessionTtl
    BY <2>3, SessionTtlAssumption
  <2> HIDE DEF value, after
  <2>6. [value EXCEPT !.ttl = @ - 1] \in Session
    BY <2>1, <2>5 DEF Session, value
  <2>7. /\ [value EXCEPT !.ttl = @ - 1].live = value.live
        /\ [value EXCEPT !.ttl = @ - 1].revision = value.revision
        /\ [value EXCEPT !.ttl = @ - 1].binding = value.binding
        /\ [value EXCEPT !.ttl = @ - 1].ttl = value.ttl - 1
        /\ value.live
    BY <2>1 DEF Session, value
  <2> QED BY <2>3, <2>4, <2>6, <2>7 DEF value
<1>4. ASSUME NEW t \in Token, ~(t \in Live(store) /\ store.session[t].ttl # 1)
      PROVE  after(t) = NoSession
  BY <1>4
<1>5. \A t \in Token : after(t) \in Session \cup {NoSession}
  BY <1>3, <1>4
<1>6. next \in Store
  BY <1>1, <1>2, <1>5 DEF Store
<1>7. \A t \in Live(next) : t \in Token /\ t \in Live(store) /\ store.session[t].ttl # 1
  BY <1>1, <1>4 DEF Live, NoSession
<1>8. Shrinks(store, next)
  BY <1>1, <1>3, <1>7 DEF Shrinks
<1>9. ASSUME Covered(store) PROVE Covered(next)
  <2> SUFFICES ASSUME NEW t \in Live(next)
               PROVE  t \in next.members /\ next.session[t].ttl <= next.setTtl
    BY DEF Covered
  <2>1. /\ t \in Token /\ t \in Live(store) /\ store.session[t].ttl # 1
        /\ next.session[t].ttl = store.session[t].ttl - 1
        /\ store.session[t].ttl \in 2 .. SessionTtl
    BY <1>1, <1>3, <1>7
  <2>2. t \in store.members /\ store.session[t].ttl <= store.setTtl
    BY <2>1, <1>9 DEF Covered
  <2>3. store.setTtl \in Nat
    BY SessionTtlAssumption DEF Store
  <2> QED BY <2>1, <2>2, <2>3, <1>1, SessionTtlAssumption
<1> QED BY <1>6, <1>8, <1>9

=============================================================================
