---------------------------- MODULE RedisSessions ----------------------------
(***************************************************************************)
(* The session store of one license, kept in Redis by                      *)
(* RedisSessionRepository.ts.  Two kinds of keys hold it:                  *)
(*                                                                         *)
(*   license_session:<token>   -> "<licenseId>|<revision>|<hash(binding)>" *)
(*   license_sessions:<id>     -> the set of tokens of the license         *)
(*                                                                         *)
(* each with its own expiry.  A Lua script runs atomically in Redis, so a  *)
(* script is an operator from a store to a store.  Expiry times are kept   *)
(* as the time left, and Elapsed lets one unit of time pass.               *)
(* The binding is hashed with SHA-256, taken to be collision free: the     *)
(* stored value keeps the binding itself.                                  *)
(***************************************************************************)
EXTENDS Integers, FiniteSets

CONSTANTS
    Token,          \* session tokens, crypto.randomUUID()
    Ip,             \* client addresses
    DeviceId,       \* device identifiers sent by the SDK
    SessionTtl      \* SESSION_TTL_SECONDS, in units of time

ASSUME SessionTtlAssumption == SessionTtl \in Nat \ {0}
ASSUME TokenAssumption == IsFiniteSet(Token)

(* SessionBinding: what a session is tied to.                              *)
Binding == [ip : Ip, deviceId : DeviceId]

Session == [live : {TRUE}, revision : Nat, binding : Binding, ttl : 1 .. SessionTtl]

(* The value of a key that is not in Redis.                                *)
NoSession == [live |-> FALSE]

Store == [session : [Token -> Session \cup {NoSession}],
          members : SUBSET Token,
          setTtl  : 0 .. SessionTtl]

EmptyStore == [session |-> [t \in Token |-> NoSession], members |-> {}, setTtl |-> 0]

(* removeAllSessions called without preserveFromRevision.                  *)
NoMinimum == -1

Live(store) == {t \in Token : store.session[t].live}

LiveAt(store, revision) == {t \in Live(store) : store.session[t].revision = revision}

(* A live token whose stored value ends with the hash of this binding.     *)
Bound(store, token, binding) ==
    /\ token \in Live(store)
    /\ store.session[token].binding = binding

(* DEL of every token in gone, and SREM of every token in dropped from the *)
(* set; Redis deletes a set when its last member goes.                     *)
Forget(store, gone, dropped) ==
    [session |-> [t \in Token |-> IF t \in gone THEN NoSession ELSE store.session[t]],
     members |-> store.members \ dropped,
     setTtl  |-> IF store.members \ dropped = {} THEN 0 ELSE store.setTtl]

(* Deliberate fault: only expired members leave the set.                   *)
PurgeExpiredOnly(store, revision) ==
    Forget(store, {}, store.members \ Live(store))

(* The first loop of REGISTER_SESSION_SCRIPT: members that have expired or *)
(* carry another revision leave the set, and their keys are deleted.       *)
Purge(store, revision) ==
    LET stale == store.members \ LiveAt(store, revision)
    IN  Forget(store, stale, stale)

(* Deliberate fault: one session too many.                                 *)
LimitReachedLate(store, revision, maximum) ==
    maximum > 0 /\ Cardinality(Purge(store, revision).members) > maximum

(* The script's answer is -1.                                              *)
LimitReached(store, revision, maximum) ==
    maximum > 0 /\ Cardinality(Purge(store, revision).members) >= maximum

(* SET ... EX of a token's value together with SADD and EXPIRE of the set. *)
Put(store, token, revision, binding) ==
    [session |-> [store.session EXCEPT ![token] =
                    [live |-> TRUE, revision |-> revision,
                     binding |-> binding, ttl |-> SessionTtl]],
     members |-> store.members \cup {token},
     setTtl  |-> SessionTtl]

(* REGISTER_SESSION_SCRIPT; the purge stays when the limit is reached.     *)
Register(store, token, revision, binding, maximum) ==
    IF LimitReached(store, revision, maximum)
    THEN Purge(store, revision)
    ELSE Put(Purge(store, revision), token, revision, binding)

(* Deliberate fault: the expiry of the set is not renewed.                 *)
RefreshTokenOnly(store, token) == [store EXCEPT !.session[token].ttl = SessionTtl]

(* REFRESH_SESSION_SCRIPT of a token bound to the caller.                  *)
Refresh(store, token) ==
    Put(store, token, store.session[token].revision, store.session[token].binding)

(* REMOVE_SESSION_SCRIPT.                                                  *)
Remove(store, token, binding) ==
    IF Bound(store, token, binding)
    THEN Forget(store, {token}, {token})
    ELSE store

(* Deliberate fault: preserveFromRevision is ignored.                      *)
RemoveAllRevisions(store, minimum) == EmptyStore

(* REMOVE_ALL_SESSIONS_SCRIPT.                                             *)
RemoveAll(store, minimum) ==
    LET old == {t \in store.members \cap Live(store) :
                    minimum = NoMinimum \/ store.session[t].revision < minimum}
        dropped == old \cup (store.members \ Live(store))
    IN  Forget(store, old, dropped)

(* Deliberate fault: the tokens are stored without EX.                     *)
ElapsedSetOnly(store) ==
    IF store.setTtl > 1
    THEN [store EXCEPT !.setTtl = @ - 1]
    ELSE [store EXCEPT !.setTtl = 0, !.members = {}]

(* Deliberate fault: a key lives one unit longer than its expiry.          *)
ElapsedLate(store) ==
    [session |-> [t \in Token |->
                    IF t \notin Live(store) \/ store.session[t].ttl = 0
                    THEN NoSession
                    ELSE [store.session[t] EXCEPT !.ttl = @ - 1]],
     members |-> store.members,
     setTtl  |-> IF store.setTtl > 0 THEN store.setTtl - 1 ELSE 0]

(* One unit of time passes: Redis removes the keys whose time has run out. *)
Elapsed(store) ==
    LET setTtl == IF store.setTtl > 1 THEN store.setTtl - 1 ELSE 0
    IN  [session |-> [t \in Token |->
                        IF t \notin Live(store) \/ store.session[t].ttl = 1
                        THEN NoSession
                        ELSE [store.session[t] EXCEPT !.ttl = @ - 1]],
         members |-> IF setTtl = 0 THEN {} ELSE store.members,
         setTtl  |-> setTtl]

=============================================================================
