-------------------------- MODULE MeterLedgerProofs --------------------------
(***************************************************************************)
(* MeterLedger keeps its ledger and its meters consistent, and implements  *)
(* MeterAccount, for any number of handlers, meters, events and entries,   *)
(* with and without faults.  The invariant says what the advisory lock is  *)
(* worth while it is held: who holds it, and that the meter its holder has *)
(* read is not archived by then.                                           *)
(***************************************************************************)
EXTENDS MeterLedger, SequenceTheorems, TLAPS

-----------------------------------------------------------------------------
(* The inductive invariant                                                 *)

Locking == {"debit", "adjust", "create", "archive"}

(* Only the holder of the lock is inside a transaction that needs it.      *)
LockHeld ==
    /\ lock # Nobody => handler[lock].pc \in Locking
    /\ \A h \in Handler : handler[h].pc \in Locking => lock = h

(* What a handler has at hand at each stage.  The meter of a debit or an   *)
(* adjustment may have been deleted since it was read, and not archived.   *)
HandlerHolds(h) ==
    /\ handler[h].pc \in {"checked", "debit", "reply"} =>
          handler[h].event \in EventId /\ handler[h].amount \in 1 .. MaxBalance
    /\ handler[h].pc \in {"create", "update"} => handler[h].amount \in Balance
    /\ handler[h].pc \in {"debit", "adjust"} => meter[handler[h].meter].state # "archived"

(* The entries of events are debits, and no event has two.                 *)
EventsOnce ==
    \A i \in DOMAIN ledger :
        /\ IF ledger[i].kind = "consume"
           THEN ledger[i].event \in EventId /\ -ledger[i].delta \in 1 .. MaxBalance
           ELSE ledger[i].event = NoEvent
        /\ ledger[i].event # NoEvent => Recorded(ledger[i].event) = {i}

(* The ledger has the debit an answer tells of.                            *)
Explained(event, m, units, remaining) ==
    \E i \in DOMAIN ledger :
        /\ Recorded(event) = {i}
        /\ ledger[i].kind = "consume" /\ ledger[i].meter = m
        /\ ledger[i].delta = -units /\ ledger[i].after = remaining

(* A reply on its way tells of a debit.                                    *)
RepliesRecorded ==
    license.exists =>
        \A h \in Handler : handler[h].pc = "reply" =>
            Explained(handler[h].event, handler[h].meter, handler[h].amount,
                      handler[h].remaining)

AbsentIsEmpty == \A m \in Meter : meter[m].state = "none" => meter[m] = NoMeter

IInv ==
    /\ TypeOK /\ LockHeld /\ (\A h \in Handler : HandlerHolds(h))
    /\ EventsOnce /\ RepliesRecorded /\ AbsentIsEmpty
    /\ LedgerExplainsBalance /\ AnswersRecorded /\ MeteredKeepsMeter

-----------------------------------------------------------------------------
(* Facts about the parts of a step                                         *)

LEMMA IdleType ==
    /\ Idle \in HandlerState /\ Idle.pc = "idle" /\ Idle.event = NoEvent /\ Idle.amount = 0
    /\ AnyMeter \in Meter /\ NoMeter \in MeterRow
<1>1. AnyMeter \in Meter
  BY MeterAssumption DEF AnyMeter
<1> QED BY <1>1, BalanceAssumption DEF Idle, HandlerState, Pc, Balance, NoMeter, MeterRow

LEMMA GotoType ==
    ASSUME TypeOK, NEW h \in Handler, NEW s \in HandlerState, Goto(h, s)
    PROVE  /\ handler' \in [Handler -> HandlerState] /\ handler'[h] = s
           /\ \A g \in Handler \ {h} : handler'[g] = handler[g]
BY DEF TypeOK, Goto

(* An entry at the end of the ledger leaves the others where they are.     *)
LEMMA AppendFacts ==
    ASSUME ledger \in Seq(Entry), NEW e \in Entry, ledger' = Append(ledger, e)
    PROVE  /\ ledger' \in Seq(Entry) /\ Len(ledger) \in Nat
           /\ DOMAIN ledger = 1 .. Len(ledger) /\ DOMAIN ledger' = 1 .. Len(ledger) + 1
           /\ \A i \in DOMAIN ledger : ledger'[i] = ledger[i]
           /\ ledger'[Len(ledger) + 1] = e
OBVIOUS

LEMMA AppendRecorded ==
    ASSUME ledger \in Seq(Entry), NEW e \in Entry, ledger' = Append(ledger, e), NEW event
    PROVE  Recorded(event)' = IF e.event = event THEN Recorded(event) \cup {Len(ledger) + 1}
                                                 ELSE Recorded(event)
BY AppendFacts DEF Recorded

LEMMA AppendEntriesOf ==
    ASSUME ledger \in Seq(Entry), NEW e \in Entry, ledger' = Append(ledger, e), NEW m
    PROVE  EntriesOf(m)' = IF e.meter = m THEN EntriesOf(m) \cup {Len(ledger) + 1}
                                          ELSE EntriesOf(m)
BY AppendFacts DEF EntriesOf

(* The entries E of one meter are a chain in the ledger L from 0 to the    *)
(* balance of the meter.                                                   *)
First(E, i) == \A j \in E : ~(j < i)
Last(E, i) == \A j \in E : ~(j > i)
Follows(E, i, j) == j > i /\ \A k \in E : k > i => j <= k

Chain(E, L, row) ==
    /\ row.state = "none" <=> E = {}
    /\ \A i \in E :
          /\ L[i].after = L[i].before + L[i].delta
          /\ First(E, i) => L[i].kind = "create" /\ L[i].before = 0
          /\ Last(E, i) => L[i].after = row.balance
          /\ \A j \in E : Follows(E, i, j) => L[j].before = L[i].after

LEMMA ChainsExplain ==
    LedgerExplainsBalance <=> \A m \in Meter : Chain(EntriesOf(m), ledger, meter[m])
BY DEF LedgerExplainsBalance, Chain, First, Last, Follows

LEMMA ChainsExplainNext ==
    LedgerExplainsBalance' <=> \A m \in Meter : Chain(EntriesOf(m)', ledger', meter'[m])
BY DEF LedgerExplainsBalance, Chain, First, Last, Follows

(* A chain only depends on the entries of its meter, and an entry that     *)
(* takes up the balance at its end lengthens it.                           *)
LEMMA ChainKept ==
    ASSUME NEW E, NEW L, NEW K, NEW row, Chain(E, L, row), \A i \in E : K[i] = L[i]
    PROVE  Chain(E, K, row)
BY DEF Chain

LEMMA ChainLengthened ==
    ASSUME NEW E \in SUBSET Nat, NEW n \in Nat, \A i \in E : i < n,
           NEW L, NEW K, \A i \in E : K[i] = L[i],
           NEW old, NEW row, Chain(E, L, old),
           row.state # "none", row.balance = K[n].after,
           K[n].after = K[n].before + K[n].delta,
           IF old.state = "none" THEN K[n].kind = "create" /\ K[n].before = 0
                                 ELSE K[n].before = old.balance
    PROVE  Chain(E \cup {n}, K, row)
<1> DEFINE F == E \cup {n}
<1>1. ASSUME NEW i \in E
      PROVE  /\ First(F, i) => First(E, i)
             /\ ~Last(F, i)
             /\ \A j \in E : Follows(F, i, j) => Follows(E, i, j)
             /\ Follows(F, i, n) => Last(E, i)
  <2>1. First(F, i) => First(E, i)
    BY DEF First
  <2>2. ~Last(F, i)
    BY DEF Last
  <2>3. \A j \in E : Follows(F, i, j) => Follows(E, i, j)
    BY DEF Follows
  <2>4. Follows(F, i, n) => Last(E, i)
    BY DEF Follows, Last
  <2> QED BY <2>1, <2>2, <2>3, <2>4
<1>2. /\ First(F, n) => E = {}
      /\ \A j \in F : ~Follows(F, n, j)
  <2>1. First(F, n) => E = {}
    BY DEF First
  <2>2. \A j \in F : ~(j > n)
    OBVIOUS
  <2> QED BY <2>1, <2>2 DEF Follows
<1>3. n \in F /\ \A i \in F : i \in E \/ i = n
  OBVIOUS
<1> HIDE DEF F
<1>4. ASSUME NEW i \in F
      PROVE  /\ K[i].after = K[i].before + K[i].delta
             /\ First(F, i) => K[i].kind = "create" /\ K[i].before = 0
             /\ Last(F, i) => K[i].after = row.balance
  <2>1. CASE i \in E
    BY <1>1, <2>1 DEF Chain
  <2>2. CASE i = n
    BY <1>2, <2>2 DEF Chain
  <2> QED BY <1>3, <2>1, <2>2
<1>5. ASSUME NEW i \in F, NEW j \in F, Follows(F, i, j)
      PROVE  K[j].before = K[i].after
  <2>1. i \in E
    BY <1>2, <1>3, <1>5
  <2>2. CASE j \in E
    <3>1. Follows(E, i, j)
      BY <1>1, <1>5, <2>1, <2>2
    <3>2. L[j].before = L[i].after
      BY <2>1, <2>2, <3>1 DEF Chain
    <3> QED BY <2>1, <2>2, <3>2
  <2>3. CASE j = n
    <3>1. Last(E, i)
      BY <1>1, <1>5, <2>1, <2>3
    <3>2. L[i].after = old.balance /\ old.state # "none"
      BY <2>1, <3>1 DEF Chain
    <3> QED BY <2>1, <2>3, <3>2
  <2> QED BY <1>3, <2>2, <2>3
<1> QED BY <1>3, <1>4, <1>5 DEF Chain, F

(* An entry that takes up the balance of its meter lengthens the chain.    *)
LEMMA EntryExplains ==
    ASSUME TypeOK, LedgerExplainsBalance, NEW m \in Meter, NEW row \in MeterRow, NEW e \in Entry,
           ledger' = Append(ledger, e), meter' = [meter EXCEPT ![m] = row],
           e.meter = m, e.after = e.before + e.delta, row.balance = e.after, row.state # "none",
           IF meter[m].state = "none" THEN e.kind = "create" /\ e.before = 0
                                      ELSE e.before = meter[m].balance
    PROVE  LedgerExplainsBalance'
<1>0. ledger \in Seq(Entry) /\ meter \in [Meter -> MeterRow]
  BY DEF TypeOK
<1>n. PICK n \in Nat : n = Len(ledger) + 1
  BY <1>0
<1>1. /\ ledger' \in Seq(Entry) /\ Len(ledger) \in Nat
      /\ DOMAIN ledger = 1 .. Len(ledger) /\ DOMAIN ledger' = 1 .. n
      /\ \A i \in DOMAIN ledger : ledger'[i] = ledger[i]
      /\ ledger'[n] = e
  BY <1>0, <1>n, AppendFacts
<1>2. \A p \in Meter : EntriesOf(p) \subseteq 1 .. Len(ledger)
  BY <1>1 DEF EntriesOf
<1>3. SUFFICES ASSUME NEW p \in Meter PROVE Chain(EntriesOf(p)', ledger', meter'[p])
  BY ChainsExplainNext
<1>4. Chain(EntriesOf(p), ledger, meter[p])
  BY ChainsExplain
<1>5. \A i \in EntriesOf(p) : ledger'[i] = ledger[i] /\ i < n
  BY <1>1, <1>2, <1>n
<1>6. CASE p # m
  <2>1. EntriesOf(p)' = EntriesOf(p) /\ meter'[p] = meter[p]
    BY <1>0, <1>6, AppendEntriesOf
  <2> QED BY <1>4, <1>5, <2>1, ChainKept
<1>7. CASE p = m
  <2>1. EntriesOf(p)' = EntriesOf(p) \cup {n} /\ meter'[p] = row
    BY <1>0, <1>7, <1>n, AppendEntriesOf
  <2>2. EntriesOf(p) \in SUBSET Nat
    BY <1>2
  <2>3. /\ row.balance = ledger'[n].after
        /\ ledger'[n].after = ledger'[n].before + ledger'[n].delta
        /\ IF meter[p].state = "none" THEN ledger'[n].kind = "create" /\ ledger'[n].before = 0
                                      ELSE ledger'[n].before = meter[p].balance
    BY <1>1, <1>7
  <2>4. Chain(EntriesOf(p) \cup {n}, ledger', row)
    BY <1>4, <1>5, <2>2, <2>3, ChainLengthened
  <2> QED BY <2>1, <2>4
<1> QED BY <1>6, <1>7

(* What a meter and a ledger have to keep in a step, when both are written *)
(* and when none is.                                                       *)
Kept ==
    /\ meter' \in [Meter -> MeterRow] /\ ledger' \in Seq(Entry)
    /\ EventsOnce' /\ AbsentIsEmpty' /\ LedgerExplainsBalance'
    /\ \A event \in EventId, m \in Meter, units \in 1 .. MaxBalance, remaining \in Balance :
          Explained(event, m, units, remaining) => Explained(event, m, units, remaining)'

LEMMA UnwrittenKept == ASSUME IInv, UNCHANGED <<meter, ledger>> PROVE Kept
<1>1. meter' \in [Meter -> MeterRow] /\ ledger' \in Seq(Entry) /\ AbsentIsEmpty'
  BY DEF IInv, TypeOK, AbsentIsEmpty
<1>2. EventsOnce'
  BY DEF IInv, EventsOnce, Recorded
<1>3. LedgerExplainsBalance'
  BY DEF IInv, LedgerExplainsBalance, EntriesOf
<1> QED BY <1>1, <1>2, <1>3 DEF Kept, Explained, Recorded

(* A transaction writes one meter and one entry that tells of it.          *)
Writes(m, row, e) ==
    /\ ledger' = Append(ledger, e) /\ meter' = [meter EXCEPT ![m] = row]
    /\ e.meter = m /\ e.after = e.before + e.delta /\ row.balance = e.after
    /\ row.state = IF e.kind = "archive" THEN "archived" ELSE "active"
    /\ IF e.kind = "create" THEN meter[m].state = "none" /\ e.before = 0
                            ELSE meter[m].state = "active" /\ e.before = meter[m].balance
    /\ e.kind = "archive" => e.delta = 0
    /\ IF e.kind = "consume"
       THEN e.event \in EventId /\ -e.delta \in 1 .. MaxBalance /\ Recorded(e.event) = {}
       ELSE e.event = NoEvent

LEMMA WrittenKept ==
    ASSUME IInv, NEW m \in Meter, NEW row \in MeterRow, NEW e \in Entry, Writes(m, row, e)
    PROVE  /\ Kept
           /\ e.kind = "consume" => Explained(e.event, m, -e.delta, e.after)'
<1> USE DEF Writes
<1>0. ledger \in Seq(Entry) /\ meter \in [Meter -> MeterRow]
  BY DEF IInv, TypeOK
<1>n. PICK n \in Nat : n = Len(ledger) + 1
  BY <1>0
<1>1. /\ ledger' \in Seq(Entry) /\ DOMAIN ledger = 1 .. Len(ledger) /\ DOMAIN ledger' = 1 .. n
      /\ \A i \in DOMAIN ledger : ledger'[i] = ledger[i]
      /\ ledger'[n] = e /\ Len(ledger) \in Nat
  BY <1>0, <1>n, AppendFacts
<1>2. \A i \in DOMAIN ledger' : i \in DOMAIN ledger \/ i = n
  BY <1>1, <1>n
<1>3. meter' \in [Meter -> MeterRow] /\ AbsentIsEmpty'
  BY <1>0 DEF IInv, AbsentIsEmpty
<1>4. LedgerExplainsBalance'
  BY EntryExplains DEF IInv
<1>5. \A event : event # e.event => Recorded(event)' = Recorded(event)
  BY <1>0, AppendRecorded
<1>6. e.event # NoEvent => Recorded(e.event)' = {n} /\ Recorded(e.event) = {}
  BY <1>0, <1>n, AppendRecorded
<1>7. EventsOnce'
  <2>1. SUFFICES ASSUME NEW i \in DOMAIN ledger'
                 PROVE  /\ IF ledger'[i].kind = "consume"
                           THEN /\ ledger'[i].event \in EventId
                                /\ -ledger'[i].delta \in 1 .. MaxBalance
                           ELSE ledger'[i].event = NoEvent
                        /\ ledger'[i].event # NoEvent =>
                             {j \in DOMAIN ledger' : ledger'[j].event = ledger'[i].event} = {i}
    BY DEF EventsOnce, Recorded
  <2>2. CASE i = n
    BY <1>1, <1>6, <2>2 DEF Recorded
  <2>3. CASE i \in DOMAIN ledger
    <3>1. ledger'[i] = ledger[i]
      BY <1>1, <2>3
    <3>2. /\ IF ledger[i].kind = "consume"
             THEN ledger[i].event \in EventId /\ -ledger[i].delta \in 1 .. MaxBalance
             ELSE ledger[i].event = NoEvent
          /\ ledger[i].event # NoEvent => Recorded(ledger[i].event) = {i}
      BY <2>3 DEF IInv, EventsOnce
    <3>3. PICK event : event = ledger[i].event
      OBVIOUS
    <3>4. event # NoEvent => Recorded(event) = {i} /\ event # e.event
      BY <1>6, <3>2, <3>3
    <3>5. event # NoEvent => Recorded(event)' = {i}
      BY <1>5, <3>4
    <3>6. event # NoEvent => {j \in DOMAIN ledger' : ledger'[j].event = event} = {i}
      BY <3>5 DEF Recorded
    <3> QED BY <3>1, <3>2, <3>3, <3>6
  <2> QED BY <1>2, <2>2, <2>3
<1>8. ASSUME NEW event \in EventId, NEW p \in Meter, NEW units \in 1 .. MaxBalance,
             NEW remaining \in Balance, Explained(event, p, units, remaining)
      PROVE  Explained(event, p, units, remaining)'
  <2>1. PICK i \in DOMAIN ledger :
           /\ Recorded(event) = {i}
           /\ ledger[i].kind = "consume" /\ ledger[i].meter = p
           /\ ledger[i].delta = -units /\ ledger[i].after = remaining
    BY <1>8 DEF Explained
  <2>2. event # e.event
    BY <1>6, <2>1, EventAssumption
  <2>3. Recorded(event)' = {i} /\ ledger'[i] = ledger[i] /\ i \in DOMAIN ledger'
    BY <1>1, <1>5, <1>n, <2>1, <2>2
  <2> QED BY <2>1, <2>3 DEF Explained
<1>9. ASSUME e.kind = "consume" PROVE Explained(e.event, m, -e.delta, e.after)'
  <2>1. Recorded(e.event)' = {n} /\ n \in DOMAIN ledger' /\ e.delta = -(-e.delta)
    BY <1>1, <1>6, <1>9, <1>n, EventAssumption DEF Entry
  <2> QED BY <1>1, <1>9, <2>1 DEF Explained
<1> QED BY <1>1, <1>3, <1>4, <1>7, <1>8, <1>9 DEF Kept

-----------------------------------------------------------------------------
(* Steps                                                                   *)

(* What a handler has at hand, for the state it moves to.                  *)
Holds(s) ==
    /\ s.pc \in {"checked", "debit", "reply"} => s.event \in EventId /\ s.amount \in 1 .. MaxBalance
    /\ s.pc \in {"create", "update"} => s.amount \in Balance
    /\ s.pc \in {"debit", "adjust"} => meter[s.meter].state # "archived"

LEMMA IdleHolds == Holds(Idle)' /\ Idle.pc \notin Locking /\ Idle.pc # "reply"
BY IdleType DEF Holds, Locking

(* A handler takes the lock or gives back what it holds.                   *)
LockMoves(h, s) ==
    \/ s.pc \in Locking /\ Lock(h)
    \/ s.pc \notin Locking /\ Unlock(h)
    \/ s.pc \notin Locking /\ handler[h].pc \notin Locking /\ UNCHANGED lock

LEMMA StepKeeps ==
    ASSUME IInv, Kept, NEW h \in Handler, NEW s \in HandlerState, Goto(h, s), LockMoves(h, s),
           Holds(s)', license' \in License, license'.exists => license.exists,
           draft' \subseteq Meter, stale' \subseteq Handler, answers' \subseteq Answer,
           MeteredKeepsMeter',
           \A m \in Meter : meter'[m].state = "archived" => meter[m].state = "archived" \/ lock = h,
           license.exists /\ s.pc = "reply" =>
              Explained(s.event, s.meter, s.amount, s.remaining)',
           \A a \in answers' \ answers : license.exists =>
              Explained(a.event, a.meter, a.units, a.remaining)'
    PROVE  IInv'
<1>1. /\ handler' \in [Handler -> HandlerState] /\ handler'[h] = s
      /\ \A g \in Handler \ {h} : handler'[g] = handler[g]
  BY GotoType DEF IInv
<1>2. /\ lock \in Handler \cup {Nobody} /\ Nobody \notin Handler
      /\ meter \in [Meter -> MeterRow] /\ handler \in [Handler -> HandlerState]
  BY HandlerAssumption DEF IInv, TypeOK
<1>3. TypeOK'
  <2>1. lock' \in Handler \cup {Nobody}
    BY <1>2 DEF LockMoves, Lock, Unlock
  <2> QED BY <1>1, <2>1 DEF TypeOK, Kept
<1>4. LockHeld'
  <2>1. CASE s.pc \in Locking /\ Lock(h)
    BY <1>1, <1>2, <2>1 DEF IInv, LockHeld, Lock
  <2>2. CASE s.pc \notin Locking /\ Unlock(h)
    BY <1>1, <1>2, <2>2 DEF IInv, LockHeld, Unlock
  <2>3. CASE s.pc \notin Locking /\ handler[h].pc \notin Locking /\ UNCHANGED lock
    BY <1>1, <1>2, <2>3 DEF IInv, LockHeld
  <2> QED BY <2>1, <2>2, <2>3 DEF LockMoves
<1>5. ASSUME NEW g \in Handler PROVE HandlerHolds(g)'
  <2>1. CASE g = h
    BY <1>1, <2>1 DEF HandlerHolds, Holds
  <2>2. CASE g # h
    <3>1. handler'[g] = handler[g] /\ handler[g].meter \in Meter
      BY <1>1, <1>2, <2>2 DEF HandlerState
    <3>2. HandlerHolds(g)
      BY DEF IInv
    <3>3. handler[g].pc \in {"debit", "adjust"} => lock = g
      BY DEF IInv, LockHeld, Locking
    <3> QED BY <2>2, <3>1, <3>2, <3>3 DEF HandlerHolds
  <2> QED BY <2>1, <2>2
<1>6. RepliesRecorded'
  <2>1. SUFFICES ASSUME license'.exists, NEW g \in Handler, handler'[g].pc = "reply"
                 PROVE  (Explained(handler[g].event, handler[g].meter, handler[g].amount,
                                  handler[g].remaining))'
    BY DEF RepliesRecorded
  <2>2. PICK t \in HandlerState : t = handler'[g]
    BY <1>1
  <2>3. Explained(t.event, t.meter, t.amount, t.remaining)'
    <3>1. CASE g = h
      BY <1>1, <2>1, <2>2, <3>1
    <3>2. CASE g # h
      <4>1. t = handler[g] /\ t.pc = "reply"
        BY <1>1, <2>1, <2>2, <3>2
      <4>2. Explained(t.event, t.meter, t.amount, t.remaining)
        BY <2>1, <4>1 DEF IInv, RepliesRecorded
      <4>3. t.event \in EventId /\ t.amount \in 1 .. MaxBalance
        BY <4>1 DEF IInv, HandlerHolds
      <4>4. t.meter \in Meter /\ t.remaining \in Balance
        BY DEF HandlerState
      <4> QED BY <4>2, <4>3, <4>4 DEF Kept
    <3> QED BY <3>1, <3>2
  <2> QED BY <2>2, <2>3 DEF Explained, Recorded
<1>7. AnswersRecorded'
  <2>1. SUFFICES ASSUME license'.exists, NEW a \in answers'
                 PROVE  Explained(a.event, a.meter, a.units, a.remaining)'
    BY DEF AnswersRecorded, Explained
  <2>2. CASE a \in answers
    <3>1. Explained(a.event, a.meter, a.units, a.remaining)
      BY <2>1, <2>2 DEF IInv, AnswersRecorded, Explained
    <3>2. /\ a.event \in EventId /\ a.meter \in Meter /\ a.units \in 1 .. MaxBalance
          /\ a.remaining \in Balance
      BY <2>1 DEF Answer
    <3> QED BY <3>1, <3>2 DEF Kept
  <2> QED BY <2>1, <2>2
<1> QED BY <1>3, <1>4, <1>5, <1>6, <1>7 DEF IInv, Kept

(* A step that writes neither meters nor ledger nor the license.           *)
LEMMA LocalStepKeeps ==
    ASSUME IInv, UNCHANGED <<license, meter, ledger>>, NEW h \in Handler,
           NEW s \in HandlerState, Goto(h, s), LockMoves(h, s), Holds(s),
           draft' \subseteq Meter, stale' \subseteq Handler, answers' \subseteq Answer,
           s.pc = "reply" => Explained(s.event, s.meter, s.amount, s.remaining),
           \A a \in answers' \ answers : license.exists =>
              Explained(a.event, a.meter, a.units, a.remaining)
    PROVE  IInv'
<1>1. Kept
  BY UnwrittenKept
<1>2. Holds(s)' /\ MeteredKeepsMeter' /\ license' \in License
  BY DEF Holds, IInv, MeteredKeepsMeter, Active, TypeOK
<1>3. s.pc = "reply" => Explained(s.event, s.meter, s.amount, s.remaining)'
  BY DEF Explained, Recorded
<1>4. \A a \in answers' \ answers : license.exists =>
              Explained(a.event, a.meter, a.units, a.remaining)'
  BY DEF Explained, Recorded
<1> QED BY <1>1, <1>2, <1>3, <1>4, StepKeeps

(* A handler that ends without an effect.                                  *)
LEMMA EndKeeps ==
    ASSUME IInv, NEW h \in Handler, Finish(h), LockMoves(h, Idle),
           UNCHANGED <<license, draft, meter, ledger, stale, answers>>
    PROVE  IInv'
<1>1. Idle \in HandlerState /\ Idle.pc # "reply" /\ Holds(Idle)
  BY IdleType DEF Holds
<1>2. draft' \subseteq Meter /\ stale' \subseteq Handler /\ answers' \subseteq Answer
  BY DEF IInv, TypeOK
<1> QED BY <1>1, <1>2, LocalStepKeeps DEF Finish

(* Every refusal, and every failure: the transaction rolls back.           *)
LEMMA RefusalKeeps ==
    ASSUME IInv, NEW h \in Handler,
           \/ ConsumeRefuse(h) \/ ConsumeExhausted(h) \/ AdjustRefuse(h) \/ CreateRefuse(h)
           \/ UpdateRefuse(h) \/ Fail(h)
    PROVE  IInv'
<1>1. Finish(h) /\ UNCHANGED <<license, draft, meter, ledger, stale, answers>>
  BY DEF ConsumeRefuse, ConsumeExhausted, AdjustRefuse, CreateRefuse, UpdateRefuse, Fail
<1>2. Unlock(h) \/ (handler[h].pc \notin Locking /\ UNCHANGED lock)
  BY DEF ConsumeRefuse, ConsumeExhausted, AdjustRefuse, CreateRefuse, UpdateRefuse, Fail, Locking
<1>3. LockMoves(h, Idle)
  BY <1>2, IdleHolds DEF LockMoves
<1> QED BY <1>1, <1>3, EndKeeps

(* The requests that start by moving on, with or without the lock.         *)
LEMMA BeginKeeps ==
    ASSUME IInv, NEW h \in Handler, NEW s \in HandlerState, Goto(h, s), LockMoves(h, s), Holds(s),
           s.pc # "reply", stale' \subseteq Handler,
           UNCHANGED <<license, draft, meter, ledger, answers>>
    PROVE  IInv'
<1>1. draft' \subseteq Meter /\ answers' \subseteq Answer
  BY DEF IInv, TypeOK
<1> QED BY <1>1, LocalStepKeeps

LEMMA ConsumeCheckKeeps ==
    ASSUME IInv, NEW h \in Handler, NEW e \in EventId, NEW m \in Meter, NEW u \in Units,
           ConsumeCheck(h, e, m, u)
    PROVE  IInv'
<1> DEFINE s == [Idle EXCEPT !.pc = "checked", !.event = e, !.meter = m, !.amount = u]
<1>1. u \in 1 .. MaxBalance /\ u \in -MaxBalance .. MaxBalance /\ MaxBalance \in Nat
  BY UnitsAssumption, BalanceAssumption
<1>2. s \in HandlerState /\ s.pc = "checked" /\ s.event = e /\ s.amount = u
  BY <1>1, IdleType DEF HandlerState, Pc
<1>3. Goto(h, s) /\ stale' \subseteq Handler /\ UNCHANGED <<license, draft, meter, ledger, answers>>
  BY DEF ConsumeCheck, IInv, TypeOK
<1> HIDE DEF s
<1>4. LockMoves(h, s) /\ Holds(s)
  BY <1>1, <1>2 DEF ConsumeCheck, Start, LockMoves, Locking, Holds
<1> QED BY <1>2, <1>3, <1>4, BeginKeeps

LEMMA ConsumeBeginKeeps ==
    ASSUME IInv, NEW h \in Handler, ConsumeBegin(h) PROVE IInv'
<1> DEFINE s == [handler[h] EXCEPT !.pc = "debit"]
<1>1. handler[h] \in HandlerState /\ HandlerHolds(h) /\ handler[h].pc = "checked"
  BY DEF IInv, TypeOK, ConsumeBegin
<1>2. /\ s \in HandlerState /\ s.pc = "debit" /\ s.event = handler[h].event
      /\ s.amount = handler[h].amount /\ s.meter = handler[h].meter
  BY <1>1 DEF HandlerState, Pc
<1>3. /\ Goto(h, s) /\ Lock(h) /\ stale' \subseteq Handler
      /\ UNCHANGED <<license, draft, meter, ledger, answers>>
  BY DEF ConsumeBegin, IInv, TypeOK
<1>4. meter[handler[h].meter].state = "active"
  BY DEF ConsumeBegin
<1> HIDE DEF s
<1>5. LockMoves(h, s) /\ Holds(s)
  BY <1>1, <1>2, <1>3, <1>4 DEF LockMoves, Locking, Holds, HandlerHolds
<1> QED BY <1>2, <1>3, <1>5, BeginKeeps

(* A repeated request finds the debit of its event, and answers with what  *)
(* that one left.                                                          *)
LEMMA ConsumeReplayKeeps ==
    ASSUME IInv, NEW h \in Handler, ConsumeReplay(h) PROVE IInv'
<1>1. PICK i \in Recorded(handler[h].event) :
          IF SameRequest(h, i)
          THEN Goto(h, [handler[h] EXCEPT !.pc = "reply", !.remaining = ledger[i].after])
          ELSE Finish(h)
  BY DEF ConsumeReplay
<1>2. /\ handler[h] \in HandlerState /\ HandlerHolds(h) /\ handler[h].pc = "checked"
      /\ UNCHANGED <<license, draft, meter, ledger, lock, stale, answers>>
      /\ draft' \subseteq Meter /\ stale' \subseteq Handler /\ answers' \subseteq Answer
  BY DEF IInv, TypeOK, ConsumeReplay
<1>3. CASE ~SameRequest(h, i)
  BY <1>1, <1>2, <1>3, EndKeeps, IdleHolds DEF LockMoves, Locking
<1>4. CASE SameRequest(h, i)
  <2> DEFINE s == [handler[h] EXCEPT !.pc = "reply", !.remaining = ledger[i].after]
  <2>1. i \in DOMAIN ledger /\ ledger[i] \in Entry /\ ledger[i].event = handler[h].event
    BY <1>1 DEF Recorded, IInv, TypeOK
  <2>2. /\ s \in HandlerState /\ s.pc = "reply" /\ s.event = handler[h].event
        /\ s.amount = handler[h].amount /\ s.meter = handler[h].meter
        /\ s.remaining = ledger[i].after
    BY <1>2, <2>1 DEF HandlerState, Pc, Entry
  <2>3. Goto(h, s)
    BY <1>1, <1>4
  <2> HIDE DEF s
  <2>4. s.event \in EventId /\ s.amount \in 1 .. MaxBalance
    BY <1>2, <2>2 DEF HandlerHolds
  <2>5. Recorded(s.event) = {i}
    BY <2>1, <2>2, <2>4, EventAssumption DEF IInv, EventsOnce
  <2>6. Explained(s.event, s.meter, s.amount, s.remaining)
    BY <1>4, <2>1, <2>2, <2>5 DEF Explained, SameRequest
  <2>7. LockMoves(h, s) /\ Holds(s)
    BY <1>2, <2>2, <2>4 DEF LockMoves, Locking, Holds
  <2> QED BY <1>2, <2>2, <2>3, <2>6, <2>7, LocalStepKeeps
<1> QED BY <1>3, <1>4

LEMMA ConsumeReplyKeeps ==
    ASSUME IInv, NEW h \in Handler, ConsumeReply(h) PROVE IInv'
<1> DEFINE a == [event |-> handler[h].event, meter |-> handler[h].meter,
                 units |-> handler[h].amount, remaining |-> handler[h].remaining]
<1>1. handler[h] \in HandlerState /\ HandlerHolds(h) /\ handler[h].pc = "reply"
  BY DEF IInv, TypeOK, ConsumeReply
<1>2. a \in Answer
  BY <1>1 DEF HandlerState, HandlerHolds, Answer
<1>3. license.exists => Explained(a.event, a.meter, a.units, a.remaining)
  BY <1>1 DEF IInv, RepliesRecorded
<1>4. /\ answers' = answers \cup {a} /\ Finish(h)
      /\ UNCHANGED <<license, draft, meter, ledger, lock, stale>>
  BY DEF ConsumeReply
<1>5. LockMoves(h, Idle) /\ Idle \in HandlerState /\ Idle.pc # "reply" /\ Holds(Idle)
  BY <1>1, <1>4, IdleType DEF LockMoves, Locking, Holds
<1> HIDE DEF a
<1>6. answers' \subseteq Answer /\ draft' \subseteq Meter /\ stale' \subseteq Handler
  BY <1>2, <1>4 DEF IInv, TypeOK
<1> QED BY <1>3, <1>4, <1>5, <1>6, LocalStepKeeps DEF Finish

(* The operators' requests up to the step that writes.                     *)
LEMMA OperatorBeginKeeps ==
    ASSUME IInv, NEW h \in Handler, NEW m \in Meter, NEW pc \in {"adjust", "create", "archive"},
           NEW amount \in -MaxBalance .. MaxBalance, pc = "create" => amount \in Balance,
           pc = "adjust" => meter[m].state # "archived", Lock(h),
           Goto(h, [Idle EXCEPT !.pc = pc, !.meter = m, !.amount = amount]),
           UNCHANGED <<license, draft, meter, ledger, stale, answers>>
    PROVE  IInv'
<1> DEFINE s == [Idle EXCEPT !.pc = pc, !.meter = m, !.amount = amount]
<1>1. s \in HandlerState /\ s.pc = pc /\ s.meter = m /\ s.amount = amount
  BY IdleType DEF HandlerState, Pc
<1>2. stale' \subseteq Handler
  BY DEF IInv, TypeOK
<1>3. Goto(h, s)
  OBVIOUS
<1> HIDE DEF s
<1>4. LockMoves(h, s) /\ Holds(s)
  BY <1>1 DEF LockMoves, Locking, Holds
<1> QED BY <1>1, <1>2, <1>3, <1>4, BeginKeeps

LEMMA AdjustBeginKeeps ==
    ASSUME IInv, NEW h \in Handler, NEW m \in Meter, NEW d \in Deltas, AdjustBegin(h, m, d)
    PROVE  IInv'
<1>1. d \in -MaxBalance .. MaxBalance
  BY DeltasAssumption
<1> QED BY <1>1, OperatorBeginKeeps DEF AdjustBegin

LEMMA CreateBeginKeeps ==
    ASSUME IInv, NEW h \in Handler, NEW m \in Meter, NEW b \in Balance, CreateBegin(h, m, b)
    PROVE  IInv'
<1>1. b \in -MaxBalance .. MaxBalance
  BY BalanceAssumption DEF Balance
<1> QED BY <1>1, OperatorBeginKeeps DEF CreateBegin

LEMMA ArchiveBeginKeeps ==
    ASSUME IInv, NEW h \in Handler, NEW m \in Meter, ArchiveBegin(h, m) PROVE IInv'
<1> DEFINE s == [Idle EXCEPT !.pc = "archive", !.meter = m]
<1>1. s \in HandlerState /\ s.pc = "archive"
  BY IdleType DEF HandlerState, Pc
<1>2. Goto(h, s) /\ Lock(h) /\ UNCHANGED <<license, draft, meter, ledger, answers>>
  BY DEF ArchiveBegin
<1>3. stale' \subseteq Handler
  BY DEF ArchiveBegin, IInv, TypeOK
<1> HIDE DEF s
<1>4. LockMoves(h, s) /\ Holds(s)
  BY <1>1, <1>2 DEF LockMoves, Locking, Holds
<1> QED BY <1>1, <1>2, <1>3, <1>4, BeginKeeps

(* Nothing to hold on to before the draft is read and written.             *)
LEMMA DraftReadType ==
    /\ [Idle EXCEPT !.pc = "draftRead"] \in HandlerState
    /\ [Idle EXCEPT !.pc = "draftRead"].pc = "draftRead"
BY IdleType DEF HandlerState, Pc

LEMMA ArchiveNothingKeeps ==
    ASSUME IInv, NEW h \in Handler, ArchiveNothing(h) PROVE IInv'
<1>1. /\ Unlock(h) /\ UNCHANGED <<license, draft, meter, ledger, stale, answers>>
      /\ Goto(h, [Idle EXCEPT !.pc = "draftRead"]) \/ Finish(h)
  BY DEF ArchiveNothing
<1>2. CASE Finish(h)
  BY <1>1, <1>2, EndKeeps, IdleHolds DEF LockMoves
<1>3. CASE Goto(h, [Idle EXCEPT !.pc = "draftRead"])
  <2>1. PICK s \in HandlerState : s.pc = "draftRead" /\ Goto(h, s)
    BY <1>3, DraftReadType
  <2>2. LockMoves(h, s) /\ Holds(s) /\ stale' \subseteq Handler
    BY <1>1, <2>1 DEF LockMoves, Locking, Holds, IInv, TypeOK
  <2> QED BY <1>1, <2>1, <2>2, BeginKeeps
<1> QED BY <1>1, <1>2, <1>3

LEMMA DraftReadKeeps ==
    ASSUME IInv, NEW h \in Handler, DraftRead(h) PROVE IInv'
<1> DEFINE s == [Idle EXCEPT !.pc = "draftWrite", !.names = Active]
<1>1. s \in HandlerState /\ s.pc = "draftWrite"
  BY IdleType DEF HandlerState, Pc, Active
<1>2. /\ Goto(h, s) /\ handler[h].pc = "draftRead" /\ UNCHANGED lock
      /\ UNCHANGED <<license, draft, meter, ledger, answers>>
  BY DEF DraftRead
<1>3. stale' \subseteq Handler
  BY DEF DraftRead, IInv, TypeOK
<1> HIDE DEF s
<1>4. LockMoves(h, s) /\ Holds(s)
  BY <1>1, <1>2 DEF LockMoves, Locking, Holds
<1> QED BY <1>1, <1>2, <1>3, <1>4, BeginKeeps

LEMMA DraftWriteKeeps ==
    ASSUME IInv, NEW h \in Handler, DraftWrite(h) PROVE IInv'
<1>1. /\ handler[h] \in HandlerState /\ handler[h].pc = "draftWrite"
      /\ handler[h].names \subseteq Meter
  BY DEF IInv, TypeOK, DraftWrite, HandlerState
<1>2. draft' \subseteq Meter /\ stale' \subseteq Handler /\ answers' \subseteq Answer
  BY <1>1 DEF DraftWrite, RowWritten, IInv, TypeOK
<1>3. /\ Goto(h, Idle) /\ UNCHANGED <<license, meter, ledger, lock, answers>>
  BY DEF DraftWrite, Finish
<1>4. Idle \in HandlerState /\ Idle.pc # "reply" /\ Holds(Idle) /\ LockMoves(h, Idle)
  BY <1>1, <1>3, IdleType DEF Holds, LockMoves, Locking
<1> QED BY <1>2, <1>3, <1>4, LocalStepKeeps

LEMMA UpdateReadKeeps ==
    ASSUME IInv, NEW h \in Handler, NEW target \in BOOLEAN, NEW adds \in BOOLEAN,
           NEW m \in Meter, NEW b \in Balance, UpdateRead(h, target, adds, m, b)
    PROVE  IInv'
<1> DEFINE names == IF adds THEN Active \cup {m} ELSE Active
           s == [Idle EXCEPT !.pc = "update", !.target = target,
                             !.adds = adds /\ m \notin Active,
                             !.meter = m, !.amount = b,
                             !.names = IF target \/ license.metered THEN names ELSE draft]
<1>1. s \in HandlerState /\ s.pc = "update" /\ s.amount = b
  <2>1. names \subseteq Meter /\ draft \subseteq Meter
    BY DEF Active, IInv, TypeOK
  <2>2. b \in -MaxBalance .. MaxBalance
    BY BalanceAssumption DEF Balance
  <2>3. (adds /\ m \notin Active) \in BOOLEAN
    OBVIOUS
  <2> HIDE DEF names
  <2> QED BY <2>1, <2>2, <2>3, IdleType DEF HandlerState, Pc
<1>2. /\ Goto(h, s) /\ handler[h].pc = "idle" /\ UNCHANGED lock
      /\ UNCHANGED <<license, draft, meter, ledger, answers>>
  BY DEF UpdateRead, Start
<1>3. stale' \subseteq Handler
  BY DEF UpdateRead, IInv, TypeOK
<1> HIDE DEF s
<1>4. LockMoves(h, s) /\ Holds(s)
  BY <1>1, <1>2 DEF LockMoves, Locking, Holds
<1> QED BY <1>1, <1>2, <1>3, <1>4, BeginKeeps

LEMMA DeleteLicenseKeeps ==
    ASSUME IInv, NEW h \in Handler, DeleteLicense(h) PROVE IInv'
<1>1. /\ license' = [license EXCEPT !.exists = FALSE] /\ draft' = {}
      /\ meter' = [m \in Meter |-> NoMeter] /\ ledger' = <<>>
      /\ UNCHANGED <<lock, handler, stale, answers>>
  BY DEF DeleteLicense
<1>2. /\ license' \in License /\ license'.exists = FALSE
      /\ meter' \in [Meter -> MeterRow] /\ ledger' \in Seq(Entry) /\ DOMAIN ledger' = {}
      /\ \A m \in Meter : meter'[m].state = "none" /\ meter'[m] = NoMeter
  <2>1. license' \in License /\ license'.exists = FALSE
    BY <1>1 DEF IInv, TypeOK, License
  <2>2. ledger' \in Seq(Entry) /\ DOMAIN ledger' = {}
    BY <1>1
  <2>3. \A m \in Meter : meter'[m] = NoMeter
    BY <1>1
  <2>4. NoMeter.state = "none" /\ meter' \in [Meter -> MeterRow]
    BY <1>1, IdleType DEF NoMeter
  <2> QED BY <2>1, <2>2, <2>3, <2>4
<1>3. TypeOK' /\ LockHeld' /\ AbsentIsEmpty' /\ EventsOnce'
  BY <1>1, <1>2 DEF IInv, TypeOK, LockHeld, AbsentIsEmpty, EventsOnce
<1>4. \A g \in Handler : HandlerHolds(g)'
  BY <1>1, <1>2 DEF IInv, TypeOK, HandlerHolds, HandlerState
<1>5. RepliesRecorded' /\ AnswersRecorded' /\ MeteredKeepsMeter'
  BY <1>2 DEF RepliesRecorded, AnswersRecorded, MeteredKeepsMeter
<1>6. LedgerExplainsBalance'
  BY <1>2 DEF LedgerExplainsBalance, EntriesOf
<1> QED BY <1>3, <1>4, <1>5, <1>6 DEF IInv

-----------------------------------------------------------------------------
(* Commits                                                                 *)

LEMMA ConsumeWrites ==
    ASSUME IInv, NEW h \in Handler, ConsumeCommit(h)
    PROVE  \E row \in MeterRow, e \in Entry :
              /\ Writes(handler[h].meter, row, e) /\ e.kind = "consume"
              /\ e.event = handler[h].event /\ e.delta = -handler[h].amount
              /\ e.after = meter[handler[h].meter].balance - handler[h].amount
<1> DEFINE m == handler[h].meter
           units == handler[h].amount
           remaining == meter[m].balance - units
           row == [meter[m] EXCEPT !.balance = remaining]
           e == [kind |-> "consume", meter |-> m, event |-> handler[h].event, delta |-> -units,
                 before |-> remaining + units, after |-> remaining + units + -units]
<1>1. /\ m \in Meter /\ meter[m] \in MeterRow /\ handler[h].pc = "debit"
      /\ handler[h].event \in EventId /\ units \in 1 .. MaxBalance
      /\ meter[m].state # "archived"
  BY DEF IInv, TypeOK, HandlerState, HandlerHolds, ConsumeCommit
<1>2. /\ meter[m].state # "none" /\ remaining >= 0 /\ Recorded(handler[h].event) = {}
      /\ meter' = [meter EXCEPT ![m].balance = remaining]
      /\ ledger' = Append(ledger, e)
  BY DEF ConsumeCommit, Record
<1>3. /\ meter[m].state = "active" /\ meter[m].balance \in 0 .. MaxBalance
      /\ remaining \in 0 .. MaxBalance /\ remaining + units = meter[m].balance
      /\ remaining + units + -units = remaining
      /\ units \in Nat /\ -units \in -MaxBalance .. MaxBalance /\ -(-units) = units
  <2>1. meter[m].state = "active" /\ meter[m].balance \in 0 .. MaxBalance
    BY <1>1, <1>2 DEF MeterRow, Balance
  <2>2. units \in Nat /\ -units \in -MaxBalance .. MaxBalance /\ -(-units) = units
    BY <1>1, BalanceAssumption
  <2>3. remaining \in 0 .. MaxBalance /\ remaining + units = meter[m].balance
    <3>1. remaining >= 0
      BY <1>2
    <3> QED BY <2>1, <2>2, <3>1, BalanceAssumption
  <2>4. remaining + units + -units = remaining
    BY <2>2, <2>3, BalanceAssumption
  <2> QED BY <2>1, <2>2, <2>3, <2>4
<1>4. row \in MeterRow /\ row.state = "active" /\ row.balance = remaining
  BY <1>1, <1>3 DEF MeterRow, Balance
<1>5. e \in Entry
  BY <1>1, <1>3 DEF Entry, Balance
<1>6. meter' = [meter EXCEPT ![m] = row]
  BY <1>2
<1>7. Writes(m, row, e)
  BY <1>1, <1>2, <1>3, <1>4, <1>6 DEF Writes
<1> QED BY <1>3, <1>4, <1>5, <1>7

LEMMA AdjustWrites ==
    ASSUME IInv, NEW h \in Handler, AdjustCommit(h)
    PROVE  \E row \in MeterRow, e \in Entry :
              Writes(handler[h].meter, row, e) /\ e.kind = "adjust"
<1> DEFINE m == handler[h].meter
           delta == handler[h].amount
           before == meter[m].balance
           row == [meter[m] EXCEPT !.balance = before + delta]
           e == [kind |-> "adjust", meter |-> m, event |-> NoEvent, delta |-> delta,
                 before |-> before, after |-> before + delta]
<1>1. /\ m \in Meter /\ meter[m] \in MeterRow /\ handler[h].pc = "adjust"
      /\ delta \in -MaxBalance .. MaxBalance /\ meter[m].state # "archived"
  BY DEF IInv, TypeOK, HandlerState, HandlerHolds, AdjustCommit
<1>2. /\ InRange(m, delta) /\ meter' = [meter EXCEPT ![m].balance = @ + delta]
      /\ ledger' = Append(ledger, e)
  BY DEF AdjustCommit, Record
<1>3. meter[m].state = "active" /\ before \in 0 .. MaxBalance /\ before + delta \in 0 .. MaxBalance
  BY <1>1, <1>2, BalanceAssumption DEF InRange, MeterRow, Balance
<1>4. row \in MeterRow /\ row.state = "active" /\ row.balance = before + delta
  BY <1>1, <1>3 DEF MeterRow, Balance
<1>5. e \in Entry
  BY <1>1, <1>3 DEF Entry, Balance
<1>6. meter' = [meter EXCEPT ![m] = row]
  BY <1>2
<1>7. Writes(m, row, e)
  BY <1>2, <1>3, <1>4, <1>6 DEF Writes
<1> QED BY <1>4, <1>5, <1>7

(* A new meter, of createLicenseMeter or of updateLicense.                 *)
LEMMA CreateWrites ==
    ASSUME IInv, NEW m \in Meter, NEW balance \in Balance, meter[m].state = "none",
           meter' = [meter EXCEPT ![m] = [state |-> "active", balance |-> balance]],
           ledger' = Append(ledger, CreateEntry(m, balance))
    PROVE  \E row \in MeterRow, e \in Entry : Writes(m, row, e) /\ e.kind = "create"
<1> DEFINE row == [state |-> "active", balance |-> balance]
           e == [kind |-> "create", meter |-> m, event |-> NoEvent, delta |-> balance,
                 before |-> 0, after |-> balance]
<1>1. balance \in -MaxBalance .. MaxBalance /\ 0 \in Balance /\ balance = 0 + balance
  BY BalanceAssumption DEF Balance
<1>2. row \in MeterRow /\ e \in Entry
  BY <1>1 DEF MeterRow, Entry
<1>3. Writes(m, row, e)
  BY <1>1 DEF Writes, CreateEntry
<1> QED BY <1>2, <1>3

LEMMA ArchiveWrites ==
    ASSUME IInv, NEW h \in Handler, ArchiveCommit(h)
    PROVE  \E row \in MeterRow, e \in Entry :
              Writes(handler[h].meter, row, e) /\ e.kind = "archive"
<1> DEFINE m == handler[h].meter
           before == meter[m].balance
           row == [meter[m] EXCEPT !.state = "archived"]
           e == [kind |-> "archive", meter |-> m, event |-> NoEvent, delta |-> 0,
                 before |-> before, after |-> before + 0]
<1>1. m \in Meter /\ meter[m] \in MeterRow /\ before \in Balance /\ before + 0 = before
  BY BalanceAssumption DEF IInv, TypeOK, HandlerState, MeterRow, Balance
<1>2. /\ meter[m].state = "active" /\ meter' = [meter EXCEPT ![m].state = "archived"]
      /\ ledger' = Append(ledger, e)
  BY DEF ArchiveCommit, Record
<1>3. row \in MeterRow /\ row.state = "archived" /\ row.balance = before
  BY <1>1 DEF MeterRow
<1>4. e \in Entry
  BY <1>1, BalanceAssumption DEF Entry
<1>5. meter' = [meter EXCEPT ![m] = row]
  BY <1>2
<1>6. Writes(m, row, e)
  BY <1>1, <1>2, <1>3, <1>5 DEF Writes
<1> QED BY <1>3, <1>4, <1>6

(* What a write does to the states of the meters.                          *)
LEMMA WritesStates ==
    ASSUME IInv, NEW m \in Meter, NEW row \in MeterRow, NEW e \in Entry, Writes(m, row, e)
    PROVE  /\ e.kind # "archive" => m \in Active'
           /\ Active \ {m} \subseteq Active'
           /\ e.kind # "archive" =>
                 \A p \in Meter : meter'[p].state = "archived" => meter[p].state = "archived"
BY DEF Writes, Active, IInv, TypeOK

LEMMA ConsumeCommitKeeps == ASSUME IInv, NEW h \in Handler, ConsumeCommit(h) PROVE IInv'
<1>1. PICK row \in MeterRow, e \in Entry :
              /\ Writes(handler[h].meter, row, e) /\ e.kind = "consume"
              /\ e.event = handler[h].event /\ e.delta = -handler[h].amount
              /\ e.after = meter[handler[h].meter].balance - handler[h].amount
  BY ConsumeWrites
<1>2. /\ handler[h] \in HandlerState /\ handler[h].meter \in Meter
      /\ handler[h].event \in EventId /\ handler[h].amount \in 1 .. MaxBalance
      /\ e.after \in Balance /\ e.delta \in Int /\ handler[h].amount = -e.delta
  BY <1>1, BalanceAssumption
  DEF IInv, TypeOK, HandlerHolds, ConsumeCommit, HandlerState, Entry
<1>3. PICK s \in HandlerState : s = [handler[h] EXCEPT !.pc = "reply", !.remaining = e.after]
  BY <1>2 DEF HandlerState, Pc
<1>s. /\ s.pc = "reply" /\ s.event = e.event /\ s.meter = handler[h].meter
      /\ s.amount = -e.delta /\ s.remaining = e.after /\ s.amount \in 1 .. MaxBalance
  BY <1>1, <1>2, <1>3 DEF HandlerState
<1>4. /\ Goto(h, s) /\ Unlock(h) /\ UNCHANGED <<license, draft, stale, answers>>
  BY <1>1, <1>3 DEF ConsumeCommit
<1>5. Kept /\ Explained(s.event, s.meter, s.amount, s.remaining)'
  BY <1>1, <1>2, <1>s, WrittenKept
<1>6. LockMoves(h, s) /\ Holds(s)'
  BY <1>1, <1>2, <1>s, <1>4 DEF LockMoves, Locking, Holds
<1>7. MeteredKeepsMeter'
  BY <1>1, <1>2, <1>4, WritesStates DEF MeteredKeepsMeter
<1>8. \A m \in Meter : meter'[m].state = "archived" => meter[m].state = "archived"
  BY <1>1, <1>2, WritesStates
<1>9. /\ license' \in License /\ draft' \subseteq Meter /\ stale' \subseteq Handler
      /\ answers' \subseteq Answer
  BY <1>4 DEF IInv, TypeOK
<1> QED BY <1>s, <1>4, <1>5, <1>6, <1>7, <1>8, <1>9, StepKeeps

(* The commits of operators.                                               *)
LEMMA OperatorCommitKeeps ==
    ASSUME IInv, NEW h \in Handler, NEW s \in HandlerState, Goto(h, s), LockMoves(h, s),
           s.pc \in {"idle", "draftRead"}, UNCHANGED answers, license' \in License,
           license'.exists = license.exists, draft' \subseteq Meter, stale' \subseteq Handler,
           NEW m \in Meter, NEW row \in MeterRow, NEW e \in Entry, Writes(m, row, e),
           e.kind = "archive" => lock = h, MeteredKeepsMeter'
    PROVE  IInv'
<1>1. Kept
  BY WrittenKept
<1>2. Holds(s)' /\ s.pc # "reply"
  BY DEF Holds
<1>3. \A p \in Meter : meter'[p].state = "archived" => meter[p].state = "archived" \/ lock = h
  BY WritesStates
<1>4. answers' \subseteq Answer
  BY DEF IInv, TypeOK
<1> QED BY <1>1, <1>2, <1>3, <1>4, StepKeeps

LEMMA AdjustCommitKeeps == ASSUME IInv, NEW h \in Handler, AdjustCommit(h) PROVE IInv'
<1>1. PICK row \in MeterRow, e \in Entry : Writes(handler[h].meter, row, e) /\ e.kind = "adjust"
  BY AdjustWrites
<1>2. handler[h].meter \in Meter
  BY DEF IInv, TypeOK, HandlerState
<1>3. Goto(h, Idle) /\ Unlock(h) /\ UNCHANGED <<license, draft, stale, answers>>
  BY DEF AdjustCommit, Finish
<1>4. LockMoves(h, Idle) /\ Idle \in HandlerState /\ Idle.pc = "idle"
  BY <1>3, IdleType, IdleHolds DEF LockMoves
<1>5. MeteredKeepsMeter'
  BY <1>1, <1>2, <1>3, WritesStates DEF MeteredKeepsMeter
<1>6. license' \in License /\ draft' \subseteq Meter /\ stale' \subseteq Handler
  BY <1>3 DEF IInv, TypeOK
<1> QED BY <1>1, <1>2, <1>3, <1>4, <1>5, <1>6, OperatorCommitKeeps

LEMMA CreateCommitKeeps == ASSUME IInv, NEW h \in Handler, CreateCommit(h) PROVE IInv'
<1>1. handler[h].meter \in Meter /\ handler[h].amount \in Balance /\ handler[h].pc = "create"
  BY DEF IInv, TypeOK, HandlerState, HandlerHolds, CreateCommit
<1>2. PICK row \in MeterRow, e \in Entry : Writes(handler[h].meter, row, e) /\ e.kind = "create"
  BY <1>1, CreateWrites DEF CreateCommit
<1>3. PICK s \in HandlerState : s.pc = "draftRead" /\ Goto(h, s)
  BY DraftReadType DEF CreateCommit
<1>4. Unlock(h) /\ UNCHANGED <<license, draft, stale, answers>>
  BY DEF CreateCommit
<1>5. LockMoves(h, s)
  BY <1>3, <1>4 DEF LockMoves, Locking
<1>6. MeteredKeepsMeter'
  BY <1>1, <1>2, <1>4, WritesStates DEF MeteredKeepsMeter
<1>7. license' \in License /\ draft' \subseteq Meter /\ stale' \subseteq Handler
  BY <1>4 DEF IInv, TypeOK
<1> QED BY <1>1, <1>2, <1>3, <1>4, <1>5, <1>6, <1>7, OperatorCommitKeeps

LEMMA ArchiveCommitKeeps == ASSUME IInv, NEW h \in Handler, ArchiveCommit(h) PROVE IInv'
<1>1. handler[h].meter \in Meter /\ handler[h].pc = "archive" /\ lock = h
  BY DEF IInv, TypeOK, HandlerState, LockHeld, Locking, ArchiveCommit
<1>2. PICK row \in MeterRow, e \in Entry : Writes(handler[h].meter, row, e) /\ e.kind = "archive"
  BY ArchiveWrites
<1>3. PICK s \in HandlerState : s.pc = "draftRead" /\ Goto(h, s)
  BY DraftReadType DEF ArchiveCommit
<1>4. Unlock(h) /\ UNCHANGED <<license, draft, stale, answers>>
  BY DEF ArchiveCommit
<1>5. LockMoves(h, s)
  BY <1>3, <1>4 DEF LockMoves, Locking
<1>6. MeteredKeepsMeter'
  <2>1. license.metered => Active \ {handler[h].meter} # {}
    BY <1>1 DEF ArchiveCommit, LastMeter, Active
  <2> QED BY <1>1, <1>2, <1>4, <2>1, WritesStates DEF MeteredKeepsMeter
<1>7. license' \in License /\ draft' \subseteq Meter /\ stale' \subseteq Handler
  BY <1>4 DEF IInv, TypeOK
<1> QED BY <1>1, <1>2, <1>3, <1>4, <1>5, <1>6, <1>7, OperatorCommitKeeps

LEMMA UpdateCommitKeeps == ASSUME IInv, NEW h \in Handler, UpdateCommit(h) PROVE IInv'
<1> DEFINE m == handler[h].meter
           adding == handler[h].adds /\ meter[m] = NoMeter
<1>1. /\ m \in Meter /\ handler[h].pc = "update" /\ handler[h].amount \in Balance
      /\ handler[h].names \subseteq Meter /\ handler[h].target \in BOOLEAN
  BY DEF IInv, TypeOK, HandlerState, HandlerHolds, UpdateCommit
<1>2. /\ license' \in License /\ license'.exists = license.exists
      /\ license'.metered = handler[h].target
  BY <1>1 DEF UpdateCommit, IInv, TypeOK, License
<1>3. /\ draft' \subseteq Meter /\ stale' \subseteq Handler /\ Goto(h, Idle)
      /\ UNCHANGED <<lock, answers>> /\ Updatable(h)
  BY <1>1 DEF UpdateCommit, RowWritten, Finish
<1>4. /\ LockMoves(h, Idle) /\ Idle \in HandlerState /\ Idle.pc = "idle"
  BY <1>1, <1>3, IdleType, IdleHolds DEF LockMoves, Locking
<1>5. CASE adding
  <2>1. PICK row \in MeterRow, e \in Entry : Writes(m, row, e) /\ e.kind = "create"
    BY <1>1, <1>5, CreateWrites DEF UpdateCommit, NoMeter
  <2>2. MeteredKeepsMeter'
    BY <1>1, <2>1, WritesStates DEF MeteredKeepsMeter
  <2> QED BY <1>1, <1>2, <1>3, <1>4, <2>1, <2>2, OperatorCommitKeeps
<1>6. CASE ~adding
  <2>1. UNCHANGED <<meter, ledger>>
    BY <1>6 DEF UpdateCommit
  <2>2. handler[h].adds => m \in Active
    BY <1>1, <1>3, <1>6 DEF Updatable, Insertable, Active
  <2>3. MeteredKeepsMeter'
    BY <1>2, <1>3, <2>1, <2>2 DEF MeteredKeepsMeter, Updatable, Active
  <2>4. Kept /\ Holds(Idle)' /\ Idle.pc # "reply" /\ answers' \subseteq Answer
    BY <1>3, <2>1, UnwrittenKept, IdleHolds DEF IInv, TypeOK
  <2> QED BY <1>2, <1>3, <1>4, <2>1, <2>3, <2>4, StepKeeps
<1> QED BY <1>5, <1>6

-----------------------------------------------------------------------------
(* The invariant                                                           *)

LEMMA InitIInv == Init => IInv
<1> SUFFICES ASSUME Init PROVE IInv
  OBVIOUS
<1>1. /\ lock = Nobody /\ stale = {} /\ answers = {} /\ handler \in [Handler -> HandlerState]
      /\ \A h \in Handler : handler[h].pc = "idle"
  BY IdleType DEF Init
<1>2. LockHeld /\ (\A h \in Handler : HandlerHolds(h)) /\ RepliesRecorded /\ AnswersRecorded
  BY <1>1 DEF LockHeld, Locking, HandlerHolds, RepliesRecorded, AnswersRecorded
<1>3. CASE /\ license = [exists |-> TRUE, metered |-> FALSE]
           /\ draft = {} /\ meter = [m \in Meter |-> NoMeter] /\ ledger = <<>>
  <2>1. /\ license \in License /\ license.metered = FALSE /\ ledger \in Seq(Entry)
        /\ DOMAIN ledger = {} /\ \A m \in Meter : meter[m] = NoMeter
    BY <1>3 DEF License
  <2>2. TypeOK
    BY <1>1, <1>3, <2>1, IdleType DEF TypeOK
  <2>3. EventsOnce /\ AbsentIsEmpty /\ MeteredKeepsMeter
    BY <2>1 DEF EventsOnce, AbsentIsEmpty, MeteredKeepsMeter
  <2>4. LedgerExplainsBalance
    BY <2>1 DEF LedgerExplainsBalance, EntriesOf, NoMeter
  <2> QED BY <1>2, <2>2, <2>3, <2>4 DEF IInv
<1>4. ASSUME NEW first \in Meter, NEW balance \in Balance,
             /\ license = [exists |-> TRUE, metered |-> TRUE]
             /\ draft = {first}
             /\ meter = [m \in Meter |-> IF m = first
                                         THEN [state |-> "active", balance |-> balance]
                                         ELSE NoMeter]
             /\ ledger = <<CreateEntry(first, balance)>>
      PROVE  IInv
  <2>0. balance \in Int /\ balance \in -MaxBalance .. MaxBalance /\ 0 \in Balance
    BY BalanceAssumption DEF Balance
  <2>1. CreateEntry(first, balance) \in Entry
    BY <2>0 DEF CreateEntry, Entry
  <2>2. /\ license \in License /\ ledger \in Seq(Entry) /\ DOMAIN ledger = {1}
        /\ ledger[1] = CreateEntry(first, balance)
    BY <1>4, <2>1 DEF License
  <2>3. meter \in [Meter -> MeterRow] /\ meter[first] = [state |-> "active", balance |-> balance]
        /\ \A m \in Meter \ {first} : meter[m] = NoMeter
    BY <1>4, IdleType DEF MeterRow
  <2>4. TypeOK
    BY <1>1, <1>4, <2>2, <2>3 DEF TypeOK
  <2>5. EventsOnce /\ AbsentIsEmpty /\ MeteredKeepsMeter
    BY <2>2, <2>3 DEF EventsOnce, AbsentIsEmpty, MeteredKeepsMeter, Active, CreateEntry
  <2>6. LedgerExplainsBalance
    <3>1. EntriesOf(first) = {1} /\ \A m \in Meter \ {first} : EntriesOf(m) = {}
      BY <2>2 DEF EntriesOf, CreateEntry
    <3>2. /\ ledger[1].after = balance /\ ledger[1].before = 0 /\ ledger[1].delta = balance
          /\ ledger[1].kind = "create" /\ balance = 0 + balance
      BY <2>0, <2>2 DEF CreateEntry
    <3>3. ~Follows({1}, 1, 1)
      BY DEF Follows
    <3>4. Chain(EntriesOf(first), ledger, meter[first])
      BY <2>3, <3>1, <3>2, <3>3 DEF Chain
    <3>5. \A m \in Meter \ {first} : Chain(EntriesOf(m), ledger, meter[m])
      BY <2>3, <3>1 DEF Chain, NoMeter
    <3> QED BY <3>4, <3>5, ChainsExplain
  <2> QED BY <1>2, <2>4, <2>5, <2>6 DEF IInv
<1> QED BY <1>3, <1>4 DEF Init

LEMMA StutterKeeps == ASSUME IInv, UNCHANGED vars PROVE IInv'
<1> USE DEF vars
<1>1. Kept
  BY UnwrittenKept
<1>2. TypeOK' /\ LockHeld' /\ MeteredKeepsMeter' /\ \A h \in Handler : HandlerHolds(h)'
  BY DEF IInv, TypeOK, LockHeld, MeteredKeepsMeter, Active, HandlerHolds
<1>3. RepliesRecorded' /\ AnswersRecorded'
  BY DEF IInv, RepliesRecorded, AnswersRecorded, Explained, Recorded
<1> QED BY <1>1, <1>2, <1>3 DEF Kept, IInv

LEMMA NextKeeps == IInv /\ [Next]_vars => IInv'
<1> SUFFICES ASSUME IInv, [Next]_vars PROVE IInv'
  OBVIOUS
<1>1. ASSUME NEW h \in Handler, BeginStep(h) PROVE IInv'
  BY <1>1, ConsumeCheckKeeps, AdjustBeginKeeps, CreateBeginKeeps, ArchiveBeginKeeps,
     UpdateReadKeeps, DeleteLicenseKeeps
  DEF BeginStep
<1>2. ASSUME NEW h \in Handler, HandlerStep(h) PROVE IInv'
  BY <1>2, ConsumeReplayKeeps, ConsumeBeginKeeps, RefusalKeeps, UpdateCommitKeeps,
     ConsumeCommitKeeps, ConsumeReplyKeeps, AdjustCommitKeeps, CreateCommitKeeps,
     ArchiveCommitKeeps, ArchiveNothingKeeps, DraftReadKeeps, DraftWriteKeeps
  DEF HandlerStep, LockStep
<1> QED BY <1>1, <1>2, RefusalKeeps, StutterKeeps DEF Next

(* The invariant holds in every reachable state.                           *)
THEOREM Invariance == Spec => []IInv
<1>1. Init => IInv
  BY InitIInv
<1>2. IInv /\ [Next]_vars => IInv'
  BY NextKeeps
<1> QED BY <1>1, <1>2, PTL DEF Spec

(* No balance, in a meter or in the ledger, ever leaves 0 .. MaxBalance:   *)
(* the WHERE clauses of consume and adjust are enough, whatever runs at    *)
(* the same time.                                                          *)
THEOREM TypeCorrect == Spec => []TypeOK
<1>1. IInv => TypeOK
  BY DEF IInv
<1> QED BY <1>1, Invariance, PTL

(* The ledger explains every balance, for any number of meters, handlers   *)
(* and entries: every transaction writes its entry with its meter, under   *)
(* the advisory lock of DrizzleMeterRepository or as a new row.            *)
THEOREM LedgerExplains == Spec => []LedgerExplainsBalance
<1>1. IInv => LedgerExplainsBalance
  BY DEF IInv
<1> QED BY <1>1, Invariance, PTL

(* Every success that reached a client is one debit in the ledger, however *)
(* often its request was repeated and whichever answers were lost.         *)
THEOREM AnswersTrue == Spec => []AnswersRecorded
<1>1. IInv => AnswersRecorded
  BY DEF IInv
<1> QED BY <1>1, Invariance, PTL

(* A metered license keeps an active meter: archiveMeter and update both   *)
(* count the active meters in the step that writes.                        *)
THEOREM MeterKept == Spec => []MeteredKeepsMeter
<1>1. IInv => MeteredKeepsMeter
  BY DEF IInv
<1> QED BY <1>1, Invariance, PTL

-----------------------------------------------------------------------------
(* The refinement                                                          *)

DebitOf(e) ==
    [event |-> e.event, meter |-> e.meter, units |-> -e.delta, remaining |-> e.after]

LEMMA DebitsGrow ==
    ASSUME ledger \in Seq(Entry), NEW e \in Entry, ledger' = Append(ledger, e)
    PROVE  Debits' = IF e.kind = "consume" THEN Debits \cup {DebitOf(e)} ELSE Debits
<1>1. PICK n \in Nat : n = Len(ledger) + 1
  OBVIOUS
<1>2. /\ DOMAIN ledger = 1 .. Len(ledger) /\ DOMAIN ledger' = 1 .. n /\ Len(ledger) \in Nat
      /\ \A i \in DOMAIN ledger : ledger'[i] = ledger[i]
      /\ ledger'[n] = e
  BY <1>1, AppendFacts
<1> DEFINE C == {j \in DOMAIN ledger : ledger[j].kind = "consume"}
           D == {j \in DOMAIN ledger' : ledger'[j].kind = "consume"}
<1>3. D = IF e.kind = "consume" THEN C \cup {n} ELSE C
  BY <1>1, <1>2
<1>4. Debits = {DebitOf(ledger[i]) : i \in C} /\ Debits' = {DebitOf(ledger'[i]) : i \in D}
  BY DEF Debits, DebitOf
<1>5. \A i \in C : ledger'[i] = ledger[i]
  BY <1>2
<1> HIDE DEF C, D, DebitOf
<1> QED BY <1>2, <1>3, <1>4, <1>5

(* A transaction that writes is one step of the account.                   *)
LEMMA WritesRefine ==
    ASSUME IInv, NEW m \in Meter, NEW row \in MeterRow, NEW e \in Entry, Writes(m, row, e)
    PROVE  Abstract!AccountNext
<1>1. /\ meter \in [Meter -> MeterRow] /\ ledger \in Seq(Entry)
      /\ e.after \in Balance /\ e.delta \in Int /\ e.before \in Int /\ e.after \in Int
  BY BalanceAssumption DEF IInv, TypeOK, Entry, Balance
<1>2. /\ ledger' = Append(ledger, e) /\ meter' = [meter EXCEPT ![m] = row]
      /\ row.balance = e.after
  BY DEF Writes
<1>3. Debits' = IF e.kind = "consume" THEN Debits \cup {DebitOf(e)} ELSE Debits
  BY <1>1, <1>2, DebitsGrow
<1>4. row = [state |-> row.state, balance |-> e.after] /\ meter[m] \in MeterRow
  BY <1>1, <1>2 DEF MeterRow
<1>5. CASE e.kind = "create"
  <2>1. meter[m] = NoMeter
    BY <1>5 DEF Writes, IInv, AbsentIsEmpty
  <2>2. row = [state |-> "active", balance |-> e.after]
    BY <1>4, <1>5 DEF Writes
  <2>3. Abstract!Open(m, e.after)
    BY <1>2, <1>3, <1>5, <2>1, <2>2 DEF Abstract!Open, Abstract!NoMeter, NoMeter
  <2> QED BY <1>1, <2>3 DEF Abstract!AccountNext, Abstract!Balance, Balance
<1>6. CASE e.kind = "adjust"
  <2>1. meter[m].state = "active" /\ row = [meter[m] EXCEPT !.balance = e.after]
    BY <1>4, <1>6 DEF Writes, MeterRow
  <2>2. Abstract!Change(m, e.after)
    BY <1>1, <1>2, <1>3, <1>6, <2>1 DEF Abstract!Change
  <2> QED BY <1>1, <2>2 DEF Abstract!AccountNext, Abstract!Balance, Balance
<1>7. CASE e.kind = "archive"
  <2>1. meter[m].state = "active" /\ e.after = meter[m].balance /\ row.state = "archived"
    BY <1>1, <1>7 DEF Writes
  <2>2. row = [meter[m] EXCEPT !.state = "archived"]
    BY <1>4, <2>1 DEF MeterRow
  <2>3. Abstract!Close(m)
    BY <1>1, <1>2, <1>3, <1>7, <2>1, <2>2 DEF Abstract!Close
  <2> QED BY <2>3 DEF Abstract!AccountNext
<1>8. CASE e.kind = "consume"
  <2>1. /\ meter[m].state = "active" /\ row = [meter[m] EXCEPT !.balance = e.after]
        /\ e.event \in EventId /\ -e.delta \in 1 .. MaxBalance /\ Recorded(e.event) = {}
        /\ e.meter = m /\ meter[m].balance = e.before /\ e.after = e.before + e.delta
    BY <1>4, <1>8 DEF Writes, MeterRow
  <2>2. PICK d : d = DebitOf(e)
    OBVIOUS
  <2>3. /\ d.event = e.event /\ d.meter = m /\ d.units = -e.delta /\ d.remaining = e.after
        /\ d \in Abstract!Debit
    BY <1>1, <2>1, <2>2 DEF DebitOf, Abstract!Debit, Abstract!Balance, Balance
  <2>4. \A f \in Debits : f.event # d.event
    BY <2>1, <2>3 DEF Debits, Recorded
  <2>5. meter[m].balance = d.remaining + d.units
    BY <1>1, <2>1, <2>3
  <2>6. Abstract!DebitOnce(d)
    BY <1>1, <1>2, <1>3, <1>8, <2>1, <2>2, <2>3, <2>4, <2>5 DEF Abstract!DebitOnce
  <2> QED BY <2>3, <2>6 DEF Abstract!AccountNext
<1> QED BY <1>5, <1>6, <1>7, <1>8 DEF Entry

LEMMA DebitsUnchanged == ledger' = ledger => Debits' = Debits
BY DEF Debits

LEMMA NextRefines ==
    IInv /\ [Next]_vars => [Abstract!AccountNext]_(Abstract!accountVars)
<1> SUFFICES ASSUME IInv, [Next]_vars
             PROVE  Abstract!AccountNext \/ UNCHANGED <<meter, Debits>>
  BY DEF Abstract!accountVars
<1>1. CASE UNCHANGED <<meter, ledger>>
  BY <1>1, DebitsUnchanged
<1>2. ASSUME NEW h \in Handler, DeleteLicense(h) PROVE Abstract!AccountNext
  <2>1. meter' = [m \in Meter |-> NoMeter] /\ Debits' = {}
    BY <1>2 DEF DeleteLicense, Debits
  <2> QED BY <2>1 DEF Abstract!AccountNext, Abstract!Drop, Abstract!NoMeter, NoMeter
<1>3. ASSUME NEW h \in Handler,
             ConsumeCommit(h) \/ AdjustCommit(h) \/ CreateCommit(h) \/ ArchiveCommit(h)
      PROVE  Abstract!AccountNext
  <2>1. handler[h].meter \in Meter /\ HandlerHolds(h)
    BY DEF IInv, TypeOK, HandlerState
  <2>2. \E row \in MeterRow, e \in Entry : Writes(handler[h].meter, row, e)
    <3>1. CASE CreateCommit(h)
      BY <2>1, <3>1, CreateWrites DEF CreateCommit, HandlerHolds
    <3> QED BY <1>3, <3>1, ConsumeWrites, AdjustWrites, ArchiveWrites
  <2> QED BY <2>1, <2>2, WritesRefine
<1>4. ASSUME NEW h \in Handler, UpdateCommit(h), ~UNCHANGED <<meter, ledger>>
      PROVE  Abstract!AccountNext
  <2>1. handler[h].meter \in Meter /\ HandlerHolds(h)
    BY DEF IInv, TypeOK, HandlerState
  <2>2. \E row \in MeterRow, e \in Entry : Writes(handler[h].meter, row, e)
    BY <1>4, <2>1, CreateWrites DEF UpdateCommit, HandlerHolds, NoMeter
  <2> QED BY <2>1, <2>2, WritesRefine
<1>5. ASSUME NEW h \in Handler, BeginStep(h), ~DeleteLicense(h) PROVE UNCHANGED <<meter, ledger>>
  BY <1>5 DEF BeginStep, ConsumeCheck, AdjustBegin, CreateBegin, ArchiveBegin, UpdateRead
<1>6. ASSUME NEW h \in Handler, HandlerStep(h) \/ Fail(h)
      PROVE  \/ UNCHANGED <<meter, ledger>> \/ UpdateCommit(h)
             \/ ConsumeCommit(h) \/ AdjustCommit(h) \/ CreateCommit(h) \/ ArchiveCommit(h)
  BY <1>6 DEF HandlerStep, LockStep, ConsumeReplay, ConsumeBegin, ConsumeRefuse, UpdateRefuse,
     ConsumeExhausted, ConsumeReply, AdjustRefuse, CreateRefuse, ArchiveNothing, DraftRead,
     DraftWrite, Fail
<1> QED BY <1>1, <1>2, <1>3, <1>4, <1>5, <1>6 DEF Next, vars

(* The transactions implement the account of MeterAccount: locks, lost     *)
(* answers, repeated requests and failures do not show in the balances.    *)
THEOREM Refinement == Spec => ImplementsAccount
<1>1. Init => Abstract!AccountInit
  <2> SUFFICES ASSUME Init PROVE Abstract!AccountInit
    OBVIOUS
  <2>1. Debits = {}
    <3>1. \A i \in DOMAIN ledger : ledger[i].kind # "consume"
      BY DEF Init, CreateEntry
    <3> QED BY <3>1 DEF Debits
  <2>2. \A m \in Meter : meter[m] = NoMeter \/ \E b \in Balance :
                              meter[m] = [state |-> "active", balance |-> b]
    BY DEF Init
  <2>3. meter = [m \in Meter |-> meter[m]]
    BY DEF Init
  <2>4. meter \in [Meter -> {NoMeter} \cup [state : {"active"}, balance : Balance]]
    BY <2>2, <2>3
  <2> QED BY <2>1, <2>4
          DEF Abstract!AccountInit, Abstract!NoMeter, NoMeter, Abstract!Balance, Balance
<1>2. IInv /\ [Next]_vars => [Abstract!AccountNext]_(Abstract!accountVars)
  BY NextRefines
<1> QED BY <1>1, <1>2, Invariance, PTL DEF Spec, ImplementsAccount, Abstract!AccountSpec
=============================================================================
