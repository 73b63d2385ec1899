----------------------------- MODULE MeterAccount -----------------------------
(***************************************************************************)
(* What the usage meters of a license promise, whoever works on them: a    *)
(* meter is opened once, its balance stays between 0 and MaxBalance, every *)
(* change is one indivisible step, an event is debited at most once, and   *)
(* an archived meter never changes.  There are no locks, no transactions   *)
(* and no failures here; MeterLedger implements it.                        *)
(***************************************************************************)
EXTENDS Integers

CONSTANTS
    Meter,          \* names of meters
    EventId,        \* event ids chosen by the clients
    MaxBalance      \* MAX_LICENSE_LIMIT

VARIABLES
    account,        \* state and balance of every meter
    debited         \* the usage events debited so far

accountVars == <<account, debited>>

Balance == 0 .. MaxBalance

Account == [state : {"none", "active", "archived"}, balance : Balance]

NoMeter == [state |-> "none", balance |-> 0]

(* An event that was debited: from which meter, how much, and what         *)
(* remained.                                                               *)
Debit == [event : EventId, meter : Meter, units : 1 .. MaxBalance, remaining : Balance]

AccountInit ==
    /\ account \in [Meter -> {NoMeter} \cup [state : {"active"}, balance : Balance]]
    /\ debited = {}

Open(m, balance) ==
    /\ account[m] = NoMeter
    /\ account' = [account EXCEPT ![m] = [state |-> "active", balance |-> balance]]
    /\ UNCHANGED debited

Close(m) ==
    /\ account[m].state = "active"
    /\ account' = [account EXCEPT ![m].state = "archived"]
    /\ UNCHANGED debited

Change(m, balance) ==
    /\ account[m].state = "active"
    /\ account' = [account EXCEPT ![m].balance = balance]
    /\ UNCHANGED debited

DebitOnce(d) ==
    /\ \A e \in debited : e.event # d.event
    /\ account[d.meter].state = "active"
    /\ account[d.meter].balance = d.remaining + d.units
    /\ account' = [account EXCEPT ![d.meter].balance = d.remaining]
    /\ debited' = debited \cup {d}

(* The license is deleted with everything that belongs to it.              *)
Drop ==
    /\ account' = [m \in Meter |-> NoMeter]
    /\ debited' = {}

AccountNext ==
    \/ \E m \in Meter, b \in Balance : Open(m, b) \/ Change(m, b)
    \/ \E m \in Meter : Close(m)
    \/ \E d \in Debit : DebitOnce(d)
    \/ Drop

AccountSpec == AccountInit /\ [][AccountNext]_accountVars

=============================================================================
