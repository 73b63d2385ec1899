------------------------------ MODULE MCHttpGate ------------------------------
(* Instances of HttpGate for TLC.                                          *)
EXTENDS HttpGate, TLC

CONSTANTS c1, c2, p1, p2, s1, s2, r1, r2, t1, junk, absent

(* One handler in each of two processes; the clock of the second is ahead. *)
TwoProcesses == r1 :> s1 @@ r2 :> s2
SkewedClocks == s1 :> 0 @@ s2 :> 1

SmallLimits == [ip |-> 2, admin |-> 1, license |-> 1]

Symmetry == Permutations({p1, p2})

(* Once the last request has ended only time passes, and no property can   *)
(* fail any more.                                                          *)
Unfinished == started < MaxRequests \/ \E r \in Request : request[r] # Idle
=============================================================================
