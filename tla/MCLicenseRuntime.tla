-------------------------- MODULE MCLicenseRuntime --------------------------
(* Instances of LicenseRuntime for TLC.                                    *)
EXTENDS LicenseRuntime, TLC

CONSTANTS r1, r2, t1, t2, t3, o1, o2, nobody

Unlimited == [maxIps |-> 0, maxDevices |-> 0, maxSessions |-> 0]

(* One session at a time, or two.                                          *)
SessionLimits == {[Unlimited EXCEPT !.maxSessions = n] : n \in {1, 2}}

OneSession == {[Unlimited EXCEPT !.maxSessions = 1]}

(* Slots and sessions at once: one of each, or two sessions.               *)
AllLimits == {[maxIps |-> 1, maxDevices |-> 1, maxSessions |-> 1],
              [maxIps |-> 2, maxDevices |-> 1, maxSessions |-> 2]}

(* Handlers and tokens are interchangeable.                                *)
Symmetry == Permutations(Request) \cup Permutations(Token) \cup Permutations(Operator)
=============================================================================
