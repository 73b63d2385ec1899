---------------------------- MODULE MCStripeSync ----------------------------
(* Instances of StripeSync for TLC.                                        *)
EXTENDS StripeSync, TLC

CONSTANTS w1, w2, o1, o2, nobody, l1, l2, s1, s2

MCSymmetry == Permutations(Worker) \cup Permutations(Operator)
=============================================================================
