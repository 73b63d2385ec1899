---------------------------- MODULE MCMeterLedger ----------------------------
(* Instances of MeterLedger for TLC.                                       *)
EXTENDS MeterLedger, TLC

CONSTANTS h1, h2, h3, m1, m2, e1, e2, nobody, noEvent

MCDeltas == {-1, 1}

MCSymmetry == Permutations(Handler)
=============================================================================
