----------------------------- MODULE MCDirectory -----------------------------
(* Instances of Directory for TLC.                                         *)
EXTENDS Directory, TLC

CONSTANTS o1, o2, k1, c1, c2, l1, l2, l3, t1, t2, a1, a2, none

(* Two mailboxes, one of them in two spellings.                            *)
Spellings == {"ann@x.io", "Ann@X.io", "bob@x.io"}
LowerCase == [s \in Spellings |-> IF s = "Ann@X.io" THEN "ann@x.io" ELSE s]

(* Operations that meet: on an email; in the cascade of a deletion, with a *)
(* license created, deleted or moved meanwhile; in an allowlist; in the    *)
(* log, with the retention.                                                *)
Interactions == {{"create", "update", "delete"},
                 {"delete", "issue", "activate"},
                 {"delete", "withdraw", "activate", "heartbeat"},
                 {"create", "delete", "transfer", "activate"},
                 {"allow", "disallow", "withdraw"},
                 {"activate", "heartbeat", "deactivate", "time"}}

Symmetry == Permutations({o1, o2}) \cup Permutations({a1, a2}) \cup Permutations({l2, l3})
            \cup Permutations({t1, t2})
=============================================================================
