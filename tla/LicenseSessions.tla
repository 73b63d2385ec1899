---------------------------- MODULE LicenseSessions ----------------------------
(***************************************************************************)
(* What a license promises about its sessions, whatever keeps them: a      *)
(* token is handed out once, while the license is open and within its      *)
(* limit; it may end at any time and is never valid again; and a new       *)
(* secret, a revocation or a deletion ends all of them in the same step.   *)
(* There is no Redis, no transaction, no handler and no failure here;      *)
(* LicenseRuntime implements it.                                           *)
(***************************************************************************)
EXTENDS Integers, FiniteSets

CONSTANT Token      \* session tokens

VARIABLES
    status,         \* what the row and its Stripe link say of the license
    secret,         \* which secret opens the license
    limit,          \* maxSessions, 0 for none
    valid,          \* the tokens a heartbeat accepts
    ended           \* the tokens handed out before that are valid no more

sessionVars == <<status, secret, limit, valid, ended>>

SessionsInit ==
    /\ status = "open" /\ secret = 0 /\ limit \in Nat
    /\ valid = {} /\ ended = {}

(* A new token, with the limit kept.                                       *)
Admit(token) ==
    /\ status = "open"
    /\ token \notin valid \cup ended
    /\ valid' = valid \cup {token}
    /\ limit > 0 => Cardinality(valid') <= limit
    /\ UNCHANGED <<status, secret, limit, ended>>

(* A new token whose time ran out on its way to the client.                *)
AdmitEnded(token) ==
    /\ status = "open"
    /\ token \notin valid \cup ended
    /\ limit > 0 => Cardinality(valid) <= limit
    /\ ended' = ended \cup {token}
    /\ UNCHANGED <<status, secret, limit, valid>>

(* Some sessions run out, are released or rejected.                        *)
End(tokens) ==
    /\ valid' = valid \ tokens
    /\ ended' = ended \cup tokens
    /\ UNCHANGED <<status, secret, limit>>

EndAll == valid' = {} /\ ended' = ended \cup valid

(* An operator ends every session; he may revoke the license or give it a  *)
(* new secret with that.                                                   *)
Terminate ==
    /\ status # "gone"
    /\ EndAll
    /\ status' \in {status, "revoked"}
    /\ secret' \in {secret, secret + 1}
    /\ UNCHANGED limit

Delete ==
    /\ status # "gone"
    /\ EndAll
    /\ status' = "gone"
    /\ UNCHANGED <<secret, limit>>

(* An update, a restoration, a word from Stripe: no session ends or comes  *)
(* back, and a license is not revoked this way.                            *)
Update ==
    /\ status # "gone"
    /\ status' \in {"open", "blocked", "revoked"}
    /\ status' = "revoked" => status = "revoked"
    /\ limit' \in Nat
    /\ UNCHANGED <<secret, valid, ended>>

SessionsNext ==
    \/ \E token \in Token : Admit(token) \/ AdmitEnded(token)
    \/ \E tokens \in SUBSET valid : End(tokens)
    \/ Terminate
    \/ Delete
    \/ Update

SessionsSpec == SessionsInit /\ [][SessionsNext]_sessionVars

=============================================================================
