------------------------------ MODULE MCAccounts ------------------------------
(***************************************************************************)
(* The passkey service and the verifier; the first alone, after one member *)
(* has joined by voucher, and both with the entry service beside them.     *)
(***************************************************************************)
EXTENDS Accounts, TLC

CONSTANTS m1, m2, d1, v1, p1, p2, p3, c1, c2

MCVoucherExpiry == (v1 :> 4)

Joined ==
    /\ spends = {[voucher |-> v1, member |-> m1, expiresAt |-> 4]}
    /\ members = {[id |-> m1, device |-> d1, voucher |-> v1]}
    /\ credentials = {[id |-> p1, member |-> m1, counter |-> 0]}

JoinedInit ==
    /\ clock = 1 /\ Joined
    /\ store \in {"sync", "turso"}
    /\ ceremonies = {} /\ logins = {}
    /\ calls = [c \in Callers |-> Idle]
    /\ retired = FALSE
    /\ tokens = 0 /\ boots = 0
    /\ drawn = {} /\ held = {} /\ assertions = {} /\ grants = {}

(* Without the entry service and the holders. *)
PasskeyNext ==
    \/ Tick /\ UNCHANGED <<store, ceremonies, logins, calls, retired, tokens, boots, history>>
    \/ Restart
    \/ \E c \in Callers : PasskeyStep(c)
PasskeySpec == JoinedInit /\ [][PasskeyNext]_accountVars

Symmetry == Permutations(Callers)
(* The passkeys nobody has registered yet may also be exchanged. *)
JoinedSymmetry == Permutations(Callers) \cup Permutations({p2, p3})
=============================================================================
