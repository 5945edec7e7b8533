------------------------------ MODULE MCSystem ------------------------------
(***************************************************************************)
(* The three services together, after one member has joined by voucher: it *)
(* obtains a credential, logs in at the entry service and the verifier and *)
(* adds a passkey, while somebody else registers one without a voucher.    *)
(* The process restarts with the Turso store only, where the handle is     *)
(* retired and opened again.                                               *)
(***************************************************************************)
EXTENDS System, TLC

CONSTANTS m1, m2, d1, v1, p1, p2, c1, a1

MCVoucherExpiry == v1 :> 4
MCAuthorizations == {[member |-> m1, device |-> d1, expiresAt |-> 4]}

JoinedInit ==
    /\ store \in {"sync", "turso"}
    /\ clock = 1 /\ retired = FALSE
    /\ boots = (IF store = "turso" THEN 0 ELSE MaxBoots)
    /\ spends = {[voucher |-> v1, member |-> m1, expiresAt |-> 4]}
    /\ members = {[id |-> m1, device |-> d1, voucher |-> v1]}
    /\ credentials = {[id |-> p1, member |-> m1, counter |-> 0]}
    /\ pending = {} /\ sessions = {} /\ reserved = 0
    /\ entryCalls = [c \in EntryCallers |-> Entry!Idle] /\ entryTokens = 0
    /\ issued = {} /\ offers = {} /\ minted = {}
    /\ ceremonies = {} /\ logins = {}
    /\ accountCalls = [c \in AccountCallers |-> Account!Idle] /\ accountTokens = 0
    /\ drawn = {} /\ held = {} /\ assertions = {} /\ grants = {}

JoinedSpec == JoinedInit /\ [][SystemNext]_systemVars
=============================================================================
