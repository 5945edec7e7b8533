---------------------------- MODULE MCEntryLogin ----------------------------
(***************************************************************************)
(* The service starts on the tables an earlier process left: one member    *)
(* with a voucher about to run out and a passkey that counts.  Two callers *)
(* log in as that member, rebind its device and use its sessions.          *)
(***************************************************************************)
EXTENDS EntryService, TLC

CONSTANTS m1, d1, d2, v1, p1, c1, c2

MCVoucherExpiry == (v1 :> 3)
MCAuthorizations == {[member |-> m1, device |-> d2, expiresAt |-> 4]}

Registered ==
    /\ clock = 1
    /\ spends = {[voucher |-> v1, member |-> m1, expiresAt |-> 3]}
    /\ members = {[id |-> m1, device |-> d1, voucher |-> v1]}
    /\ credentials = {[id |-> p1, member |-> m1, counter |-> 0]}

LoginInit ==
    /\ Registered
    /\ pending = {} /\ sessions = {} /\ reserved = 0
    /\ calls = [c \in Callers |-> Idle]
    /\ retired = FALSE
    /\ tokens = 0 /\ boots = 0
    /\ issued = {} /\ offers = {} /\ minted = {}

LoginNext ==
    \/ Environment
    \/ \E c \in Callers :
          \/ LoginBegins(c) \/ LoginContinues(c)
          \/ MemberBegins(c) \/ MemberContinues(c)

LoginSpec == LoginInit /\ [][LoginNext]_entryVars

Symmetry == Permutations(Callers)
=============================================================================
