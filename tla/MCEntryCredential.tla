-------------------------- MODULE MCEntryCredential --------------------------
(***************************************************************************)
(* The service after two members have joined and one has logged in: they   *)
(* obtain credentials, one by its session, any of them by an API key.      *)
(***************************************************************************)
EXTENDS EntryService, TLC

CONSTANTS m1, m2, d1, v1, v2, p1, p2, c1, c2

MCVoucherExpiry == (v1 :> 2) @@ (v2 :> 4)
MCAuthorizations == {}

CredentialInit ==
    /\ clock = 1
    /\ spends = {[voucher |-> v1, member |-> m1, expiresAt |-> 2],
                 [voucher |-> v2, member |-> m2, expiresAt |-> 4]}
    /\ members = {[id |-> m1, device |-> d1, voucher |-> v1],
                  [id |-> m2, device |-> d1, voucher |-> v2]}
    /\ credentials = {[id |-> p1, member |-> m1, counter |-> 0],
                      [id |-> p2, member |-> m2, counter |-> 0]}
    /\ sessions = {[id |-> 2, member |-> m2, passkey |-> p2, expiresAt |-> 3]}
    /\ pending = {} /\ reserved = 0
    /\ calls = [c \in Callers |-> Idle]
    /\ retired = FALSE
    /\ tokens = 2 /\ boots = 0
    /\ issued = {} /\ offers = {} /\ minted = {}

CredentialNext ==
    \/ Environment
    \/ \E c \in Callers : CredentialBegins(c) \/ CredentialContinues(c)

CredentialSpec == CredentialInit /\ [][CredentialNext]_entryVars

Symmetry == Permutations(Callers)
=============================================================================
