----------------------------- MODULE MCEntryJoin -----------------------------
(***************************************************************************)
(* Two clients join at once with room for one session: two members that    *)
(* may try the same voucher, the same passkey id or the same member id.    *)
(***************************************************************************)
EXTENDS EntryService, TLC

CONSTANTS m1, m2, d1, v1, v2, p1, p2, c1, c2

MCVoucherExpiry == (v1 :> 4) @@ (v2 :> 5)
MCAuthorizations == {[member |-> m1, device |-> d1, expiresAt |-> 5],
                     [member |-> m2, device |-> d1, expiresAt |-> 3]}

JoinNext ==
    \/ Tick /\ UNCHANGED <<memory, calls, retired, tokens, boots, issued, issuance>>
    \/ GetSession \/ RevokeSession \/ Restart
    \/ \E c \in Callers : RegistrationBegins(c) \/ RegistrationContinues(c)

JoinSpec == EntryInit /\ [][JoinNext]_entryVars

Symmetry == Permutations(Callers) \cup Permutations({p1, p2})
=============================================================================
