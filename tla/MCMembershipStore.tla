------------------------- MODULE MCMembershipStore -------------------------
(***************************************************************************)
(* A small store where every capacity bites: three members and vouchers    *)
(* with room for two spends, four passkeys with room for three, two of     *)
(* them for one member.  One voucher runs out while the clock moves.       *)
(***************************************************************************)
EXTENDS MembershipStore, TLC

CONSTANTS m1, m2, m3, d1, d2, v1, v2, v3, p1, p2, p3, p4

MCVoucherExpiry == (v1 :> 2) @@ (v2 :> 4) @@ (v3 :> 4)

Symmetry == Permutations({m1, m2, m3}) \cup Permutations({d1, d2}) \cup Permutations({v2, v3})
              \cup Permutations({p1, p2, p3, p4})
=============================================================================
