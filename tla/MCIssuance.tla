----------------------------- MODULE MCIssuance -----------------------------
(***************************************************************************)
(* Two calls at once over four operations that share receipts: a repeated  *)
(* one, one with a longer attestation of the same receipt, and one that    *)
(* needs two receipts of different lifetimes.  There is room for two.      *)
(***************************************************************************)
EXTENDS Issuance, TLC

CONSTANTS r1, r2, r3, o1, o2, o3, o4, w1, w2

MCAttested ==
    (o1 :> (r1 :> 3)) @@ (o2 :> (r1 :> 5)) @@ (o3 :> ((r1 :> 4) @@ (r2 :> 3)))
      @@ (o4 :> ((r2 :> 4) @@ (r3 :> 4)))

Symmetry == Permutations(Workers)
=============================================================================
