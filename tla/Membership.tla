----------------------------- MODULE Membership -----------------------------
(***************************************************************************)
(* What the voucher entry promises to a community, and nothing of how: a   *)
(* voucher admits at most one member, a member is admitted by one voucher, *)
(* and an admission is never undone.                                       *)
(***************************************************************************)
CONSTANTS Vouchers, Members

VARIABLE admitted   \* the pairs <<voucher, member>> of all admissions so far

Init == admitted = {}

Admit(v, m) ==
    /\ \A p \in admitted : p[1] # v /\ p[2] # m
    /\ admitted' = admitted \cup {<<v, m>>}

Next == \E v \in Vouchers, m \in Members : Admit(v, m)

Spec == Init /\ [][Next]_admitted

(***************************************************************************)
(* Admissions pair vouchers with members one to one.                       *)
(***************************************************************************)
OneToOne ==
    /\ admitted \subseteq Vouchers \X Members
    /\ \A p, q \in admitted : p[1] = q[1] <=> p[2] = q[2]
=============================================================================
