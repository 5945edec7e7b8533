----------------------------- MODULE MCPrincipals -----------------------------
(***************************************************************************)
(* Two requests, with cookies or tokens, of two members of whom one has a  *)
(* key, of one scope or both, that runs out at 2: a second key, one        *)
(* session, and a clock that is set back and forth.  The service has been  *)
(* opened again, with room for two keys of which a member may hold one.    *)
(***************************************************************************)
EXTENDS Principals, TLC

CONSTANTS m1, m2, r1, r2

MCMemberUntil == [m \in Members |-> 2]

KeyMade ==
    /\ store \in {"sqlite", "turso"}
    /\ clock \in 1 .. MaxTime
    /\ floor = 1 /\ created = 1
    /\ \E scopes \in SUBSET Scopes \ {{}} :
          keys = {[id |-> 1, member |-> m1, scopes |-> scopes, expiresAt |-> 2]}
    /\ calls = [c \in Callers |-> Idle]
    /\ retired = FALSE
    /\ revoked = {}
    /\ sessions = {} /\ opened = 0
    /\ requests = [r \in Callers |-> NoRequest]

MadeSpec == KeyMade /\ [][PrincipalNext]_principalVars

Symmetry == Permutations(Callers)
=============================================================================
