------------------------------- MODULE Accounts -------------------------------
(***************************************************************************)
(* The passkey service and the verifier on one credential store, with the  *)
(* entry service writing to it too, in any interleaving of their calls.    *)
(***************************************************************************)
EXTENDS PasskeyService, Verifier

Call == {Idle} \cup PasskeyCall \cup VerifierCall

Next == Around \/ Begin \/ \E c \in Callers : PasskeyStep(c) \/ VerifierStep(c)

Spec == AccountInit /\ [][Next]_accountVars
-----------------------------------------------------------------------------
(* Properties.                                                             *)

(* Memory, tables, calls and histories are of the types they should be.    *)
TypeOK ==
    /\ StoreTypeOK
    /\ store \in {"sync", "turso"}
    /\ ceremonies \in SUBSET Ceremony
    /\ logins \in SUBSET Login
    /\ calls \in [Callers -> Call]
    /\ retired \in BOOLEAN
    /\ tokens \in Nat /\ boots \in Nat
    /\ drawn \in SUBSET Members
    /\ held \in SUBSET Eligibility
    /\ assertions \in SUBSET Assertion
    /\ grants \in SUBSET Grant

(* The calls that have passed ensureUsable and wait for the store.         *)
AtStore == {"insertPasskey", "countOwner"}
StoreCalls == {<<c, calls[c].pc>> : c \in {d \in Callers : calls[d].pc \in AtStore}}

Ids(S) == {x.id : x \in S}
Answering == {c \in Callers :
    calls[c].pc \in {"verifyRegistration", "insertPasskey", "verifyOwner", "countOwner",
                     "verifyLogin"}}

(* A challenge of either service is answered once: it is pending, or with  *)
(* one call, or an assertion over it has been accepted, and never two of   *)
(* these, whichever operation it is presented to.                          *)
AnsweredOnce ==
    /\ \A x, y \in ceremonies \cup logins : x.id = y.id => x = y
    /\ \A a, b \in assertions : a.id = b.id => a = b
    /\ \A x \in ceremonies \cup logins, a \in assertions : x.id # a.id
    /\ \A c \in Answering :
          /\ calls[c].ch.id \notin Ids(ceremonies \cup logins) \cup Ids(assertions)
          /\ \A d \in Answering : calls[d].ch.id = calls[c].ch.id => d = c

Registering(m) == {c \in Callers :
    \/ At(c, "makeOptions") /\ calls[c].member = m
    \/ calls[c].pc \in {"verifyRegistration", "insertPasskey"} /\ calls[c].ch.member = m}
RegistrationsOf(m) == {x \in ceremonies : x.kind = "registration" /\ x.member = m}
SignedFor(m) == {a \in assertions : a.purpose = "passkey" /\ a.member = m}
First(m) == {m} \cap (drawn \cup {x.id : x \in members})

(* Every passkey of a member beyond the first, and every registration that *)
(* may still become one, stands for an assertion of its own by a passkey   *)
(* the member had, whatever was answered twice, lost or refused.           *)
FurtherPasskeysSignedFor ==
    \A m \in Members :
        Cardinality(PasskeysOf(m)) + Cardinality(RegistrationsOf(m))
            + Cardinality(Registering(m))
          <= Cardinality(First(m)) + Cardinality(SignedFor(m))

(* The two services and the entry service accept no counter of a passkey   *)
(* twice, although each compares with a passkey it read long before: the   *)
(* store has kept at least the counter of every accepted assertion, and no *)
(* two carry the same nonzero one.                                         *)
CountersAcceptedOnce ==
    /\ \A a \in assertions : \E x \in credentials :
          x.id = a.passkey /\ x.member = a.member /\ x.counter >= a.counter
    /\ \A a, b \in assertions :
          a.passkey = b.passkey /\ a.counter = b.counter /\ a.counter > 0 => a = b

(* An admission is signed before it ends, for a member whose voucher lasts *)
(* until it ends: neither the await nor the two lifetimes open a gap.      *)
AdmissionsHonoured ==
    [][\A g \in grants' \ grants :
          /\ clock < g.expiresAt
          /\ \E until \in ValidUntil(g.member) : g.expiresAt <= until]_accountVars

(* Whatever the services do to the tables is one of the store's operations. *)
KeepsTables == StoreSpec
=============================================================================
