---------------------------- MODULE EntryService ----------------------------
(***************************************************************************)
(* The voucher entry service: registration, login, the operations of a     *)
(* member and the issuing of credentials, in any interleaving, over one    *)
(* set of durable tables, with the clock, revocations and restarts around  *)
(* them.                                                                   *)
(***************************************************************************)
EXTENDS EntryRegistration, EntryLogin, EntryMember, EntryCredential

Call == {Idle} \cup RegistrationCall \cup LoginCall \cup MemberCall \cup CredentialCall

Begins(c) ==
    RegistrationBegins(c) \/ LoginBegins(c) \/ MemberBegins(c) \/ CredentialBegins(c)

Continues(c) ==
    \/ RegistrationContinues(c) \/ LoginContinues(c)
    \/ MemberContinues(c) \/ CredentialContinues(c)

Next == Environment \/ \E c \in Callers : Begins(c) \/ Continues(c)

Spec == EntryInit /\ [][Next]_entryVars

(* The calls that have passed ensureUsable and wait for the store.         *)
AtStore == {"lookUpMember", "commitMember", "readPasskey", "commitCounter",
            "readMember", "commitRebind", "readOwner",
            "offerActor", "offerMember", "issueActor", "issueMember"}
StoreCalls == {<<c, calls[c].pc>> : c \in {d \in Callers : calls[d].pc \in AtStore}}

(***************************************************************************)
(* The bridge process is killed at its timeout and the store answers or    *)
(* fails, so whatever a call awaits arrives.  Nothing forces a client to   *)
(* call, a session to be revoked or the process to restart.                *)
(***************************************************************************)
FairSpec == Spec /\ \A c \in Callers : WF_entryVars(Continues(c))
-----------------------------------------------------------------------------
(* Properties.                                                             *)

(* Memory, tables and calls in progress are of the types they should be.   *)
TypeOK ==
    /\ StoreTypeOK
    /\ pending \in SUBSET Challenge
    /\ sessions \in SUBSET Session
    /\ reserved \in Nat
    /\ calls \in [Callers -> Call]
    /\ retired \in BOOLEAN
    /\ tokens \in Nat /\ boots \in Nat
    /\ issued \in SUBSET Certificate
    /\ offers \in SUBSET Offer
    /\ minted \in SUBSET [offer : Nat, member : Members, validUntil : Nat]

Reserving == {c \in Callers :
    calls[c].pc \in {"commitMember", "publishMember", "commitCounter", "publishLogin"}}

(* sessionReservations is released on every path, exactly once: it counts  *)
(* the calls between their reservation and their answer, and sessions and  *)
(* reservations together never exceed the configured maximum.              *)
SessionCapacity ==
    /\ reserved = Cardinality(Reserving)
    /\ Cardinality(sessions) + reserved <= MaxSessions

(* The map of pending challenges keeps to its maximum although precommit   *)
(* takes a challenge out, awaits twice and puts it back.                   *)
PendingWithinCapacity == Cardinality(pending) <= MaxPending

Answering == {c \in Callers :
    calls[c].pc \in {"verifyPasskey", "offerWallet", "verifyWallet", "verifyVoucher",
                     "commitMember", "publishMember", "readPasskey", "foundPasskey",
                     "verifyLogin", "commitCounter", "publishLogin"}}

(* A challenge is in one place: pending, or being answered by one call.    *)
(* So no challenge is answered twice, however its answers interleave.      *)
ChallengeSingleUse ==
    /\ \A x, y \in pending : x.id = y.id => x = y
    /\ \A c \in Answering :
          /\ \A x \in pending : x.id # calls[c].ch.id
          /\ \A d \in Answering : calls[d].ch.id = calls[c].ch.id => d = c

(* A session stands for a passkey the store durably holds for that member, *)
(* also when the answer to a commit was lost.                              *)
SessionsBackedByStore ==
    \A s \in sessions : \E x \in credentials :
        x.id = s.passkey /\ x.member = s.member

(* Two logins that both passed the store never carry the same nonzero      *)
(* counter of a passkey, and the store has kept the counter of each.       *)
CounterOnce ==
    \A c \in Callers : At(c, "publishLogin") /\ calls[c].ok /\ calls[c].counter > 0 =>
        /\ \E x \in credentials :
              x.id = calls[c].passkey /\ x.counter >= calls[c].counter
        /\ \A d \in Callers \ {c} :
              At(d, "publishLogin") /\ calls[d].ok /\ calls[d].passkey = calls[c].passkey
                => calls[d].counter # calls[c].counter

(* A login opens a session only when the store durably holds the counter   *)
(* it was verified with, whatever the store's answer was and whoever else  *)
(* logs in with the same passkey meanwhile.                                *)
LoginsAreCounted ==
    [][\A c \in Callers :
         At(c, "publishLogin") /\ ~(sessions' \subseteq sessions) /\ calls'[c] # calls[c] =>
           \E x \in credentials :
             x.id = calls[c].passkey /\ x.counter >= calls[c].counter]_entryVars

(* A certificate handed out names a member the store holds, and ends with  *)
(* that member's voucher, with a device authorization of that member and   *)
(* that device, and with the grant lifetime, at the latest.                *)
CertificatesHonoured ==
    \A cert \in issued :
        /\ cert.issuedAt < cert.expiresAt
        /\ cert.expiresAt <= cert.issuedAt + GrantLifetime
        /\ \E until \in ValidUntil(cert.member) : cert.expiresAt <= until
        /\ \E auth \in Authorizations :
              /\ auth.member = cert.member /\ auth.device = cert.device
              /\ cert.expiresAt <= auth.expiresAt

Issuing == {c \in Callers :
    calls[c].pc \in {"issueActor", "issueActorFound", "issueMember",
                     "issueMemberFound", "mint"}}

(* An offer yields at most one credential: it is pending, or with one      *)
(* call, or it has been used, and never two of these.                      *)
OfferSingleUse ==
    /\ \A x, y \in offers : x.id = y.id => x = y
    /\ \A x \in offers, y \in minted : x.id # y.offer
    /\ \A c \in Issuing :
          /\ \A x \in offers : x.id # calls[c].offer.id
          /\ \A y \in minted : y.offer # calls[c].offer.id
          /\ \A d \in Issuing : calls[d].offer.id = calls[c].offer.id => d = c

(* The issuer is only asked for a credential of the member who asks, whose *)
(* actor was judged two awaits earlier, and a credential never outlives    *)
(* the voucher of the member it was made for, as the store holds it.       *)
CredentialsHonoured ==
    /\ \A c \in Callers : At(c, "mint") => calls[c].actor.member = calls[c].offer.member
    /\ \A x \in minted : \E until \in ValidUntil(x.member) : x.validUntil <= until

(* issueCredential attests and asks the issuer only for an actor that is   *)
(* still good after both lookups: its session has been neither revoked nor *)
(* pruned meanwhile, the offer is its member's, and that member's voucher, *)
(* as the store holds it now, lasts as long as is attested.                *)
AskedByLiveActors ==
    [][\A c \in Callers : ~At(c, "mint") /\ calls'[c].pc = "mint" =>
         LET actor == calls'[c].actor IN
         /\ actor.session # None =>
              actor.session \in sessions /\ actor.session.expiresAt > clock
         /\ actor.member = calls'[c].offer.member
         /\ \E until \in ValidUntil(actor.member) :
              until > clock /\ calls'[c].validUntil <= until]_entryVars

(* A call whose transaction was acknowledged in time always gets its       *)
(* session: no other call can take the place it reserved.                  *)
InTimeToPublish(c) ==
    \/ At(c, "publishMember") /\ calls[c].ok /\ InTime(calls[c].ch, clock)
    \/ At(c, "publishLogin") /\ calls[c].ok /\ clock < calls[c].ch.expiresAt
ReservationHonoured ==
    [][boots' = boots =>
         \A c \in Callers : InTimeToPublish(c) /\ calls'[c] # calls[c] =>
             \E s \in sessions' : s.id = tokens' /\ s \notin sessions]_entryVars

(* Whoever is told that a session is authenticated is told so of a session *)
(* nobody has revoked, of a member whose voucher the store holds as valid. *)
GrantsOnlyLiveSessions ==
    [][\A c \in Callers : ~At(c, "granted") /\ calls'[c].pc = "granted" =>
         LET s == calls'[c].session IN
         /\ s \in sessions /\ s.expiresAt > clock
         /\ \E until \in ValidUntil(s.member) : until > clock]_entryVars

(* Whatever calls, restarts and lost answers come together, the service    *)
(* keeps the promise of Membership.                                        *)
KeepsPromise == Promise!Spec

(* Every call ends, so that no reservation is held forever. *)
EveryCallEnds == \A c \in Callers : ~At(c, "idle") ~> At(c, "idle")

(* docs/voucher-entry.md says of finishRegistration: "Any failure leaves   *)
(* the voucher unspent".  A call that fails is one that returns without a  *)
(* session.                                                                *)
FailureLeavesVoucherUnspent ==
    [][boots' = boots =>
         \A c \in Callers : At(c, "publishMember") /\ calls'[c] = Idle =>
             \/ \E s \in sessions' : s \notin sessions
             \/ \A s \in spends : s.voucher # calls[c].ch.voucher]_entryVars
=============================================================================
