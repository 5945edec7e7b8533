----------------------------- MODULE AccountState -----------------------------
(***************************************************************************)
(* What the passkey service and the eligibility verifier keep in memory,   *)
(* over the tables they share with the entry service: the ceremonies of    *)
(* the one, the login challenges of the other, and the calls in progress,  *)
(* one action per synchronous segment.  calls[c] is what call c awaits and *)
(* the locals it keeps.  The memory is lost when the process restarts; a   *)
(* store that is itself in memory is then lost too, which is the initial   *)
(* state again.  Such a store also answers within the segment that calls   *)
(* it; here its answer takes a segment of its own for either store, which  *)
(* only adds interleavings.  Holders' credentials come from the entry      *)
(* service, which ends them with the member's voucher; a holder may        *)
(* restore an old one, so it presents any it ever got.                     *)
(***************************************************************************)
EXTENDS MembershipStore

CONSTANTS
    Callers,             \* calls that may be in progress at once
    CeremonyLifetime,    \* challengeLifetimeSeconds of the passkey service
    MaxCeremonies,       \* maxPendingChallenges of the passkey service
    LoginLifetime,       \* challengeLifetimeSeconds of the verifier
    GrantLifetime,       \* grantLifetimeSeconds of the verifier
    MaxLogins,           \* maxPendingChallenges of the verifier
    MaxTokens,           \* bound: no challenge is begun after this many tokens
    MaxBoots             \* bound: the process restarts at most this often

ASSUME AccountAssumption ==
    /\ IsFiniteSet(Callers)
    /\ CeremonyLifetime \in Nat \ {0} /\ MaxCeremonies \in Nat \ {0}
    /\ LoginLifetime \in Nat \ {0} /\ GrantLifetime \in Nat \ {0}
    /\ MaxLogins \in Nat \ {0}
    /\ MaxTokens \in Nat /\ MaxBoots \in Nat

VARIABLES
    store,       \* whether the store answers at once ("sync") or is "turso"
    ceremonies,  \* pending of the passkey service
    logins,      \* pending of the verifier
    calls,       \* per caller slot: idle, or the await it is at
    retired,     \* the Turso handle met an ambiguous commit
    tokens,      \* challenge ids drawn so far; the next is tokens + 1
    boots,       \* restarts so far
    drawn,       \* history: member ids the passkey service has made up
    held,        \* history: eligibility credentials their holders accepted
    assertions,  \* history: assertions either service has accepted
    grants       \* history: admissions the verifier has signed

history == <<drawn, held, assertions, grants>>
accountVars == <<clock, spends, members, credentials, store, ceremonies, logins,
                 calls, retired, tokens, boots, drawn, held, assertions, grants>>

RegistrationCeremony ==
    [id : Nat, kind : {"registration"}, member : Members, expiresAt : Nat]
AdditionalCeremony ==
    [id : Nat, kind : {"additional"}, credential : Credential, expiresAt : Nat]
Ceremony == RegistrationCeremony \cup AdditionalCeremony
Login == [id : Nat, credential : Credential, device : Devices,
          issuedAt : Nat, expiresAt : Nat, grantExpiresAt : Nat]
Eligibility == [member : Members, validUntil : Nat]
Assertion == [id : Nat, purpose : {"passkey", "admission"}, passkey : Passkeys,
              member : Members, counter : Counters]
Grant == [id : Nat, member : Members, device : Devices,
          issuedAt : Nat, expiresAt : Nat]

-----------------------------------------------------------------------------
(* Helpers.                                                                *)

Idle == [pc |-> "idle"]
At(c, pc) == calls[c].pc = pc
Goto(c, state) == calls' = [calls EXCEPT ![c] = state]
Return(c) == Goto(c, Idle)

(* ensureUsable of the Turso store; the others are never retired.          *)
Usable == ~retired

(* What pruning leaves of the pending challenges of either service. *)
Live(S) == {x \in S : x.expiresAt > clock}

(* A failed store call, as its caller sees it: refused or rolled back, or  *)
(* applied with the answer lost.  Only Turso leaves it in doubt, and then  *)
(* the handle is retired.                                                  *)
Unacknowledged(c, effect) ==
    /\ Return(c)
    /\ \/ store = "turso" /\ effect /\ retired' = TRUE
       \/ /\ UNCHANGED storeVars
          /\ retired' \in IF store = "turso" THEN {retired, TRUE} ELSE {retired}

(* An assertion both the verification against the credential read at begin *)
(* and the store have accepted.                                            *)
Accepted(challenge, why, n) ==
    assertions' = assertions \cup
        {[id |-> challenge.id, purpose |-> why, passkey |-> challenge.credential.id,
          member |-> challenge.credential.member, counter |-> n]}
-----------------------------------------------------------------------------
(* Around the two services.                                                *)

(* The entry service admits members, counts their logins and rebinds their *)
(* devices in the same tables, judging by the time it read at or before,   *)
(* and may leave the handle they share retired.  A member id is the hash   *)
(* of a root key, and never one the passkey service drew.                  *)
EntryWrites ==
    /\ \/ \E v \in Vouchers, m \in Members \ drawn, d \in Devices, p \in Passkeys,
             n \in Counters, at \in 1 .. clock :
          RegisterWithVoucher([voucher |-> v, member |-> m, device |-> d,
                               passkey |-> p, counter |-> n, at |-> at])
       \/ \E p \in Passkeys, n \in Counters : UpdateCounter(p, n)
       \/ \E m \in Members, d \in Devices, at \in 1 .. clock : Rebind(m, d, at)
       \/ UNCHANGED storeVars
    /\ retired' \in IF store = "turso" THEN {retired, TRUE} ELSE {retired}
    /\ UNCHANGED <<store, ceremonies, logins, calls, tokens, boots, history>>

(* A holder accepts a credential, good until the voucher ends at most.     *)
Hold ==
    /\ \E m \in Members : \E until \in ValidUntil(m) : \E t \in clock + 1 .. until :
          held' = held \cup {[member |-> m, validUntil |-> t]}
    /\ UNCHANGED <<storeVars, store, ceremonies, logins, calls, retired, tokens, boots,
                   drawn, assertions, grants>>

Restart ==
    /\ boots < MaxBoots
    /\ boots' = boots + 1
    /\ ceremonies' = {} /\ logins' = {}
    /\ calls' = [c \in Callers |-> Idle]
    /\ retired' = FALSE
    /\ UNCHANGED <<storeVars, store, tokens, history>>

Around ==
    \/ Tick /\ UNCHANGED <<store, ceremonies, logins, calls, retired, tokens, boots, history>>
    \/ EntryWrites
    \/ Hold
    \/ Restart

AccountInit ==
    /\ StoreInit
    /\ store \in {"sync", "turso"}
    /\ ceremonies = {} /\ logins = {}
    /\ calls = [c \in Callers |-> Idle]
    /\ retired = FALSE
    /\ tokens = 0 /\ boots = 0
    /\ drawn = {} /\ held = {} /\ assertions = {} /\ grants = {}
=============================================================================
