----------------------------- MODULE EntryState -----------------------------
(***************************************************************************)
(* What one entry service process keeps in memory, and the helpers its     *)
(* operations share: the pending challenges, the sessions, the count of    *)
(* reserved session places, and the calls in progress.  A call runs one    *)
(* synchronous segment at a time; between two segments it awaits the       *)
(* bridge, WebAuthn or the store, and any other call may run.  calls[c]    *)
(* says what caller slot c is waiting for and holds the locals it keeps    *)
(* across that await.  All of this is lost when the process restarts; the  *)
(* tables of MembershipStore are not.                                      *)
(***************************************************************************)
EXTENDS MembershipStore

CONSTANTS
    Callers,             \* calls that may be in progress at once
    Authorizations,      \* device authorizations clients present
    None,                \* a field that has no value
    ChallengeLifetime, SessionLifetime, GrantLifetime,
    OfferLifetime, CredentialLifetime,
    MaxPending, MaxSessions, MaxOffers,    \* configured capacities
    MaxTokens,           \* bound: no challenge is begun after this many tokens
    MaxBoots             \* bound: the process restarts at most this often

Authorization == [member : Members, device : Devices, expiresAt : Nat]

ASSUME EntryAssumption ==
    /\ IsFiniteSet(Callers)
    /\ Authorizations \subseteq Authorization
    /\ None \notin Vouchers \cup Passkeys \cup Authorization
    /\ ChallengeLifetime \in Nat \ {0}
    /\ SessionLifetime \in Nat \ {0}
    /\ GrantLifetime \in Nat \ {0}
    /\ OfferLifetime \in Nat \ {0}
    /\ CredentialLifetime \in Nat \ {0}
    /\ MaxPending \in Nat \ {0}
    /\ MaxOffers \in Nat \ {0}
    /\ MaxSessions \in Nat \ {0}
    /\ MaxTokens \in Nat
    /\ MaxBoots \in Nat

VARIABLES
    pending,   \* challenges handed out and not yet answered
    sessions,  \* sessions not yet pruned or revoked
    reserved,  \* sessionReservations
    calls,     \* per caller slot: idle, or the await it is at
    retired,   \* the store handle met an ambiguous commit and refuses new work
    tokens,    \* random ids drawn so far; the next id is tokens + 1
    boots,     \* restarts so far
    issued,    \* history: the admission certificates returned to clients
    offers,    \* issuerPending: credential offers not yet answered
    minted     \* history: the member credentials the issuer has made

memory == <<pending, sessions, reserved>>
issuance == <<offers, minted>>
entryVars == <<clock, spends, members, credentials, pending, sessions, reserved,
               calls, retired, tokens, boots, issued, offers, minted>>

RegistrationChallenge ==
    [id : Nat, kind : {"registration"}, auth : Authorizations, voucher : Vouchers,
     passkey : {None}, expiresAt : Nat]
WalletChallenge ==
    [id : Nat, kind : {"registration-wallet"}, auth : Authorizations,
     voucher : Vouchers, passkey : Passkeys, expiresAt : Nat]
LoginChallenge ==
    [id : Nat, kind : {"authentication"}, auth : {None}, voucher : {None},
     passkey : {None}, expiresAt : Nat]
Challenge == RegistrationChallenge \cup WalletChallenge \cup LoginChallenge
Session == [id : Nat, member : Members, passkey : Passkeys, expiresAt : Nat]
Offer == [id : Nat, member : Members, voucher : Vouchers, expiresAt : Nat]
Certificate == [member : Members, device : Devices, issuedAt : Nat, expiresAt : Nat]

-----------------------------------------------------------------------------
(* Helpers.                                                                *)

Idle == [pc |-> "idle"]
At(c, pc) == calls[c].pc = pc
Goto(c, state) == calls' = [calls EXCEPT ![c] = state]
Return(c) == Goto(c, Idle)

(* ensureUsable: a retired handle refuses whatever begins on it now; what  *)
(* began before it was retired goes on.                                    *)
UsableAlways == TRUE
Usable == ~retired

(* What a prune at time now leaves of the pending challenges or sessions.  *)
Live(S, now) == {x \in S : x.expiresAt > now}
Prune == pending' = Live(pending, clock) /\ sessions' = Live(sessions, clock)

RoomForChallengeOffByOne(S) == Cardinality(S) <= MaxPending
RoomForChallenge(S) == Cardinality(S) < MaxPending

RoomForSession(S) == Cardinality(S) + reserved < MaxSessions

(* Drawing a fresh id for a new challenge, when there is room for it.      *)
Reserve(ch) ==
    LET kept == Live(pending, clock) IN
    /\ sessions' = Live(sessions, clock)
    /\ IF RoomForChallenge(kept)
         THEN /\ tokens' = tokens + 1
              /\ pending' = kept \cup {[ch EXCEPT !.id = tokens + 1,
                                        !.expiresAt = clock + ChallengeLifetime]}
         ELSE UNCHANGED tokens /\ pending' = kept

(* Taking a challenge to answer it: it is gone, even when it is too late.  *)
Consume(ch) == pending' = pending \ {ch}

(* A session that is still the one in the map, and has not run out.        *)
UnexpiredOnly(s) == s.expiresAt > clock
StillLive(s) == s \in sessions /\ s.expiresAt > clock

(* The certificate ends with the grant lifetime, or with the voucher or    *)
(* the device authorization if that is earlier.                            *)
CertificateIgnoringVoucher(auth, until) ==
    [member |-> auth.member, device |-> auth.device, issuedAt |-> clock,
     expiresAt |-> IF clock + GrantLifetime < auth.expiresAt
                     THEN clock + GrantLifetime ELSE auth.expiresAt]
CertificateFor(auth, until) ==
    LET ends == {clock + GrantLifetime, until, auth.expiresAt} IN
    [member |-> auth.member, device |-> auth.device, issuedAt |-> clock,
     expiresAt |-> CHOOSE e \in ends : \A f \in ends : e <= f]

(* One store transaction as its caller sees it: applied and acknowledged;  *)
(* applied, but the answer to the commit was lost; refused or failed and   *)
(* rolled back; or not applied, with the caller left in doubt.  Whenever   *)
(* the outcome is in doubt the handle is retired.                          *)
Transaction(c, effect, done, failed) ==
    \/ effect /\ Goto(c, done) /\ UNCHANGED retired
    \/ effect /\ Goto(c, failed) /\ retired' = TRUE
    \/ /\ UNCHANGED storeVars
       /\ Goto(c, failed)
       /\ retired' \in {retired, TRUE}

(* newSession for a call that holds a reservation: its own reservation     *)
(* does not count against it.                                              *)
NewSessionCountingItself(member, passkey) ==
    LET kept == Live(sessions, clock) IN
    /\ pending' = Live(pending, clock)
    /\ IF Cardinality(kept) + reserved < MaxSessions
         THEN /\ tokens' = tokens + 1
              /\ sessions' = kept \cup
                   {[id |-> tokens + 1, member |-> member, passkey |-> passkey,
                     expiresAt |-> clock + SessionLifetime]}
         ELSE sessions' = kept /\ UNCHANGED tokens
NewSession(member, passkey) ==
    LET kept == Live(sessions, clock) IN
    /\ pending' = Live(pending, clock)
    /\ IF Cardinality(kept) + reserved - 1 < MaxSessions
         THEN /\ tokens' = tokens + 1
              /\ sessions' = kept \cup
                   {[id |-> tokens + 1, member |-> member, passkey |-> passkey,
                     expiresAt |-> clock + SessionLifetime]}
         ELSE sessions' = kept /\ UNCHANGED tokens
-----------------------------------------------------------------------------
(* The environment of a call.                                              *)

(* Getting a session deletes it once it has run out. *)
GetSession ==
    /\ \E s \in sessions : s.expiresAt <= clock /\ sessions' = sessions \ {s}
    /\ UNCHANGED <<storeVars, pending, reserved, calls, retired, tokens, boots, issued, issuance>>

RevokeSession ==
    /\ \E s \in sessions : sessions' = sessions \ {s}
    /\ UNCHANGED <<storeVars, pending, reserved, calls, retired, tokens, boots, issued, issuance>>

(* The process stops between any two segments and a new one starts on the  *)
(* same tables.                                                            *)
Restart ==
    /\ boots < MaxBoots
    /\ boots' = boots + 1
    /\ pending' = {} /\ sessions' = {} /\ reserved' = 0 /\ offers' = {}
    /\ calls' = [c \in Callers |-> Idle]
    /\ retired' = FALSE
    /\ UNCHANGED <<storeVars, tokens, issued, minted>>

(* The passkey service and the verifier insert passkeys and count their    *)
(* assertions in the same tables, through the same handle.                 *)
OtherServices ==
    /\ \/ \E p \in Passkeys, m \in Members, n \in Counters : Insert(p, m, n)
       \/ \E p \in Passkeys, n \in Counters : UpdateCounter(p, n)
       \/ UNCHANGED storeVars
    /\ retired' \in {retired, TRUE}
    /\ UNCHANGED <<memory, calls, tokens, boots, issued, issuance>>

Environment ==
    \/ Tick /\ UNCHANGED <<memory, calls, retired, tokens, boots, issued, issuance>>
    \/ GetSession
    \/ RevokeSession
    \/ OtherServices
    \/ Restart

EntryInit ==
    /\ StoreInit
    /\ pending = {} /\ sessions = {} /\ reserved = 0
    /\ calls = [c \in Callers |-> Idle]
    /\ retired = FALSE
    /\ tokens = 0 /\ boots = 0
    /\ issued = {}
    /\ offers = {} /\ minted = {}
=============================================================================
