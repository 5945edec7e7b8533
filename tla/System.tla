-------------------------------- MODULE System --------------------------------
(***************************************************************************)
(* One server process: the voucher entry service, the passkey service and  *)
(* the eligibility verifier, on one store.  Each service is modelled alone *)
(* with the others as an environment (OtherServices of EntryState,         *)
(* EntryWrites and Hold of AccountState); here they are put together, and  *)
(* a step of one is a step of that environment for the other.  They share  *)
(* the tables, the clock, the store's handle and the process, nothing      *)
(* else; what is private to one is named after it.  The issuer is the one  *)
(* the entry service is given, and nobody else calls it.  The services are *)
(* taken from the modules that prove things of them, for SystemProof.      *)
(***************************************************************************)
EXTENDS MembershipStore

CONSTANTS
    EntryCallers, AccountCallers,     \* calls in progress at once, of each side
    Authorizations, None,
    ChallengeLifetime, SessionLifetime, CertificateLifetime,
    OfferLifetime, CredentialLifetime,
    MaxPending, MaxSessions, MaxOffers,
    CeremonyLifetime, MaxCeremonies,
    LoginLifetime, AdmissionLifetime, MaxLogins,
    MaxEntryTokens, MaxAccountTokens, MaxBoots    \* bounds

VARIABLES
    store, retired, boots,            \* the store, its handle, the process
    pending, sessions, reserved, entryCalls, entryTokens, issued, offers, minted,
    ceremonies, logins, accountCalls, accountTokens, drawn, held, assertions, grants

entryOwn == <<pending, sessions, reserved, entryCalls, entryTokens, issued, offers, minted>>
accountOwn == <<ceremonies, logins, accountCalls, accountTokens, drawn, assertions, grants>>
systemVars == <<storeVars, store, retired, boots, entryOwn, accountOwn, held>>

Entry == INSTANCE EntryProof
           WITH Callers <- EntryCallers, GrantLifetime <- CertificateLifetime,
                MaxTokens <- MaxEntryTokens, calls <- entryCalls, tokens <- entryTokens

Account == INSTANCE AccountsProof
           WITH Callers <- AccountCallers, GrantLifetime <- AdmissionLifetime,
                MaxTokens <- MaxAccountTokens, calls <- accountCalls, tokens <- accountTokens

(* Both sides are configured as each must be.                              *)
ASSUME SystemAssumption == Entry!EntryAssumption /\ Account!AccountAssumption

-----------------------------------------------------------------------------
(* Member ids that are hashes of root keys: whoever joins has signed a     *)
(* device authorization with that key.                                     *)
Roots == {auth.member : auth \in Authorizations}

(* A segment of the entry service.  A store that answers at once has no    *)
(* handle to retire.                                                       *)
EntryStep ==
    /\ \/ Entry!GetSession \/ Entry!RevokeSession
       \/ \E c \in EntryCallers : Entry!Begins(c) \/ Entry!Continues(c)
    /\ store = "sync" => retired' = retired
    /\ UNCHANGED <<store, accountOwn, held>>

(* A segment of the passkey service or the verifier.  The ids the first    *)
(* draws are random: no root key hashes to one.                            *)
AccountStep ==
    /\ \/ Account!Begin
       \/ \E c \in AccountCallers : Account!PasskeyStep(c) \/ Account!VerifierStep(c)
    /\ drawn' \cap Roots = {}
    /\ UNCHANGED entryOwn

(* A holder accepts a credential that the issuer has made, and keeps it.   *)
Accept ==
    /\ \E x \in minted :
          /\ clock < x.validUntil
          /\ held' = held \cup {[member |-> x.member, validUntil |-> x.validUntil]}
    /\ UNCHANGED <<storeVars, store, retired, boots, entryOwn, accountOwn>>

SystemTick == Tick /\ UNCHANGED <<store, retired, boots, entryOwn, accountOwn, held>>

(* The process restarts, and both sides forget what was in memory.         *)
Restart == Entry!Restart /\ Account!Restart

SystemNext == EntryStep \/ AccountStep \/ Accept \/ SystemTick \/ Restart

SystemInit == Entry!EntryInit /\ Account!AccountInit

SystemSpec == SystemInit /\ [][SystemNext]_systemVars
-----------------------------------------------------------------------------
(* Properties.                                                             *)

(* A nonzero counter of a passkey is accepted once by the whole server: a  *)
(* login that passed the store at the entry service never carries one that *)
(* the passkey service or the verifier has accepted, before or after it.   *)
CountersAcceptedOnceByAll ==
    \A c \in EntryCallers, a \in assertions :
        /\ Entry!At(c, "publishLogin") /\ entryCalls[c].ok
        /\ entryCalls[c].passkey = a.passkey /\ a.counter > 0
        => entryCalls[c].counter # a.counter

(* An admission the verifier signs goes back to a credential the issuer    *)
(* made for that member through the entry service, and ends no later.      *)
AdmissionsEarned ==
    \A g \in grants : \E x \in minted :
        x.member = g.member /\ g.expiresAt <= x.validUntil

(* Once the handle has met an ambiguous commit, no service sends the store *)
(* anything new through it: the only tables to change are those some call  *)
(* that was already waiting for the store changes when it returns.         *)
NothingNewOnRetired ==
    [][retired =>
         /\ Entry!StoreCalls' \subseteq Entry!StoreCalls
         /\ Account!StoreCalls' \subseteq Account!StoreCalls
         /\ \/ Entry!StoreCalls' # Entry!StoreCalls
            \/ Account!StoreCalls' # Account!StoreCalls
            \/ UNCHANGED <<spends, members, credentials>>]_systemVars

(* To each side the other is no more than the environment it is modelled   *)
(* with, so what is proved of either alone holds of it here (SystemProof). *)
KeepsEntry == [][Entry!Next]_(Entry!entryVars)
KeepsAccount == [][Account!Next]_(Account!accountVars)

(* An account made without a voucher stays one: nobody the passkey service *)
(* made up an id for is ever certified, credentialed or admitted, although *)
(* its passkey logs in at every service.                                   *)
DrawnNeverAdmitted ==
    \A x \in issued \cup minted \cup grants : x.member \notin drawn
=============================================================================
