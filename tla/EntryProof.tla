------------------------------ MODULE EntryProof ------------------------------
(***************************************************************************)
(* Proofs about EntryService for any callers, members, capacities and      *)
(* lifetimes: its types and its limit of sessions; that each of its steps  *)
(* is a step of MembershipStore or leaves the tables alone, so that what   *)
(* MembershipStoreProof shows of the tables holds under the service; that  *)
(* challenges and offers are used once; and that what calls, sessions,     *)
(* certificates and credentials say of the tables stays true.              *)
(***************************************************************************)
EXTENDS EntryStepsProof

(* The inductive invariant. *)
IInv ==
    /\ TypeOK
    /\ Started
    /\ IsFiniteSet(sessions)
    /\ SessionCapacity

-----------------------------------------------------------------------------
(* The reservations are those of the calls that hold one. *)
LEMMA ReservingHolds ==
  /\ Reserving = {d \in Callers : Holds(calls[d])}
  /\ IsFiniteSet(Reserving) /\ Cardinality(Reserving) \in Nat
<1>1. Reserving = {d \in Callers : Holds(calls[d])}
  BY DEF Reserving, Holds
<1>2. IsFiniteSet(Reserving)
  BY EntryAssumption, FS_Subset DEF Reserving
<1> QED BY <1>1, <1>2, FS_CardinalityType

(* When a call goes to x, the reservations change only by its own. *)
LEMMA ReservationMoves ==
  ASSUME TypeOK, NEW c \in Callers, NEW x, Goto(c, x)
  PROVE  /\ (Holds(x) <=> Holds(calls[c])) =>
              Cardinality(Reserving') = Cardinality(Reserving)
         /\ ~Holds(calls[c]) /\ Holds(x) =>
              Cardinality(Reserving') = Cardinality(Reserving) + 1
         /\ Holds(calls[c]) /\ ~Holds(x) =>
              /\ Cardinality(Reserving') = Cardinality(Reserving) - 1
              /\ Cardinality(Reserving) >= 1
<1>1. /\ Reserving = {d \in Callers : Holds(calls[d])}
      /\ IsFiniteSet(Reserving) /\ Cardinality(Reserving) \in Nat
  BY ReservingHolds
<1>2. Reserving' = {d \in Callers : Holds(calls'[d])}
  BY DEF Reserving, Holds
<1>3. calls'[c] = x /\ \A d \in Callers \ {c} : calls'[d] = calls[d]
  BY DEF Goto, TypeOK
<1>4. ASSUME Holds(x) <=> Holds(calls[c]) PROVE Reserving' = Reserving
  BY <1>1, <1>2, <1>3, <1>4
<1>5. ASSUME ~Holds(calls[c]), Holds(x)
      PROVE  Cardinality(Reserving') = Cardinality(Reserving) + 1
  <2>1. Reserving' = Reserving \cup {c} /\ c \notin Reserving
    BY <1>1, <1>2, <1>3, <1>5
  <2> QED BY <1>1, <2>1, FS_AddElement
<1>6. ASSUME Holds(calls[c]), ~Holds(x)
      PROVE  /\ Cardinality(Reserving') = Cardinality(Reserving) - 1
             /\ Cardinality(Reserving) >= 1
  <2>1. Reserving' = Reserving \ {c} /\ c \in Reserving
    BY <1>1, <1>2, <1>3, <1>6
  <2>2. Cardinality(Reserving) # 0
    BY <1>1, <2>1, FS_EmptySet
  <2> QED BY <1>1, <2>1, <2>2, FS_RemoveElement
<1> QED BY <1>4, <1>5, <1>6

(* A step of a call keeps the invariant. *)
LEMMA EntryStepKeeps ==
  ASSUME IInv, NEW c \in Callers, EntryStep(c)
  PROVE  IInv'
<1> USE DEF IInv
<1>1. PICK x : /\ MayBecome(x) /\ Goto(c, x)
               /\ \/ /\ Holds(x) <=> Holds(calls[c])
                     /\ UNCHANGED reserved /\ sessions' \subseteq sessions
                  \/ /\ ~Holds(calls[c]) /\ Holds(x) /\ reserved' = reserved + 1
                     /\ sessions' \subseteq sessions /\ RoomForSession(sessions')
                  \/ /\ Holds(calls[c]) /\ ~Holds(x) /\ reserved' = reserved - 1
                     /\ \E s : sessions' \subseteq sessions \cup {s}
  BY DEF EntryStep
<1>2. /\ reserved = Cardinality(Reserving) /\ reserved \in Nat
      /\ Cardinality(sessions) + reserved <= MaxSessions
      /\ Cardinality(sessions) \in Nat /\ MaxSessions \in Nat
      /\ IsFiniteSet(sessions)
  BY EntryAssumption, FS_CardinalityType DEF SessionCapacity, TypeOK
<1>3. ASSUME NEW S, IsFiniteSet(S), sessions' \subseteq S
      PROVE  /\ IsFiniteSet(sessions') /\ Cardinality(sessions') \in Nat
             /\ Cardinality(sessions') <= Cardinality(S) /\ Cardinality(S) \in Nat
  BY <1>3, FS_Subset, FS_CardinalityType
<1>4. /\ IsFiniteSet(sessions') /\ reserved' \in Nat
      /\ reserved' = Cardinality(Reserving')
      /\ Cardinality(sessions') + reserved' <= MaxSessions
  <2>1. CASE /\ Holds(x) <=> Holds(calls[c])
             /\ UNCHANGED reserved /\ sessions' \subseteq sessions
    BY <1>1, <1>2, <1>3, <2>1, ReservationMoves
  <2>2. CASE /\ ~Holds(calls[c]) /\ Holds(x) /\ reserved' = reserved + 1
             /\ sessions' \subseteq sessions /\ RoomForSession(sessions')
    <3>1. Cardinality(Reserving') = Cardinality(Reserving) + 1
      BY <1>1, <2>2, ReservationMoves
    <3>2. IsFiniteSet(sessions') /\ Cardinality(sessions') \in Nat
      BY <1>3, <2>2
    <3>3. Cardinality(sessions') + reserved < MaxSessions
      BY <2>2 DEF RoomForSession
    <3> QED BY <1>2, <2>2, <3>1, <3>2, <3>3
  <2>3. CASE /\ Holds(calls[c]) /\ ~Holds(x) /\ reserved' = reserved - 1
             /\ \E s : sessions' \subseteq sessions \cup {s}
    <3>1. PICK s : sessions' \subseteq sessions \cup {s}
      BY <2>3
    <3>2. /\ IsFiniteSet(sessions \cup {s})
          /\ Cardinality(sessions \cup {s}) <= Cardinality(sessions) + 1
      <4>1. /\ IsFiniteSet(sessions \cup {s})
            /\ Cardinality(sessions \cup {s}) =
                 IF s \in sessions THEN Cardinality(sessions) ELSE Cardinality(sessions) + 1
        BY <1>2, FS_AddElement, Zenon
      <4> QED BY <1>2, <4>1
    <3>3. /\ Cardinality(Reserving') = Cardinality(Reserving) - 1
          /\ Cardinality(Reserving) >= 1
      BY <1>1, <2>3, ReservationMoves
    <3>4. /\ IsFiniteSet(sessions') /\ Cardinality(sessions') \in Nat
          /\ Cardinality(sessions') <= Cardinality(sessions) + 1
      BY <1>2, <1>3, <3>1, <3>2
    <3> QED BY <1>2, <2>3, <3>3, <3>4
  <2> QED BY <1>1, <2>1, <2>2, <2>3
<1>5. StoreTypeOK'
  BY StoreTypesPreserved DEF EntryStep, TypeOK
<1>6. calls' \in [Callers -> Call]
  BY <1>1 DEF MayBecome, Goto, TypeOK
<1>7. TypeOK'
  BY <1>4, <1>5, <1>6 DEF EntryStep, MemoryTyped, TypeOK
<1>8. Started'
  <2>1. clock' = clock
    BY DEF EntryStep
  <2>2. \A d \in Callers : Timely(calls'[d])
    BY <1>1 DEF MayBecome, Goto, TypeOK, Started
  <2> QED BY <2>1, <2>2 DEF Started, Timely
<1> QED BY <1>4, <1>7, <1>8 DEF SessionCapacity

(* Every step of a call is such a step. *)
LEMMA CallStep ==
  ASSUME IInv, NEW c \in Callers, Begins(c) \/ Continues(c)
  PROVE  EntryStep(c)
BY RegistrationStep, LoginStep, MemberStep, CredentialStep, Zenon
   DEF IInv, Begins, Continues

(* The other services use the tables as the store lets them. *)
LEMMA OtherServicesStore ==
  ASSUME OtherServices
  PROVE  [StoreNext]_storeVars /\ UNCHANGED clock
<1>1. ASSUME NEW p \in Passkeys, NEW m \in Members, NEW n \in Counters, Insert(p, m, n)
      PROVE  StoreNext /\ UNCHANGED clock
  BY <1>1 DEF StoreNext, Insert
<1>2. ASSUME NEW p \in Passkeys, NEW n \in Counters, UpdateCounter(p, n)
      PROVE  StoreNext /\ UNCHANGED clock
  BY <1>2 DEF StoreNext, UpdateCounter
<1>3. CASE UNCHANGED storeVars
  BY <1>3 DEF storeVars
<1> QED BY <1>1, <1>2, <1>3, Zenon DEF OtherServices

(* The clock, the end of a session, the other services and a restart. *)
LEMMA EnvironmentKeeps ==
  ASSUME IInv, Environment
  PROVE  IInv'
<1> USE DEF IInv
<1>1. CASE Tick /\ UNCHANGED <<memory, calls, retired, tokens, boots, issued, issuance>>
  <2>1. StoreTypeOK'
    BY <1>1, StoreTypesPreserved DEF TypeOK, StoreNext
  <2>2. TypeOK'
    BY <1>1, <2>1 DEF TypeOK, memory, issuance
  <2>3. clock \in Nat /\ clock' = clock + 1 /\ calls' = calls
    BY <1>1, Numbers DEF Tick
  <2>4. Started'
    BY <2>3 DEF Started, Timely
  <2>5. UNCHANGED <<sessions, reserved>> /\ Reserving' = Reserving
    BY <1>1 DEF memory, Reserving
  <2> QED BY <2>2, <2>4, <2>5 DEF SessionCapacity
<1>2. CASE GetSession \/ RevokeSession
  <2>1. /\ sessions' \subseteq sessions
        /\ UNCHANGED <<storeVars, pending, reserved, calls, retired, tokens, boots,
                       issued, issuance>>
    BY <1>2 DEF GetSession, RevokeSession
  <2>2. TypeOK'
    BY <2>1 DEF TypeOK, issuance, storeVars, StoreTypeOK
  <2>3. Started'
    BY <2>1 DEF Started, Timely, storeVars
  <2>4. reserved' = reserved /\ Reserving' = Reserving
    BY <2>1 DEF Reserving
  <2>5. /\ IsFiniteSet(sessions') /\ Cardinality(sessions') \in Nat
        /\ Cardinality(sessions') <= Cardinality(sessions)
        /\ Cardinality(sessions) \in Nat
    BY <2>1, FS_Subset, FS_CardinalityType
  <2>6. SessionCapacity'
    BY <2>4, <2>5, EntryAssumption DEF SessionCapacity, TypeOK
  <2> QED BY <2>2, <2>3, <2>5, <2>6
<1>3. CASE Restart
  <2>1. /\ pending' = {} /\ sessions' = {} /\ reserved' = 0 /\ offers' = {}
        /\ calls' = [c \in Callers |-> Idle] /\ retired' = FALSE /\ boots' = boots + 1
        /\ UNCHANGED <<storeVars, tokens, issued, minted>>
    BY <1>3 DEF Restart
  <2>2. TypeOK'
    <3>1. retired' \in BOOLEAN
      BY <2>1
    <3>2. calls' \in [Callers -> Call]
      BY <2>1 DEF Call
    <3>3. boots' \in Nat
      BY <2>1 DEF TypeOK
    <3>4. StoreTypeOK'
      BY <2>1 DEF TypeOK, storeVars, StoreTypeOK
    <3> QED BY <2>1, <3>1, <3>2, <3>3, <3>4 DEF TypeOK
  <2>3. Started'
    BY <2>1 DEF Started, Timely, storeVars, Idle
  <2>4. Reserving' = {}
    BY <2>1 DEF Reserving, Idle
  <2>5. IsFiniteSet(sessions') /\ Cardinality(sessions') = 0 /\ Cardinality(Reserving') = 0
    BY <2>1, <2>4, FS_EmptySet
  <2>6. SessionCapacity'
    BY <2>1, <2>5, EntryAssumption DEF SessionCapacity
  <2> QED BY <2>2, <2>3, <2>5, <2>6
<1>4. CASE OtherServices
  <2>1. /\ UNCHANGED <<memory, calls, tokens, boots, issued, issuance>>
        /\ retired' \in {retired, TRUE}
    BY <1>4 DEF OtherServices
  <2>2. StoreTypeOK' /\ clock' = clock
    BY <1>4, OtherServicesStore, StoreTypesPreserved DEF TypeOK
  <2>3. TypeOK'
    BY <2>1, <2>2 DEF TypeOK, memory, issuance
  <2>4. Started'
    BY <2>1, <2>2 DEF Started, Timely
  <2>5. UNCHANGED <<sessions, reserved>> /\ Reserving' = Reserving
    BY <2>1 DEF memory, Reserving
  <2> QED BY <2>3, <2>4, <2>5 DEF SessionCapacity
<1> QED BY <1>1, <1>2, <1>3, <1>4, Zenon DEF Environment

(* The invariant holds of the fresh process on empty tables. *)
LEMMA InitHolds == EntryInit => IInv
<1> SUFFICES ASSUME EntryInit PROVE IInv
  OBVIOUS
<1>1. TypeOK
  BY DEF EntryInit, StoreInit, TypeOK, StoreTypeOK, Call
<1>2. Started
  BY DEF EntryInit, StoreInit, Started, Timely, Idle
<1>3. Reserving = {}
  BY DEF EntryInit, Reserving, Idle
<1>4. IsFiniteSet(sessions) /\ Cardinality(sessions) = 0 /\ Cardinality(Reserving) = 0
  BY <1>3, FS_EmptySet DEF EntryInit
<1>5. SessionCapacity
  BY <1>4, EntryAssumption DEF EntryInit, SessionCapacity
<1> QED BY <1>1, <1>2, <1>4, <1>5 DEF IInv

(* Every step keeps it. *)
LEMMA IInvKept ==
  ASSUME IInv, [Next]_entryVars
  PROVE  IInv'
<1>1. CASE Environment
  BY <1>1, EnvironmentKeeps
<1>2. ASSUME NEW c \in Callers, Begins(c) \/ Continues(c) PROVE IInv'
  BY <1>2, CallStep, EntryStepKeeps
<1>3. CASE UNCHANGED entryVars
  BY <1>3 DEF entryVars, IInv, TypeOK, StoreTypeOK, Started, Timely, SessionCapacity,
              Reserving
<1> QED BY <1>1, <1>2, <1>3, Zenon DEF Next

(* The invariant holds in every reachable state. *)
LEMMA IInvInductive == Spec => []IInv
<1>1. IInv /\ [Next]_entryVars => IInv'
  BY IInvKept
<1> QED BY <1>1, InitHolds, PTL DEF Spec

-----------------------------------------------------------------------------
(* The theorems. *)

(* Memory, tables and calls keep their types under any interleaving. *)
THEOREM EntryTypeCorrect == Spec => []TypeOK
<1>1. IInv => TypeOK
  BY DEF IInv
<1> QED BY <1>1, IInvInductive, PTL

(* The session limit holds: a place that was reserved before a transaction *)
(* is released once, whatever the store answered.                          *)
THEOREM SessionsWithinCapacity == Spec => []SessionCapacity
<1>1. IInv => SessionCapacity
  BY DEF IInv
<1> QED BY <1>1, IInvInductive, PTL

(* The service touches the tables only by the store's transactions. *)
THEOREM EntryImplementsStore == Spec => StoreSpec
<1>1. EntryInit => StoreInit
  BY DEF EntryInit
<1>2. IInv /\ [Next]_entryVars => [StoreNext]_storeVars
  <2> SUFFICES ASSUME IInv, [Next]_entryVars PROVE [StoreNext]_storeVars
    OBVIOUS
  <2>1. CASE Environment
    BY <2>1, OtherServicesStore
       DEF Environment, GetSession, RevokeSession, Restart, StoreNext
  <2>2. ASSUME NEW c \in Callers, Begins(c) \/ Continues(c)
        PROVE  [StoreNext]_storeVars
    BY <2>2, CallStep DEF EntryStep
  <2>3. CASE UNCHANGED entryVars
    BY <2>3 DEF entryVars, storeVars
  <2> QED BY <2>1, <2>2, <2>3, Zenon DEF Next
<1> QED BY <1>1, <1>2, IInvInductive, PTL DEF Spec, StoreSpec

(* So the tables agree with each other and keep to their capacities, spends *)
(* stay and counters never go back, whatever the callers do.               *)
THEOREM TablesSound == Spec => []TablesAgree /\ []WithinCapacity /\ NeverUndone
BY EntryImplementsStore, TablesAlwaysAgree, StoreWithinCapacity, StoreNeverUndone, PTL

(* The service keeps the promise of Membership: one voucher, one member.   *)
THEOREM EntryKeepsPromise == Spec => KeepsPromise
BY EntryImplementsStore, StoreImplementsMembership, PTL
   DEF KeepsPromise, ImplementsMembership

(* So two members never go back to one voucher, nor two vouchers to one    *)
(* member, whatever restarts, refusals and lost answers come between.      *)
THEOREM EntryAdmitsOneToOne == Spec => []Promise!OneToOne
BY EntryImplementsStore, StoreAdmitsOneToOne

-----------------------------------------------------------------------------
(***************************************************************************)
(* Challenges and offers are answered once.  Each is in one place: with    *)
(* the pending ones, with one call, or (an offer) with the credential made *)
(* from it.  A segment of a call moves one of them at most.                *)
(***************************************************************************)
Answers(x) == x.pc \in {"verifyPasskey", "offerWallet", "verifyWallet", "verifyVoucher",
                        "commitMember", "publishMember", "readPasskey", "foundPasskey",
                        "verifyLogin", "commitCounter", "publishLogin"}
Issues(x) == x.pc \in {"issueActor", "issueActorFound", "issueMember",
                       "issueMemberFound", "mint"}

(* A challenge is dropped, kept by its call, taken, or put among the       *)
(* pending: under a fresh id, or under the one the call has.               *)
ChallengeMoves(c) ==
    LET x == calls'[c] IN
    \/ /\ pending' \subseteq pending
       /\ Answers(x) => Answers(calls[c]) /\ x.ch.id = calls[c].ch.id
    \/ Answers(x) /\ x.ch \in pending /\ pending' \subseteq pending \ {x.ch}
    \/ /\ ~Answers(x)
       /\ \E kept \in SUBSET pending : \E y :
             /\ RoomForChallenge(kept) /\ pending' = kept \cup {y}
             /\ \/ tokens' = tokens + 1 /\ y.id = tokens + 1
                \/ Answers(calls[c]) /\ y.id = calls[c].ch.id

(* The same for an offer, which is used when a credential is made from it. *)
OfferMoves(c) ==
    LET x == calls'[c] IN
    \/ /\ offers' \subseteq offers /\ UNCHANGED minted
       /\ Issues(x) => Issues(calls[c]) /\ x.offer = calls[c].offer
    \/ /\ Issues(x) /\ x.offer \in offers /\ offers' \subseteq offers \ {x.offer}
       /\ UNCHANGED minted
    \/ /\ ~Issues(x) /\ tokens' = tokens + 1 /\ UNCHANGED minted
       /\ \E y : y.id = tokens + 1 /\ offers' \subseteq offers \cup {y}
    \/ /\ ~Issues(x) /\ Issues(calls[c]) /\ UNCHANGED offers
       /\ \E y : y.offer = calls[c].offer.id /\ minted' \subseteq minted \cup {y}

UseStep(c) ==
    /\ \A d \in Callers \ {c} : calls'[d] = calls[d]
    /\ tokens' \in {tokens, tokens + 1}
    /\ ChallengeMoves(c) /\ OfferMoves(c)

(* The calls are a function of the slots. *)
LEMMA Slots == TypeOK => calls \in [Callers -> Call]
BY DEF TypeOK

(* What most segments are. *)
LEMMA KeepsUse ==
  ASSUME NEW c \in Callers, \A d \in Callers \ {c} : calls'[d] = calls[d],
         pending' \subseteq pending, UNCHANGED <<tokens, offers, minted>>,
         Answers(calls'[c]) => Answers(calls[c]) /\ calls'[c].ch.id = calls[c].ch.id,
         Issues(calls'[c]) => Issues(calls[c]) /\ calls'[c].offer = calls[c].offer
  PROVE  UseStep(c)
BY DEF UseStep, ChallengeMoves, OfferMoves

(* A challenge is put among the pending. *)
LEMMA PutsChallenge ==
  ASSUME NEW c \in Callers, \A d \in Callers \ {c} : calls'[d] = calls[d],
         NEW kept \in SUBSET pending, NEW y,
         RoomForChallenge(kept), pending' = kept \cup {y}, UNCHANGED <<offers, minted>>,
         calls'[c] = Idle,
         \/ tokens' = tokens + 1 /\ y.id = tokens + 1
         \/ tokens' = tokens /\ Answers(calls[c]) /\ y.id = calls[c].ch.id
  PROVE  UseStep(c)
<1>1. ~Answers(calls'[c]) /\ ~Issues(calls'[c])
  BY DEF Answers, Issues, Idle
<1>2. ChallengeMoves(c)
  BY <1>1 DEF ChallengeMoves
<1> QED BY <1>1, <1>2 DEF UseStep, OfferMoves

(* A session is opened, or there is no room for it. *)
LEMMA OpensSession ==
  ASSUME NEW c \in Callers, \A d \in Callers \ {c} : calls'[d] = calls[d],
         pending' \subseteq pending, tokens' \in {tokens, tokens + 1},
         UNCHANGED <<offers, minted>>, calls'[c] = Idle
  PROVE  UseStep(c)
BY DEF UseStep, ChallengeMoves, OfferMoves, Answers, Issues, Idle

(* A call ends by handing out a challenge, if there is room for it. *)
LEMMA ReserveUses ==
  ASSUME TypeOK, NEW c \in Callers, \A d \in Callers \ {c} : calls'[d] = calls[d],
         NEW ch, Reserve(ch),
         \A n, e \in Nat : [ch EXCEPT !.id = n, !.expiresAt = e].id = n,
         UNCHANGED <<offers, minted>>, calls'[c] = Idle
  PROVE  UseStep(c)
<1> DEFINE kept == Live(pending, clock)
           y == [ch EXCEPT !.id = tokens + 1, !.expiresAt = clock + ChallengeLifetime]
<1>1. kept \in SUBSET pending
  BY DEF Live
<1>2. y.id = tokens + 1
  BY Numbers
<1>3. \/ RoomForChallenge(kept) /\ tokens' = tokens + 1 /\ pending' = kept \cup {y}
      \/ tokens' = tokens /\ pending' = kept
  BY DEF Reserve
<1> HIDE DEF kept, y
<1>4. CASE RoomForChallenge(kept) /\ tokens' = tokens + 1 /\ pending' = kept \cup {y}
  BY <1>1, <1>2, <1>4, PutsChallenge
<1>5. CASE tokens' = tokens /\ pending' = kept
  BY <1>1, <1>5, OpensSession
<1> QED BY <1>3, <1>4, <1>5

(* The segments of a registration. *)
LEMMA RegistrationUses ==
  ASSUME TypeOK, IsFiniteSet(pending), NEW c \in Callers,
         RegistrationBegins(c) \/ RegistrationContinues(c)
  PROVE  UseStep(c)
<1> USE Slots, CallTyped, Locals DEF At, Goto, Return, Idle, memory, issuance
<1>1. CASE BeginRegistration(c)
  BY <1>1, KeepsUse DEF BeginRegistration, Answers, Issues
<1>2. CASE DeviceChecked(c)
  BY <1>2, KeepsUse DEF DeviceChecked, Answers, Issues
<1>3. CASE MemberLookedUp(c)
  BY <1>3, KeepsUse DEF MemberLookedUp, Answers, Issues
<1>4. CASE ChallengeReserved(c)
  <2>1. /\ calls'[c] = Idle /\ \A d \in Callers \ {c} : calls'[d] = calls[d]
        /\ UNCHANGED <<offers, minted>>
    BY <1>4 DEF ChallengeReserved
  <2> DEFINE ch == [id |-> 0, kind |-> "registration", auth |-> calls[c].auth,
                    voucher |-> calls[c].voucher, passkey |-> None, expiresAt |-> 0]
  <2>2. CASE Reserve(ch)
    <3>1. \A n, e \in Nat : [ch EXCEPT !.id = n, !.expiresAt = e].id = n
      OBVIOUS
    <3> QED BY <2>1, <2>2, <3>1, ReserveUses
  <2>3. CASE UNCHANGED <<pending, sessions, tokens>>
    BY <2>1, <2>3, OpensSession
  <2> QED BY <1>4, <2>2, <2>3 DEF ChallengeReserved
<1>5. CASE Precommit(c)
  BY <1>5 DEF Precommit, Consume, UseStep, ChallengeMoves, OfferMoves, Answers, Issues
<1>6. CASE PasskeyVerified(c)
  BY <1>6, KeepsUse DEF PasskeyVerified, Answers, Issues
<1>7. CASE WalletOffered(c)
  <2> DEFINE ch == calls[c].ch
             y == [ch EXCEPT !.kind = "registration-wallet", !.passkey = calls[c].passkey]
             kept == {x \in Live(pending, clock) : x.id # ch.id}
  <2>1. /\ calls'[c] = Idle /\ \A d \in Callers \ {c} : calls'[d] = calls[d]
        /\ UNCHANGED <<tokens, offers, minted>> /\ Answers(calls[c])
    BY <1>7 DEF WalletOffered, Answers
  <2>2. y.id = ch.id
    BY <1>7 DEF WalletOffered, RegistrationChallenge
  <2>3. \/ RoomForChallenge(Live(pending, clock)) /\ pending' = kept \cup {y}
        \/ pending' = Live(pending, clock)
    BY <1>7 DEF WalletOffered
  <2>4. Live(pending, clock) \in SUBSET pending /\ kept \in SUBSET Live(pending, clock)
    BY DEF Live
  <2>5. CASE pending' = Live(pending, clock)
    BY <2>1, <2>4, <2>5, OpensSession
  <2>6. CASE RoomForChallenge(Live(pending, clock)) /\ pending' = kept \cup {y}
    <3>1. RoomForChallenge(kept)
      BY <2>4, <2>6, FS_Subset, FS_CardinalityType, EntryAssumption DEF RoomForChallenge
    <3> QED BY <2>1, <2>2, <2>4, <2>6, <3>1, PutsChallenge
  <2> QED BY <2>3, <2>5, <2>6
<1>8. CASE FinishRegistration(c)
  BY <1>8 DEF FinishRegistration, Consume, UseStep, ChallengeMoves, OfferMoves, Answers, Issues
<1>9. CASE WalletVerified(c)
  BY <1>9, KeepsUse DEF WalletVerified, Answers, Issues
<1>10. CASE VoucherVerified(c)
  BY <1>10, KeepsUse DEF VoucherVerified, Prune, Live, Answers, Issues
<1>11. CASE MemberCommitted(c)
  <2>1. \/ Goto(c, [pc |-> "publishMember", ch |-> calls[c].ch, ok |-> TRUE])
        \/ Goto(c, [pc |-> "publishMember", ch |-> calls[c].ch, ok |-> FALSE])
    BY <1>11, Zenon DEF MemberCommitted, Transaction
  <2>2. UNCHANGED <<memory, tokens, issuance>> /\ At(c, "commitMember")
    BY <1>11 DEF MemberCommitted
  <2> QED BY <2>1, <2>2, KeepsUse DEF Answers, Issues
<1>12. CASE MemberPublished(c)
  <2>1. /\ calls'[c] = Idle /\ \A d \in Callers \ {c} : calls'[d] = calls[d]
        /\ UNCHANGED <<offers, minted>>
    BY <1>12 DEF MemberPublished
  <2>2. pending' \subseteq pending /\ tokens' \in {tokens, tokens + 1}
    BY <1>12 DEF MemberPublished, NewSession, Live
  <2> QED BY <2>1, <2>2, OpensSession
<1> QED BY <1>1, <1>2, <1>3, <1>4, <1>5, <1>6, <1>7, <1>8, <1>9, <1>10, <1>11, <1>12
        DEF RegistrationBegins, RegistrationContinues

(* The segments of a login. *)
LEMMA LoginUses ==
  ASSUME TypeOK, NEW c \in Callers, LoginBegins(c) \/ LoginContinues(c)
  PROVE  UseStep(c)
<1> USE Slots, CallTyped, Locals DEF At, Goto, Return, Idle, memory, issuance
<1>1. CASE BeginAuthentication(c)
  <2>1. /\ calls'[c] = Idle /\ \A d \in Callers \ {c} : calls'[d] = calls[d]
        /\ UNCHANGED <<offers, minted>>
    BY <1>1 DEF BeginAuthentication, Call, RegistrationCall, LoginCall, MemberCall,
                CredentialCall
  <2> DEFINE ch == [id |-> 0, kind |-> "authentication", auth |-> None, voucher |-> None,
                    passkey |-> None, expiresAt |-> 0]
  <2>2. \A n, e \in Nat : [ch EXCEPT !.id = n, !.expiresAt = e].id = n
    OBVIOUS
  <2>3. Reserve(ch)
    BY <1>1 DEF BeginAuthentication
  <2> QED BY <2>1, <2>2, <2>3, ReserveUses
<1>2. CASE FinishAuthentication(c)
  BY <1>2 DEF FinishAuthentication, Consume, UseStep, ChallengeMoves, OfferMoves, Answers, Issues
<1>3. CASE PasskeyRead(c)
  BY <1>3, KeepsUse DEF PasskeyRead, Answers, Issues
<1>4. CASE PasskeyFound(c)
  BY <1>4, KeepsUse DEF PasskeyFound, Prune, Live, Answers, Issues
<1>5. CASE LoginVerified(c)
  BY <1>5, KeepsUse DEF LoginVerified, Prune, Live, Answers, Issues
<1>6. CASE CounterCommitted(c)
  <2>1. Goto(c, LoginAnswered(c, TRUE)) \/ Goto(c, LoginAnswered(c, FALSE))
    BY <1>6, Zenon DEF CounterCommitted, Transaction
  <2>2. UNCHANGED <<memory, tokens, issuance>> /\ At(c, "commitCounter")
    BY <1>6 DEF CounterCommitted
  <2> QED BY <2>1, <2>2, KeepsUse DEF LoginAnswered, Answers, Issues
<1>7. CASE LoginPublished(c)
  <2>1. /\ calls'[c] = Idle /\ \A d \in Callers \ {c} : calls'[d] = calls[d]
        /\ UNCHANGED <<offers, minted>>
    BY <1>7 DEF LoginPublished
  <2>2. pending' \subseteq pending /\ tokens' \in {tokens, tokens + 1}
    BY <1>7 DEF LoginPublished, NewSession, Live
  <2> QED BY <2>1, <2>2, OpensSession
<1> QED BY <1>1, <1>2, <1>3, <1>4, <1>5, <1>6, <1>7 DEF LoginBegins, LoginContinues

(* The operations of a member touch neither. *)
LEMMA MemberUses ==
  ASSUME TypeOK, NEW c \in Callers, MemberBegins(c) \/ MemberContinues(c)
  PROVE  UseStep(c)
<1> USE Slots, CallTyped, MemberLocals, KeepsUse
    DEF At, Goto, Return, Idle, memory, issuance, Answers, Issues
<1>1. CASE RebindDevice(c)
  BY <1>1 DEF RebindDevice
<1>2. CASE RebindChecked(c)
  BY <1>2 DEF RebindChecked
<1>3. CASE MemberRead(c)
  BY <1>3 DEF MemberRead
<1>4. CASE MemberFound(c)
  BY <1>4 DEF MemberFound
<1>5. CASE RebindCommitted(c)
  <2>1. \/ Goto(c, [pc |-> "publishRebind", cert |-> calls[c].cert, ok |-> TRUE])
        \/ Goto(c, Idle)
    BY <1>5, Zenon DEF RebindCommitted, Transaction
  <2>2. UNCHANGED <<memory, tokens, issuance>>
    BY <1>5 DEF RebindCommitted
  <2> QED BY <2>1, <2>2
<1>6. CASE RebindPublished(c)
  BY <1>6 DEF RebindPublished
<1>7. CASE AuthenticateSession(c)
  BY <1>7 DEF AuthenticateSession
<1>8. CASE OwnerRead(c)
  BY <1>8 DEF OwnerRead
<1>9. CASE OwnerFound(c)
  BY <1>9 DEF OwnerFound
<1>10. CASE SessionUsed(c)
  BY <1>10 DEF SessionUsed
<1> QED BY <1>1, <1>2, <1>3, <1>4, <1>5, <1>6, <1>7, <1>8, <1>9, <1>10
        DEF MemberBegins, MemberContinues

(* The segments of issuing a credential. *)
LEMMA CredentialUses ==
  ASSUME TypeOK, NEW c \in Callers, CredentialBegins(c) \/ CredentialContinues(c)
  PROVE  UseStep(c)
<1> USE Slots, CallTyped, MemberLocals
    DEF At, Goto, Return, Idle, memory, issuance, Answers, Issues
<1>1. CASE BeginCredential(c)
  BY <1>1, KeepsUse DEF BeginCredential
<1>2. CASE OfferActorRead(c)
  BY <1>2, KeepsUse DEF OfferActorRead
<1>3. CASE OfferActorFound(c)
  BY <1>3, KeepsUse DEF OfferActorFound
<1>4. CASE OfferMemberRead(c)
  BY <1>4, KeepsUse DEF OfferMemberRead
<1>5. CASE OfferMade(c)
  BY <1>5 DEF OfferMade, Live, UseStep, ChallengeMoves, OfferMoves
<1>6. CASE IssueCredential(c)
  BY <1>6 DEF IssueCredential, UseStep, ChallengeMoves, OfferMoves
<1>7. CASE IssueActorRead(c)
  BY <1>7, KeepsUse DEF IssueActorRead
<1>8. CASE IssueActorFound(c)
  BY <1>8, KeepsUse DEF IssueActorFound
<1>9. CASE IssueMemberRead(c)
  BY <1>9, KeepsUse DEF IssueMemberRead
<1>10. CASE IssueMemberFound(c)
  BY <1>10, KeepsUse DEF IssueMemberFound
<1>11. CASE Minted(c)
  BY <1>11 DEF Minted, UseStep, ChallengeMoves, OfferMoves
<1> QED BY <1>1, <1>2, <1>3, <1>4, <1>5, <1>6, <1>7, <1>8, <1>9, <1>10, <1>11
        DEF CredentialBegins, CredentialContinues

(* Every id in use was drawn. *)
Drawn ==
    /\ \A x \in pending \cup offers : x.id <= tokens
    /\ \A y \in minted : y.offer <= tokens
    /\ \A c \in Callers : /\ Answers(calls[c]) => calls[c].ch.id <= tokens
                          /\ Issues(calls[c]) => calls[c].offer.id <= tokens

UInv ==
    /\ ChallengeSingleUse /\ OfferSingleUse /\ Drawn
    /\ IsFiniteSet(pending) /\ PendingWithinCapacity

(* The ids in use are numbers. *)
LEMMA IdsTyped ==
  ASSUME TypeOK
  PROVE  /\ tokens \in Nat
         /\ \A x \in pending \cup offers : x.id \in Nat
         /\ \A y \in minted : y.offer \in Nat
         /\ \A c \in Callers : /\ Answers(calls[c]) => calls[c].ch.id \in Nat
                               /\ Issues(calls[c]) => calls[c].offer.id \in Nat
<1>1. /\ tokens \in Nat /\ \A y \in minted : y.offer \in Nat
      /\ \A x \in pending \cup offers : x.id \in Nat
  BY DEF TypeOK, Challenge, RegistrationChallenge, WalletChallenge, LoginChallenge, Offer
<1>2. ASSUME NEW c \in Callers, Answers(calls[c]) PROVE calls[c].ch.id \in Nat
  BY <1>2, CallTyped, Locals
     DEF Answers, RegistrationChallenge, WalletChallenge, LoginChallenge
<1>3. ASSUME NEW c \in Callers, Issues(calls[c]) PROVE calls[c].offer.id \in Nat
  BY <1>3, CallTyped, MemberLocals DEF Issues, Offer
<1> QED BY <1>1, <1>2, <1>3

(* The two sets of calls the properties speak of. *)
LEMMA AnsweringIssuing ==
  /\ Answering = {c \in Callers : Answers(calls[c])}
  /\ Issuing = {c \in Callers : Issues(calls[c])}
BY DEF Answering, Issuing, Answers, Issues

(* A segment keeps challenges in one place each. *)
LEMMA ChallengesKept ==
  ASSUME TypeOK, UInv, NEW c \in Callers, UseStep(c)
  PROVE  /\ ChallengeSingleUse'
         /\ \A x \in pending' : x.id <= tokens'
         /\ \A d \in Callers : Answers(calls'[d]) => calls'[d].ch.id <= tokens'
         /\ IsFiniteSet(pending') /\ PendingWithinCapacity'
<1>1. /\ \A d \in Callers \ {c} : calls'[d] = calls[d]
      /\ tokens' \in {tokens, tokens + 1} /\ ChallengeMoves(c)
      /\ tokens \in Nat
      /\ \A y \in pending : y.id \in Nat /\ y.id <= tokens
      /\ \A d \in Callers : Answers(calls[d]) =>
             calls[d].ch.id \in Nat /\ calls[d].ch.id <= tokens
  <2>1. /\ \A d \in Callers \ {c} : calls'[d] = calls[d]
        /\ tokens' \in {tokens, tokens + 1} /\ ChallengeMoves(c)
    BY DEF UseStep
  <2>2. tokens \in Nat /\ \A y \in pending : y.id \in Nat
    BY IdsTyped
  <2>3. \A y \in pending : y.id <= tokens
    BY DEF UInv, Drawn
  <2>4. ASSUME NEW d \in Callers, Answers(calls[d])
        PROVE  calls[d].ch.id \in Nat /\ calls[d].ch.id <= tokens
    <3>1. calls[d].ch.id \in Nat
      BY <2>4, IdsTyped
    <3>2. calls[d].ch.id <= tokens
      BY <2>4, Zenon DEF UInv, Drawn
    <3> QED BY <3>1, <3>2
  <2> QED BY <2>1, <2>2, <2>3, <2>4
<1> DEFINE x == calls'[c]
<1>2. /\ \A y, z \in pending : y.id = z.id => y = z
      /\ \A d \in Callers : Answers(calls[d]) =>
           /\ \A y \in pending : y.id # calls[d].ch.id
           /\ \A e \in Callers : Answers(calls[e]) /\ calls[e].ch.id = calls[d].ch.id => e = d
  BY AnsweringIssuing DEF UInv, ChallengeSingleUse
<1>3. IsFiniteSet(pending) /\ Cardinality(pending) <= MaxPending /\ MaxPending \in Nat
  BY EntryAssumption DEF UInv, PendingWithinCapacity
<1>4. Answering' = {d \in Callers : Answers(calls'[d])}
  BY DEF Answering, Answers
<1>5. ASSUME pending' \subseteq pending
      PROVE  IsFiniteSet(pending') /\ Cardinality(pending') <= MaxPending
  BY <1>3, <1>5, FS_Subset, FS_CardinalityType
<1>6. CASE /\ pending' \subseteq pending
           /\ Answers(x) => Answers(calls[c]) /\ x.ch.id = calls[c].ch.id
  BY <1>1, <1>2, <1>4, <1>5, <1>6 DEF ChallengeSingleUse, PendingWithinCapacity
<1>7. CASE Answers(x) /\ x.ch \in pending /\ pending' \subseteq pending \ {x.ch}
  BY <1>1, <1>2, <1>4, <1>5, <1>7 DEF ChallengeSingleUse, PendingWithinCapacity
<1>8. ASSUME NEW kept \in SUBSET pending, NEW y, ~Answers(x),
             RoomForChallenge(kept), pending' = kept \cup {y},
             \/ tokens' = tokens + 1 /\ y.id = tokens + 1
             \/ Answers(calls[c]) /\ y.id = calls[c].ch.id
      PROVE  /\ ChallengeSingleUse'
             /\ \A z \in pending' : z.id <= tokens'
             /\ \A d \in Callers : Answers(calls'[d]) => calls'[d].ch.id <= tokens'
             /\ IsFiniteSet(pending') /\ PendingWithinCapacity'
  <2>1. \A d \in Callers : Answers(calls'[d]) => d # c /\ calls'[d] = calls[d]
    BY <1>1, <1>8
  <2>2. y.id \in Nat /\ y.id <= tokens' /\ \A z \in pending : z.id # y.id
    BY <1>1, <1>2, <1>8
  <2>3. \A d \in Callers : Answers(calls'[d]) => calls'[d].ch.id # y.id
    BY <1>1, <1>2, <1>8, <2>1
  <2>4. ChallengeSingleUse'
    BY <1>2, <1>4, <1>8, <2>1, <2>2, <2>3 DEF ChallengeSingleUse
  <2>5. IsFiniteSet(kept) /\ Cardinality(kept) \in Nat /\ Cardinality(kept) < MaxPending
    BY <1>3, <1>8, FS_Subset, FS_CardinalityType DEF RoomForChallenge
  <2>6. IsFiniteSet(pending') /\ Cardinality(pending') <= MaxPending
    <3>1. IsFiniteSet(kept \cup {y}) /\ Cardinality(kept \cup {y}) <= Cardinality(kept) + 1
      BY <2>5, AddCardinality
    <3>2. Cardinality(kept \cup {y}) \in Nat
      BY <3>1, FS_CardinalityType
    <3> QED BY <1>3, <1>8, <2>5, <3>1, <3>2
  <2> QED BY <1>1, <1>8, <2>1, <2>2, <2>4, <2>6 DEF PendingWithinCapacity
<1> QED BY <1>1, <1>6, <1>7, <1>8 DEF ChallengeMoves

(* A segment keeps offers in one place each. *)
LEMMA OffersKept ==
  ASSUME TypeOK, UInv, NEW c \in Callers, UseStep(c)
  PROVE  /\ OfferSingleUse'
         /\ \A x \in offers' : x.id <= tokens'
         /\ \A y \in minted' : y.offer <= tokens'
         /\ \A d \in Callers : Issues(calls'[d]) => calls'[d].offer.id <= tokens'
<1>1. /\ \A d \in Callers \ {c} : calls'[d] = calls[d]
      /\ tokens' \in {tokens, tokens + 1} /\ OfferMoves(c)
      /\ tokens \in Nat
      /\ \A y \in offers : y.id \in Nat /\ y.id <= tokens
      /\ \A y \in minted : y.offer \in Nat /\ y.offer <= tokens
      /\ \A d \in Callers : Issues(calls[d]) =>
             calls[d].offer.id \in Nat /\ calls[d].offer.id <= tokens
  <2>1. /\ \A d \in Callers \ {c} : calls'[d] = calls[d]
        /\ tokens' \in {tokens, tokens + 1} /\ OfferMoves(c)
    BY DEF UseStep
  <2>2. /\ tokens \in Nat
        /\ \A y \in offers : y.id \in Nat
        /\ \A y \in minted : y.offer \in Nat
    BY IdsTyped
  <2>3. (\A y \in offers : y.id <= tokens) /\ \A y \in minted : y.offer <= tokens
    BY DEF UInv, Drawn
  <2>4. ASSUME NEW d \in Callers, Issues(calls[d])
        PROVE  calls[d].offer.id \in Nat /\ calls[d].offer.id <= tokens
    <3>1. calls[d].offer.id \in Nat
      BY <2>4, IdsTyped
    <3>2. calls[d].offer.id <= tokens
      BY <2>4, Zenon DEF UInv, Drawn
    <3> QED BY <3>1, <3>2
  <2> QED BY <2>1, <2>2, <2>3, <2>4
<1> DEFINE x == calls'[c]
<1>2. /\ \A y, z \in offers : y.id = z.id => y = z
      /\ \A y \in offers, z \in minted : y.id # z.offer
      /\ \A d \in Callers : Issues(calls[d]) =>
           /\ \A y \in offers : y.id # calls[d].offer.id
           /\ \A z \in minted : z.offer # calls[d].offer.id
           /\ \A e \in Callers :
                 Issues(calls[e]) /\ calls[e].offer.id = calls[d].offer.id => e = d
  BY AnsweringIssuing DEF UInv, OfferSingleUse
<1>3. Issuing' = {d \in Callers : Issues(calls'[d])}
  BY DEF Issuing, Issues
<1>4. CASE /\ offers' \subseteq offers /\ UNCHANGED minted
           /\ Issues(x) => Issues(calls[c]) /\ x.offer = calls[c].offer
  BY <1>1, <1>2, <1>3, <1>4 DEF OfferSingleUse
<1>5. CASE /\ Issues(x) /\ x.offer \in offers /\ offers' \subseteq offers \ {x.offer}
           /\ UNCHANGED minted
  BY <1>1, <1>2, <1>3, <1>5 DEF OfferSingleUse
<1>6. CASE /\ ~Issues(x) /\ tokens' = tokens + 1 /\ UNCHANGED minted
           /\ \E y : y.id = tokens + 1 /\ offers' \subseteq offers \cup {y}
  BY <1>1, <1>2, <1>3, <1>6 DEF OfferSingleUse
<1>7. CASE /\ ~Issues(x) /\ Issues(calls[c]) /\ UNCHANGED offers
           /\ \E y : y.offer = calls[c].offer.id /\ minted' \subseteq minted \cup {y}
  BY <1>1, <1>2, <1>3, <1>7 DEF OfferSingleUse
<1> QED BY <1>1, <1>4, <1>5, <1>6, <1>7 DEF OfferMoves

(* So do the clock, the end of a session and a restart: what is unique stays *)
(* unique.                                                                 *)
LEMMA UInvInductive == Spec => []UInv
<1>1. EntryInit => UInv
  BY FS_EmptySet, EntryAssumption
     DEF EntryInit, UInv, ChallengeSingleUse, OfferSingleUse, Drawn, PendingWithinCapacity,
         Answering, Issuing, Answers, Issues, Idle
<1>2. IInv /\ UInv /\ [Next]_entryVars => UInv'
  <2> SUFFICES ASSUME IInv, UInv, [Next]_entryVars PROVE UInv'
    OBVIOUS
  <2>1. CASE UNCHANGED <<pending, calls, tokens, offers, minted>>
    BY <2>1 DEF UInv, ChallengeSingleUse, OfferSingleUse, Drawn, PendingWithinCapacity,
                Answering, Issuing
  <2>2. CASE Restart
    <3>1. /\ pending' = {} /\ offers' = {} /\ UNCHANGED <<tokens, minted>>
          /\ calls' = [d \in Callers |-> Idle]
      BY <2>2 DEF Restart
    <3>2. \A d \in Callers : ~Answers(calls'[d]) /\ ~Issues(calls'[d])
      BY <3>1 DEF Answers, Issues, Idle
    <3>3. Answering' = {} /\ Issuing' = {}
      BY <3>2 DEF Answering, Issuing, Answers, Issues
    <3>4. IsFiniteSet(pending') /\ PendingWithinCapacity'
      BY <3>1, FS_EmptySet, EntryAssumption DEF PendingWithinCapacity
    <3>5. ChallengeSingleUse' /\ OfferSingleUse'
      BY <3>1, <3>3 DEF ChallengeSingleUse, OfferSingleUse
    <3> QED BY <3>1, <3>2, <3>4, <3>5 DEF UInv, Drawn
  <2>3. ASSUME NEW c \in Callers, Begins(c) \/ Continues(c) PROVE UInv'
    <3>1. UseStep(c)
      BY <2>3, RegistrationUses, LoginUses, MemberUses, CredentialUses
         DEF Begins, Continues, IInv, UInv
    <3> QED BY <3>1, ChallengesKept, OffersKept DEF IInv, UInv, Drawn
  <2>4. CASE Environment
    BY <2>1, <2>2, <2>4
       DEF Environment, GetSession, RevokeSession, OtherServices, memory, issuance
  <2>5. CASE UNCHANGED entryVars
    BY <2>1, <2>5 DEF entryVars
  <2> QED BY <2>3, <2>4, <2>5 DEF Next
<1> QED BY <1>1, <1>2, IInvInductive, PTL DEF Spec

(* No challenge is answered twice, and no offer yields two credentials,    *)
(* however many calls answer at once and wherever they wait.               *)
THEOREM ChallengesUsedOnce == Spec => []ChallengeSingleUse
<1>1. UInv => ChallengeSingleUse
  BY DEF UInv
<1> QED BY <1>1, UInvInductive, PTL

THEOREM OffersUsedOnce == Spec => []OfferSingleUse
<1>1. UInv => OfferSingleUse
  BY DEF UInv
<1> QED BY <1>1, UInvInductive, PTL

(* The pending challenges keep to their maximum, although a precommit puts *)
(* one back.                                                               *)
THEOREM PendingBounded == Spec => []PendingWithinCapacity
<1>1. UInv => PendingWithinCapacity
  BY DEF UInv
<1> QED BY <1>1, UInvInductive, PTL

-----------------------------------------------------------------------------
(***************************************************************************)
(* What calls, sessions, certificates and credentials say of the tables is *)
(* true and stays true: a call keeps what it read across an await, while   *)
(* other calls change the tables, but rows only grow.                      *)
(***************************************************************************)
Backed(C, p, m, n) == \E x \in C : x.id = p /\ x.member = m /\ x.counter >= n
Vouched(S, M, m, t) ==
    \E s \in S, x \in M : x.id = m /\ x.voucher = s.voucher /\ t <= s.expiresAt

Honoured(S, M, cert) ==
    /\ cert.issuedAt < cert.expiresAt
    /\ cert.expiresAt <= cert.issuedAt + GrantLifetime
    /\ Vouched(S, M, cert.member, cert.expiresAt)
    /\ \E auth \in Authorizations :
          /\ auth.member = cert.member /\ auth.device = cert.device
          /\ cert.expiresAt <= auth.expiresAt

(* What the locals x of a call say of the spends S, members M and          *)
(* credentials C.                                                          *)
Sound(S, M, C, x) ==
    /\ x.pc \in {"foundPasskey", "verifyLogin", "commitCounter", "publishLogin"} =>
         Backed(C, x.passkey, x.member, 0)
    /\ x.pc = "publishLogin" /\ x.ok => Backed(C, x.passkey, x.member, x.counter)
    /\ x.pc = "publishMember" /\ x.ok =>
         /\ Backed(C, x.ch.passkey, x.ch.auth.member, 0)
         /\ Vouched(S, M, x.ch.auth.member, VoucherExpiry[x.ch.voucher])
    /\ x.pc \in {"checkRebind", "readMember", "foundMember"} =>
         x.auth.member = x.session.member
    /\ x.pc \in {"foundMember", "foundOwner"} =>
         \A t \in x.until : Vouched(S, M, x.session.member, t)
    /\ x.pc \in {"commitRebind", "publishRebind"} => Honoured(S, M, x.cert)
    /\ x.pc \in {"issueMember", "issueMemberFound", "mint"} =>
         x.actor.member = x.offer.member
    /\ x.pc = "issueMemberFound" =>
         \A r \in x.row : Vouched(S, M, x.offer.member, r[2])
    /\ x.pc = "mint" => Vouched(S, M, x.offer.member, x.validUntil)

(* The calls that have read nothing yet. *)
Careless(x) ==
    x.pc \in {"idle", "checkDevice", "lookUpMember", "draftChallenge", "verifyPasskey",
              "offerWallet", "verifyWallet", "verifyVoucher", "commitMember", "readPasskey",
              "readOwner", "offerActor", "offerActorFound", "offerMember",
              "offerMemberFound", "issueActor", "issueActorFound"}

LEMMA CarelessSound ==
  ASSUME NEW S, NEW M, NEW C, NEW x, Careless(x)
  PROVE  Sound(S, M, C, x)
BY DEF Careless, Sound

(* A login takes a counter above that of every login it has not seen.      *)
Counts(C, x) ==
    x.pc = "publishLogin" /\ x.ok /\ x.counter > 0 =>
        \A y \in C : y.id = x.passkey => y.counter < x.counter

GrantsWell(x) ==
    LET s == x.session IN
    /\ s \in sessions /\ s.expiresAt > clock
    /\ \E until \in ValidUntil(s.member) : until > clock

SoundStep(c) ==
    /\ \A d \in Callers \ {c} : calls'[d] = calls[d]
    /\ Sound(spends', members', credentials', calls'[c])
    /\ Counts(credentials, calls'[c])
    /\ calls'[c].pc = "granted" /\ calls[c].pc # "granted" => GrantsWell(calls'[c])
    /\ \A s \in sessions' \ sessions :
          /\ s.id = tokens' /\ Backed(credentials, s.passkey, s.member, 0)
          /\ At(c, "publishLogin") => calls[c].ok
    /\ \A cert \in issued' \ issued : Honoured(spends, members, cert)
    /\ \A y \in minted' \ minted : Vouched(spends, members, y.member, y.validUntil)

-----------------------------------------------------------------------------
(* The tables grow: what they vouch for, they vouch for ever after.        *)
Grows ==
    /\ spends \subseteq spends'
    /\ \A x \in members : \E y \in members' : y.id = x.id /\ y.voucher = x.voucher
    /\ \A x \in credentials : \E y \in credentials' :
          y.id = x.id /\ y.member = x.member /\ y.counter >= x.counter
    /\ \A x \in credentials \cup credentials' : x.counter \in Nat
    /\ \A s \in spends : s.expiresAt \in Nat

LEMMA TablesGrow ==
  ASSUME StoreTypeOK, StoreTypeOK', TablesAgree, [StoreNext]_storeVars
  PROVE  Grows
<1>1. /\ spends \subseteq spends'
      /\ \A x \in credentials : \E y \in credentials' :
            y.id = x.id /\ y.member = x.member /\ y.counter >= x.counter
  BY RowsKept DEF Kept
<1>2. /\ \A x \in credentials \cup credentials' : x.counter \in Nat
      /\ \A s \in spends : s.expiresAt \in Nat
  BY StoreAssumption DEF StoreTypeOK, Credential, Counters, Spend
<1> DEFINE Same == \A x \in members : \E y \in members' : y.id = x.id /\ y.voucher = x.voucher
<1>3. Same
  <2>1. CASE UNCHANGED tables
    BY <2>1 DEF tables
  <2>2. ASSUME NEW req \in Request, RegisterWithVoucher(req)
        PROVE  Same
    BY <2>2 DEF RegisterWithVoucher
  <2>3. ASSUME NEW p \in Passkeys, NEW m \in Members, NEW n \in Counters, Insert(p, m, n)
        PROVE  Same
    BY <2>3 DEF Insert
  <2>4. ASSUME NEW p \in Passkeys, NEW n \in Counters, UpdateCounter(p, n)
        PROVE  Same
    BY <2>4 DEF UpdateCounter
  <2>5. ASSUME NEW m \in Members, NEW d \in Devices, NEW at \in Nat, Rebind(m, d, at)
        PROVE  Same
    <3>1. PICK z \in members : members' = (members \ {z}) \cup {[z EXCEPT !.device = d]}
      BY <2>5 DEF Rebind
    <3>2. [z EXCEPT !.device = d].id = z.id /\ [z EXCEPT !.device = d].voucher = z.voucher
      BY <3>1 DEF StoreTypeOK, Member
    <3>3. ASSUME NEW x \in members
          PROVE  \E y \in members' : y.id = x.id /\ y.voucher = x.voucher
      <4>1. CASE x = z
        BY <3>1, <3>2, <4>1
      <4>2. CASE x # z
        BY <3>1, <4>2
      <4> QED BY <4>1, <4>2
    <3> QED BY <3>3
  <2> HIDE DEF Same
  <2> QED BY <2>1, <2>2, <2>3, <2>4, <2>5, StepCases
<1> QED BY <1>1, <1>2, <1>3 DEF Grows

LEMMA BackedGrows ==
  ASSUME Grows, NEW p, NEW m, NEW n \in Nat, Backed(credentials, p, m, n)
  PROVE  Backed(credentials', p, m, n)
<1>1. PICK x \in credentials : x.id = p /\ x.member = m /\ x.counter >= n
  BY DEF Backed
<1>2. PICK y \in credentials' : y.id = x.id /\ y.member = x.member /\ y.counter >= x.counter
  BY DEF Grows
<1>3. y.counter >= n
  BY <1>1, <1>2 DEF Grows
<1> QED BY <1>1, <1>2, <1>3 DEF Backed

LEMMA VouchedGrows ==
  ASSUME Grows, NEW m, NEW t, Vouched(spends, members, m, t)
  PROVE  Vouched(spends', members', m, t)
BY DEF Grows, Vouched

LEMMA HonouredGrows ==
  ASSUME Grows, NEW cert, Honoured(spends, members, cert)
  PROVE  Honoured(spends', members', cert)
BY VouchedGrows, Zenon DEF Honoured

LEMMA SoundGrows ==
  ASSUME Grows, NEW x \in Call, Sound(spends, members, credentials, x)
  PROVE  Sound(spends', members', credentials', x)
<1>1. x.pc \in {"foundPasskey", "verifyLogin", "commitCounter", "publishLogin"} =>
        Backed(credentials', x.passkey, x.member, 0)
  BY BackedGrows DEF Sound
<1>2. x.pc = "publishLogin" /\ x.ok => Backed(credentials', x.passkey, x.member, x.counter)
  <2>1. x.pc = "publishLogin" => x.counter \in Nat
    BY Locals, StoreAssumption DEF Counters
  <2> QED BY <2>1, BackedGrows DEF Sound
<1>3. x.pc = "publishMember" /\ x.ok =>
         /\ Backed(credentials', x.ch.passkey, x.ch.auth.member, 0)
         /\ Vouched(spends', members', x.ch.auth.member, VoucherExpiry[x.ch.voucher])
  BY BackedGrows, VouchedGrows DEF Sound
<1>4. x.pc \in {"foundMember", "foundOwner"} =>
         \A t \in x.until : Vouched(spends', members', x.session.member, t)
  BY VouchedGrows DEF Sound
<1>5. x.pc \in {"commitRebind", "publishRebind"} => Honoured(spends', members', x.cert)
  BY HonouredGrows DEF Sound
<1>6. x.pc = "issueMemberFound" =>
         \A r \in x.row : Vouched(spends', members', x.offer.member, r[2])
  BY VouchedGrows DEF Sound
<1>7. x.pc = "mint" => Vouched(spends', members', x.offer.member, x.validUntil)
  BY VouchedGrows DEF Sound
<1> QED BY <1>1, <1>2, <1>3, <1>4, <1>5, <1>6, <1>7 DEF Sound

-----------------------------------------------------------------------------
(* What most segments are. *)
LEMMA KeepsSound ==
  ASSUME NEW c \in Callers, \A d \in Callers \ {c} : calls'[d] = calls[d],
         UNCHANGED <<spends, members, credentials, issued, minted>>,
         sessions' \subseteq sessions,
         Sound(spends, members, credentials, calls'[c]),
         calls'[c].pc \notin {"publishLogin", "granted"}
  PROVE  SoundStep(c)
BY DEF SoundStep, Counts

LEMMA StaysCareless ==
  ASSUME NEW c \in Callers, \A d \in Callers \ {c} : calls'[d] = calls[d],
         UNCHANGED <<spends, members, credentials, issued, minted>>,
         sessions' \subseteq sessions, Careless(calls'[c])
  PROVE  SoundStep(c)
<1>1. Sound(spends, members, credentials, calls'[c])
  BY CarelessSound
<1>2. calls'[c].pc \notin {"publishLogin", "granted"}
  BY DEF Careless
<1> QED BY <1>1, <1>2, KeepsSound

(* A transaction and its answer. *)
LEMMA TransactionSound ==
  ASSUME NEW c \in Callers, \A d \in Callers \ {c} : calls'[d] = calls[d],
         UNCHANGED <<sessions, issued, minted>>,
         Sound(spends', members', credentials', calls'[c]),
         Counts(credentials, calls'[c]), calls'[c].pc # "granted"
  PROVE  SoundStep(c)
BY DEF SoundStep

(* A session is opened for a passkey and a member the store holds. *)
LEMMA SessionSound ==
  ASSUME NEW m, NEW p, NewSession(m, p), Backed(credentials, p, m, 0)
  PROVE  \A s \in sessions' \ sessions :
            s.id = tokens' /\ Backed(credentials, s.passkey, s.member, 0)
<1> DEFINE s == [id |-> tokens + 1, member |-> m, passkey |-> p,
                 expiresAt |-> clock + SessionLifetime]
<1>1. s.id = tokens + 1 /\ s.member = m /\ s.passkey = p
  OBVIOUS
<1>2. \/ sessions' = Live(sessions, clock)
      \/ sessions' = Live(sessions, clock) \cup {s} /\ tokens' = tokens + 1
  BY Zenon DEF NewSession
<1> HIDE DEF s
<1> QED BY <1>1, <1>2 DEF Live

(* What a call reads is so when it reads it. *)
LEMMA RowBacks ==
  ASSUME TypeOK, NEW x \in credentials
  PROVE  Backed(credentials, x.id, x.member, 0)
<1>1. x.counter \in Nat
  BY StoreAssumption DEF TypeOK, StoreTypeOK, Credential, Counters
<1> QED BY <1>1 DEF Backed

LEMMA AnswerVouches ==
  ASSUME TypeOK, NEW m
  PROVE  /\ \A t \in ValidUntil(m) : Vouched(spends, members, m, t)
         /\ \A r \in Lookup(m) : Vouched(spends, members, m, r[2])
<1>1. \A y \in spends : y.expiresAt \in Nat
  BY DEF TypeOK, StoreTypeOK, Spend
<1>2. \A t \in ValidUntil(m) : Vouched(spends, members, m, t)
  BY <1>1 DEF ValidUntil, Vouched
<1>3. ASSUME NEW r \in Lookup(m) PROVE Vouched(spends, members, m, r[2])
  <2>1. PICK y \in spends : /\ \E x \in members : x.id = m /\ x.voucher = y.voucher
                            /\ r = <<y.voucher, y.expiresAt>>
    BY DEF Lookup
  <2> QED BY <1>1, <2>1 DEF Vouched
<1> QED BY <1>2, <1>3

(* A certificate ends with the earliest of the times it is bounded by. *)
LEMMA CertificateEnds ==
  ASSUME TypeOK, NEW auth \in Authorizations, NEW until \in Nat
  PROVE  LET end == CertificateFor(auth, until).expiresAt IN
         /\ end \in Nat /\ end <= until /\ end <= auth.expiresAt
         /\ end <= clock + GrantLifetime
         /\ until > clock /\ auth.expiresAt > clock => end > clock
<1> DEFINE g == clock + GrantLifetime
           ends == {g, until, auth.expiresAt}
           end == CHOOSE e \in ends : \A f \in ends : e <= f
<1>1. auth.expiresAt \in Nat
  BY EntryAssumption DEF Authorization
<1>2. g \in Nat /\ clock \in Nat /\ g > clock
  BY Numbers, EntryAssumption
<1>3. CertificateFor(auth, until).expiresAt = end
  BY DEF CertificateFor
<1> HIDE DEF g
<1>4. \E e \in ends : \A f \in ends : e <= f
  BY <1>1, <1>2
<1>5. end \in ends /\ end <= g /\ end <= until /\ end <= auth.expiresAt
  BY <1>4
<1> HIDE DEF end
<1>6. end \in Nat /\ (until > clock /\ auth.expiresAt > clock => end > clock)
  BY <1>1, <1>2, <1>5
<1> QED BY <1>3, <1>5, <1>6 DEF g

(* A certificate that has not run out is honoured by what it was made from. *)
LEMMA CertificateSound ==
  ASSUME TypeOK, NEW auth \in Authorizations, NEW until \in Nat,
         Vouched(spends, members, auth.member, until),
         CertificateFor(auth, until).expiresAt > clock
  PROVE  Honoured(spends, members, CertificateFor(auth, until))
<1> DEFINE cert == CertificateFor(auth, until)
<1>1. /\ cert.expiresAt \in Nat /\ cert.expiresAt <= until
      /\ cert.expiresAt <= auth.expiresAt /\ cert.expiresAt <= clock + GrantLifetime
  BY CertificateEnds
<1>2. cert.member = auth.member /\ cert.device = auth.device /\ cert.issuedAt = clock
  BY CertificateTyped
<1> HIDE DEF cert
<1>3. Vouched(spends, members, auth.member, cert.expiresAt)
  <2>1. PICK y \in spends, x \in members :
          x.id = auth.member /\ x.voucher = y.voucher /\ until <= y.expiresAt
    BY DEF Vouched
  <2>2. y.expiresAt \in Nat
    BY DEF TypeOK, StoreTypeOK, Spend
  <2> QED BY <1>1, <2>1, <2>2 DEF Vouched
<1>4. clock < cert.expiresAt
  BY <1>1, Numbers DEF cert
<1> QED BY <1>1, <1>2, <1>3, <1>4 DEF Honoured, cert

(* The segments of a registration. *)
LEMMA RegistrationSound ==
  ASSUME TypeOK, NEW c \in Callers, Sound(spends, members, credentials, calls[c]),
         RegistrationBegins(c) \/ RegistrationContinues(c)
  PROVE  SoundStep(c)
<1> USE Slots, CallTyped, Locals DEF At, Goto, Return, Idle, memory, issuance, storeVars
<1>1. CASE BeginRegistration(c)
  BY <1>1, StaysCareless DEF BeginRegistration, Careless
<1>2. CASE DeviceChecked(c)
  BY <1>2, StaysCareless DEF DeviceChecked, Careless
<1>3. CASE MemberLookedUp(c)
  BY <1>3, StaysCareless DEF MemberLookedUp, Careless
<1>4. CASE ChallengeReserved(c)
  BY <1>4, StaysCareless DEF ChallengeReserved, Careless, Reserve, Live
<1>5. CASE Precommit(c)
  BY <1>5, StaysCareless DEF Precommit, Careless
<1>6. CASE PasskeyVerified(c)
  BY <1>6, StaysCareless DEF PasskeyVerified, Careless
<1>7. CASE WalletOffered(c)
  BY <1>7, StaysCareless DEF WalletOffered, Careless, Live
<1>8. CASE FinishRegistration(c)
  BY <1>8, StaysCareless DEF FinishRegistration, Careless
<1>9. CASE WalletVerified(c)
  BY <1>9, StaysCareless DEF WalletVerified, Careless
<1>10. CASE VoucherVerified(c)
  BY <1>10, StaysCareless DEF VoucherVerified, Careless, Prune, Live
<1>11. CASE MemberCommitted(c)
  <2> DEFINE ch == calls[c].ch
             y(ok) == [pc |-> "publishMember", ch |-> ch, ok |-> ok]
             req == Redemption(calls[c])
  <2>1. \/ RegisterWithVoucher(req) /\ Goto(c, y(TRUE))
        \/ Goto(c, y(FALSE))
    BY <1>11, Zenon DEF MemberCommitted, Transaction
  <2>2. UNCHANGED <<memory, tokens, issued, issuance>>
    BY <1>11 DEF MemberCommitted
  <2>3. CASE Goto(c, y(FALSE))
    <3>1. calls'[c] = y(FALSE)
      BY <2>3
    <3>2. Sound(spends', members', credentials', y(FALSE)) /\ Counts(credentials, y(FALSE))
      BY DEF Sound, Counts
    <3> QED BY <2>2, <2>3, <3>1, <3>2, TransactionSound
  <2>4. CASE RegisterWithVoucher(req) /\ Goto(c, y(TRUE))
    <3>1. calls'[c] = y(TRUE)
      BY <2>4
    <3>2. /\ SpendRow(req) \in spends' /\ MemberRow(req) \in members'
          /\ CredentialRow(req) \in credentials'
      BY <2>4, Zenon DEF RegisterWithVoucher
    <3>3. ch \in WalletChallenge /\ calls[c].counter \in Nat /\ VoucherExpiry[ch.voucher] \in Nat
      BY <1>11, StoreAssumption DEF MemberCommitted, Counters, WalletChallenge
    <3>4. Backed(credentials', ch.passkey, ch.auth.member, 0)
      BY <3>2, <3>3 DEF Backed, CredentialRow, Redemption
    <3>5. Vouched(spends', members', ch.auth.member, VoucherExpiry[ch.voucher])
      BY <3>2, <3>3 DEF Vouched, SpendRow, MemberRow, Redemption
    <3>6. Sound(spends', members', credentials', y(TRUE)) /\ Counts(credentials, y(TRUE))
      BY <3>4, <3>5 DEF Sound, Counts
    <3> QED BY <2>2, <2>4, <3>1, <3>6, TransactionSound
  <2> QED BY <2>1, <2>3, <2>4
<1>12. CASE MemberPublished(c)
  <2> DEFINE ch == calls[c].ch
  <2>1. /\ calls'[c] = Idle /\ \A d \in Callers \ {c} : calls'[d] = calls[d]
        /\ UNCHANGED <<spends, members, credentials, minted>> /\ ~At(c, "publishLogin")
    BY <1>12 DEF MemberPublished
  <2>2. CASE UNCHANGED <<pending, sessions, tokens, issued>>
    BY <2>1, <2>2, StaysCareless DEF Careless
  <2>3. CASE MayPublish(c) /\ NewSession(ch.auth.member, ch.passkey)
    <3>1. /\ Backed(credentials, ch.passkey, ch.auth.member, 0)
          /\ Vouched(spends, members, ch.auth.member, VoucherExpiry[ch.voucher])
      BY <1>12, <2>3 DEF MemberPublished, MayPublish, Sound
    <3>2. \A s \in sessions' \ sessions :
            s.id = tokens' /\ Backed(credentials, s.passkey, s.member, 0)
      BY <2>3, <3>1, SessionSound
    <3>3. /\ ch.auth \in Authorizations /\ VoucherExpiry[ch.voucher] \in Nat
          /\ clock \in Nat /\ ch.auth.expiresAt \in Nat
      BY <1>12, Numbers, StoreAssumption, EntryAssumption
         DEF MemberPublished, WalletChallenge, Authorization
    <3>4. VoucherExpiry[ch.voucher] > clock /\ ch.auth.expiresAt > clock
      BY <2>3, <3>3 DEF MayPublish, InTime
    <3>5. Honoured(spends, members, CertificateFor(ch.auth, VoucherExpiry[ch.voucher]))
      BY <3>1, <3>3, <3>4, CertificateEnds, CertificateSound
    <3>6. issued' \subseteq issued \cup {CertificateFor(ch.auth, VoucherExpiry[ch.voucher])}
      BY <1>12, <2>3, Zenon DEF MemberPublished
    <3>7. Sound(spends', members', credentials', calls'[c]) /\ Counts(credentials, calls'[c])
      BY <2>1, CarelessSound DEF Careless, Counts
    <3> QED BY <2>1, <3>2, <3>5, <3>6, <3>7 DEF SoundStep
  <2> QED BY <1>12, <2>2, <2>3 DEF MemberPublished
<1> QED BY <1>1, <1>2, <1>3, <1>4, <1>5, <1>6, <1>7, <1>8, <1>9, <1>10, <1>11, <1>12
        DEF RegistrationBegins, RegistrationContinues

(* The segments of a login. *)
LEMMA LoginSound ==
  ASSUME TypeOK, TablesAgree, Grows, NEW c \in Callers,
         Sound(spends, members, credentials, calls[c]), LoginBegins(c) \/ LoginContinues(c)
  PROVE  SoundStep(c)
<1> USE Slots, CallTyped, Locals DEF At, Goto, Return, Idle, memory, issuance, storeVars
<1>1. CASE BeginAuthentication(c)
  BY <1>1, StaysCareless DEF BeginAuthentication, Careless, Reserve, Live
<1>2. CASE FinishAuthentication(c)
  BY <1>2, StaysCareless DEF FinishAuthentication, Careless
<1>3. CASE PasskeyRead(c)
  <2>1. CASE Return(c)
    BY <1>3, <2>1, StaysCareless DEF PasskeyRead, Careless
  <2>2. ASSUME NEW x \in credentials,
               Goto(c, [pc |-> "foundPasskey", ch |-> calls[c].ch,
                        passkey |-> x.id, member |-> x.member])
        PROVE  SoundStep(c)
    <3>1. Backed(credentials, x.id, x.member, 0)
      BY RowBacks
    <3>2. Sound(spends, members, credentials, calls'[c])
      BY <2>2, <3>1 DEF Sound
    <3> QED BY <1>3, <2>2, <3>2, KeepsSound DEF PasskeyRead
  <2> QED BY <1>3, <2>1, <2>2 DEF PasskeyRead
<1>4. CASE PasskeyFound(c)
  <2>1. CASE Return(c)
    BY <1>4, <2>1, StaysCareless DEF PasskeyFound, Careless, Prune, Live
  <2>2. CASE Goto(c, [calls[c] EXCEPT !.pc = "verifyLogin"])
    <3>1. Sound(spends, members, credentials, calls'[c])
      BY <1>4, <2>2 DEF Sound, PasskeyFound
    <3> QED BY <1>4, <2>2, <3>1, KeepsSound DEF PasskeyFound, Prune, Live
  <2> QED BY <1>4, <2>1, <2>2 DEF PasskeyFound
<1>5. CASE LoginVerified(c)
  <2>1. CASE Return(c)
    BY <1>5, <2>1, StaysCareless DEF LoginVerified, Careless, Prune, Live
  <2>2. ASSUME NEW n \in Counters,
               Goto(c, [pc |-> "commitCounter", ch |-> calls[c].ch,
                        passkey |-> calls[c].passkey,
                        member |-> calls[c].member, counter |-> n])
        PROVE  SoundStep(c)
    <3>1. Sound(spends, members, credentials, calls'[c])
      BY <1>5, <2>2 DEF Sound, LoginVerified
    <3> QED BY <1>5, <2>2, <3>1, KeepsSound DEF LoginVerified, Prune, Live
  <2> QED BY <1>5, <2>1, <2>2 DEF LoginVerified
<1>6. CASE CounterCommitted(c)
  <2> DEFINE p == calls[c].passkey
             m == calls[c].member
             n == calls[c].counter
  <2>1. \/ UpdateCounter(p, n) /\ Goto(c, LoginAnswered(c, TRUE))
        \/ Goto(c, LoginAnswered(c, FALSE))
    BY <1>6, Zenon DEF CounterCommitted, Transaction
  <2>2. UNCHANGED <<memory, tokens, issued, issuance>> /\ At(c, "commitCounter")
    BY <1>6 DEF CounterCommitted
  <2>3. n \in Nat /\ Backed(credentials, p, m, 0) /\ Backed(credentials', p, m, 0)
    <3>1. n \in Nat
      BY <2>2, StoreAssumption DEF Counters
    <3>2. Backed(credentials, p, m, 0)
      BY <2>2 DEF Sound
    <3> QED BY <3>1, <3>2, BackedGrows
  <2>4. CASE Goto(c, LoginAnswered(c, FALSE))
    <3>1. /\ calls'[c].pc = "publishLogin" /\ calls'[c].passkey = p
          /\ calls'[c].member = m /\ calls'[c].ok = FALSE
      BY <2>4 DEF LoginAnswered
    <3>2. Sound(spends', members', credentials', calls'[c]) /\ Counts(credentials, calls'[c])
      BY <2>3, <3>1 DEF Sound, Counts
    <3> QED BY <2>2, <2>4, <3>1, <3>2, TransactionSound
  <2>5. CASE UpdateCounter(p, n) /\ Goto(c, LoginAnswered(c, TRUE))
    <3>1. PICK x \in credentials :
            /\ x.id = p /\ Accepts(x.counter, n)
            /\ credentials' = (credentials \ {x}) \cup {[x EXCEPT !.counter = n]}
      BY <2>5 DEF UpdateCounter
    <3>2. x \in Credential /\ \A y \in credentials : y.id = p => y = x
      BY <3>1 DEF TablesAgree, TypeOK, StoreTypeOK
    <3>3. x.member = m
      BY <2>3, <3>2 DEF Backed
    <3> DEFINE z == [x EXCEPT !.counter = n]
    <3>4. z \in credentials' /\ z.id = p /\ z.member = m /\ z.counter = n
      BY <3>1, <3>2, <3>3 DEF Credential
    <3>5. Backed(credentials', p, m, n)
      <4> HIDE DEF z, n
      <4> QED BY <2>3, <3>4 DEF Backed
    <3>6. n > 0 => \A y \in credentials : y.id = p => y.counter < n
      BY <2>3, <3>1, <3>2 DEF Accepts
    <3>7. /\ calls'[c].pc = "publishLogin" /\ calls'[c].passkey = p
          /\ calls'[c].member = m /\ calls'[c].counter = n
      BY <2>5 DEF LoginAnswered
    <3>8. Sound(spends', members', credentials', calls'[c]) /\ Counts(credentials, calls'[c])
      BY <2>3, <3>5, <3>6, <3>7 DEF Sound, Counts
    <3> QED BY <2>2, <2>5, <3>7, <3>8, TransactionSound
  <2> QED BY <2>1, <2>4, <2>5
<1>7. CASE LoginPublished(c)
  <2>1. /\ calls'[c] = Idle /\ \A d \in Callers \ {c} : calls'[d] = calls[d]
        /\ UNCHANGED <<spends, members, credentials, issued, minted>>
    BY <1>7 DEF LoginPublished
  <2>2. CASE UNCHANGED <<pending, sessions, tokens>>
    BY <2>1, <2>2, StaysCareless DEF Careless
  <2>3. CASE MayOpenSession(c) /\ NewSession(calls[c].member, calls[c].passkey)
    <3>1. Backed(credentials, calls[c].passkey, calls[c].member, 0) /\ calls[c].ok
      BY <1>7, <2>3 DEF LoginPublished, MayOpenSession, Sound
    <3>2. \A s \in sessions' \ sessions :
            s.id = tokens' /\ Backed(credentials, s.passkey, s.member, 0)
      BY <2>3, <3>1, SessionSound
    <3>3. Sound(spends', members', credentials', calls'[c]) /\ Counts(credentials, calls'[c])
      BY <2>1, CarelessSound DEF Careless, Counts
    <3> QED BY <2>1, <3>1, <3>2, <3>3 DEF SoundStep
  <2> QED BY <1>7, <2>2, <2>3 DEF LoginPublished
<1> QED BY <1>1, <1>2, <1>3, <1>4, <1>5, <1>6, <1>7 DEF LoginBegins, LoginContinues

(* The segments of the operations of a member. *)
LEMMA MemberSound ==
  ASSUME TypeOK, Grows, NEW c \in Callers,
         Sound(spends, members, credentials, calls[c]), MemberBegins(c) \/ MemberContinues(c)
  PROVE  SoundStep(c)
<1> USE Slots, CallTyped, MemberLocals
    DEF At, Goto, Return, Idle, memory, issuance, storeVars
<1>1. CASE RebindDevice(c)
  <2>1. Sound(spends, members, credentials, calls'[c])
    BY <1>1 DEF RebindDevice, Sound
  <2> QED BY <1>1, <2>1, KeepsSound DEF RebindDevice
<1>2. CASE RebindChecked(c)
  <2>1. Sound(spends, members, credentials, calls'[c])
    BY <1>2 DEF RebindChecked, Sound
  <2> QED BY <1>2, <2>1, KeepsSound DEF RebindChecked
<1>3. CASE MemberRead(c)
  <2>1. CASE Return(c)
    BY <1>3, <2>1, StaysCareless DEF MemberRead, Careless
  <2>2. CASE Goto(c, [pc |-> "foundMember", session |-> calls[c].session,
                      auth |-> calls[c].auth,
                      until |-> ValidUntil(calls[c].session.member)])
    <3>1. Sound(spends, members, credentials, calls'[c])
      BY <1>3, <2>2, AnswerVouches DEF MemberRead, Sound
    <3> QED BY <1>3, <2>2, <3>1, KeepsSound DEF MemberRead
  <2> QED BY <1>3, <2>1, <2>2 DEF MemberRead
<1>4. CASE MemberFound(c)
  <2>1. CASE Return(c)
    BY <1>4, <2>1, StaysCareless DEF MemberFound, Careless
  <2>2. ASSUME NEW until \in calls[c].until, until > clock,
               CertificateFor(calls[c].auth, until).expiresAt > clock,
               Goto(c, [pc |-> "commitRebind", session |-> calls[c].session,
                        cert |-> CertificateFor(calls[c].auth, until)])
        PROVE  SoundStep(c)
    <3> DEFINE auth == calls[c].auth
    <3>1. /\ auth \in Authorizations /\ until \in Nat
          /\ Vouched(spends, members, auth.member, until)
      BY <1>4, <2>2 DEF MemberFound, Sound
    <3>2. Honoured(spends, members, CertificateFor(auth, until))
      BY <2>2, <3>1, CertificateSound
    <3>3. Sound(spends, members, credentials, calls'[c])
      BY <2>2, <3>2 DEF Sound
    <3> QED BY <1>4, <2>2, <3>3, KeepsSound DEF MemberFound
  <2> QED BY <1>4, <2>1, <2>2 DEF MemberFound
<1>5. CASE RebindCommitted(c)
  <2>1. \/ Goto(c, [pc |-> "publishRebind", cert |-> calls[c].cert, ok |-> TRUE])
        \/ Goto(c, Idle)
    BY <1>5, Zenon DEF RebindCommitted, Transaction
  <2>2. UNCHANGED <<memory, tokens, issued, issuance>>
    BY <1>5 DEF RebindCommitted
  <2>3. Honoured(spends', members', calls[c].cert)
    BY <1>5, HonouredGrows DEF RebindCommitted, Sound
  <2>4. Sound(spends', members', credentials', calls'[c])
    BY <2>1, <2>3 DEF Sound
  <2>5. Counts(credentials, calls'[c]) /\ calls'[c].pc # "granted"
    BY <2>1 DEF Counts
  <2> QED BY <2>1, <2>2, <2>4, <2>5, TransactionSound
<1>6. CASE RebindPublished(c)
  <2>1. Honoured(spends, members, calls[c].cert)
    BY <1>6 DEF RebindPublished, Sound
  <2>2. Sound(spends', members', credentials', calls'[c]) /\ Counts(credentials, calls'[c])
    BY <1>6, CarelessSound DEF RebindPublished, Careless, Counts
  <2> QED BY <1>6, <2>1, <2>2 DEF RebindPublished, SoundStep
<1>7. CASE AuthenticateSession(c)
  BY <1>7, StaysCareless DEF AuthenticateSession, Careless
<1>8. CASE OwnerRead(c)
  <2>1. CASE Return(c)
    BY <1>8, <2>1, StaysCareless DEF OwnerRead, Careless
  <2>2. CASE Goto(c, [pc |-> "foundOwner", session |-> calls[c].session,
                      until |-> ValidUntil(calls[c].session.member)])
    <3>1. Sound(spends, members, credentials, calls'[c])
      BY <1>8, <2>2, AnswerVouches DEF OwnerRead, Sound
    <3> QED BY <1>8, <2>2, <3>1, KeepsSound DEF OwnerRead
  <2> QED BY <1>8, <2>1, <2>2 DEF OwnerRead
<1>9. CASE OwnerFound(c)
  <2>1. CASE Return(c)
    BY <1>9, <2>1, StaysCareless DEF OwnerFound, Careless
  <2>2. CASE /\ \E until \in calls[c].until : until > clock
             /\ StillLive(calls[c].session)
             /\ Goto(c, [pc |-> "granted", session |-> calls[c].session, at |-> clock])
    <3> DEFINE s == calls[c].session
    <3>1. PICK until \in calls[c].until : until > clock
      BY <2>2
    <3>2. Vouched(spends, members, s.member, until) /\ until \in Nat
      BY <1>9 DEF OwnerFound, Sound
    <3>3. PICK y \in spends, x \in members :
            x.id = s.member /\ x.voucher = y.voucher /\ until <= y.expiresAt
      BY <3>2 DEF Vouched
    <3>4. y.expiresAt \in Nat /\ clock \in Nat
      BY Numbers DEF TypeOK, StoreTypeOK, Spend
    <3>5. y.expiresAt \in ValidUntil(s.member) /\ y.expiresAt > clock
      BY <3>1, <3>2, <3>3, <3>4 DEF ValidUntil
    <3>6. GrantsWell(calls'[c])
      BY <2>2, <3>5 DEF GrantsWell, StillLive
    <3>7. Sound(spends, members, credentials, calls'[c]) /\ Counts(credentials, calls'[c])
      BY <2>2 DEF Sound, Counts
    <3> QED BY <1>9, <2>2, <3>6, <3>7 DEF OwnerFound, SoundStep
  <2> QED BY <1>9, <2>1, <2>2 DEF OwnerFound
<1>10. CASE SessionUsed(c)
  BY <1>10, StaysCareless DEF SessionUsed, Careless
<1> QED BY <1>1, <1>2, <1>3, <1>4, <1>5, <1>6, <1>7, <1>8, <1>9, <1>10
        DEF MemberBegins, MemberContinues

(* The segments of issuing a credential. *)
LEMMA CredentialSound ==
  ASSUME TypeOK, NEW c \in Callers, Sound(spends, members, credentials, calls[c]),
         CredentialBegins(c) \/ CredentialContinues(c)
  PROVE  SoundStep(c)
<1> USE Slots, CallTyped, MemberLocals
    DEF At, Goto, Return, Idle, memory, issuance, storeVars
<1>1. CASE BeginCredential(c)
  BY <1>1, StaysCareless DEF BeginCredential, Careless
<1>2. CASE OfferActorRead(c)
  BY <1>2, StaysCareless DEF OfferActorRead, Careless
<1>3. CASE OfferActorFound(c)
  BY <1>3, StaysCareless DEF OfferActorFound, Careless
<1>4. CASE OfferMemberRead(c)
  BY <1>4, StaysCareless DEF OfferMemberRead, Careless
<1>5. CASE OfferMade(c)
  BY <1>5, StaysCareless DEF OfferMade, Careless
<1>6. CASE IssueCredential(c)
  BY <1>6, StaysCareless DEF IssueCredential, Careless
<1>7. CASE IssueActorRead(c)
  BY <1>7, StaysCareless DEF IssueActorRead, Careless
<1>8. CASE IssueActorFound(c)
  <2>1. Sound(spends, members, credentials, calls'[c])
    BY <1>8 DEF IssueActorFound, OfferOf, Sound
  <2> QED BY <1>8, <2>1, KeepsSound DEF IssueActorFound
<1>9. CASE IssueMemberRead(c)
  <2>1. CASE Return(c)
    BY <1>9, <2>1, StaysCareless DEF IssueMemberRead, Careless
  <2>2. CASE Goto(c, [pc |-> "issueMemberFound", actor |-> calls[c].actor,
                      offer |-> calls[c].offer, row |-> Lookup(calls[c].offer.member)])
    <3>1. Sound(spends, members, credentials, calls'[c])
      BY <1>9, <2>2, AnswerVouches DEF IssueMemberRead, Sound
    <3> QED BY <1>9, <2>2, <3>1, KeepsSound DEF IssueMemberRead
  <2> QED BY <1>9, <2>1, <2>2 DEF IssueMemberRead
<1>10. CASE IssueMemberFound(c)
  <2>1. CASE Return(c)
    BY <1>10, <2>1, StaysCareless DEF IssueMemberFound, Careless
  <2>2. ASSUME NEW r \in calls[c].row,
               Goto(c, [pc |-> "mint", actor |-> calls[c].actor,
                        offer |-> calls[c].offer, validUntil |-> Attest(r[2])])
        PROVE  SoundStep(c)
    <3> DEFINE m == calls[c].offer.member
    <3>1. Vouched(spends, members, m, r[2]) /\ r[2] \in Nat /\ calls[c].actor.member = m
      BY <1>10 DEF IssueMemberFound, Sound
    <3>2. Attest(r[2]) \in Nat /\ Attest(r[2]) <= r[2]
      BY <3>1, Numbers DEF Attest
    <3>3. Vouched(spends, members, m, Attest(r[2]))
      <4>1. PICK y \in spends, x \in members :
              x.id = m /\ x.voucher = y.voucher /\ r[2] <= y.expiresAt
        BY <3>1 DEF Vouched
      <4>2. y.expiresAt \in Nat
        BY DEF TypeOK, StoreTypeOK, Spend
      <4> QED BY <3>1, <3>2, <4>1, <4>2 DEF Vouched
    <3>4. Sound(spends, members, credentials, calls'[c])
      BY <2>2, <3>1, <3>3 DEF Sound
    <3> QED BY <1>10, <2>2, <3>4, KeepsSound DEF IssueMemberFound
  <2> QED BY <1>10, <2>1, <2>2 DEF IssueMemberFound
<1>11. CASE Minted(c)
  <2>1. Vouched(spends, members, calls[c].offer.member, calls[c].validUntil)
    BY <1>11 DEF Minted, Sound
  <2>2. Sound(spends', members', credentials', calls'[c]) /\ Counts(credentials, calls'[c])
    BY <1>11, CarelessSound DEF Minted, Careless, Counts
  <2> QED BY <1>11, <2>1, <2>2 DEF Minted, SoundStep
<1> QED BY <1>1, <1>2, <1>3, <1>4, <1>5, <1>6, <1>7, <1>8, <1>9, <1>10, <1>11
        DEF CredentialBegins, CredentialContinues

-----------------------------------------------------------------------------
SInv ==
    /\ \A c \in Callers : Sound(spends, members, credentials, calls[c])
    /\ \A s \in sessions : Backed(credentials, s.passkey, s.member, 0)
    /\ \A cert \in issued : Honoured(spends, members, cert)
    /\ \A y \in minted : Vouched(spends, members, y.member, y.validUntil)
    /\ CounterOnce

(* Every step of a call grows the tables, and is sound. *)
LEMMA CallSound ==
  ASSUME IInv, IInv', TablesAgree, SInv, NEW c \in Callers, Begins(c) \/ Continues(c)
  PROVE  Grows /\ SoundStep(c)
<1>1. Grows
  <2>1. StoreTypeOK /\ StoreTypeOK' /\ [StoreNext]_storeVars
    BY CallStep DEF IInv, TypeOK, EntryStep
  <2> QED BY <2>1, TablesGrow
<1>2. TypeOK /\ Sound(spends, members, credentials, calls[c])
  BY DEF IInv, SInv
<1> QED BY <1>1, <1>2, RegistrationSound, LoginSound, MemberSound, CredentialSound
        DEF Begins, Continues

(* A login that passes the store took a counter above those before it. *)
LEMMA CounterOnceKept ==
  ASSUME TypeOK, TypeOK', SInv, NEW c \in Callers, SoundStep(c), Grows
  PROVE  CounterOnce'
<1> DEFINE Passed(d) == calls'[d].pc = "publishLogin" /\ calls'[d].ok
<1>1. ASSUME NEW d \in Callers, Passed(d)
      PROVE  calls'[d].counter \in Nat
  <2>1. calls'[d] \in Call
    BY DEF TypeOK
  <2> QED BY <1>1, <2>1, Locals, StoreAssumption DEF Counters
<1>2. ASSUME NEW d \in Callers, Passed(d)
      PROVE  Backed(credentials', calls'[d].passkey, calls'[d].member, calls'[d].counter)
  <2>1. CASE d = c
    BY <1>2, <2>1 DEF SoundStep, Sound
  <2>2. CASE d # c
    <3>1. calls'[d] = calls[d] /\ Sound(spends, members, credentials, calls[d])
      BY <2>2 DEF SoundStep, SInv
    <3>2. Backed(credentials, calls[d].passkey, calls[d].member, calls[d].counter)
      BY <1>2, <3>1 DEF Sound
    <3> QED BY <1>1, <1>2, <3>1, <3>2, BackedGrows
  <2> QED BY <2>1, <2>2
<1>3. ASSUME NEW d \in Callers \ {c}, Passed(c), Passed(d), calls'[c].counter > 0,
             calls'[d].passkey = calls'[c].passkey
      PROVE  calls'[d].counter < calls'[c].counter
  <2>1. calls'[d] = calls[d] /\ Sound(spends, members, credentials, calls[d])
    BY <1>3 DEF SoundStep, SInv
  <2>2. PICK y \in credentials : y.id = calls[d].passkey /\ y.counter >= calls[d].counter
    BY <1>3, <2>1 DEF Sound, Backed
  <2>3. y.counter < calls'[c].counter
    BY <1>3, <2>1, <2>2 DEF SoundStep, Counts
  <2>4. y.counter \in Nat
    BY DEF Grows
  <2> QED BY <1>1, <1>3, <2>1, <2>2, <2>3, <2>4
<1>4. ASSUME NEW d \in Callers, Passed(d), calls'[d].counter > 0,
             NEW e \in Callers \ {d}, Passed(e), calls'[e].passkey = calls'[d].passkey
      PROVE  calls'[e].counter # calls'[d].counter
  <2>1. CASE d = c
    BY <1>1, <1>3, <1>4, <2>1
  <2>2. CASE e = c
    <3>1. CASE calls'[e].counter > 0
      BY <1>1, <1>3, <1>4, <2>2, <3>1
    <3>2. CASE ~(calls'[e].counter > 0)
      BY <1>4, <3>2
    <3> QED BY <3>1, <3>2
  <2>3. CASE d # c /\ e # c
    <3>1. calls'[d] = calls[d] /\ calls'[e] = calls[e]
      BY <2>3 DEF SoundStep
    <3> QED BY <1>4, <3>1 DEF SInv, CounterOnce, At
  <2> QED BY <2>1, <2>2, <2>3
<1>5. ASSUME NEW d \in Callers, Passed(d)
      PROVE  \E x \in credentials' :
               x.id = calls'[d].passkey /\ x.counter >= calls'[d].counter
  BY <1>2, <1>5 DEF Backed
<1> QED BY <1>4, <1>5 DEF CounterOnce, At

(* A sound step keeps all of it. *)
LEMMA SoundStepKeeps ==
  ASSUME TypeOK, TypeOK', SInv, NEW c \in Callers, SoundStep(c), Grows
  PROVE  SInv'
<1>1. ASSUME NEW d \in Callers
      PROVE  Sound(spends', members', credentials', calls'[d])
  <2>1. CASE d = c
    BY <2>1 DEF SoundStep
  <2>2. CASE d # c
    <3>1. calls'[d] = calls[d] /\ Sound(spends, members, credentials, calls[d])
      BY <2>2 DEF SoundStep, SInv
    <3> QED BY <3>1, CallTyped, SoundGrows
  <2> QED BY <2>1, <2>2
<1>2. ASSUME NEW s \in sessions' PROVE Backed(credentials', s.passkey, s.member, 0)
  <2>1. Backed(credentials, s.passkey, s.member, 0)
    BY DEF SoundStep, SInv
  <2> QED BY <2>1, BackedGrows
<1>3. ASSUME NEW cert \in issued' PROVE Honoured(spends', members', cert)
  BY HonouredGrows DEF SoundStep, SInv
<1>4. ASSUME NEW y \in minted'
      PROVE  Vouched(spends', members', y.member, y.validUntil)
  BY VouchedGrows DEF SoundStep, SInv
<1>5. CounterOnce'
  BY CounterOnceKept
<1> QED BY <1>1, <1>2, <1>3, <1>4, <1>5 DEF SInv

(* Growing tables keep it too. *)
LEMMA SInvGrows ==
  ASSUME TypeOK, SInv, Grows, UNCHANGED <<sessions, calls, issued, minted>>
  PROVE  SInv'
<1>1. ASSUME NEW c \in Callers PROVE Sound(spends', members', credentials', calls'[c])
  BY CallTyped, SoundGrows DEF SInv
<1>2. ASSUME NEW s \in sessions' PROVE Backed(credentials', s.passkey, s.member, 0)
  BY BackedGrows DEF SInv
<1>3. ASSUME NEW cert \in issued' PROVE Honoured(spends', members', cert)
  BY HonouredGrows DEF SInv
<1>4. ASSUME NEW y \in minted' PROVE Vouched(spends', members', y.member, y.validUntil)
  BY VouchedGrows DEF SInv
<1>5. CounterOnce'
  <2>1. ASSUME NEW c \in Callers, calls[c].pc = "publishLogin", calls[c].ok
        PROVE  \E x \in credentials' :
                  x.id = calls[c].passkey /\ x.counter >= calls[c].counter
    BY <1>1, <2>1 DEF Sound, Backed
  <2> QED BY <2>1 DEF SInv, CounterOnce, At
<1> QED BY <1>1, <1>2, <1>3, <1>4, <1>5 DEF SInv

(* So it is inductive. *)
LEMMA SInvKept ==
  ASSUME IInv, IInv', TablesAgree, SInv, [Next]_entryVars
  PROVE  SInv'
<1>1. ASSUME NEW c \in Callers, Begins(c) \/ Continues(c) PROVE SInv'
  BY <1>1, CallSound, SoundStepKeeps DEF IInv
<1>2. CASE UNCHANGED <<spends, members, credentials, calls, issued, minted>>
           /\ sessions' \subseteq sessions
  BY <1>2 DEF SInv, CounterOnce, At
<1>3. CASE Restart
  <2>1. /\ UNCHANGED <<spends, members, credentials, issued, minted>> /\ sessions' = {}
        /\ calls' = [c \in Callers |-> Idle]
    BY <1>3 DEF Restart, storeVars
  <2>2. \A c \in Callers : /\ Sound(spends, members, credentials, calls'[c])
                           /\ calls'[c].pc = "idle"
    BY <2>1, CarelessSound DEF Careless, Idle
  <2>3. CounterOnce'
    BY <2>2 DEF CounterOnce, At
  <2> QED BY <2>1, <2>2, <2>3 DEF SInv
<1>6. CASE OtherServices
  <2>1. /\ StoreTypeOK /\ StoreTypeOK' /\ [StoreNext]_storeVars
        /\ UNCHANGED <<sessions, calls, issued, minted>>
    BY <1>6, OtherServicesStore DEF IInv, TypeOK, OtherServices, memory, issuance
  <2>2. Grows
    BY <2>1, TablesGrow
  <2> QED BY <2>1, <2>2, SInvGrows DEF IInv
<1>4. CASE Environment
  BY <1>2, <1>3, <1>4, <1>6
     DEF Environment, GetSession, RevokeSession, Tick, tables, storeVars, memory, issuance
<1>5. CASE UNCHANGED entryVars
  BY <1>2, <1>5 DEF entryVars, storeVars
<1> QED BY <1>1, <1>4, <1>5 DEF Next

LEMMA SInvInit == EntryInit => SInv
BY CarelessSound DEF EntryInit, SInv, CounterOnce, At, Careless, Idle

LEMMA SInvInductive == Spec => []SInv
<1>1. EntryInit => SInv
  BY SInvInit
<1>2. IInv /\ IInv' /\ TablesAgree /\ SInv /\ [Next]_entryVars => SInv'
  BY SInvKept
<1> QED BY <1>1, <1>2, IInvInductive, TablesSound, PTL DEF Spec

(* A session stands for a passkey the store holds for its member. *)
THEOREM SessionsAlwaysBacked == Spec => []SessionsBackedByStore
<1>1. SInv => SessionsBackedByStore
  BY DEF SInv, SessionsBackedByStore, Backed
<1> QED BY <1>1, SInvInductive, PTL

(* No certificate outlives the voucher or the authorization it was made from. *)
THEOREM CertificatesAlwaysHonoured == Spec => []CertificatesHonoured
<1>1. SInv => CertificatesHonoured
  BY DEF SInv, CertificatesHonoured, Honoured, Vouched, ValidUntil
<1> QED BY <1>1, SInvInductive, PTL

(* No credential outlives the voucher of the member who asked for it. *)
THEOREM CredentialsAlwaysHonoured == Spec => []CredentialsHonoured
<1>1. SInv => CredentialsHonoured
  BY DEF SInv, CredentialsHonoured, Sound, Vouched, ValidUntil, At
<1> QED BY <1>1, SInvInductive, PTL

(* Two logins that passed the store never carry the same counter. *)
THEOREM CountersUsedOnce == Spec => []CounterOnce
<1>1. SInv => CounterOnce
  BY DEF SInv
<1> QED BY <1>1, SInvInductive, PTL

(* A login opens a session only with a counter the store has kept. *)
THEOREM LoginsAlwaysCounted == Spec => LoginsAreCounted
<1> DEFINE Counted ==
      \A c \in Callers :
         At(c, "publishLogin") /\ ~(sessions' \subseteq sessions) /\ calls'[c] # calls[c] =>
           \E x \in credentials : x.id = calls[c].passkey /\ x.counter >= calls[c].counter
<1>1. IInv /\ IInv' /\ TablesAgree /\ SInv /\ [Next]_entryVars => [Counted]_entryVars
  <2> SUFFICES ASSUME IInv, IInv', TablesAgree, SInv, [Next]_entryVars,
                      NEW c \in Callers, At(c, "publishLogin"),
                      ~(sessions' \subseteq sessions), calls'[c] # calls[c]
               PROVE  \E x \in credentials :
                         x.id = calls[c].passkey /\ x.counter >= calls[c].counter
    OBVIOUS
  <2>1. ~Environment /\ ~UNCHANGED entryVars
    BY DEF Environment, GetSession, RevokeSession, OtherServices, Restart, entryVars, memory
  <2>2. PICK d \in Callers : Begins(d) \/ Continues(d)
    BY <2>1 DEF Next
  <2>3. SoundStep(d)
    BY <2>2, CallSound
  <2>4. d = c /\ calls[c].ok
    BY <2>3 DEF SoundStep
  <2> QED BY <2>4 DEF SInv, Sound, Backed, At
<1> QED BY <1>1, IInvInductive, SInvInductive, TablesSound, PTL DEF Spec, LoginsAreCounted

(* Whoever is told a session is authenticated is told of a live one. *)
THEOREM GrantsAlwaysLive == Spec => GrantsOnlyLiveSessions
<1> DEFINE Granted ==
      \A c \in Callers : ~At(c, "granted") /\ calls'[c].pc = "granted" =>
         LET s == calls'[c].session IN
         /\ s \in sessions /\ s.expiresAt > clock
         /\ \E until \in ValidUntil(s.member) : until > clock
<1>1. IInv /\ IInv' /\ TablesAgree /\ SInv /\ [Next]_entryVars => [Granted]_entryVars
  <2> SUFFICES ASSUME IInv, IInv', TablesAgree, SInv, [Next]_entryVars,
                      NEW c \in Callers, ~At(c, "granted"), calls'[c].pc = "granted"
               PROVE  GrantsWell(calls'[c])
    BY DEF GrantsWell
  <2>1. ~Environment /\ ~UNCHANGED entryVars
    <3>1. OtherServices => UNCHANGED calls
      BY DEF OtherServices
    <3> QED BY <3>1 DEF Environment, GetSession, RevokeSession, Restart, entryVars, At, Idle
  <2>2. PICK d \in Callers : Begins(d) \/ Continues(d)
    BY <2>1 DEF Next
  <2>3. SoundStep(d)
    BY <2>2, CallSound
  <2> QED BY <2>3 DEF SoundStep, At
<1> QED BY <1>1, IInvInductive, SInvInductive, TablesSound, PTL
        DEF Spec, GrantsOnlyLiveSessions

-----------------------------------------------------------------------------
(* A session has the id it was given, and ids are drawn in order. *)
Numbered == \A s \in sessions : s.id <= tokens

LEMMA NumberedInductive == Spec => []Numbered
<1>1. EntryInit => Numbered
  BY DEF EntryInit, Numbered
<1>2. IInv /\ IInv' /\ TablesAgree /\ SInv /\ UInv /\ Numbered /\ [Next]_entryVars => Numbered'
  <2> SUFFICES ASSUME IInv, IInv', TablesAgree, SInv, UInv, Numbered, [Next]_entryVars
               PROVE  Numbered'
    OBVIOUS
  <2>1. ASSUME NEW c \in Callers, Begins(c) \/ Continues(c) PROVE Numbered'
    <3>1. SoundStep(c)
      BY <2>1, CallSound
    <3>2. UseStep(c)
      BY <2>1, RegistrationUses, LoginUses, MemberUses, CredentialUses
         DEF Begins, Continues, IInv, UInv
    <3>3. tokens \in Nat /\ \A s \in sessions : s.id \in Nat
      BY DEF IInv, TypeOK, Session
    <3> QED BY <3>1, <3>2, <3>3 DEF SoundStep, UseStep, Numbered
  <2>2. CASE Environment
    BY <2>2 DEF Environment, GetSession, RevokeSession, OtherServices, Restart, memory, Numbered
  <2>3. CASE UNCHANGED entryVars
    BY <2>3 DEF entryVars, memory, Numbered
  <2> QED BY <2>1, <2>2, <2>3 DEF Next
<1> QED BY <1>1, <1>2, IInvInductive, SInvInductive, UInvInductive, TablesSound, PTL DEF Spec

(* A call that has the store's answer does nothing but publish it. *)
LEMMA OnlyPublishes ==
  ASSUME NEW c \in Callers, Begins(c) \/ Continues(c),
         At(c, "publishMember") \/ At(c, "publishLogin")
  PROVE  MemberPublished(c) \/ LoginPublished(c)
<1> USE DEF At
<1>1. ~RegistrationBegins(c) /\ ~LoginBegins(c) /\ ~MemberBegins(c) /\ ~CredentialBegins(c)
  BY DEF RegistrationBegins, BeginRegistration, Precommit, FinishRegistration,
         LoginBegins, BeginAuthentication, FinishAuthentication,
         MemberBegins, RebindDevice, AuthenticateSession,
         CredentialBegins, BeginCredential, IssueCredential
<1>2. RegistrationContinues(c) => MemberPublished(c)
  BY DEF RegistrationContinues, DeviceChecked, MemberLookedUp, ChallengeReserved,
         PasskeyVerified, WalletOffered, WalletVerified, VoucherVerified, MemberCommitted
<1>3. LoginContinues(c) => LoginPublished(c)
  BY DEF LoginContinues, PasskeyRead, PasskeyFound, LoginVerified, CounterCommitted
<1>4. ~MemberContinues(c)
  BY DEF MemberContinues, RebindChecked, MemberRead, MemberFound, RebindCommitted,
         RebindPublished, OwnerRead, OwnerFound, SessionUsed
<1>5. ~CredentialContinues(c)
  BY DEF CredentialContinues, OfferActorRead, OfferActorFound, OfferMemberRead, OfferMade,
         IssueActorRead, IssueActorFound, IssueMemberRead, IssueMemberFound, Minted
<1> QED BY <1>1, <1>2, <1>3, <1>4, <1>5 DEF Begins, Continues

(* The place a call has reserved is there for its session. *)
LEMMA ReservedPlace ==
  ASSUME IInv, Numbered, NEW c \in Callers, Holds(calls[c]), NEW m, NEW p, NewSession(m, p)
  PROVE  \E s \in sessions' : s.id = tokens' /\ s \notin sessions
<1> DEFINE kept == Live(sessions, clock)
           s == [id |-> tokens + 1, member |-> m, passkey |-> p,
                 expiresAt |-> clock + SessionLifetime]
<1>1. IsFiniteSet(kept) /\ Cardinality(kept) <= Cardinality(sessions)
  BY FS_Subset DEF IInv, Live
<1>2. /\ Cardinality(kept) \in Nat /\ Cardinality(sessions) \in Nat
      /\ reserved \in Nat /\ MaxSessions \in Nat /\ tokens \in Nat
  BY <1>1, FS_CardinalityType, EntryAssumption DEF IInv, TypeOK
<1>3. Cardinality(sessions) + reserved <= MaxSessions
  BY DEF IInv, SessionCapacity
<1>4. Cardinality(kept) + reserved - 1 < MaxSessions
  BY <1>1, <1>2, <1>3
<1>5. tokens' = tokens + 1 /\ sessions' = kept \cup {s}
  BY <1>4 DEF NewSession
<1>6. s \notin sessions
  BY <1>2 DEF Numbered
<1> QED BY <1>5, <1>6

(* A call acknowledged in time always gets its session. *)
THEOREM ReservationsAlwaysHonoured == Spec => ReservationHonoured
<1> DEFINE Honours ==
      boots' = boots =>
        \A c \in Callers : InTimeToPublish(c) /\ calls'[c] # calls[c] =>
            \E s \in sessions' : s.id = tokens' /\ s \notin sessions
<1>1. IInv /\ IInv' /\ TablesAgree /\ SInv /\ Numbered /\ [Next]_entryVars
        => [Honours]_entryVars
  <2> SUFFICES ASSUME IInv, IInv', TablesAgree, SInv, Numbered, [Next]_entryVars,
                      boots' = boots, NEW c \in Callers, InTimeToPublish(c),
                      calls'[c] # calls[c]
               PROVE  \E s \in sessions' : s.id = tokens' /\ s \notin sessions
    OBVIOUS
  <2>1. ~Environment /\ ~UNCHANGED entryVars
    <3>1. boots \in Nat
      BY DEF IInv, TypeOK
    <3>2. OtherServices => UNCHANGED calls
      BY DEF OtherServices
    <3> QED BY <3>1, <3>2 DEF Environment, GetSession, RevokeSession, Restart, entryVars
  <2>2. PICK d \in Callers : Begins(d) \/ Continues(d)
    BY <2>1 DEF Next
  <2>3. d = c
    BY <2>2, CallSound DEF SoundStep
  <2>4. Holds(calls[c]) /\ (At(c, "publishMember") \/ At(c, "publishLogin"))
    BY DEF InTimeToPublish, At, Holds
  <2>5. CASE MemberPublished(c)
    BY <2>4, <2>5, ReservedPlace DEF InTimeToPublish, MemberPublished, MayPublish, At
  <2>6. CASE LoginPublished(c)
    BY <2>4, <2>6, ReservedPlace DEF InTimeToPublish, LoginPublished, MayOpenSession, At
  <2> QED BY <2>2, <2>3, <2>4, <2>5, <2>6, OnlyPublishes
<1> QED BY <1>1, IInvInductive, SInvInductive, NumberedInductive, TablesSound, PTL
        DEF Spec, ReservationHonoured

-----------------------------------------------------------------------------
(***************************************************************************)
(* What a segment does to what the service shares with the other services: *)
(* it registers the member of an authorization, moves a counter, rebinds a *)
(* device, or leaves the tables alone; it may retire the handle and make a *)
(* credential.  This is what the others assume of it, whoever else is at   *)
(* work.                                                                   *)
(***************************************************************************)
EntryUses ==
    /\ \/ \E req \in Request :
             /\ req.at \in 1 .. clock /\ req.member \in {a.member : a \in Authorizations}
             /\ RegisterWithVoucher(req)
       \/ \E p \in Passkeys, n \in Counters : UpdateCounter(p, n)
       \/ \E m \in Members, d \in Devices, at \in 1 .. clock : Rebind(m, d, at)
       \/ UNCHANGED storeVars
    /\ retired' \in {retired, TRUE}
    /\ minted \subseteq minted'
    /\ UNCHANGED boots

LEMMA MemberCommittedUses ==
  ASSUME IInv, NEW c \in Callers, MemberCommitted(c)
  PROVE  EntryUses
<1> DEFINE ch == calls[c].ch
           req == Redemption(calls[c])
<1>1. calls[c] \in [pc : {"commitMember"}, ch : WalletChallenge, counter : Counters, at : Nat]
  BY CallTyped, Locals DEF IInv, MemberCommitted, At
<1>2. calls[c].at \in 1 .. clock
  BY <1>1 DEF IInv, Started, Timely
<1>3. ch.voucher \in Vouchers /\ ch.auth \in Authorizations /\ ch.passkey \in Passkeys
  BY <1>1 DEF WalletChallenge
<1>4. ch.auth.member \in Members /\ ch.auth.device \in Devices
  BY <1>3, EntryAssumption DEF Authorization
<1>5. /\ req \in Request /\ req.at \in 1 .. clock
      /\ req.member \in {a.member : a \in Authorizations}
  BY <1>1, <1>2, <1>3, <1>4 DEF Redemption, Request
<1>6. RegisterWithVoucher(req) \/ UNCHANGED storeVars
  BY Zenon DEF MemberCommitted, Transaction
<1>7. retired' \in {retired, TRUE} /\ UNCHANGED <<boots, minted>>
  BY DEF MemberCommitted, Transaction, issuance
<1> HIDE DEF req
<1> QED BY <1>5, <1>6, <1>7 DEF EntryUses

LEMMA CounterCommittedUses ==
  ASSUME IInv, NEW c \in Callers, CounterCommitted(c)
  PROVE  EntryUses
<1>1. calls[c].passkey \in Passkeys /\ calls[c].counter \in Counters
  BY CallTyped, Locals DEF IInv, CounterCommitted, At
<1>2. UpdateCounter(calls[c].passkey, calls[c].counter) \/ UNCHANGED storeVars
  BY Zenon DEF CounterCommitted, Transaction
<1>3. retired' \in {retired, TRUE} /\ UNCHANGED <<boots, minted>>
  BY DEF CounterCommitted, Transaction, issuance
<1> QED BY <1>1, <1>2, <1>3 DEF EntryUses

LEMMA RebindCommittedUses ==
  ASSUME IInv, NEW c \in Callers, RebindCommitted(c)
  PROVE  EntryUses
<1> DEFINE cert == calls[c].cert
<1>1. cert \in Certificate
  BY CallTyped, MemberLocals DEF IInv, RebindCommitted, At
<1>2. cert.issuedAt \in 1 .. clock
  BY DEF IInv, Started, Timely, RebindCommitted, At
<1>3. cert.member \in Members /\ cert.device \in Devices
  BY <1>1 DEF Certificate
<1>4. Rebind(cert.member, cert.device, cert.issuedAt) \/ UNCHANGED storeVars
  BY Zenon DEF RebindCommitted, Transaction
<1>5. retired' \in {retired, TRUE} /\ UNCHANGED <<boots, minted>>
  BY DEF RebindCommitted, Transaction, issuance
<1> HIDE DEF cert
<1> QED BY <1>2, <1>3, <1>4, <1>5 DEF EntryUses

LEMMA CallUses ==
  ASSUME IInv, NEW c \in Callers, Begins(c) \/ Continues(c)
  PROVE  EntryUses
<1>1. CASE UNCHANGED <<storeVars, retired, boots>> /\ minted \subseteq minted'
  BY <1>1 DEF EntryUses
<1>2. CASE RegistrationBegins(c) \/ RegistrationContinues(c)
  <2>1. \/ MemberCommitted(c)
        \/ UNCHANGED <<storeVars, retired, boots, minted>>
    BY <1>2
       DEF RegistrationBegins, BeginRegistration, Precommit, FinishRegistration,
           RegistrationContinues, DeviceChecked, MemberLookedUp, ChallengeReserved,
           PasskeyVerified, WalletOffered, WalletVerified, VoucherVerified, MemberPublished, issuance
  <2> QED BY <1>1, <2>1, MemberCommittedUses
<1>3. CASE LoginBegins(c) \/ LoginContinues(c)
  <2>1. \/ CounterCommitted(c)
        \/ UNCHANGED <<storeVars, retired, boots, minted>>
    BY <1>3
       DEF LoginBegins, BeginAuthentication, FinishAuthentication, LoginContinues,
           PasskeyRead, PasskeyFound, LoginVerified, LoginPublished,
           issuance
  <2> QED BY <1>1, <2>1, CounterCommittedUses
<1>4. CASE MemberBegins(c) \/ MemberContinues(c)
  <2>1. \/ RebindCommitted(c)
        \/ UNCHANGED <<storeVars, retired, boots, minted>>
    BY <1>4
       DEF MemberBegins, RebindDevice, AuthenticateSession, MemberContinues, RebindChecked,
           MemberRead, MemberFound, RebindPublished, OwnerRead, OwnerFound, SessionUsed,
           issuance
  <2> QED BY <1>1, <2>1, RebindCommittedUses
<1>5. CASE CredentialBegins(c) \/ CredentialContinues(c)
  BY <1>1, <1>5
     DEF CredentialBegins, BeginCredential, IssueCredential, CredentialContinues,
         OfferActorRead, OfferActorFound, OfferMemberRead, OfferMade, IssueActorRead,
         IssueActorFound, IssueMemberRead, IssueMemberFound, Minted,
         issuance
<1> QED BY <1>2, <1>3, <1>4, <1>5 DEF Begins, Continues
-----------------------------------------------------------------------------
(***************************************************************************)
(* Where a segment takes a call: to the store only while the handle is     *)
(* usable, to the issuer only after the offer's member has been found; and *)
(* the tables change only when a call comes back from the store.           *)
(***************************************************************************)
Heads(c) ==
    /\ \A d \in Callers \ {c} : calls'[d] = calls[d]
    /\ calls'[c].pc \in AtStore => calls'[c].pc = calls[c].pc \/ Usable
    /\ calls'[c].pc = "mint" => calls[c].pc = "mint" \/ IssueMemberFound(c)
    /\ \/ UNCHANGED <<spends, members, credentials>>
       \/ calls[c].pc \in AtStore /\ calls'[c].pc \notin AtStore

LEMMA RegistrationHeads ==
  ASSUME TypeOK, NEW c \in Callers, RegistrationBegins(c) \/ RegistrationContinues(c)
  PROVE  Heads(c)
<1> USE Slots DEF At, Goto, Return, Idle, AtStore, Heads, storeVars
<1>1. CASE BeginRegistration(c)
  BY <1>1 DEF BeginRegistration
<1>2. CASE Precommit(c)
  BY <1>2 DEF Precommit
<1>3. CASE FinishRegistration(c)
  BY <1>3 DEF FinishRegistration
<1>4. CASE DeviceChecked(c)
  BY <1>4, CallTyped, Locals DEF DeviceChecked
<1>5. CASE MemberLookedUp(c)
  BY <1>5, CallTyped, Locals DEF MemberLookedUp
<1>6. CASE ChallengeReserved(c)
  BY <1>6 DEF ChallengeReserved
<1>7. CASE PasskeyVerified(c)
  BY <1>7 DEF PasskeyVerified
<1>8. CASE WalletOffered(c)
  BY <1>8 DEF WalletOffered
<1>9. CASE WalletVerified(c)
  BY <1>9 DEF WalletVerified
<1>10. CASE VoucherVerified(c)
  BY <1>10 DEF VoucherVerified
<1>11. CASE MemberCommitted(c)
  <2>1. \E ok \in BOOLEAN : Goto(c, [pc |-> "publishMember", ch |-> calls[c].ch, ok |-> ok])
    BY <1>11, Zenon DEF MemberCommitted, Transaction
  <2>2. calls[c].pc = "commitMember"
    BY <1>11 DEF MemberCommitted
  <2> QED BY <2>1, <2>2
<1>12. CASE MemberPublished(c)
  BY <1>12 DEF MemberPublished
<1> QED BY <1>1, <1>2, <1>3, <1>4, <1>5, <1>6, <1>7, <1>8, <1>9, <1>10, <1>11,
        <1>12
        DEF RegistrationBegins, RegistrationContinues

LEMMA LoginHeads ==
  ASSUME TypeOK, NEW c \in Callers, LoginBegins(c) \/ LoginContinues(c)
  PROVE  Heads(c)
<1> USE Slots DEF At, Goto, Return, Idle, AtStore, Heads, storeVars
<1>1. CASE BeginAuthentication(c)
  BY <1>1 DEF BeginAuthentication
<1>2. CASE FinishAuthentication(c)
  BY <1>2 DEF FinishAuthentication
<1>3. CASE PasskeyRead(c)
  BY <1>3 DEF PasskeyRead
<1>4. CASE PasskeyFound(c)
  BY <1>4, CallTyped, Locals DEF PasskeyFound
<1>5. CASE LoginVerified(c)
  BY <1>5 DEF LoginVerified
<1>6. CASE CounterCommitted(c)
  <2>1. \E ok \in BOOLEAN : Goto(c, LoginAnswered(c, ok))
    BY <1>6, Zenon DEF CounterCommitted, Transaction
  <2>2. calls[c].pc = "commitCounter"
    BY <1>6 DEF CounterCommitted
  <2> QED BY <2>1, <2>2 DEF LoginAnswered
<1>7. CASE LoginPublished(c)
  BY <1>7 DEF LoginPublished
<1> QED BY <1>1, <1>2, <1>3, <1>4, <1>5, <1>6, <1>7
        DEF LoginBegins, LoginContinues

LEMMA MemberHeads ==
  ASSUME TypeOK, NEW c \in Callers, MemberBegins(c) \/ MemberContinues(c)
  PROVE  Heads(c)
<1> USE Slots DEF At, Goto, Return, Idle, AtStore, Heads, storeVars
<1>1. CASE RebindDevice(c)
  BY <1>1 DEF RebindDevice
<1>2. CASE AuthenticateSession(c)
  BY <1>2 DEF AuthenticateSession
<1>3. CASE RebindChecked(c)
  BY <1>3, CallTyped, MemberLocals DEF RebindChecked
<1>4. CASE MemberRead(c)
  BY <1>4 DEF MemberRead
<1>5. CASE MemberFound(c)
  BY <1>5 DEF MemberFound
<1>6. CASE RebindCommitted(c)
  <2>1. \/ Goto(c, [pc |-> "publishRebind", cert |-> calls[c].cert, ok |-> TRUE])
        \/ Goto(c, Idle)
    BY <1>6, Zenon DEF RebindCommitted, Transaction
  <2>2. calls[c].pc = "commitRebind"
    BY <1>6 DEF RebindCommitted
  <2> QED BY <2>1, <2>2
<1>7. CASE RebindPublished(c)
  BY <1>7 DEF RebindPublished
<1>8. CASE OwnerRead(c)
  BY <1>8 DEF OwnerRead
<1>9. CASE OwnerFound(c)
  BY <1>9 DEF OwnerFound
<1>10. CASE SessionUsed(c)
  BY <1>10 DEF SessionUsed
<1> QED BY <1>1, <1>2, <1>3, <1>4, <1>5, <1>6, <1>7, <1>8, <1>9, <1>10
        DEF MemberBegins, MemberContinues

LEMMA CredentialHeads ==
  ASSUME TypeOK, NEW c \in Callers, CredentialBegins(c) \/ CredentialContinues(c)
  PROVE  Heads(c)
<1> USE Slots DEF At, Goto, Return, Idle, AtStore, Heads, storeVars
<1>1. CASE BeginCredential(c)
  BY <1>1 DEF BeginCredential
<1>2. CASE IssueCredential(c)
  BY <1>2 DEF IssueCredential
<1>3. CASE OfferActorRead(c)
  BY <1>3 DEF OfferActorRead
<1>4. CASE OfferActorFound(c)
  BY <1>4 DEF OfferActorFound
<1>5. CASE OfferMemberRead(c)
  BY <1>5 DEF OfferMemberRead
<1>6. CASE OfferMade(c)
  BY <1>6 DEF OfferMade
<1>7. CASE IssueActorRead(c)
  BY <1>7 DEF IssueActorRead
<1>8. CASE IssueActorFound(c)
  BY <1>8 DEF IssueActorFound
<1>9. CASE IssueMemberRead(c)
  BY <1>9 DEF IssueMemberRead
<1>10. CASE IssueMemberFound(c)
  BY <1>10 DEF IssueMemberFound
<1>11. CASE Minted(c)
  BY <1>11 DEF Minted
<1> QED BY <1>1, <1>2, <1>3, <1>4, <1>5, <1>6, <1>7, <1>8, <1>9, <1>10, <1>11
        DEF CredentialBegins, CredentialContinues

LEMMA CallHeads ==
  ASSUME TypeOK, NEW c \in Callers, Begins(c) \/ Continues(c)
  PROVE  Heads(c)
BY RegistrationHeads, LoginHeads, MemberHeads, CredentialHeads DEF Begins, Continues

(* The issuer is asked for a live actor and for what its voucher allows.   *)
THEOREM AskedAlwaysByLiveActors == Spec => AskedByLiveActors
<1> DEFINE AsksWell(x) ==
      /\ x.actor.session # None =>
           x.actor.session \in sessions /\ x.actor.session.expiresAt > clock
      /\ x.actor.member = x.offer.member
      /\ \E until \in ValidUntil(x.actor.member) : until > clock /\ x.validUntil <= until
<1> DEFINE Asked ==
      \A c \in Callers : ~At(c, "mint") /\ calls'[c].pc = "mint" => AsksWell(calls'[c])
<1>1. IInv /\ IInv' /\ TablesAgree /\ SInv /\ [Next]_entryVars => [Asked]_entryVars
  <2> SUFFICES ASSUME IInv, IInv', TablesAgree, SInv, [Next]_entryVars,
                      NEW c \in Callers, ~At(c, "mint"), calls'[c].pc = "mint"
               PROVE  AsksWell(calls'[c])
    OBVIOUS
  <2>1. ~Environment /\ ~UNCHANGED entryVars
    <3>1. OtherServices => UNCHANGED calls
      BY DEF OtherServices
    <3> QED BY <3>1 DEF Environment, GetSession, RevokeSession, Restart, entryVars, At, Idle
  <2>2. PICK d \in Callers : Begins(d) \/ Continues(d)
    BY <2>1 DEF Next
  <2>3. d = c
    BY <2>2, CallSound DEF SoundStep, At
  <2>4. TypeOK /\ IssueMemberFound(c)
    BY <2>2, <2>3, CallHeads DEF IInv, At, Heads
  <2> DEFINE offer == calls[c].offer
  <2>5. PICK r \in calls[c].row :
           /\ r[2] > clock /\ ActorLive(calls[c].actor)
           /\ Goto(c, [pc |-> "mint", actor |-> calls[c].actor, offer |-> offer,
                       validUntil |-> Attest(r[2])])
    BY <2>4, Slots DEF IssueMemberFound, Return, Goto, Idle
  <2>6. /\ calls'[c].actor = calls[c].actor /\ calls'[c].offer = offer
        /\ calls'[c].validUntil = Attest(r[2])
    BY <2>4, <2>5, Slots DEF Goto
  <2>7. /\ calls[c].actor.member = offer.member
        /\ Vouched(spends, members, offer.member, r[2])
    BY <2>4 DEF SInv, Sound, IssueMemberFound, At
  <2>8. PICK s \in spends, x \in members :
           x.id = offer.member /\ x.voucher = s.voucher /\ r[2] <= s.expiresAt
    BY <2>7 DEF Vouched
  <2>9. clock \in Nat /\ s.expiresAt \in Nat /\ r[2] \in Nat
    <3>1. calls[c] \in Call /\ calls[c].pc = "issueMemberFound"
      BY <2>4, Slots DEF IssueMemberFound, At
    <3>2. calls[c].row \subseteq Vouchers \X Nat
      BY <3>1, MemberLocals
    <3> QED BY <2>4, <3>2 DEF TypeOK, StoreTypeOK, Spend
  <2>10. Attest(r[2]) <= r[2]
    BY <2>9, EntryAssumption DEF Attest
  <2>11. Attest(r[2]) \in Nat
    BY <2>9, EntryAssumption DEF Attest
  <2>12. s.expiresAt \in ValidUntil(offer.member)
    BY <2>8 DEF ValidUntil
  <2> QED BY <2>5, <2>6, <2>7, <2>8, <2>9, <2>10, <2>11, <2>12 DEF ActorLive, StillLive
<1> QED BY <1>1, IInvInductive, SInvInductive, TablesSound, PTL DEF Spec, AskedByLiveActors

=============================================================================
