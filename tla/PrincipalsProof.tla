---------------------------- MODULE PrincipalsProof ----------------------------
(***************************************************************************)
(* Proofs about the API keys, and about the handler that finds principals  *)
(* by them, for any members, scopes, limits, sessions and requests and a   *)
(* clock that moves in any way.  The first part is about ApiKeys alone:    *)
(* ids of keys are unique and never those of revoked keys.  In the second  *)
(* every step of the handler is shown to be a step of ApiKeys or to leave  *)
(* its state alone, so what is proved there holds with the handler around  *)
(* it; its invariant adds what ties a request to its bearer half.          *)
(***************************************************************************)
EXTENDS Principals, FiniteSetTheorems, TLAPS

-----------------------------------------------------------------------------
(* The keys alone. *)

(* The ids of the keys have been drawn, are unique, and are not revoked. *)
IdsSound ==
    /\ \A k \in keys : k.id \in 1 .. created /\ k.id \notin revoked
    /\ \A j, k \in keys : j.id = k.id => j = k

(* The inductive invariant. *)
IInv == TypeOK /\ IdsSound
-----------------------------------------------------------------------------
(* What a step may do to the keys and the floor: a creation, a revocation, *)
(* a deletion of keys that have run out, or nothing at all.                *)
LEMMA KeySteps ==
  ASSUME TypeOK, [Next]_apiKeyVars
  PROVE  \/ \E m \in Members, scopes \in SUBSET Scopes, until \in 1 .. MaxTime + MaxLifetime :
              Create(m, scopes, until)
         \/ \E m \in Members, id \in 1 .. MaxCreated : Revoke(m, id)
         \/ /\ keys' \in {keys, Unexpired(keys)}
            /\ UNCHANGED <<created, revoked>>
            /\ floor' = floor \/ Current
<1>1. CASE SetClock
  BY <1>1 DEF SetClock
<1>2. CASE Reopen \/ InDoubt
  BY <1>2 DEF Reopen, InDoubt
<1>3. ASSUME NEW m \in Members, List(m)
      PROVE  /\ keys' \in {keys, Unexpired(keys)}
             /\ UNCHANGED <<created, revoked>> /\ Current
  BY <1>3 DEF List
<1>4. ASSUME NEW c \in Callers, Authenticate(c)
      PROVE  UNCHANGED <<keys, created, revoked>> /\ Current
  BY <1>4 DEF Authenticate
<1>5. ASSUME NEW c \in Callers, Answered(c) \/ MemberLookedUp(c) \/ PrincipalUsed(c)
      PROVE  UNCHANGED <<keys, created, revoked, floor>>
  BY <1>5 DEF Answered, MemberLookedUp, PrincipalUsed
<1>6. CASE UNCHANGED apiKeyVars
  BY <1>6 DEF apiKeyVars
<1> QED BY <1>1, <1>2, <1>3, <1>4, <1>5, <1>6 DEF Next

(* What a step may do to the calls and the handle.                         *)
LEMMA CallSteps ==
  ASSUME TypeOK, [Next]_apiKeyVars
  PROVE  calls' \in [Callers -> BearerCall] /\ retired' \in BOOLEAN
<1> USE DEF TypeOK
<1>1. ASSUME UNCHANGED calls
      PROVE  calls' \in [Callers -> BearerCall]
  BY <1>1
<1>2. ASSUME calls' = [c \in Callers |-> Idle]
      PROVE  calls' \in [Callers -> BearerCall]
  BY <1>2 DEF BearerCall
<1>3. ASSUME NEW c \in Callers, Authenticate(c)
      PROVE  calls' \in [Callers -> BearerCall]
  BY <1>3 DEF Authenticate, Goto, BearerCall
<1>4. ASSUME NEW c \in Callers, Answered(c)
      PROVE  calls' \in [Callers -> BearerCall]
  <2>1. calls[c] \in [pc : {"answer", "lookUpMember", "principal"}, key : Key, scope : Scopes]
    BY <1>4 DEF Answered, BearerCall, Idle
  <2>2. [calls[c] EXCEPT !.pc = "lookUpMember"] \in BearerCall /\ Idle \in BearerCall
    BY <2>1 DEF BearerCall
  <2> QED BY <1>4, <2>2 DEF Answered, Goto
<1>5. ASSUME NEW c \in Callers, MemberLookedUp(c)
      PROVE  calls' \in [Callers -> BearerCall]
  <2>1. calls[c] \in [pc : {"answer", "lookUpMember", "principal"}, key : Key, scope : Scopes]
    BY <1>5 DEF MemberLookedUp, BearerCall, Idle
  <2>2. [calls[c] EXCEPT !.pc = "principal"] \in BearerCall /\ Idle \in BearerCall
    BY <2>1 DEF BearerCall
  <2> QED BY <1>5, <2>2 DEF MemberLookedUp, Goto
<1>6. ASSUME NEW c \in Callers, PrincipalUsed(c)
      PROVE  calls' \in [Callers -> BearerCall]
  BY <1>6 DEF PrincipalUsed, Goto, BearerCall
<1>7. calls' \in [Callers -> BearerCall]
  BY <1>1, <1>2, <1>3, <1>4, <1>5, <1>6
     DEF Next, SetClock, Reopen, InDoubt, Create, List, Revoke, apiKeyVars
<1>8. retired' \in BOOLEAN
  <2> USE DEF Acknowledged, Ambiguous
  <2> QED BY DEF Next, SetClock, Reopen, InDoubt, Create, List, Revoke, apiKeyVars,
             Authenticate, Answered, MemberLookedUp, PrincipalUsed
<1> QED BY <1>7, <1>8

(* The inductive invariant is preserved. *)
LEMMA Inductive == IInv /\ [Next]_apiKeyVars => IInv'
<1> SUFFICES ASSUME IInv, [Next]_apiKeyVars PROVE IInv'
  OBVIOUS
<1> USE ApiKeyAssumption
<1>1. calls' \in [Callers -> BearerCall] /\ retired' \in BOOLEAN
  BY CallSteps DEF IInv
<1>2. store' \in {"sqlite", "turso"} /\ clock' \in 1 .. MaxTime
  BY DEF IInv, TypeOK, Next, SetClock, Reopen, InDoubt, Create, List, Revoke, apiKeyVars,
     Authenticate, Answered, MemberLookedUp, PrincipalUsed
<1>3. floor' \in 0 .. MaxTime
  BY KeySteps DEF IInv, TypeOK, Create, Revoke, Current
<1>4. ASSUME NEW m \in Members, NEW scopes \in SUBSET Scopes,
             NEW until \in 1 .. MaxTime + MaxLifetime, Create(m, scopes, until)
      PROVE  /\ keys' \in SUBSET Key /\ created' \in 0 .. MaxCreated
             /\ revoked' \in SUBSET (1 .. created')
             /\ IdsSound'
  <2> DEFINE new == [id |-> created + 1, member |-> m, scopes |-> scopes, expiresAt |-> until]
  <2>1. /\ created \in 0 .. MaxCreated /\ created < MaxCreated /\ created' = created + 1
        /\ keys \in SUBSET Key /\ keys' \subseteq keys \cup {new}
        /\ UNCHANGED revoked /\ revoked \in SUBSET (1 .. created)
    BY <1>4 DEF IInv, TypeOK, Create, Unexpired
  <2>2. new \in Key /\ new.id = created + 1
    BY <2>1 DEF Key
  <2> HIDE DEF new
  <2>3. keys' \in SUBSET Key
    BY <2>1, <2>2
  <2>4. created' \in 0 .. MaxCreated /\ revoked' \in SUBSET (1 .. created')
    BY <2>1
  <2>5. \A k \in keys : k.id \in 1 .. created /\ k.id \notin revoked
    BY DEF IInv, IdsSound
  <2>6. new.id \in 1 .. created' /\ new.id \notin revoked'
    BY <2>1, <2>2
  <2>7. \A k \in keys : k.id \in 1 .. created' /\ k.id \notin revoked' /\ k.id # new.id
    BY <2>1, <2>2, <2>5
  <2>8. IdsSound'
    BY <2>1, <2>6, <2>7 DEF IInv, IdsSound
  <2> QED BY <2>3, <2>4, <2>8
<1>5. ASSUME NEW m \in Members, NEW id \in 1 .. MaxCreated, Revoke(m, id)
      PROVE  /\ keys' \in SUBSET Key /\ created' \in 0 .. MaxCreated
             /\ revoked' \in SUBSET (1 .. created')
             /\ IdsSound'
  <2>1. /\ keys' = keys \ Removed(m, id) /\ UNCHANGED created
        /\ revoked' \subseteq revoked \cup {k.id : k \in Removed(m, id)}
    BY <1>5 DEF Revoke
  <2>2. Removed(m, id) \subseteq keys
    BY DEF Removed
  <2> QED BY <2>1, <2>2 DEF IInv, TypeOK, IdsSound
<1>6. ASSUME keys' \in {keys, Unexpired(keys)}, UNCHANGED <<created, revoked>>
      PROVE  /\ keys' \in SUBSET Key /\ created' \in 0 .. MaxCreated
             /\ revoked' \in SUBSET (1 .. created')
             /\ IdsSound'
  BY <1>6 DEF IInv, TypeOK, IdsSound, Unexpired
<1>7. /\ keys' \in SUBSET Key /\ created' \in 0 .. MaxCreated
      /\ revoked' \in SUBSET (1 .. created') /\ IdsSound'
  <2>1. CASE keys' \in {keys, Unexpired(keys)} /\ UNCHANGED <<created, revoked>>
    BY <1>6, <2>1 DEF IInv, TypeOK
  <2> QED BY <1>4, <1>5, <2>1, KeySteps DEF IInv
<1> QED BY <1>1, <1>2, <1>3, <1>7 DEF IInv, TypeOK

LEMMA Initially == Init => IInv
<1> SUFFICES ASSUME Init PROVE IInv
  OBVIOUS
<1> USE ApiKeyAssumption
<1>1. retired \in BOOLEAN
  BY DEF Init
<1>2. TypeOK
  BY <1>1 DEF Init, TypeOK, BearerCall
<1> QED BY <1>2 DEF Init, IInv, IdsSound
(* A request is accepted only for a key that is in the table and that had  *)
(* not run out by the clock, which is not behind the floor.                *)
LEMMA AcceptedKey ==
  ASSUME TypeOK, [Next]_apiKeyVars,
         NEW c \in Callers, calls[c] = Idle, calls'[c] # Idle
  PROVE  \E k \in keys : calls'[c].key = k /\ k.expiresAt > clock /\ clock >= floor
<1> USE DEF TypeOK, Goto
<1>1. ASSUME NEW d \in Callers, Authenticate(d)
      PROVE  \E k \in keys : calls'[c].key = k /\ k.expiresAt > clock /\ clock >= floor
  <2>1. PICK k \in keys, scope \in Scopes :
           /\ Grants(k, scope) /\ Current
           /\ calls' = [calls EXCEPT ![d] = [pc |-> "answer", key |-> k, scope |-> scope]]
    BY <1>1 DEF Authenticate
  <2>2. d = c
    BY <2>1
  <2> QED BY <2>1, <2>2 DEF Grants, Current
<1>2. ASSUME NEW d \in Callers, Answered(d) \/ MemberLookedUp(d) \/ PrincipalUsed(d)
      PROVE  FALSE
  BY <1>2 DEF Answered, MemberLookedUp, PrincipalUsed, Idle
<1>3. \/ \E d \in Callers : Authenticate(d)
      \/ \E d \in Callers : Answered(d) \/ MemberLookedUp(d) \/ PrincipalUsed(d)
  BY DEF Next, SetClock, Reopen, InDoubt, Create, List, Revoke, apiKeyVars
<1> QED BY <1>1, <1>2, <1>3

(* Removing keys keeps every limit. *)
LEMMA ShrinkingKeepsCapacity ==
  ASSUME IsFiniteSet(keys), KeyCapacity, NEW rows, rows \subseteq keys
  PROVE  /\ IsFiniteSet(rows) /\ Cardinality(rows) <= MaxKeys
         /\ \A m \in Members : /\ IsFiniteSet(KeysOf(m, rows))
                               /\ Cardinality(KeysOf(m, rows)) <= MaxKeysPerMember
<1> USE ApiKeyAssumption
<1>1. IsFiniteSet(rows) /\ Cardinality(rows) <= Cardinality(keys)
  BY FS_Subset
<1>2. Cardinality(rows) <= MaxKeys
  BY <1>1, FS_CardinalityType DEF KeyCapacity
<1>3. ASSUME NEW m \in Members
      PROVE  IsFiniteSet(KeysOf(m, rows)) /\ Cardinality(KeysOf(m, rows)) <= MaxKeysPerMember
  <2>1. KeysOf(m, rows) \subseteq KeysOf(m, keys) /\ KeysOf(m, keys) \subseteq keys
    BY DEF KeysOf
  <2>2. IsFiniteSet(KeysOf(m, keys))
    BY <2>1, FS_Subset
  <2>3. /\ IsFiniteSet(KeysOf(m, rows))
        /\ Cardinality(KeysOf(m, rows)) <= Cardinality(KeysOf(m, keys))
    BY <2>1, <2>2, FS_Subset
  <2> QED BY <2>2, <2>3, FS_CardinalityType DEF KeyCapacity
<1> QED BY <1>1, <1>2, <1>3
-----------------------------------------------------------------------------
(* Keys, floor, calls and history keep their types. *)
THEOREM ApiKeyTypeCorrect == Spec => []TypeOK
<1>1. IInv => TypeOK
  BY DEF IInv
<1> QED BY <1>1, Initially, Inductive, PTL DEF Spec

(* A request that starts after its key's revocation was acknowledged is    *)
(* never accepted.                                                         *)
THEOREM RevocationIsFinal == Spec => RevokedNeverAgain
<1>1. IInv /\ [Next]_apiKeyVars =>
        \A c \in Callers : calls[c] = Idle /\ calls'[c] # Idle =>
          calls'[c].key.id \notin revoked
  <2> SUFFICES ASSUME IInv, [Next]_apiKeyVars,
                      NEW c \in Callers, calls[c] = Idle, calls'[c] # Idle
               PROVE  calls'[c].key.id \notin revoked
    OBVIOUS
  <2>1. PICK k \in keys : calls'[c].key = k
    BY AcceptedKey DEF IInv
  <2> QED BY <2>1 DEF IInv, IdsSound
<1> QED BY <1>1, Initially, Inductive, PTL DEF Spec, RevokedNeverAgain

(* Setting the clock back never revives a key, and never moves the floor   *)
(* back.                                                                   *)
THEOREM ClockRevivesNothing == Spec => ExpiredStaysExpired
<1>1. IInv /\ [Next]_apiKeyVars =>
        /\ floor' >= floor
        /\ \A c \in Callers : calls[c] = Idle /\ calls'[c] # Idle =>
             calls'[c].key.expiresAt > floor
  <2> SUFFICES ASSUME IInv, [Next]_apiKeyVars
               PROVE  /\ floor' >= floor
                      /\ \A c \in Callers : calls[c] = Idle /\ calls'[c] # Idle =>
                           calls'[c].key.expiresAt > floor
    OBVIOUS
  <2>1. floor \in Nat /\ clock \in Nat
    BY DEF IInv, TypeOK
  <2>2. floor' >= floor
    BY <2>1, KeySteps DEF IInv, Current, Create, Revoke
  <2>3. ASSUME NEW c \in Callers, calls[c] = Idle, calls'[c] # Idle
        PROVE  calls'[c].key.expiresAt > floor
    <3>1. PICK k \in keys : calls'[c].key = k /\ k.expiresAt > clock /\ clock >= floor
      BY <2>3, AcceptedKey DEF IInv
    <3>2. k.expiresAt \in Nat
      BY ApiKeyAssumption DEF IInv, TypeOK, Key
    <3> QED BY <2>1, <3>1, <3>2
  <2> QED BY <2>2, <2>3
<1> QED BY <1>1, Initially, Inductive, PTL DEF Spec, ExpiredStaysExpired

(* The operator's limits hold for any limits and any members. *)
THEOREM KeysWithinCapacity == Spec => []KeyCapacity
<1> DEFINE Bounded == IsFiniteSet(keys) /\ KeyCapacity
<1>1. Init => Bounded
  <2> SUFFICES ASSUME Init PROVE Bounded
    OBVIOUS
  <2>1. keys = {} /\ \A m \in Members : KeysOf(m, keys) = {}
    BY DEF Init, KeysOf
  <2> QED BY <2>1, ApiKeyAssumption, FS_EmptySet DEF KeyCapacity
<1>2. IInv /\ Bounded /\ [Next]_apiKeyVars => Bounded'
  <2> SUFFICES ASSUME IInv, Bounded, [Next]_apiKeyVars PROVE Bounded'
    OBVIOUS
  <2>1. ASSUME NEW rows, rows \subseteq keys
        PROVE  /\ IsFiniteSet(rows) /\ Cardinality(rows) <= MaxKeys
               /\ \A m \in Members : IsFiniteSet(KeysOf(m, rows))
                                     /\ Cardinality(KeysOf(m, rows)) <= MaxKeysPerMember
    BY <2>1, ShrinkingKeepsCapacity
  <2>2. CASE keys' \subseteq keys
    BY <2>1, <2>2 DEF KeyCapacity
  <2>3. ASSUME NEW m \in Members, NEW scopes \in SUBSET Scopes,
               NEW until \in 1 .. MaxTime + MaxLifetime, Create(m, scopes, until)
        PROVE  Bounded'
    <3> DEFINE new == [id |-> created + 1, member |-> m, scopes |-> scopes,
                       expiresAt |-> until]
               rows == Unexpired(keys)
    <3>1. /\ keys' = rows \cup {new} /\ new.member = m
          /\ Cardinality(rows) < MaxKeys
          /\ Cardinality(KeysOf(m, rows)) < MaxKeysPerMember
          /\ rows \subseteq keys
      BY <2>3 DEF Create, Room, Unexpired
    <3> HIDE DEF new, rows
    <3>2. IsFiniteSet(rows)
      BY <2>1, <3>1
    <3>3. IsFiniteSet(keys') /\ Cardinality(keys') <= MaxKeys
      <4>1. /\ IsFiniteSet(rows \cup {new})
            /\ Cardinality(rows \cup {new}) \in {Cardinality(rows), Cardinality(rows) + 1}
        BY <3>2, FS_AddElement
      <4>2. Cardinality(rows) \in Nat /\ MaxKeys \in Nat
        BY <3>2, FS_CardinalityType, ApiKeyAssumption
      <4> QED BY <3>1, <4>1, <4>2
    <3>4. ASSUME NEW n \in Members
          PROVE  Cardinality(KeysOf(n, keys')) <= MaxKeysPerMember
      <4>1. IsFiniteSet(KeysOf(n, rows)) /\ Cardinality(KeysOf(n, rows)) <= MaxKeysPerMember
        BY <2>1, <3>1
      <4>2. CASE n = m
        <5>1. KeysOf(n, keys') = KeysOf(n, rows) \cup {new}
          BY <3>1, <4>2 DEF KeysOf
        <5>2. Cardinality(KeysOf(n, rows) \cup {new})
                \in {Cardinality(KeysOf(n, rows)), Cardinality(KeysOf(n, rows)) + 1}
          BY <4>1, FS_AddElement
        <5>3. Cardinality(KeysOf(n, rows)) \in Nat /\ MaxKeysPerMember \in Nat
          BY <4>1, FS_CardinalityType, ApiKeyAssumption
        <5>4. Cardinality(KeysOf(n, rows)) < MaxKeysPerMember
          BY <3>1, <4>2
        <5> HIDE DEF new, rows
        <5> QED BY <5>1, <5>2, <5>3, <5>4
      <4>3. CASE n # m
        <5>1. KeysOf(n, keys') = KeysOf(n, rows)
          BY <3>1, <4>3 DEF KeysOf
        <5> QED BY <4>1, <5>1
      <4> QED BY <4>2, <4>3
    <3> QED BY <3>3, <3>4 DEF KeyCapacity
  <2>4. ASSUME NEW m \in Members, NEW id \in 1 .. MaxCreated, Revoke(m, id)
        PROVE  keys' \subseteq keys
    BY <2>4 DEF Revoke
  <2>5. Unexpired(keys) \subseteq keys
    BY DEF Unexpired
  <2> QED BY <2>2, <2>3, <2>4, <2>5, KeySteps DEF IInv
<1>3. Bounded => KeyCapacity
  OBVIOUS
<1> QED BY <1>1, <1>2, <1>3, Initially, Inductive, PTL DEF Spec
-----------------------------------------------------------------------------
(* The handler around them. *)

(* A request has a bearer half only while it waits for one. *)
Fits(r) == calls[r] # Idle => At(r, "bearer")

Typed ==
    /\ sessions \in SUBSET Session /\ opened \in 0 .. MaxOpened
    /\ requests \in [Callers -> Request]

(* The inductive invariant. *)
PInv == IInv /\ Typed /\ \A r \in Callers : Fits(r)

(* It implies the type invariant. *)
LEMMA Implied == PInv => PrincipalTypeOK
BY DEF PInv, Typed, Fits, PrincipalTypeOK

-----------------------------------------------------------------------------
(* A request that is not there has no other state. *)
Open == [pc : {"readOwner", "bearer", "principal"}, route : Routes, token : BOOLEAN,
         session : SUBSET Session]
LEMMA RequestTyped ==
  ASSUME Typed, NEW r \in Callers
  PROVE  /\ NoRequest \in Request /\ NoRequest.pc = "none"
         /\ At(r, "none") \/ requests[r] \in Open
BY DEF Typed, Request, NoRequest, Open, At

(* Keys are managed for the member of the session the request named.       *)
LEMMA Managed ==
  ASSUME Typed, NEW r \in Callers, NEW m \in Manager(r)
  PROVE  /\ m \in Members /\ At(r, "principal")
         /\ \E s \in requests[r].session : s.member = m
<1>1. At(r, "principal") /\ m \in {s.member : s \in requests[r].session}
  BY DEF Manager, SessionPrincipal
<1>2. requests[r] \in Open
  BY <1>1, RequestTyped DEF At
<1> QED BY <1>1, <1>2 DEF Open, Session

(* A request that manages keys is one operation of the key service.        *)
LEMMA ManageStep ==
  ASSUME TypeOK, Typed, NEW r \in Callers, Manage(r)
  PROVE  /\ Next /\ UNCHANGED calls /\ At(r, "principal")
         /\ requests' = [requests EXCEPT ![r] = NoRequest]
         /\ UNCHANGED <<sessions, opened>>
<1>1. ASSUME NEW m \in Manager(r), NEW scopes \in SUBSET Scopes \ {{}},
             NEW until \in 1 .. MaxTime + MaxLifetime, Create(m, scopes, until)
      PROVE  Next /\ UNCHANGED calls /\ At(r, "principal")
  <2>1. m \in Members /\ At(r, "principal")
    BY Managed
  <2>2. Next
    BY <1>1, <2>1 DEF Next
  <2> QED BY <1>1, <2>1, <2>2 DEF Create
<1>2. ASSUME NEW m \in Manager(r), List(m)
      PROVE  Next /\ UNCHANGED calls /\ At(r, "principal")
  BY <1>2, Managed DEF Next, List
<1>3. ASSUME NEW m \in Manager(r), NEW id \in 1 .. MaxCreated, Revoke(m, id)
      PROVE  Next /\ UNCHANGED calls /\ At(r, "principal")
  BY <1>3, Managed DEF Next, Revoke
<1>4. Next /\ UNCHANGED calls /\ At(r, "principal")
  BY <1>1, <1>2, <1>3 DEF Manage, KeyCreated, KeysListed, KeyRevoked
<1> QED BY <1>4 DEF Manage, Respond

(* Every step of the handler is one of the key service, or none.           *)
LEMMA KeyStep ==
  ASSUME TypeOK, Typed, [PrincipalNext]_principalVars
  PROVE  [Next]_apiKeyVars
<1>1. ASSUME NEW r \in Callers, BearerAsked(r) \/ BearerContinues(r) \/ BearerUsed(r)
      PROVE  Next
  BY <1>1 DEF BearerAsked, BearerContinues, BearerUsed, Next
<1>2. ASSUME NEW r \in Callers, Manage(r) PROVE Next
  BY <1>2, ManageStep
<1>3. CASE ClockSet \/ Restart
  BY <1>3 DEF ClockSet, Restart, Next
<1>4. CASE OpenSession \/ EndSession \/ \E r \in Callers : Arrive(r) \/ OwnerRead(r) \/ Refused(r)
  BY <1>4 DEF OpenSession, EndSession, Arrive, OwnerRead, Refused, Next
<1>5. CASE UNCHANGED principalVars
  BY <1>5 DEF principalVars, apiKeyVars
<1> QED BY <1>1, <1>2, <1>3, <1>4, <1>5 DEF PrincipalNext

-----------------------------------------------------------------------------
(* How a step moves a request r, and its bearer half with it: the others   *)
(* stay as they are, and r becomes x with the bearer half y.               *)
Moves(r, x, y) ==
    /\ x \in Request
    /\ requests' = [requests EXCEPT ![r] = x] /\ calls' = [calls EXCEPT ![r] = y]
    /\ y # Idle => x.pc = "bearer"
    /\ UNCHANGED <<sessions, opened>>

(* Such a step keeps the invariant. *)
LEMMA MovesKeep ==
  ASSUME PInv, NEW r \in Callers, NEW x, NEW y, Moves(r, x, y), [Next]_apiKeyVars
  PROVE  PInv'
<1>1. IInv'
  BY Inductive DEF PInv
<1>2. /\ requests'[r] = x /\ calls'[r] = y
      /\ \A q \in Callers \ {r} : requests'[q] = requests[q] /\ calls'[q] = calls[q]
  BY DEF Moves, PInv, Typed, IInv, TypeOK
<1>3. Typed'
  BY DEF Moves, PInv, Typed
<1>4. ASSUME NEW q \in Callers PROVE Fits(q)'
  <2>1. CASE q = r
    BY <1>2, <2>1 DEF Moves, Fits, At
  <2>2. CASE q # r
    BY <1>2, <2>2 DEF PInv, Fits, At
  <2> QED BY <2>1, <2>2
<1> QED BY <1>1, <1>3, <1>4 DEF PInv

(* A request that is over leaves nothing behind. *)
LEMMA RespondKeeps ==
  ASSUME PInv, NEW r \in Callers, Respond(r), [Next]_apiKeyVars,
         calls' = [calls EXCEPT ![r] = Idle], UNCHANGED <<sessions, opened>>
  PROVE  PInv'
<1>1. Moves(r, NoRequest, Idle)
  BY RequestTyped DEF Moves, Respond, PInv, NoRequest
<1> QED BY <1>1, MovesKeep

(* A request arrives. *)
LEMMA ArriveKeeps ==
  ASSUME PInv, NEW r \in Callers, Arrive(r), [Next]_apiKeyVars
  PROVE  PInv'
<1>1. calls[r] = Idle /\ calls' = [calls EXCEPT ![r] = Idle]
  <2>1. calls[r] = Idle
    BY DEF PInv, Fits, Arrive, At
  <2> QED BY <2>1 DEF Arrive, apiKeyVars, PInv, IInv, TypeOK
<1>2. PICK route \in Routes, token \in BOOLEAN, named \in SUBSET sessions,
           pc \in {"bearer", "readOwner"} :
        requests' = [requests EXCEPT ![r] =
          [pc |-> pc, route |-> route, token |-> token, session |-> named]]
  BY DEF Arrive
<1> DEFINE x == [pc |-> pc, route |-> route, token |-> token, session |-> named]
<1>3. x \in Request
  BY DEF Request, PInv, Typed
<1>4. Moves(r, x, Idle)
  BY <1>1, <1>2, <1>3 DEF Moves, Arrive
<1> QED BY <1>4, MovesKeep

(* A request goes on with its session, or without it. *)
LEMMA OwnerReadKeeps ==
  ASSUME PInv, NEW r \in Callers, OwnerRead(r), [Next]_apiKeyVars
  PROVE  PInv'
<1>1. requests[r] \in Open /\ calls[r] = Idle /\ calls' = [calls EXCEPT ![r] = Idle]
  <2>1. calls[r] = Idle
    BY DEF PInv, Fits, OwnerRead, At
  <2>2. requests[r] \in Open
    BY RequestTyped DEF PInv, OwnerRead, At
  <2> QED BY <2>1, <2>2 DEF OwnerRead, apiKeyVars, PInv, IInv, TypeOK
<1>2. PICK pc \in {"principal", "bearer"} : Move(r, pc)
  <2>1. Move(r, "principal") \/ Move(r, "bearer")
    BY Zenon DEF OwnerRead
  <2> QED BY <2>1
<1> DEFINE x == [requests[r] EXCEPT !.pc = pc]
<1>3. x \in Request
  BY <1>1 DEF Request, Open
<1>4. requests' = [requests EXCEPT ![r] = x]
  BY <1>2 DEF Move
<1> HIDE DEF x
<1>5. Moves(r, x, Idle)
  BY <1>1, <1>3, <1>4 DEF Moves, OwnerRead
<1> QED BY <1>5, MovesKeep

(* A token is accepted, and the bearer half begins. *)
LEMMA AskedKeeps ==
  ASSUME PInv, NEW r \in Callers, BearerAsked(r), [Next]_apiKeyVars
  PROVE  PInv'
<1> USE DEF PInv
<1>1. /\ At(r, "bearer") /\ calls[r] = Idle
      /\ requests[r] \in Open
  BY RequestTyped DEF BearerAsked, Authenticate, At
<1>2. CASE calls'[r] = Idle
  <2>1. calls' = [calls EXCEPT ![r] = Idle]
    BY <1>1, <1>2 DEF BearerAsked, Authenticate, Goto, IInv, TypeOK
  <2> QED BY <1>2, <2>1, RespondKeeps DEF BearerAsked
<1>3. CASE calls'[r] # Idle
  <2>1. PICK y : calls' = [calls EXCEPT ![r] = y]
    BY <1>1, <1>3 DEF BearerAsked, Authenticate, Goto
  <2>2. requests' = [requests EXCEPT ![r] = requests[r]]
    BY <1>3 DEF BearerAsked, Typed
  <2>3. Moves(r, requests[r], y)
    BY <1>1, <2>1, <2>2 DEF Moves, Typed, BearerAsked, At
  <2> QED BY <2>3, MovesKeep
<1> QED BY <1>2, <1>3

(* The bearer half goes on with its key, or ends. *)
LEMMA ContinuesKeeps ==
  ASSUME PInv, NEW r \in Callers, BearerContinues(r), [Next]_apiKeyVars
  PROVE  PInv'
<1> USE DEF PInv
<1>1. PICK y : calls' = [calls EXCEPT ![r] = y]
  BY Zenon DEF BearerContinues, Answered, MemberLookedUp, Goto
<1>2. calls[r] # Idle /\ calls'[r] = y
  BY <1>1 DEF BearerContinues, Answered, MemberLookedUp, Idle, IInv, TypeOK
<1>3. At(r, "bearer")
  BY <1>2 DEF Fits
<1>4. CASE y = Idle
  BY <1>1, <1>2, <1>4, RespondKeeps DEF BearerContinues
<1>5. CASE y # Idle
  <2>1. requests' = [requests EXCEPT ![r] = requests[r]]
    BY <1>2, <1>5 DEF BearerContinues, Typed
  <2>2. Moves(r, requests[r], y)
    BY <1>1, <1>3, <2>1 DEF Moves, Typed, BearerContinues, At
  <2> QED BY <2>2, MovesKeep
<1> QED BY <1>4, <1>5

(* A request ends, with or without an effect. *)
LEMMA EndsKeep ==
  ASSUME PInv, NEW r \in Callers, Refused(r) \/ Manage(r) \/ BearerUsed(r),
         [Next]_apiKeyVars
  PROVE  PInv'
<1> USE DEF PInv
<1>1. CASE Refused(r)
  <2>1. calls' = [calls EXCEPT ![r] = Idle]
    BY <1>1 DEF Refused, InDoubt, apiKeyVars, IInv, TypeOK
  <2> QED BY <1>1, <2>1, RespondKeeps DEF Refused
<1>2. CASE Manage(r)
  <2>1. UNCHANGED calls /\ At(r, "principal") /\ Respond(r) /\ UNCHANGED <<sessions, opened>>
    BY <1>2, ManageStep DEF IInv, Respond
  <2>2. calls[r] = Idle
    BY <2>1 DEF Fits, At
  <2>3. calls' = [calls EXCEPT ![r] = Idle]
    BY <2>1, <2>2 DEF IInv, TypeOK
  <2> QED BY <2>1, <2>3, RespondKeeps
<1>3. CASE BearerUsed(r)
  BY <1>3, RespondKeeps DEF BearerUsed, PrincipalUsed, Goto
<1> QED BY <1>1, <1>2, <1>3

(* Sessions come and go, the clock is set, the service is reopened.        *)
LEMMA AroundKeeps ==
  ASSUME PInv, OpenSession \/ EndSession \/ ClockSet \/ Restart \/ UNCHANGED principalVars,
         [Next]_apiKeyVars
  PROVE  PInv'
<1> USE DEF PInv
<1>1. IInv'
  BY Inductive
<1>2. CASE Restart
  <2>1. /\ calls' = [r \in Callers |-> Idle] /\ requests' = [r \in Callers |-> NoRequest]
        /\ sessions' = {} /\ UNCHANGED opened
    BY <1>2 DEF Restart, Reopen
  <2>2. Typed'
    BY <2>1, RequestTyped DEF Typed, Request
  <2>3. ASSUME NEW r \in Callers PROVE Fits(r)'
    BY <2>1 DEF Fits
  <2> QED BY <1>1, <2>2, <2>3
<1>3. CASE OpenSession \/ EndSession \/ ClockSet \/ UNCHANGED principalVars
  <2>1. UNCHANGED <<calls, requests>>
    BY <1>3 DEF OpenSession, EndSession, ClockSet, SetClock, principalVars, apiKeyVars
  <2>2. sessions' \in SUBSET Session /\ opened' \in 0 .. MaxOpened
    <3>1. CASE OpenSession
      <4>1. clock \in 1 .. MaxTime /\ opened \in 0 .. MaxOpened /\ opened < MaxOpened
        BY <3>1 DEF IInv, TypeOK, Typed, OpenSession
      <4>2. clock + SessionLifetime \in 1 .. MaxTime + SessionLifetime
            /\ opened + 1 \in 1 .. MaxOpened
        BY <4>1, PrincipalAssumption, ApiKeyAssumption
      <4>3. ASSUME NEW m \in Members
            PROVE  [id |-> opened + 1, member |-> m, expiresAt |-> clock + SessionLifetime]
                     \in Session
        BY <4>2 DEF Session
      <4> QED BY <3>1, <4>1, <4>2, <4>3, PrincipalAssumption DEF OpenSession, Typed
    <3>2. CASE EndSession \/ ClockSet \/ UNCHANGED principalVars
      BY <3>2 DEF EndSession, ClockSet, principalVars, Typed
    <3> QED BY <1>3, <3>1, <3>2
  <2>3. Typed'
    BY <2>1, <2>2 DEF Typed
  <2>4. ASSUME NEW r \in Callers PROVE Fits(r)'
    BY <2>1 DEF Fits, At
  <2> QED BY <1>1, <2>3, <2>4
<1> QED BY <1>2, <1>3

-----------------------------------------------------------------------------
(* The theorems.                                                           *)

LEMMA PrincipalInvariant == PrincipalSpec => []PInv
<1>1. PrincipalInit => PInv
  <2> SUFFICES ASSUME PrincipalInit PROVE PInv
    OBVIOUS
  <2>1. IInv
    BY Initially DEF PrincipalInit
  <2>2. requests \in [Callers -> Request] /\ \A r \in Callers : requests[r] = NoRequest
    BY DEF PrincipalInit, Request
  <2>3. Typed
    BY <2>2, PrincipalAssumption DEF PrincipalInit, Typed
  <2>4. \A r \in Callers : Fits(r)
    BY DEF PrincipalInit, Init, Fits
  <2> QED BY <2>1, <2>3, <2>4 DEF PInv
<1>2. PInv /\ [PrincipalNext]_principalVars => PInv'
  <2> SUFFICES ASSUME PInv, [PrincipalNext]_principalVars PROVE PInv'
    OBVIOUS
  <2>1. [Next]_apiKeyVars
    BY KeyStep DEF PInv, IInv
  <2> QED BY <2>1, ArriveKeeps, OwnerReadKeeps, AskedKeeps, ContinuesKeeps, EndsKeep,
             AroundKeeps DEF PrincipalNext
<1> QED BY <1>1, <1>2, PTL DEF PrincipalSpec

(***************************************************************************)
(* The handler uses the key service by its own operations only: whatever   *)
(* is proved of ApiKeys holds of the keys behind the handler.              *)
(***************************************************************************)
THEOREM HandlerKeepsKeys == PrincipalSpec => KeepsKeys
<1>1. PrincipalInit => Init
  BY DEF PrincipalInit
<1>2. PInv /\ [PrincipalNext]_principalVars => [Next]_apiKeyVars
  BY KeyStep DEF PInv, IInv
<1> QED BY <1>1, <1>2, PrincipalInvariant, PTL DEF PrincipalSpec, KeepsKeys, Spec

(***************************************************************************)
(* Whatever the requests behind the handler, the numbers of keys stay      *)
(* within their maxima, although creations check and insert in one         *)
(* transaction whose answer may be lost.                                   *)
(***************************************************************************)
THEOREM HandlerKeysWithinCapacity == PrincipalSpec => []KeyCapacity
BY HandlerKeepsKeys, KeysWithinCapacity DEF KeepsKeys

(***************************************************************************)
(* Behind the handler, too, a key that was once refused as run out stays   *)
(* refused when the clock is set back.                                     *)
(***************************************************************************)
THEOREM HandlerClockRevivesNothing == PrincipalSpec => ExpiredStaysExpired
BY HandlerKeepsKeys, ClockRevivesNothing DEF KeepsKeys

(***************************************************************************)
(* Nor does any request bring back a key whose revocation a client was     *)
(* told of.                                                                *)
(***************************************************************************)
THEOREM HandlerRevocationIsFinal == PrincipalSpec => RevokedNeverAgain
BY HandlerKeepsKeys, RevocationIsFinal DEF KeepsKeys

(***************************************************************************)
(* Sessions, requests and their bearer halves have their types.            *)
(***************************************************************************)
THEOREM PrincipalTypeCorrect == PrincipalSpec => []PrincipalTypeOK
BY Implied, PrincipalInvariant, PTL

(***************************************************************************)
(* Keys come and go before their time in requests of a session alone.      *)
(***************************************************************************)
THEOREM KeysManagedBySession == PrincipalSpec => KeysNeedASession
<1> DEFINE Disturbed == (keys' \ keys) \cup Unexpired(keys \ keys')
           Managers(k) == \E r \in Callers :
             /\ requests[r].pc = "principal" /\ requests'[r] = NoRequest
             /\ \E s \in requests[r].session : s.member = k.member
<1>1. PInv /\ [PrincipalNext]_principalVars => [\A k \in Disturbed : Managers(k)]_principalVars
  <2> SUFFICES ASSUME PInv, PrincipalNext, NEW k \in Disturbed
               PROVE  Managers(k)
    OBVIOUS
  <2>1. ASSUME UNCHANGED keys PROVE FALSE
    BY <2>1 DEF Unexpired
  <2>2. PICK r \in Callers : Manage(r)
    BY <2>1
       DEF PrincipalNext, OpenSession, EndSession, ClockSet, SetClock, Restart, Reopen,
           Arrive, OwnerRead, BearerAsked, Authenticate, BearerContinues, Answered,
           MemberLookedUp, Refused, InDoubt, BearerUsed, PrincipalUsed, apiKeyVars
  <2>3. /\ requests[r].pc = "principal" /\ requests'[r] = NoRequest
    BY <2>2, ManageStep DEF PInv, IInv, Typed, At
  <2>4. k.member \in Manager(r)
    <3>1. CASE KeyCreated(r)
      <4>1. PICK m \in Manager(r), scopes \in SUBSET Scopes, until \in 1 .. MaxTime + MaxLifetime :
               Create(m, scopes, until)
        BY <3>1 DEF KeyCreated
      <4>2. keys' = Unexpired(keys) \cup
               {[id |-> created + 1, member |-> m, scopes |-> scopes, expiresAt |-> until]}
        BY <4>1 DEF Create
      <4>3. k \notin keys
        BY <4>2 DEF Unexpired
      <4>4. k.member = m
        BY <4>2, <4>3 DEF Unexpired
      <4> QED BY <4>4
    <3>2. CASE KeysListed(r)
      <4>1. keys' \in {keys, Unexpired(keys)}
        BY <3>2 DEF KeysListed, List
      <4> QED BY <4>1 DEF Unexpired
    <3>3. CASE KeyRevoked(r)
      <4>1. PICK m \in Manager(r), id \in 1 .. MaxCreated : keys' = keys \ Removed(m, id)
        BY <3>3 DEF KeyRevoked, Revoke
      <4> QED BY <4>1 DEF Removed, Unexpired
    <3> QED BY <2>2, <3>1, <3>2, <3>3 DEF Manage
  <2>5. \E s \in requests[r].session : s.member = k.member
    BY <2>4, Managed DEF PInv
  <2> QED BY <2>3, <2>5
<1> QED BY <1>1, PrincipalInvariant, PTL DEF PrincipalSpec, KeysNeedASession
=============================================================================
