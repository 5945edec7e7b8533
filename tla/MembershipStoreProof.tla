------------------------ MODULE MembershipStoreProof ------------------------
(***************************************************************************)
(* Proofs about MembershipStore for any members, vouchers, passkeys and    *)
(* capacities, and without the bounds the model checker needs.             *)
(***************************************************************************)
EXTENDS MembershipStore, FiniteSetTheorems, TLAPS

(* One step of the store keeps the types. *)
LEMMA StoreTypesPreserved ==
  ASSUME StoreTypeOK, [StoreNext]_storeVars
  PROVE  StoreTypeOK'
<1> USE StoreAssumption DEF StoreTypeOK
<1>1. CASE Tick
  BY <1>1 DEF Tick, tables
<1>2. ASSUME NEW req \in Request, RegisterWithVoucher(req)
      PROVE  StoreTypeOK'
  <2>1. SpendRow(req) \in Spend /\ MemberRow(req) \in Member
          /\ CredentialRow(req) \in Credential
    BY <1>2 DEF Request, SpendRow, MemberRow, CredentialRow, Spend, Member, Credential
  <2> QED BY <1>2, <2>1 DEF RegisterWithVoucher
<1>3. ASSUME NEW p \in Passkeys, NEW m \in Members, NEW n \in Counters,
             Insert(p, m, n)
      PROVE  StoreTypeOK'
  BY <1>3 DEF Insert, Credential
<1>4. ASSUME NEW p \in Passkeys, NEW n \in Counters, UpdateCounter(p, n)
      PROVE  StoreTypeOK'
  BY <1>4 DEF UpdateCounter, Credential
<1>5. ASSUME NEW m \in Members, NEW d \in Devices, NEW at \in 1 .. clock,
             Rebind(m, d, at)
      PROVE  StoreTypeOK'
  BY <1>5 DEF Rebind, Member
<1>6. CASE UNCHANGED storeVars
  BY <1>6 DEF storeVars
<1>7. ASSUME NEW v \in Vouchers, NEW m \in Members, NEW d \in Devices,
             NEW p \in Passkeys, NEW n \in Counters, NEW at \in 1 .. clock
      PROVE  [voucher |-> v, member |-> m, device |-> d, passkey |-> p,
              counter |-> n, at |-> at] \in Request
  BY DEF Request
<1> QED BY <1>1, <1>2, <1>3, <1>4, <1>5, <1>6, <1>7 DEF StoreNext

(* The tables hold well-typed rows whatever transactions run. *)
THEOREM StoreTypeCorrect == StoreSpec => []StoreTypeOK
<1>1. StoreInit => StoreTypeOK
  BY DEF StoreInit, StoreTypeOK
<1>2. StoreTypeOK /\ [StoreNext]_storeVars => StoreTypeOK'
  BY StoreTypesPreserved
<1> QED BY <1>1, <1>2, PTL DEF StoreSpec

-----------------------------------------------------------------------------
(* Facts every step shares: what a step may do to the tables.              *)
(***************************************************************************)
(* A step of the store is a tick or stutter that leaves the tables alone,  *)
(* or one of the four transactions with typed arguments.                   *)
(***************************************************************************)
LEMMA StepCases ==
  ASSUME StoreTypeOK, [StoreNext]_storeVars
  PROVE  \/ UNCHANGED tables
         \/ \E req \in Request : RegisterWithVoucher(req)
         \/ \E p \in Passkeys, m \in Members, n \in Counters : Insert(p, m, n)
         \/ \E p \in Passkeys, n \in Counters : UpdateCounter(p, n)
         \/ \E m \in Members, d \in Devices, at \in Nat : Rebind(m, d, at)
<1>1. CASE Tick
  BY <1>1 DEF Tick
<1>2. CASE UNCHANGED storeVars
  BY <1>2 DEF storeVars, tables
<1>3. ASSUME NEW v \in Vouchers, NEW m \in Members, NEW d \in Devices,
             NEW p \in Passkeys, NEW n \in Counters, NEW at \in 1 .. clock,
             RegisterWithVoucher([voucher |-> v, member |-> m, device |-> d,
                                  passkey |-> p, counter |-> n, at |-> at])
      PROVE  \E req \in Request : RegisterWithVoucher(req)
  <2>1. [voucher |-> v, member |-> m, device |-> d, passkey |-> p,
         counter |-> n, at |-> at] \in Request
    BY DEF Request, StoreTypeOK
  <2> QED BY <1>3, <2>1
<1>4. ASSUME NEW m \in Members, NEW d \in Devices, NEW at \in 1 .. clock,
             Rebind(m, d, at)
      PROVE  \E x \in Members, e \in Devices, t \in Nat : Rebind(x, e, t)
  <2>1. at \in Nat
    BY DEF StoreTypeOK
  <2> QED BY <1>4, <2>1
<1> QED BY <1>1, <1>2, <1>3, <1>4 DEF StoreNext

(***************************************************************************)
(* A step of the store keeps the tables in agreement.                      *)
(***************************************************************************)
LEMMA AgreementKept ==
  StoreTypeOK /\ TablesAgree /\ [StoreNext]_storeVars => TablesAgree'
<1> SUFFICES ASSUME StoreTypeOK, TablesAgree, [StoreNext]_storeVars
             PROVE  TablesAgree'
  OBVIOUS
<1> USE DEF TablesAgree, HasMember, PasskeysOf
<1>1. CASE UNCHANGED tables
  BY <1>1 DEF tables
<1>2. ASSUME NEW req \in Request, RegisterWithVoucher(req)
      PROVE  TablesAgree'
  <2>1. /\ Unspent(req) /\ NewMember(req) /\ FreePasskey(req.passkey, req.member)
        /\ spends' = spends \cup {SpendRow(req)}
        /\ members' = members \cup {MemberRow(req)}
        /\ credentials' = credentials \cup {CredentialRow(req)}
    BY <1>2 DEF RegisterWithVoucher, Registrable
  <2>2. /\ SpendRow(req).voucher = req.voucher /\ SpendRow(req).member = req.member
        /\ MemberRow(req).id = req.member /\ MemberRow(req).voucher = req.voucher
        /\ CredentialRow(req).id = req.passkey
        /\ CredentialRow(req).member = req.member
    BY DEF SpendRow, MemberRow, CredentialRow
  <2>3. \A s \in spends : s.voucher # req.voucher /\ s.member # req.member
    BY <2>1 DEF Unspent, NewMember
  <2>4. \A x \in members : x.id # req.member /\ x.voucher # req.voucher
    BY <2>1, <2>3 DEF NewMember
  <2>5. \A x \in credentials : x.id # req.passkey
    BY <2>1 DEF FreePasskey
  <2>6. (\A s, t \in spends : s.voucher = t.voucher \/ s.member = t.member => s = t)'
    BY <2>1, <2>2, <2>3
  <2>7. (\A x, y \in members : x.id = y.id \/ x.voucher = y.voucher => x = y)'
    BY <2>1, <2>2, <2>4
  <2>8. (\A x, y \in credentials : x.id = y.id => x = y)'
    BY <2>1, <2>2, <2>5
  <2>9. (\A s \in spends : \E x \in members :
           x.id = s.member /\ x.voucher = s.voucher)'
    BY <2>1, <2>2
  <2>10. (\A x \in members : \E s \in spends :
            s.member = x.id /\ s.voucher = x.voucher)'
    BY <2>1, <2>2
  <2>11. (\A x \in members : HasMember(x.id))'
    BY <2>1, <2>2
  <2> QED BY <2>6, <2>7, <2>8, <2>9, <2>10, <2>11
<1>3. ASSUME NEW p \in Passkeys, NEW m \in Members, NEW n \in Counters,
             Insert(p, m, n)
      PROVE  TablesAgree'
  BY <1>3 DEF Insert, FreePasskey
<1>4. ASSUME NEW p \in Passkeys, NEW n \in Counters, UpdateCounter(p, n)
      PROVE  TablesAgree'
  <2>1. PICK x \in credentials :
           /\ x.id = p
           /\ credentials' = (credentials \ {x}) \cup {[x EXCEPT !.counter = n]}
           /\ UNCHANGED <<spends, members>>
    BY <1>4 DEF UpdateCounter
  <2>2. [x EXCEPT !.counter = n].id = x.id /\ [x EXCEPT !.counter = n].member = x.member
    BY DEF StoreTypeOK, Credential
  <2>3. (\A y, z \in credentials : y.id = z.id => y = z)'
    <3> DEFINE w == [x EXCEPT !.counter = n]
    <3>1. w.id = x.id /\ credentials' = (credentials \ {x}) \cup {w}
      BY <2>1, <2>2
    <3>2. \A y \in credentials \ {x} : y.id # w.id
      BY <3>1
    <3> HIDE DEF w
    <3> QED BY <3>1, <3>2
  <2>4. ASSUME NEW m, HasMember(m)
        PROVE  HasMember(m)'
    BY <2>1, <2>2, <2>4
  <2>5. (\A y \in members : HasMember(y.id))'
    BY <2>1, <2>4
  <2> QED BY <2>1, <2>3, <2>5
<1>5. ASSUME NEW m \in Members, NEW d \in Devices, NEW at \in Nat, Rebind(m, d, at)
      PROVE  TablesAgree'
  <2>1. PICK x \in members :
           /\ x.id = m
           /\ members' = (members \ {x}) \cup {[x EXCEPT !.device = d]}
           /\ UNCHANGED <<spends, credentials>>
    BY <1>5 DEF Rebind
  <2>2. [x EXCEPT !.device = d].id = x.id /\ [x EXCEPT !.device = d].voucher = x.voucher
    BY DEF StoreTypeOK, Member
  <2>3. \A y \in members' : \E z \in members : z.id = y.id /\ z.voucher = y.voucher
    BY <2>1, <2>2
  <2>4. \A y \in members : \E z \in members' : z.id = y.id /\ z.voucher = y.voucher
    BY <2>1, <2>2
  <2> QED BY <2>1, <2>2, <2>3, <2>4
<1> QED BY <1>1, <1>2, <1>3, <1>4, <1>5, StepCases

(***************************************************************************)
(* The tables agree with each other in every reachable state.              *)
(***************************************************************************)
THEOREM TablesAlwaysAgree == StoreSpec => []TablesAgree
<1>1. StoreInit => TablesAgree
  BY DEF StoreInit, TablesAgree
<1> QED BY <1>1, AgreementKept, StoreTypeCorrect, PTL DEF StoreSpec

(***************************************************************************)
(* No spend goes, and a passkey stays its member's with at least its       *)
(* counter.                                                                *)
(***************************************************************************)
Kept == /\ spends \subseteq spends'
        /\ \A x \in credentials : \E y \in credentials' :
             /\ y.id = x.id /\ y.member = x.member
             /\ y.counter >= x.counter

LEMMA RowsKept ==
  ASSUME StoreTypeOK, TablesAgree, [StoreNext]_storeVars
  PROVE  Kept
<1> USE DEF Kept
<1>0. \A x \in credentials : x.counter \in Int
  BY StoreAssumption DEF StoreTypeOK, Credential, Counters
<1>1. CASE UNCHANGED tables
  BY <1>0, <1>1 DEF tables
<1>2. ASSUME NEW req \in Request, RegisterWithVoucher(req) PROVE Kept
  BY <1>0, <1>2 DEF RegisterWithVoucher
<1>3. ASSUME NEW p \in Passkeys, NEW m \in Members, NEW n \in Counters,
             Insert(p, m, n)
      PROVE  Kept
  BY <1>0, <1>3 DEF Insert
<1>4. ASSUME NEW p \in Passkeys, NEW n \in Counters, UpdateCounter(p, n)
      PROVE  Kept
  <2>1. PICK x \in credentials :
           /\ Accepts(x.counter, n)
           /\ credentials' = (credentials \ {x}) \cup {[x EXCEPT !.counter = n]}
           /\ UNCHANGED spends
    BY <1>4 DEF UpdateCounter
  <2> DEFINE z == [x EXCEPT !.counter = n]
  <2>2. z.id = x.id /\ z.member = x.member /\ z.counter = n
    BY DEF StoreTypeOK, Credential
  <2>3. n \in Int /\ n >= x.counter
    BY <1>0, <2>1, StoreAssumption DEF Accepts, Counters
  <2>4. ASSUME NEW y \in credentials
        PROVE  \E w \in credentials' :
                  w.id = y.id /\ w.member = y.member /\ w.counter >= y.counter
    <3>1. CASE y = x
      <4>1. z \in credentials'
        BY <2>1
      <4> QED BY <3>1, <4>1, <2>2, <2>3
    <3>2. CASE y # x
      <4>1. y \in credentials'
        BY <2>1, <3>2
      <4> QED BY <1>0, <4>1
    <3> QED BY <3>1, <3>2
  <2> QED BY <2>1, <2>4
<1>5. ASSUME NEW m \in Members, NEW d \in Devices, NEW at \in Nat, Rebind(m, d, at)
      PROVE  Kept
  BY <1>0, <1>5 DEF Rebind
<1> QED BY <1>1, <1>2, <1>3, <1>4, <1>5, StepCases

(***************************************************************************)
(* Spends are permanent and counters never go back.                        *)
(***************************************************************************)
THEOREM StoreNeverUndone == StoreSpec => NeverUndone
<1>1. StoreTypeOK /\ TablesAgree /\ [StoreNext]_storeVars => [Kept]_storeVars
  BY RowsKept
<1> QED BY <1>1, StoreTypeCorrect, TablesAlwaysAgree, PTL
        DEF StoreSpec, NeverUndone, Kept

(***************************************************************************)
(* Adding a row to a finite table adds at most one to its size.            *)
(***************************************************************************)
LEMMA AddCardinality ==
  ASSUME NEW S, IsFiniteSet(S), NEW x
  PROVE  /\ IsFiniteSet(S \cup {x})
         /\ Cardinality(S) \in Nat /\ Cardinality(S \cup {x}) \in Nat
         /\ Cardinality(S \cup {x}) <= Cardinality(S) + 1
<1> DEFINE T == S \cup {x}
<1>1. Cardinality(S) \in Nat
  BY FS_CardinalityType
<1>2. IsFiniteSet(T) /\ (x \notin S => Cardinality(T) = Cardinality(S) + 1)
  BY FS_AddElement
<1>3. x \in S => T = S
  OBVIOUS
<1> HIDE DEF T
<1>4. Cardinality(T) \in Nat /\ Cardinality(T) <= Cardinality(S) + 1
  BY <1>1, <1>2, <1>3
<1> QED BY <1>1, <1>2, <1>4 DEF T

(***************************************************************************)
(* Changing the counter of a row neither adds nor removes rows.            *)
(***************************************************************************)
LEMMA ReplaceCardinality ==
  ASSUME NEW S, IsFiniteSet(S), NEW x \in S, NEW y, y \notin S \ {x}
  PROVE  /\ IsFiniteSet((S \ {x}) \cup {y})
         /\ Cardinality((S \ {x}) \cup {y}) = Cardinality(S)
<1>1. IsFiniteSet(S \ {x}) /\ Cardinality(S \ {x}) = Cardinality(S) - 1
  BY FS_RemoveElement
<1>2. /\ IsFiniteSet((S \ {x}) \cup {y})
      /\ Cardinality((S \ {x}) \cup {y}) = Cardinality(S \ {x}) + 1
  BY <1>1, FS_AddElement
<1>3. Cardinality(S) \in Nat
  BY FS_CardinalityType
<1> QED BY <1>1, <1>2, <1>3

(***************************************************************************)
(* No capacity is ever exceeded.  The inductive invariant adds that the    *)
(* tables are finite, without which their cardinality says nothing.        *)
(***************************************************************************)
THEOREM StoreWithinCapacity == StoreSpec => []WithinCapacity
<1> DEFINE Finite == IsFiniteSet(spends) /\ IsFiniteSet(credentials)
           IInv == Finite /\ WithinCapacity
<1>1. StoreInit => IInv
  <2> SUFFICES ASSUME StoreInit PROVE IInv
    OBVIOUS
  <2>1. \A m : PasskeysOf(m) = {}
    BY DEF StoreInit, PasskeysOf
  <2> QED BY <2>1, FS_EmptySet, StoreAssumption DEF StoreInit, WithinCapacity
<1>2. StoreTypeOK /\ TablesAgree /\ IInv /\ [StoreNext]_storeVars => IInv'
  <2> SUFFICES ASSUME StoreTypeOK, TablesAgree, IInv, [StoreNext]_storeVars
               PROVE  IInv'
    OBVIOUS
  <2> USE StoreAssumption
  <2>1. CASE UNCHANGED tables
    BY <2>1 DEF tables, WithinCapacity, PasskeysOf
  <2>2. ASSUME NEW row, NEW p \in Passkeys, NEW m \in Members,
               row.id = p, row.member = m,
               FreePasskey(p, m), RoomForPasskey(m),
               credentials' = credentials \cup {row}
        PROVE  /\ IsFiniteSet(credentials') /\ Cardinality(credentials') <= MaxCredentials
               /\ \A x \in Members : Cardinality(PasskeysOf(x)') <= MaxPerMember
    <3>1. Cardinality(credentials) \in Nat
      BY FS_CardinalityType
    <3>2. /\ IsFiniteSet(credentials')
          /\ Cardinality(credentials') <= Cardinality(credentials) + 1
      BY <2>2, <3>1, AddCardinality
    <3>3. Cardinality(credentials) + 1 <= MaxCredentials
      BY <2>2, <3>1 DEF RoomForPasskey
    <3>4. ASSUME NEW x \in Members
          PROVE  Cardinality(PasskeysOf(x)') <= MaxPerMember
      <4>1. PasskeysOf(x) \in SUBSET credentials
        BY DEF PasskeysOf
      <4>2. IsFiniteSet(PasskeysOf(x)) /\ Cardinality(PasskeysOf(x)) \in Nat
        BY <4>1, FS_Subset, FS_CardinalityType
      <4>3. CASE x = m
        <5>1. PasskeysOf(x)' = PasskeysOf(x) \cup {row}
          BY <2>2, <4>3 DEF PasskeysOf
        <5>2. Cardinality(PasskeysOf(x)') <= Cardinality(PasskeysOf(x)) + 1
          BY <4>2, <5>1, AddCardinality
        <5>3. Cardinality(PasskeysOf(x)) + 1 <= MaxPerMember
          BY <2>2, <4>2, <4>3 DEF RoomForPasskey
        <5>4. Cardinality(PasskeysOf(x)') \in Nat
          BY <4>2, <5>1, AddCardinality
        <5> QED BY <4>2, <5>2, <5>3, <5>4
      <4>4. CASE x # m
        <5>1. PasskeysOf(x)' = PasskeysOf(x)
          BY <2>2, <4>4 DEF PasskeysOf
        <5> QED BY <5>1 DEF WithinCapacity
      <4> QED BY <4>3, <4>4
    <3>5. Cardinality(credentials') \in Nat
      BY <3>2, FS_CardinalityType
    <3> QED BY <3>1, <3>2, <3>3, <3>4, <3>5
  <2>3. ASSUME NEW req \in Request, RegisterWithVoucher(req) PROVE IInv'
    <3>1. /\ Cardinality(spends) < MaxVoucherSpends
          /\ spends' = spends \cup {SpendRow(req)}
          /\ credentials' = credentials \cup {CredentialRow(req)}
          /\ FreePasskey(req.passkey, req.member) /\ RoomForPasskey(req.member)
      BY <2>3 DEF RegisterWithVoucher, Registrable
    <3>2. /\ CredentialRow(req).id = req.passkey
          /\ CredentialRow(req).member = req.member
          /\ req.passkey \in Passkeys /\ req.member \in Members
      BY DEF CredentialRow, Request
    <3>3. Cardinality(spends) \in Nat
      BY FS_CardinalityType
    <3>4. /\ IsFiniteSet(spends')
          /\ Cardinality(spends') <= Cardinality(spends) + 1
      BY <3>1, <3>3, AddCardinality
    <3>5. Cardinality(spends') \in Nat
      BY <3>4, FS_CardinalityType
    <3>6. Cardinality(spends') <= MaxVoucherSpends
      BY <3>1, <3>3, <3>4, <3>5
    <3> QED BY <2>2, <3>1, <3>2, <3>4, <3>6 DEF WithinCapacity
  <2>4. ASSUME NEW p \in Passkeys, NEW m \in Members, NEW n \in Counters,
               Insert(p, m, n)
        PROVE  IInv'
    <3>1. /\ FreePasskey(p, m) /\ RoomForPasskey(m) /\ spends' = spends
          /\ credentials' = credentials \cup {[id |-> p, member |-> m, counter |-> n]}
      BY <2>4 DEF Insert
    <3> QED BY <2>2, <3>1 DEF WithinCapacity
  <2>5. ASSUME NEW p \in Passkeys, NEW n \in Counters, UpdateCounter(p, n)
        PROVE  IInv'
    <3>1. PICK x \in credentials :
             /\ credentials' = (credentials \ {x}) \cup {[x EXCEPT !.counter = n]}
             /\ spends' = spends
      BY <2>5 DEF UpdateCounter
    <3> DEFINE z == [x EXCEPT !.counter = n]
    <3>2. z.id = x.id /\ z.member = x.member
      BY DEF StoreTypeOK, Credential
    <3>3. z \notin credentials \ {x}
      BY <3>2 DEF TablesAgree
    <3>4. credentials' = (credentials \ {x}) \cup {z}
      BY <3>1
    <3> HIDE DEF z
    <3>5. IsFiniteSet(credentials') /\ Cardinality(credentials') = Cardinality(credentials)
      BY <3>3, <3>4, ReplaceCardinality
    <3>6. ASSUME NEW m \in Members
          PROVE  Cardinality(PasskeysOf(m)') <= MaxPerMember
      <4>1. IsFiniteSet(PasskeysOf(m))
        BY FS_Subset DEF PasskeysOf
      <4>2. CASE x.member = m
        <5>1. PasskeysOf(m)' = (PasskeysOf(m) \ {x}) \cup {z}
          BY <3>2, <3>4, <4>2 DEF PasskeysOf
        <5>2. x \in PasskeysOf(m) /\ z \notin PasskeysOf(m) \ {x}
          BY <3>3, <4>2 DEF PasskeysOf
        <5>3. Cardinality((PasskeysOf(m) \ {x}) \cup {z}) = Cardinality(PasskeysOf(m))
          BY <4>1, <5>2, ReplaceCardinality
        <5>4. Cardinality(PasskeysOf(m)) <= MaxPerMember
          BY DEF WithinCapacity
        <5> QED BY <5>1, <5>3, <5>4
      <4>3. CASE x.member # m
        <5>1. PasskeysOf(m)' = PasskeysOf(m)
          BY <3>2, <3>4, <4>3 DEF PasskeysOf
        <5> QED BY <5>1 DEF WithinCapacity
      <4> QED BY <4>2, <4>3
    <3> QED BY <3>1, <3>5, <3>6 DEF WithinCapacity
  <2>6. ASSUME NEW m \in Members, NEW d \in Devices, NEW at \in Nat, Rebind(m, d, at)
        PROVE  IInv'
    BY <2>6 DEF Rebind, WithinCapacity, PasskeysOf
  <2> QED BY <2>1, <2>3, <2>4, <2>5, <2>6, StepCases
<1> QED BY <1>1, <1>2, StoreTypeCorrect, TablesAlwaysAgree, PTL DEF StoreSpec

-----------------------------------------------------------------------------
(***************************************************************************)
(* The three tables implement the abstract promise: a registration is an   *)
(* Admit step, and every other step changes no admission.                  *)
(***************************************************************************)
THEOREM StoreImplementsMembership == StoreSpec => ImplementsMembership
<1> DEFINE admissions == {<<x.voucher, x.id>> : x \in members}
<1>1. StoreInit => Promise!Init
  BY DEF StoreInit, Promise!Init
<1>2. StoreTypeOK /\ TablesAgree /\ [StoreNext]_storeVars => [Promise!Next]_admissions
  <2> SUFFICES ASSUME StoreTypeOK, TablesAgree, [StoreNext]_storeVars
               PROVE  Promise!Next \/ admissions' = admissions
    OBVIOUS
  <2>1. CASE UNCHANGED tables
    BY <2>1 DEF tables
  <2>2. ASSUME NEW req \in Request, RegisterWithVoucher(req)
        PROVE  Promise!Next
    <3>1. /\ Unspent(req) /\ NewMember(req)
          /\ members' = members \cup {MemberRow(req)}
      BY <2>2 DEF RegisterWithVoucher, Registrable
    <3>2. \A x \in members : x.id # req.member /\ x.voucher # req.voucher
      BY <3>1 DEF NewMember, Unspent, TablesAgree
    <3>3. MemberRow(req).voucher = req.voucher /\ MemberRow(req).id = req.member
      BY DEF MemberRow
    <3>4. admissions' = admissions \cup {<<req.voucher, req.member>>}
      BY <3>1, <3>3
    <3>5. \A q \in admissions : q[1] # req.voucher /\ q[2] # req.member
      BY <3>2
    <3>6. req.voucher \in Vouchers /\ req.member \in Members
      BY DEF Request
    <3>7. Promise!Admit(req.voucher, req.member)
      BY <3>4, <3>5 DEF Promise!Admit
    <3> QED BY <3>6, <3>7 DEF Promise!Next
  <2>3. ASSUME NEW p \in Passkeys, NEW m \in Members, NEW n \in Counters,
               Insert(p, m, n)
        PROVE  admissions' = admissions
    BY <2>3 DEF Insert
  <2>4. ASSUME NEW p \in Passkeys, NEW n \in Counters, UpdateCounter(p, n)
        PROVE  admissions' = admissions
    BY <2>4 DEF UpdateCounter
  <2>5. ASSUME NEW m \in Members, NEW d \in Devices, NEW at \in Nat, Rebind(m, d, at)
        PROVE  admissions' = admissions
    <3>1. PICK x \in members :
             members' = (members \ {x}) \cup {[x EXCEPT !.device = d]}
      BY <2>5 DEF Rebind
    <3>2. [x EXCEPT !.device = d].id = x.id /\ [x EXCEPT !.device = d].voucher = x.voucher
      BY DEF StoreTypeOK, Member
    <3>3. admissions' \subseteq admissions
      BY <3>1, <3>2
    <3>4. admissions \subseteq admissions'
      BY <3>1, <3>2
    <3> QED BY <3>3, <3>4
  <2> QED BY <2>1, <2>2, <2>3, <2>4, <2>5, StepCases
<1> QED
  BY <1>1, <1>2, StoreTypeCorrect, TablesAlwaysAgree, PTL
  DEF StoreSpec, ImplementsMembership, Promise!Spec

(* What the promise comes to: an admission is refused when either side of  *)
(* the pair has been admitted before.                                      *)
LEMMA PromiseIsOneToOne == Promise!Spec => []Promise!OneToOne
<1> DEFINE admissions == {<<x.voucher, x.id>> : x \in members}
<1>1. Promise!Init => Promise!OneToOne
  BY DEF Promise!Init, Promise!OneToOne
<1>2. Promise!OneToOne /\ [Promise!Next]_admissions => Promise!OneToOne'
  <2> SUFFICES ASSUME Promise!OneToOne, [Promise!Next]_admissions
               PROVE  Promise!OneToOne'
    OBVIOUS
  <2>1. ASSUME NEW v \in Vouchers, NEW m \in Members, Promise!Admit(v, m)
        PROVE  Promise!OneToOne'
    <3>1. admissions' = admissions \cup {<<v, m>>}
      BY <2>1 DEF Promise!Admit
    <3>2. \A p \in admissions : p[1] # v /\ p[2] # m
      BY <2>1 DEF Promise!Admit
    <3>3. /\ admissions \subseteq Vouchers \X Members
          /\ \A p, q \in admissions : p[1] = q[1] <=> p[2] = q[2]
      BY DEF Promise!OneToOne
    <3> HIDE DEF admissions
    <3>4. /\ admissions' \subseteq Vouchers \X Members
          /\ \A p, q \in admissions' : p[1] = q[1] <=> p[2] = q[2]
      BY <3>1, <3>2, <3>3
    <3> QED BY <3>4 DEF Promise!OneToOne, admissions
  <2> QED BY <2>1 DEF Promise!Next, Promise!OneToOne
<1> QED BY <1>1, <1>2, PTL DEF Promise!Spec

(***************************************************************************)
(* At no time have two members been admitted by one voucher, or two        *)
(* vouchers admitted one member, whichever tables are looked at.           *)
(***************************************************************************)
THEOREM StoreAdmitsOneToOne == StoreSpec => []Promise!OneToOne
BY StoreImplementsMembership, PromiseIsOneToOne DEF ImplementsMembership
=============================================================================
