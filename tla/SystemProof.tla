----------------------------- MODULE SystemProof -----------------------------
(***************************************************************************)
(* Proofs about System.  Each service was proved alone, assuming of the    *)
(* others what OtherServices, EntryWrites and Hold say.  Here that is      *)
(* discharged: while both invariants hold, a step of one service is, for   *)
(* the other, a step its environment may take (EntrySees, AccountSees), so *)
(* both invariants hold for ever, and every theorem of either service      *)
(* holds of the two together.  What only the whole server promises         *)
(* follows from the two invariants side by side.                           *)
(***************************************************************************)
EXTENDS System, TLAPS

LEMMA EntryConfigured == Entry!EntryAssumption
BY SystemAssumption

LEMMA AccountConfigured == Account!AccountAssumption
BY SystemAssumption

LEMMA StoreConfigured == Entry!StoreAssumption /\ Account!StoreAssumption
BY StoreAssumption DEF StoreAssumption, Entry!StoreAssumption, Account!StoreAssumption,
   IsFiniteSet, Entry!IsFiniteSet, Account!IsFiniteSet

-----------------------------------------------------------------------------
(***************************************************************************)
(* Both services use one store: its operations, as each of them is proved  *)
(* about, are the same operations of the same tables.                      *)
(***************************************************************************)
LEMMA SameSets == \A S : /\ Entry!Cardinality(S) = Cardinality(S)
                         /\ Account!Cardinality(S) = Cardinality(S)
BY DEF Entry!Cardinality, Account!Cardinality, Cardinality

LEMMA SameQueries ==
  /\ Entry!Counters = Counters /\ Account!Counters = Counters
  /\ \A m : /\ Entry!PasskeysOf(m) = PasskeysOf(m) /\ Account!PasskeysOf(m) = PasskeysOf(m)
            /\ Entry!HasMember(m) = HasMember(m) /\ Account!HasMember(m) = HasMember(m)
            /\ Entry!ValidUntil(m) = ValidUntil(m) /\ Account!ValidUntil(m) = ValidUntil(m)
BY DEF Entry!Counters, Account!Counters, Counters, Entry!PasskeysOf, Account!PasskeysOf, PasskeysOf,
 Entry!HasMember, Account!HasMember, HasMember, Entry!ValidUntil, Account!ValidUntil, ValidUntil

LEMMA SameRoom ==
  \A m : /\ Entry!RoomForPasskey(m) <=> RoomForPasskey(m)
         /\ Account!RoomForPasskey(m) <=> RoomForPasskey(m)
BY SameSets, SameQueries, Zenon DEF Entry!RoomForPasskey, Account!RoomForPasskey, RoomForPasskey

LEMMA SameInsert ==
  \A p, m, n : /\ Entry!Insert(p, m, n) <=> Insert(p, m, n)
               /\ Account!Insert(p, m, n) <=> Insert(p, m, n)
BY SameRoom DEF Entry!Insert, Account!Insert, Insert, Entry!FreePasskey, Account!FreePasskey, FreePasskey

LEMMA SameUpdate ==
  \A p, n : /\ Entry!UpdateCounter(p, n) <=> UpdateCounter(p, n)
            /\ Account!UpdateCounter(p, n) <=> UpdateCounter(p, n)
BY DEF Entry!UpdateCounter, Account!UpdateCounter, UpdateCounter, Entry!Accepts, Account!Accepts, Accepts

LEMMA SameRebind ==
  \A m, d, at : /\ Entry!Rebind(m, d, at) <=> Rebind(m, d, at)
                /\ Account!Rebind(m, d, at) <=> Rebind(m, d, at)
BY SameQueries DEF Entry!Rebind, Account!Rebind, Rebind

LEMMA SameRegistrable ==
  \A req, now : /\ Entry!Registrable(req, now) <=> Registrable(req, now)
                /\ Account!Registrable(req, now) <=> Registrable(req, now)
BY SameSets, SameQueries, SameRoom, Zenon
DEF Entry!Registrable, Account!Registrable, Registrable, Entry!Unspent, Account!Unspent, Unspent,
    Entry!NewMember, Account!NewMember, NewMember, Entry!FreePasskey, Account!FreePasskey, FreePasskey

LEMMA SameRegister ==
  \A req : /\ Entry!RegisterWithVoucher(req) <=> RegisterWithVoucher(req)
           /\ Account!RegisterWithVoucher(req) <=> RegisterWithVoucher(req)
BY SameRegistrable
DEF Entry!RegisterWithVoucher, Account!RegisterWithVoucher, RegisterWithVoucher,
    Entry!SpendRow, Account!SpendRow, SpendRow, Entry!MemberRow, Account!MemberRow, MemberRow,
    Entry!CredentialRow, Account!CredentialRow, CredentialRow

LEMMA SameTick ==
  /\ Entry!storeVars = storeVars /\ Account!storeVars = storeVars
  /\ Entry!Tick <=> Tick
  /\ Account!Tick <=> Tick
  /\ Entry!Request = Request
<1>1. Entry!storeVars = storeVars /\ Account!storeVars = storeVars
  BY DEF Entry!storeVars, Account!storeVars, storeVars
<1>2. Entry!Tick <=> Tick
  BY DEF Entry!Tick, Tick, Entry!tables, tables
<1>3. Account!Tick <=> Tick
  BY DEF Account!Tick, Tick, Account!tables, tables
<1>4. Entry!Request = Request
  BY SameQueries DEF Entry!Request, Request
<1> QED BY <1>1, <1>2, <1>3, <1>4

-----------------------------------------------------------------------------
(***************************************************************************)
(* The invariant: that of each service, and what they need of each other,  *)
(* that a member of the tables has a root key, and a drawn id has none.    *)
(***************************************************************************)
Rooted ==
    /\ drawn \cap Roots = {}
    /\ \A x \in members : x.id \in Roots

SystemInv ==
    /\ Entry!IInv /\ Entry!TablesAgree /\ Entry!SInv
    /\ Account!IInv
    /\ Rooted

(* A segment of the entry service, as the others see it. *)
LEMMA EntryStepSeen ==
  ASSUME SystemInv, EntryStep
  PROVE  Account!EntryWrites \/ UNCHANGED Account!accountVars
<1>1. CASE Entry!GetSession \/ Entry!RevokeSession
  BY <1>1, SameTick
     DEF EntryStep, Entry!GetSession, Entry!RevokeSession, accountOwn, Account!accountVars,
         Entry!storeVars
<1>2. ASSUME NEW c \in EntryCallers, Entry!Begins(c) \/ Entry!Continues(c)
      PROVE  Account!EntryWrites
  <2>1. Entry!EntryUses
    BY <1>2, Entry!CallUses, EntryConfigured, StoreConfigured DEF SystemInv
  <2>2. retired' \in (IF store = "turso" THEN {retired, TRUE} ELSE {retired})
    BY <2>1 DEF EntryStep, Entry!EntryUses, SystemInv, Account!IInv, Account!Typed, Account!TypeOK
  <2>3. UNCHANGED <<store, ceremonies, logins, accountCalls, accountTokens, boots,
                    Account!history>>
    BY <2>1 DEF EntryStep, Entry!EntryUses, accountOwn, Account!history
  <2>4. ASSUME NEW req \in Entry!Request, req.at \in 1 .. clock,
               req.member \in {a.member : a \in Authorizations},
               Entry!RegisterWithVoucher(req)
        PROVE  \E v \in Vouchers, m \in Members \ drawn, d \in Devices, p \in Passkeys,
                  n \in Account!Counters, at \in 1 .. clock :
                 Account!RegisterWithVoucher([voucher |-> v, member |-> m, device |-> d,
                                              passkey |-> p, counter |-> n, at |-> at])
    <3>1. req \in Request
      BY <2>4, SameTick
    <3>2. req = [voucher |-> req.voucher, member |-> req.member, device |-> req.device,
                 passkey |-> req.passkey, counter |-> req.counter, at |-> req.at]
      BY <3>1 DEF Request
    <3>3. req.member \in Members \ drawn
      BY <2>4, <3>1 DEF Request, SystemInv, Rooted, Roots
    <3>4. Account!RegisterWithVoucher(req)
      BY <2>4, SameRegister
    <3>5. /\ req.voucher \in Vouchers /\ req.device \in Devices /\ req.passkey \in Passkeys
          /\ req.counter \in Account!Counters
      BY <3>1, SameQueries DEF Request
    <3> QED BY <2>4, <3>2, <3>3, <3>4, <3>5
  <2>5. ASSUME NEW p \in Passkeys, NEW n \in Entry!Counters, Entry!UpdateCounter(p, n)
        PROVE  n \in Account!Counters /\ Account!UpdateCounter(p, n)
    BY <2>5, SameUpdate, SameQueries
  <2>6. ASSUME NEW m \in Members, NEW d \in Devices, NEW at \in 1 .. clock,
               Entry!Rebind(m, d, at)
        PROVE  Account!Rebind(m, d, at)
    BY <2>6, SameRebind
  <2>7. UNCHANGED Entry!storeVars => UNCHANGED Account!storeVars
    BY DEF Entry!storeVars, Account!storeVars
  <2>8. \/ \E v \in Vouchers, m \in Members \ drawn, d \in Devices, p \in Passkeys,
              n \in Account!Counters, at \in 1 .. clock :
             Account!RegisterWithVoucher([voucher |-> v, member |-> m, device |-> d,
                                          passkey |-> p, counter |-> n, at |-> at])
        \/ \E p \in Passkeys, n \in Account!Counters : Account!UpdateCounter(p, n)
        \/ \E m \in Members, d \in Devices, at \in 1 .. clock : Account!Rebind(m, d, at)
        \/ UNCHANGED Account!storeVars
    BY <2>1, <2>4, <2>5, <2>6, <2>7 DEF Entry!EntryUses
  <2> QED BY <2>2, <2>3, <2>8 DEF Account!EntryWrites
<1> QED BY <1>1, <1>2 DEF EntryStep

(* A segment of the passkey service or the verifier, as the entry service  *)
(* sees it.                                                                *)
LEMMA AccountStepSeen ==
  ASSUME SystemInv, AccountStep
  PROVE  Entry!OtherServices
<1>1. UNCHANGED <<Entry!memory, entryCalls, entryTokens, issued, Entry!issuance>>
  BY DEF AccountStep, entryOwn, Entry!memory, Entry!issuance
<1>2. CASE Account!Begin
  BY <1>1, <1>2 DEF Account!Begin, Account!storeVars, Entry!storeVars, Entry!OtherServices
<1>3. ASSUME NEW c \in AccountCallers, Account!PasskeyStep(c) \/ Account!VerifierStep(c)
      PROVE  Entry!OtherServices
  <2>1. Account!AccountUses
    BY <1>3, Account!AccountCallUses, AccountConfigured, StoreConfigured
       DEF SystemInv, Account!IInv, Account!Typed
  <2>2. \/ \E p \in Passkeys, m \in Members, n \in Entry!Counters : Entry!Insert(p, m, n)
        \/ \E p \in Passkeys, n \in Entry!Counters : Entry!UpdateCounter(p, n)
        \/ UNCHANGED Entry!storeVars
    BY <2>1, SameInsert, SameUpdate, SameQueries
       DEF Account!AccountUses, Account!storeVars, Entry!storeVars
  <2> QED BY <1>1, <2>1, <2>2 DEF Account!AccountUses, Entry!OtherServices
<1> QED BY <1>2, <1>3 DEF AccountStep

(* A credential that is accepted ends with the member's voucher.           *)
LEMMA AcceptSeen ==
  ASSUME SystemInv, Accept
  PROVE  Account!Hold /\ UNCHANGED Entry!entryVars
<1>1. UNCHANGED Entry!entryVars
  BY DEF Accept, storeVars, entryOwn, Entry!entryVars
<1>2. PICK x \in minted :
         /\ clock < x.validUntil
         /\ held' = held \cup {[member |-> x.member, validUntil |-> x.validUntil]}
  BY DEF Accept
<1>3. x.member \in Members /\ x.validUntil \in Nat /\ clock \in Nat
  BY DEF SystemInv, Entry!IInv, Entry!TypeOK, Entry!StoreTypeOK
<1>4. PICK s \in spends, y \in members :
         y.id = x.member /\ y.voucher = s.voucher /\ x.validUntil <= s.expiresAt
  BY DEF SystemInv, Entry!SInv, Entry!Vouched
<1>5. s.expiresAt \in Account!ValidUntil(x.member) /\ s.expiresAt \in Nat
  <2>1. s.expiresAt \in Nat
    BY <1>4 DEF SystemInv, Entry!IInv, Entry!TypeOK, Entry!StoreTypeOK, Entry!Spend
  <2> QED BY <1>4, <2>1 DEF Account!ValidUntil
<1>6. x.validUntil \in clock + 1 .. s.expiresAt
  BY <1>2, <1>3, <1>4, <1>5
<1>7. UNCHANGED <<Account!storeVars, store, ceremonies, logins, accountCalls, retired,
                  accountTokens, boots, drawn, assertions, grants>>
  BY DEF Accept, storeVars, Account!storeVars, accountOwn
<1> QED BY <1>1, <1>2, <1>3, <1>5, <1>6, <1>7 DEF Account!Hold

(* So each service takes one of its own steps, or none, at every step. *)
LEMMA EntrySees ==
  ASSUME SystemInv, [SystemNext]_systemVars
  PROVE  [Entry!Next]_(Entry!entryVars)
<1>1. CASE EntryStep
  BY <1>1 DEF EntryStep, Entry!Next, Entry!Environment
<1>2. CASE AccountStep
  BY <1>2, AccountStepSeen DEF Entry!Next, Entry!Environment
<1>3. CASE Accept
  BY <1>3, AcceptSeen
<1>4. CASE SystemTick
  BY <1>4, SameTick
     DEF SystemTick, Entry!Next, Entry!Environment, entryOwn, Entry!memory, Entry!issuance
<1>5. CASE Restart
  BY <1>5 DEF Restart, Entry!Next, Entry!Environment
<1>6. CASE UNCHANGED systemVars
  BY <1>6 DEF systemVars, storeVars, entryOwn, Entry!entryVars
<1> QED BY <1>1, <1>2, <1>3, <1>4, <1>5, <1>6 DEF SystemNext

LEMMA AccountSees ==
  ASSUME SystemInv, [SystemNext]_systemVars
  PROVE  [Account!Next]_(Account!accountVars)
<1>1. CASE EntryStep
  BY <1>1, EntryStepSeen DEF Account!Next, Account!Around
<1>2. CASE AccountStep
  BY <1>2 DEF AccountStep, Account!Next
<1>3. CASE Accept
  BY <1>3, AcceptSeen DEF Account!Next, Account!Around
<1>4. CASE SystemTick
  BY <1>4, SameTick DEF SystemTick, Account!Next, Account!Around, accountOwn, Account!history
<1>5. CASE Restart
  BY <1>5 DEF Restart, Account!Next, Account!Around
<1>6. CASE UNCHANGED systemVars
  BY <1>6 DEF systemVars, storeVars, accountOwn, Account!accountVars
<1> QED BY <1>1, <1>2, <1>3, <1>4, <1>5, <1>6 DEF SystemNext

(* A member comes into the tables by its authorization only. *)
LEMMA RootedKept ==
  ASSUME SystemInv, [SystemNext]_systemVars
  PROVE  Rooted'
<1>1. CASE EntryStep
  <2>1. UNCHANGED drawn
    BY <1>1 DEF EntryStep, accountOwn
  <2>2. CASE UNCHANGED storeVars
    BY <2>1, <2>2 DEF storeVars, SystemInv, Rooted
  <2>3. ASSUME NEW c \in EntryCallers, Entry!Begins(c) \/ Entry!Continues(c)
        PROVE  Rooted'
    <3>1. Entry!EntryUses
      BY <2>3, Entry!CallUses, EntryConfigured, StoreConfigured DEF SystemInv
    <3>2. ASSUME NEW req \in Entry!Request,
                 req.member \in {a.member : a \in Authorizations},
                 Entry!RegisterWithVoucher(req)
          PROVE  Rooted'
      <4>1. members' = members \cup {MemberRow(req)} /\ MemberRow(req).id \in Roots
        BY <3>2, SameRegister DEF RegisterWithVoucher, MemberRow, Roots
      <4> QED BY <2>1, <4>1 DEF SystemInv, Rooted
    <3>3. ASSUME NEW p, NEW n, Entry!UpdateCounter(p, n) PROVE Rooted'
      BY <2>1, <3>3 DEF Entry!UpdateCounter, SystemInv, Rooted
    <3>4. ASSUME NEW m, NEW d, NEW at, Entry!Rebind(m, d, at) PROVE Rooted'
      <4>1. PICK x \in members : members' = (members \ {x}) \cup {[x EXCEPT !.device = d]}
        BY <3>4 DEF Entry!Rebind
      <4>2. [x EXCEPT !.device = d].id = x.id
        BY <4>1 DEF SystemInv, Entry!IInv, Entry!TypeOK, Entry!StoreTypeOK, Entry!Member
      <4> QED BY <2>1, <4>1, <4>2 DEF SystemInv, Rooted
    <3> QED BY <2>2, <3>1, <3>2, <3>3, <3>4 DEF Entry!EntryUses, Entry!storeVars, storeVars
  <2> QED BY <1>1, <2>2, <2>3
          DEF EntryStep, Entry!GetSession, Entry!RevokeSession, Entry!storeVars, storeVars
<1>2. CASE AccountStep
  <2>1. UNCHANGED members
    BY <1>2, AccountStepSeen
       DEF Entry!OtherServices, Entry!Insert, Entry!UpdateCounter, Entry!storeVars
  <2> QED BY <1>2, <2>1 DEF AccountStep, SystemInv, Rooted, Roots
<1>3. CASE UNCHANGED <<members, drawn>>
  BY <1>3 DEF SystemInv, Rooted
<1>4. CASE Accept \/ SystemTick \/ UNCHANGED systemVars
  BY <1>3, <1>4 DEF Accept, SystemTick, Tick, tables, storeVars, accountOwn, systemVars
<1>5. CASE Restart
  BY <1>3, <1>5 DEF Restart, Account!Restart, Account!storeVars, Account!history
<1> QED BY <1>1, <1>2, <1>4, <1>5 DEF SystemNext

(* What one service does to the tables is an operation of the store to the *)
(* other, so the tables go on agreeing.                                    *)
LEMMA TablesKept ==
  ASSUME SystemInv, [SystemNext]_systemVars
  PROVE  Entry!TablesAgree'
<1>1. Account!TablesAgree'
  BY AccountSees, Account!IInvKept, AccountConfigured, StoreConfigured
     DEF SystemInv, Account!IInv
<1>2. Account!TablesAgree' => Entry!TablesAgree'
  BY DEF Account!TablesAgree, Entry!TablesAgree, Account!HasMember, Entry!HasMember,
         Account!PasskeysOf, Entry!PasskeysOf
<1> QED BY <1>1, <1>2

LEMMA SystemInvInductive == SystemSpec => []SystemInv
<1>1. SystemInit => SystemInv
  <2> SUFFICES ASSUME SystemInit PROVE SystemInv
    OBVIOUS
  <2>1. Entry!EntryInit /\ Account!AccountInit
    BY DEF SystemInit
  <2>2. Entry!IInv
    BY <2>1, Entry!InitHolds, EntryConfigured, StoreConfigured
  <2>3. Account!IInv
    BY <2>1, Account!InitHolds, AccountConfigured, StoreConfigured
  <2>4. Entry!SInv
    BY <2>1, Entry!SInvInit, EntryConfigured, StoreConfigured
  <2>5. Rooted /\ Entry!TablesAgree
    BY <2>1 DEF Entry!EntryInit, Entry!StoreInit, Account!AccountInit, Rooted,
       Entry!TablesAgree
  <2> QED BY <2>2, <2>3, <2>4, <2>5 DEF SystemInv
<1>2. SystemInv /\ [SystemNext]_systemVars => SystemInv'
  <2> SUFFICES ASSUME SystemInv, [SystemNext]_systemVars PROVE SystemInv'
    OBVIOUS
  <2>1. Entry!IInv'
    BY EntrySees, Entry!IInvKept, EntryConfigured, StoreConfigured DEF SystemInv
  <2>2. Account!IInv'
    BY AccountSees, Account!IInvKept, AccountConfigured, StoreConfigured DEF SystemInv
  <2>3. Entry!SInv'
    BY <2>1, EntrySees, Entry!SInvKept, EntryConfigured, StoreConfigured DEF SystemInv
  <2> QED BY <2>1, <2>2, <2>3, TablesKept, RootedKept DEF SystemInv
<1> QED BY <1>1, <1>2, PTL DEF SystemSpec

(***************************************************************************)
(* In the whole server each service is as it was modelled alone, with the  *)
(* others as its environment ...                                           *)
(***************************************************************************)
THEOREM SystemKeepsEntry == SystemSpec => KeepsEntry
<1>1. SystemInv /\ [SystemNext]_systemVars => [Entry!Next]_(Entry!entryVars)
  BY EntrySees
<1> QED BY <1>1, SystemInvInductive, PTL DEF SystemSpec, KeepsEntry

THEOREM SystemKeepsAccount == SystemSpec => KeepsAccount
<1>1. SystemInv /\ [SystemNext]_systemVars => [Account!Next]_(Account!accountVars)
  BY AccountSees
<1> QED BY <1>1, SystemInvInductive, PTL DEF SystemSpec, KeepsAccount

(***************************************************************************)
(* ... so it implements both.                                              *)
(***************************************************************************)
THEOREM SystemImplements == SystemSpec => Entry!Spec /\ Account!Spec
<1>1. SystemInit => Entry!EntryInit /\ Account!AccountInit
  BY DEF SystemInit
<1> QED BY <1>1, SystemKeepsEntry, SystemKeepsAccount, PTL
        DEF SystemSpec, KeepsEntry, KeepsAccount, Entry!Spec, Account!Spec

-----------------------------------------------------------------------------
(***************************************************************************)
(* What the whole server promises.                                         *)
(***************************************************************************)

(* A counter that has passed the store at one service is behind the row    *)
(* when the other service's passes it.                                     *)
LEMMA CountersKept ==
  ASSUME SystemInv, SystemInv', CountersAcceptedOnceByAll, [SystemNext]_systemVars
  PROVE  CountersAcceptedOnceByAll'
<1> DEFINE Logged(c) == entryCalls[c].pc = "publishLogin" /\ entryCalls[c].ok
           Apart(c, a) == /\ Logged(c) /\ entryCalls[c].passkey = a.passkey /\ a.counter > 0
                          => entryCalls[c].counter # a.counter
<1>1. CountersAcceptedOnceByAll <=> \A c \in EntryCallers, a \in assertions : Apart(c, a)
  BY DEF CountersAcceptedOnceByAll, Entry!At
<1>2. CountersAcceptedOnceByAll' <=> \A c \in EntryCallers, a \in assertions' : Apart(c, a)'
  BY DEF CountersAcceptedOnceByAll, Entry!At
<1> USE <1>1
<1>3. CASE EntryStep
  <2>1. UNCHANGED assertions
    BY <1>3 DEF EntryStep, accountOwn
  <2>2. CASE UNCHANGED entryCalls
    BY <1>2, <2>1, <2>2
  <2>3. ASSUME NEW c \in EntryCallers, Entry!Begins(c) \/ Entry!Continues(c)
        PROVE  \A d \in EntryCallers, a \in assertions' : Apart(d, a)'
    <3>1. Entry!SoundStep(c)
      BY <2>3, Entry!CallSound, EntryConfigured, StoreConfigured DEF SystemInv
    <3>2. \A d \in EntryCallers \ {c} : entryCalls'[d] = entryCalls[d]
      BY <3>1 DEF Entry!SoundStep
    <3>3. ASSUME NEW a \in assertions, Logged(c)', entryCalls'[c].passkey = a.passkey,
                 a.counter > 0
          PROVE  entryCalls'[c].counter # a.counter
      <4>1. entryCalls'[c].counter > 0 =>
               \A y \in credentials : y.id = a.passkey => y.counter < entryCalls'[c].counter
        BY <3>1, <3>3 DEF Entry!SoundStep, Entry!Counts
      <4>2. PICK y \in credentials : y.id = a.passkey /\ y.counter >= a.counter
        BY DEF SystemInv, Account!IInv, Account!CountersAcceptedOnce
      <4>3. y.counter \in Nat /\ a.counter \in Nat
        BY DEF SystemInv, Account!IInv, Account!Typed, Account!TypeOK, Account!StoreTypeOK,
               Account!Credential, Account!Assertion, Account!Counters
      <4> QED BY <3>3, <4>1, <4>2, <4>3
    <3> QED BY <2>1, <3>2, <3>3
  <2> QED BY <1>2, <1>3, <2>2, <2>3 DEF EntryStep, Entry!GetSession, Entry!RevokeSession
<1>4. CASE AccountStep
  <2>1. UNCHANGED entryCalls
    BY <1>4 DEF AccountStep, entryOwn
  <2>2. CASE UNCHANGED assertions
    BY <1>2, <2>1, <2>2
  <2>3. ASSUME NEW c \in AccountCallers, Account!PasskeyStep(c) \/ Account!VerifierStep(c),
               assertions' # assertions
        PROVE  \A d \in EntryCallers, a \in assertions' : Apart(d, a)'
    <3>1. PICK k \in Account!Keeps(accountCalls[c]), n \in Account!Counters,
               b \in Account!Assertion :
                 /\ Account!UpdateCounter(k.id, n)
                 /\ b.passkey = k.id /\ b.member = k.member /\ b.counter = n
                 /\ assertions' = assertions \cup {b}
      BY <2>3, Account!CallAccepts, AccountConfigured, StoreConfigured
         DEF SystemInv, Account!IInv, Account!Typed
    <3>2. PICK x \in credentials : x.id = b.passkey /\ Account!Accepts(x.counter, n)
      BY <3>1 DEF Account!UpdateCounter
    <3>3. ASSUME NEW d \in EntryCallers, Logged(d), entryCalls[d].passkey = b.passkey,
                 b.counter > 0
          PROVE  entryCalls[d].counter # b.counter
      <4>1. PICK y \in credentials :
               y.id = b.passkey /\ y.counter >= entryCalls[d].counter
        BY <3>3 DEF SystemInv, Entry!SInv, Entry!CounterOnce, Entry!At, Entry!Sound, Entry!Backed
      <4>2. y = x
        BY <3>2, <4>1 DEF SystemInv, Entry!TablesAgree
      <4>3. x.counter \in Nat /\ n \in Nat
        BY DEF SystemInv, Account!IInv, Account!Typed, Account!TypeOK, Account!StoreTypeOK,
               Account!Credential, Account!Counters
      <4> QED BY <3>1, <3>2, <3>3, <4>1, <4>2, <4>3 DEF Account!Accepts
    <3> QED BY <2>1, <3>1, <3>3
  <2>4. CASE Account!Begin
    BY <2>2, <2>4 DEF Account!Begin, Account!history
  <2> QED BY <1>2, <1>4, <2>2, <2>3, <2>4 DEF AccountStep
<1>5. CASE UNCHANGED <<entryCalls, assertions>>
  BY <1>2, <1>5
<1>6. CASE Accept \/ SystemTick \/ UNCHANGED systemVars
  BY <1>5, <1>6 DEF Accept, SystemTick, entryOwn, accountOwn, systemVars
<1>7. CASE Restart
  <2>1. entryCalls' = [c \in EntryCallers |-> Entry!Idle]
    BY <1>7 DEF Restart, Entry!Restart
  <2>2. \A c \in EntryCallers : ~Logged(c)'
    BY <2>1 DEF Entry!Idle
  <2> QED BY <1>2, <2>2
<1> QED BY <1>3, <1>4, <1>6, <1>7 DEF SystemNext

(***************************************************************************)
(* No nonzero counter of a passkey is accepted by two of the services, nor *)
(* twice by one: the row they share has kept every counter that was        *)
(* accepted, whichever service committed it, when the next is compared.    *)
(***************************************************************************)
THEOREM CountersOnceByAll == SystemSpec => []CountersAcceptedOnceByAll
<1>1. SystemInit => CountersAcceptedOnceByAll
  BY DEF SystemInit, Account!AccountInit, CountersAcceptedOnceByAll
<1>2. /\ SystemInv /\ SystemInv' /\ CountersAcceptedOnceByAll /\ [SystemNext]_systemVars
      => CountersAcceptedOnceByAll'
  BY CountersKept
<1> QED BY <1>1, <1>2, SystemInvInductive, PTL DEF SystemSpec

(* Credentials the issuer made for m, that last until t. *)
Earned(m, t) == \E x \in minted : x.member = m /\ t <= x.validUntil
EarnedInv ==
    /\ \A e \in held : Earned(e.member, e.validUntil)
    /\ \A c \in AccountCallers : accountCalls[c].pc = "verifyLogin" =>
          Earned(accountCalls[c].ch.credential.member, accountCalls[c].ch.grantExpiresAt)
    /\ \A g \in grants : Earned(g.member, g.expiresAt)

LEMMA EarnedKept ==
  ASSUME SystemInv, EarnedInv, [SystemNext]_systemVars
  PROVE  EarnedInv'
<1>1. ASSUME minted \subseteq minted', NEW m, NEW t, Earned(m, t) PROVE Earned(m, t)'
  BY <1>1 DEF Earned
<1>2. CASE minted \subseteq minted' /\ UNCHANGED <<held, accountCalls, grants>>
  BY <1>1, <1>2 DEF EarnedInv
<1>3. CASE EntryStep
  <2>1. minted \subseteq minted'
    BY <1>3, Entry!CallUses, EntryConfigured, StoreConfigured
       DEF EntryStep, SystemInv, Entry!EntryUses, Entry!GetSession, Entry!RevokeSession,
           Entry!issuance
  <2> QED BY <1>2, <1>3, <2>1 DEF EntryStep, accountOwn
<1>4. CASE AccountStep
  <2>1. UNCHANGED <<minted, held>>
    <3>1. CASE Account!Begin
      BY <1>4, <3>1 DEF AccountStep, entryOwn, Account!Begin, Account!history
    <3>2. ASSUME NEW c \in AccountCallers, Account!PasskeyStep(c) \/ Account!VerifierStep(c)
          PROVE  UNCHANGED held
      BY <3>2, Account!AccountCallUses, AccountConfigured, StoreConfigured
         DEF SystemInv, Account!IInv, Account!Typed, Account!AccountUses
    <3> QED BY <1>4, <3>1, <3>2 DEF AccountStep, entryOwn
  <2>2. CASE Account!Begin
    BY <1>2, <2>1, <2>2 DEF Account!Begin, Account!history
  <2>3. ASSUME NEW c \in AccountCallers, Account!PasskeyStep(c) \/ Account!VerifierStep(c)
        PROVE  EarnedInv'
    <3>1. /\ \A d \in AccountCallers : accountCalls'[d].pc = "verifyLogin" =>
               \/ accountCalls'[d] = accountCalls[d]
               \/ accountCalls'[d].ch \in Account!Login /\ Account!Presentable(accountCalls'[d].ch)
          /\ \A g \in grants' \ grants : \E d \in AccountCallers :
               /\ accountCalls[d].pc = "verifyLogin"
               /\ g.member = accountCalls[d].ch.credential.member
               /\ g.expiresAt = accountCalls[d].ch.grantExpiresAt
      BY <2>3, Account!GrantsPresented, AccountConfigured, StoreConfigured
         DEF SystemInv, Account!IInv, Account!Typed, Account!At
    <3>2. ASSUME NEW ch \in Account!Login, Account!Presentable(ch)
          PROVE  Earned(ch.credential.member, ch.grantExpiresAt)
      <4>1. PICK e \in held : /\ e.member = ch.credential.member
                              /\ e.validUntil >= Account!ProofValidUntil(ch)
        BY <3>2 DEF Account!Presentable
      <4>2. PICK x \in minted : x.member = e.member /\ e.validUntil <= x.validUntil
        BY DEF EarnedInv, Earned
      <4>3. ch.expiresAt \in Nat /\ ch.grantExpiresAt \in Nat
        BY DEF Account!Login
      <4>4. x.validUntil \in Nat /\ e.validUntil \in Nat
        BY DEF SystemInv, Entry!IInv, Entry!TypeOK, Account!IInv, Account!Typed,
               Account!TypeOK, Account!Eligibility
      <4>5. ch.grantExpiresAt <= Account!ProofValidUntil(ch) /\ Account!ProofValidUntil(ch) \in Nat
        BY <4>3 DEF Account!ProofValidUntil
      <4> QED BY <4>1, <4>2, <4>3, <4>4, <4>5 DEF Earned
    <3>3. ASSUME NEW d \in AccountCallers, accountCalls'[d].pc = "verifyLogin"
          PROVE  Earned(accountCalls'[d].ch.credential.member, accountCalls'[d].ch.grantExpiresAt)
      BY <3>1, <3>2, <3>3 DEF EarnedInv
    <3>4. ASSUME NEW g \in grants' PROVE Earned(g.member, g.expiresAt)
      BY <3>1, <3>4 DEF EarnedInv
    <3> QED BY <2>1, <3>3, <3>4 DEF EarnedInv, Earned
  <2> QED BY <1>4, <2>2, <2>3 DEF AccountStep
<1>5. CASE Accept
  <2>1. PICK x \in minted :
           held' = held \cup {[member |-> x.member, validUntil |-> x.validUntil]}
    BY <1>5 DEF Accept
  <2>2. x.validUntil \in Nat
    BY DEF SystemInv, Entry!IInv, Entry!TypeOK
  <2>3. UNCHANGED <<minted, accountCalls, grants>>
    BY <1>5 DEF Accept, entryOwn, accountOwn
  <2> QED BY <2>1, <2>2, <2>3 DEF EarnedInv, Earned
<1>6. CASE SystemTick \/ UNCHANGED systemVars
  BY <1>2, <1>6 DEF SystemTick, entryOwn, accountOwn, systemVars
<1>7. CASE Restart
  <2>1. /\ UNCHANGED <<minted, held, grants>>
        /\ \A c \in AccountCallers : accountCalls'[c].pc = "idle"
    BY <1>7 DEF Restart, Entry!Restart, Account!Restart, Account!history, Account!Idle
  <2> QED BY <2>1 DEF EarnedInv, Earned
<1> QED BY <1>3, <1>4, <1>5, <1>6, <1>7 DEF SystemNext

LEMMA EarnedInductive == SystemSpec => []EarnedInv
<1>1. SystemInit => EarnedInv
  BY DEF SystemInit, Account!AccountInit, EarnedInv, Account!Idle
<1>2. SystemInv /\ EarnedInv /\ [SystemNext]_systemVars => EarnedInv'
  BY EarnedKept
<1> QED BY <1>1, <1>2, SystemInvInductive, PTL DEF SystemSpec

(***************************************************************************)
(* Every admission goes back to a credential the issuer made for the       *)
(* member through the entry service, and ends no later than it.            *)
(***************************************************************************)
THEOREM AdmissionsAlwaysEarned == SystemSpec => []AdmissionsEarned
<1>1. EarnedInv => AdmissionsEarned
  BY DEF EarnedInv, Earned, AdmissionsEarned
<1> QED BY <1>1, EarnedInductive, PTL

(***************************************************************************)
(* Nobody the passkey service made up an id for is certified, credentialed *)
(* or admitted: those who are have a row of members, so a root key.        *)
(***************************************************************************)
THEOREM NoDrawnMemberAdmitted == SystemSpec => []DrawnNeverAdmitted
<1>1. SystemInv /\ EarnedInv => DrawnNeverAdmitted
  <2> SUFFICES ASSUME SystemInv, EarnedInv PROVE DrawnNeverAdmitted
    OBVIOUS
  <2>1. ASSUME NEW m, NEW t, Entry!Vouched(spends, members, m, t) PROVE m \notin drawn
    BY <2>1 DEF Entry!Vouched, SystemInv, Rooted
  <2>2. \A x \in issued : x.member \notin drawn
    BY <2>1 DEF SystemInv, Entry!SInv, Entry!Honoured
  <2>3. \A x \in minted : x.member \notin drawn
    BY <2>1 DEF SystemInv, Entry!SInv
  <2>4. \A x \in grants : x.member \notin drawn
    BY <2>3 DEF EarnedInv, Earned
  <2> QED BY <2>2, <2>3, <2>4 DEF DrawnNeverAdmitted
<1> QED BY <1>1, SystemInvInductive, EarnedInductive, PTL

(***************************************************************************)
(* The server changes the tables by the store's operations only.           *)
(***************************************************************************)
LEMMA SameStoreStep == Entry!StoreNext => StoreNext
<1> SUFFICES ASSUME Entry!StoreNext PROVE StoreNext
  OBVIOUS
<1>1. CASE Entry!Tick
  BY <1>1, SameTick DEF StoreNext
<1>2. ASSUME NEW v \in Vouchers, NEW m \in Members, NEW d \in Devices, NEW p \in Passkeys,
             NEW n \in Entry!Counters, NEW at \in 1 .. clock,
             Entry!RegisterWithVoucher([voucher |-> v, member |-> m, device |-> d,
                                        passkey |-> p, counter |-> n, at |-> at])
      PROVE  StoreNext
  <2>1. RegisterWithVoucher([voucher |-> v, member |-> m, device |-> d,
                             passkey |-> p, counter |-> n, at |-> at])
    BY <1>2, SameRegister
  <2> QED BY <2>1, SameQueries DEF StoreNext
<1>3. ASSUME NEW p \in Passkeys, NEW m \in Members, NEW n \in Entry!Counters,
             Entry!Insert(p, m, n)
      PROVE  StoreNext
  BY <1>3, SameInsert, SameQueries DEF StoreNext
<1>4. ASSUME NEW p \in Passkeys, NEW n \in Entry!Counters, Entry!UpdateCounter(p, n)
      PROVE  StoreNext
  BY <1>4, SameUpdate, SameQueries DEF StoreNext
<1>5. ASSUME NEW m \in Members, NEW d \in Devices, NEW at \in 1 .. clock,
             Entry!Rebind(m, d, at)
      PROVE  StoreNext
  BY <1>5, SameRebind DEF StoreNext
<1> QED BY <1>1, <1>2, <1>3, <1>4, <1>5 DEF Entry!StoreNext

THEOREM SystemKeepsTables == SystemSpec => StoreSpec
<1>1. SystemInit => StoreInit
  BY DEF SystemInit, Entry!EntryInit, Entry!StoreInit, StoreInit
<1>2. SystemSpec => Entry!StoreSpec
  BY SystemImplements, Entry!EntryImplementsStore, EntryConfigured, StoreConfigured, PTL
<1>3. [Entry!StoreNext]_(Entry!storeVars) => [StoreNext]_storeVars
  BY SameStoreStep DEF Entry!storeVars, storeVars
<1> QED BY <1>1, <1>2, <1>3, PTL DEF SystemSpec, Entry!StoreSpec, StoreSpec

(***************************************************************************)
(* What was proved of each service holds of it in the server.              *)
(***************************************************************************)
THEOREM EntrySafeInSystem ==
  SystemSpec => /\ []Entry!SessionCapacity /\ []Entry!PendingWithinCapacity
                /\ []Entry!ChallengeSingleUse /\ []Entry!OfferSingleUse
                /\ []Entry!SessionsBackedByStore
                /\ []Entry!CertificatesHonoured /\ []Entry!CredentialsHonoured
                /\ Entry!LoginsAreCounted /\ Entry!ReservationHonoured
                /\ Entry!GrantsOnlyLiveSessions /\ Entry!AskedByLiveActors
                /\ Entry!KeepsPromise
BY SystemImplements, EntryConfigured, StoreConfigured, Entry!SessionsWithinCapacity,
   Entry!PendingBounded, Entry!ChallengesUsedOnce, Entry!OffersUsedOnce,
   Entry!SessionsAlwaysBacked, Entry!CertificatesAlwaysHonoured,
   Entry!CredentialsAlwaysHonoured, Entry!LoginsAlwaysCounted,
   Entry!ReservationsAlwaysHonoured, Entry!GrantsAlwaysLive,
   Entry!AskedAlwaysByLiveActors, Entry!EntryKeepsPromise, PTL

(***************************************************************************)
(* What is proved of the passkey service and the verifier beside any entry *)
(* service holds of them beside the modelled one.                          *)
(***************************************************************************)
THEOREM AccountsSafeInSystem ==
  SystemSpec => /\ []Account!AnsweredOnce /\ []Account!CountersAcceptedOnce
                /\ []Account!FurtherPasskeysSignedFor /\ Account!AdmissionsHonoured
BY SystemImplements, AccountConfigured, StoreConfigured, Account!ChallengesAnsweredOnce,
   Account!AccountCountersOnce, Account!FurtherPasskeysAlwaysSignedFor,
   Account!AdmissionsAlwaysHonoured, PTL

-----------------------------------------------------------------------------
(* What a segment leaves of the calls at the store and of the tables.      *)
Quiet ==
    /\ Entry!StoreCalls' \subseteq Entry!StoreCalls
    /\ Account!StoreCalls' \subseteq Account!StoreCalls
    /\ \/ Entry!StoreCalls' # Entry!StoreCalls
       \/ Account!StoreCalls' # Account!StoreCalls
       \/ UNCHANGED <<spends, members, credentials>>

LEMMA RetiredIsQuiet ==
  ASSUME SystemInv, Account!SyncOnly, [SystemNext]_systemVars, retired
  PROVE  Quiet
<1>1. (UNCHANGED entryCalls => UNCHANGED Entry!StoreCalls)
      /\ (UNCHANGED accountCalls => UNCHANGED Account!StoreCalls)
  BY DEF Entry!StoreCalls, Account!StoreCalls
<1>2. CASE UNCHANGED <<entryCalls, accountCalls, spends, members, credentials>>
  BY <1>1, <1>2 DEF Quiet
<1>3. CASE EntryStep
  <2>1. UNCHANGED Account!StoreCalls
    BY <1>1, <1>3 DEF EntryStep, accountOwn
  <2>2. CASE Entry!GetSession \/ Entry!RevokeSession
    BY <1>2, <1>3, <2>2
       DEF EntryStep, accountOwn, Entry!GetSession, Entry!RevokeSession, Entry!storeVars
  <2>3. ASSUME NEW c \in EntryCallers, Entry!Begins(c) \/ Entry!Continues(c)
        PROVE  Quiet
    <3>1. Entry!Heads(c) /\ ~Entry!Usable
      BY <2>3, Entry!CallHeads, EntryConfigured, StoreConfigured
         DEF SystemInv, Entry!IInv, Entry!Usable
    <3>2. Entry!StoreCalls' \subseteq Entry!StoreCalls
      BY <3>1 DEF Entry!Heads, Entry!StoreCalls
    <3>3. \/ UNCHANGED <<spends, members, credentials>>
          \/ /\ <<c, entryCalls[c].pc>> \in Entry!StoreCalls
             /\ <<c, entryCalls[c].pc>> \notin Entry!StoreCalls'
      BY <3>1 DEF Entry!Heads, Entry!StoreCalls
    <3> QED BY <2>1, <3>2, <3>3 DEF Quiet
  <2> QED BY <1>3, <2>2, <2>3 DEF EntryStep
<1>4. CASE AccountStep
  <2>1. UNCHANGED Entry!StoreCalls
    BY <1>1, <1>4 DEF AccountStep, entryOwn
  <2>2. ~Account!Begin /\ \A c \in AccountCallers : accountCalls[c].pc # "verifyLogin"
    BY DEF Account!SyncOnly, Account!Begin
  <2>3. PICK c \in AccountCallers : Account!PasskeyStep(c) \/ Account!VerifierStep(c)
    BY <1>4, <2>2 DEF AccountStep
  <2>4. Account!Heads(c) /\ ~Account!Usable
    BY <2>3, Account!CallHeads, AccountConfigured, StoreConfigured
       DEF SystemInv, Account!IInv, Account!Typed, Account!Usable
  <2>5. Account!StoreCalls' \subseteq Account!StoreCalls
    BY <2>4 DEF Account!Heads, Account!StoreCalls
  <2>6. \/ UNCHANGED <<spends, members, credentials>>
        \/ /\ <<c, accountCalls[c].pc>> \in Account!StoreCalls
           /\ <<c, accountCalls[c].pc>> \notin Account!StoreCalls'
    BY <2>2, <2>4 DEF Account!Heads, Account!StoreCalls
  <2> QED BY <2>1, <2>5, <2>6 DEF Quiet
<1>5. CASE Restart
  <2>1. /\ entryCalls' = [c \in EntryCallers |-> Entry!Idle]
        /\ accountCalls' = [c \in AccountCallers |-> Account!Idle]
        /\ UNCHANGED <<spends, members, credentials>>
    BY <1>5 DEF Restart, Entry!Restart, Account!Restart, Entry!storeVars
  <2>2. Entry!StoreCalls' = {}
    BY <2>1 DEF Entry!StoreCalls, Entry!AtStore, Entry!Idle
  <2>3. Account!StoreCalls' = {}
    BY <2>1 DEF Account!StoreCalls, Account!AtStore, Account!Idle
  <2> QED BY <2>1, <2>2, <2>3 DEF Quiet
<1>6. CASE Accept \/ SystemTick \/ UNCHANGED systemVars
  BY <1>2, <1>6 DEF Accept, SystemTick, Tick, tables, storeVars, entryOwn, accountOwn,
     systemVars
<1> QED BY <1>3, <1>4, <1>5, <1>6 DEF SystemNext

(***************************************************************************)
(* A retired handle is sent nothing new, by any service, although the call *)
(* that retired it may belong to another one.                              *)
(***************************************************************************)
THEOREM RetiredTakesNothingNew == SystemSpec => NothingNewOnRetired
<1>1. SystemInv /\ Account!SyncOnly /\ [SystemNext]_systemVars => [retired => Quiet]_systemVars
  BY RetiredIsQuiet
<1>2. SystemSpec => []Account!SyncOnly
  BY SystemImplements, Account!SyncOnlyInductive, AccountConfigured, StoreConfigured, PTL
<1>3. [][retired => Quiet]_systemVars => NothingNewOnRetired
  BY PTL DEF Quiet, NothingNewOnRetired
<1> QED BY <1>1, <1>2, <1>3, SystemInvInductive, PTL DEF SystemSpec
=============================================================================
