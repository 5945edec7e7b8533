--------------------------- MODULE MembershipStore ---------------------------
(***************************************************************************)
(* The durable tables behind the voucher entry service: voucher_spends,    *)
(* members and credentials, with the operations the SQLite and the Turso   *)
(* stores both offer.  Each operation is one transaction, hence one        *)
(* action.  The SQLite store judges expiry by the time its caller passed,  *)
(* the Turso store also by its own clock when the transaction runs; an     *)
(* operation here may be judged at either.  A single community is modelled *)
(* (a service serves one), and a receipt id stands for its voucher.        *)
(***************************************************************************)
EXTENDS Integers, FiniteSets

CONSTANTS
    Members,            \* member ids (cmsg root identities)
    Devices,            \* chat public keys
    Vouchers,           \* vouchers, each with the receipt id the bridge derives
    Passkeys,           \* WebAuthn credential ids
    VoucherExpiry,      \* valid_until of each voucher
    MaxVoucherSpends, MaxCredentials, MaxPerMember,  \* configured capacities
    MaxCounter,         \* bound: signature counters are 0 .. MaxCounter
    MaxTime             \* bound: the clock stops here

ASSUME StoreAssumption ==
    /\ IsFiniteSet(Passkeys) /\ IsFiniteSet(Members) /\ IsFiniteSet(Vouchers)
    /\ VoucherExpiry \in [Vouchers -> Nat]
    /\ MaxVoucherSpends \in Nat \ {0}
    /\ MaxCredentials \in Nat \ {0}
    /\ MaxPerMember \in Nat \ {0}
    /\ MaxCounter \in Nat
    /\ MaxTime \in Nat \ {0}

VARIABLES
    clock,       \* the time, in seconds, that every party reads
    spends,      \* rows of voucher_spends
    members,     \* rows of members
    credentials  \* rows of credentials

tables == <<spends, members, credentials>>
storeVars == <<clock, spends, members, credentials>>

Counters == 0 .. MaxCounter
Spend == [voucher : Vouchers, member : Members, expiresAt : Nat]
Member == [id : Members, device : Devices, voucher : Vouchers]
Credential == [id : Passkeys, member : Members, counter : Counters]

(* The tables hold rows of the right types and the clock reads a time.     *)
StoreTypeOK ==
    /\ clock \in Nat
    /\ spends \in SUBSET Spend
    /\ members \in SUBSET Member
    /\ credentials \in SUBSET Credential

-----------------------------------------------------------------------------
(* Queries.                                                                *)

PasskeysOf(m) == {x \in credentials : x.member = m}

(* hasMember looks at credentials, not at members. *)
HasMember(m) == PasskeysOf(m) # {}

(* members.get joins a member with the spend of its voucher. *)
ValidUntil(m) ==
    {s.expiresAt : s \in {t \in spends :
        \E x \in members : x.id = m /\ x.voucher = t.voucher}}

(* The receipt id alone is the key of a spend. *)
UnspentByMember(req) ==
    ~ \E s \in spends : s.voucher = req.voucher /\ s.member = req.member
Unspent(req) == ~ \E s \in spends : s.voucher = req.voucher

NewMember(req) ==
    /\ ~ \E x \in members : x.id = req.member
    /\ ~HasMember(req.member)

FreePasskey(id, m) == ~ \E x \in credentials : x.id = id

RoomForPasskeyOffByOne(m) ==
    /\ Cardinality(credentials) <= MaxCredentials
    /\ Cardinality(PasskeysOf(m)) <= MaxPerMember
RoomForPasskey(m) ==
    /\ Cardinality(credentials) < MaxCredentials
    /\ Cardinality(PasskeysOf(m)) < MaxPerMember

-----------------------------------------------------------------------------
(* Transactions.                                                           *)

(* A redemption: voucher, member, device, passkey, its counter, and `at`,  *)
(* the time the caller read.  All of its checks and inserts are one        *)
(* transaction.                                                            *)
Registrable(req, now) ==
    /\ VoucherExpiry[req.voucher] > now
    /\ Unspent(req)
    /\ Cardinality(spends) < MaxVoucherSpends
    /\ NewMember(req)
    /\ FreePasskey(req.passkey, req.member)
    /\ RoomForPasskey(req.member)

SpendRow(req) == [voucher |-> req.voucher, member |-> req.member,
                  expiresAt |-> VoucherExpiry[req.voucher]]
MemberRow(req) == [id |-> req.member, device |-> req.device,
                   voucher |-> req.voucher]
CredentialRow(req) == [id |-> req.passkey, member |-> req.member,
                       counter |-> req.counter]

RegisterWithVoucher(req) ==
    /\ \E now \in {req.at, clock} : Registrable(req, now)
    /\ spends' = spends \cup {SpendRow(req)}
    /\ members' = members \cup {MemberRow(req)}
    /\ credentials' = credentials \cup {CredentialRow(req)}
    /\ UNCHANGED clock

(* A further passkey, inserted by the passkey service. *)
Insert(id, m, n) ==
    /\ FreePasskey(id, m)
    /\ RoomForPasskey(m)
    /\ credentials' = credentials \cup {[id |-> id, member |-> m, counter |-> n]}
    /\ UNCHANGED <<clock, spends, members>>

(* A counter moves only forward, unless the authenticator keeps none. *)
AcceptsAnyNonzero(old, new) == (old = 0 /\ new = 0) \/ new > 0
Accepts(old, new) == (old = 0 /\ new = 0) \/ old < new

UpdateCounter(id, n) ==
    \E x \in credentials :
        /\ x.id = id
        /\ Accepts(x.counter, n)
        /\ credentials' = (credentials \ {x}) \cup {[x EXCEPT !.counter = n]}
        /\ UNCHANGED <<clock, spends, members>>

(* The device of a member whose voucher has not run out is replaced. *)
Rebind(m, d, at) ==
    \E x \in members :
        /\ x.id = m
        /\ \E until \in ValidUntil(m), now \in {at, clock} : until > now
        /\ members' = (members \ {x}) \cup {[x EXCEPT !.device = d]}
        /\ UNCHANGED <<clock, spends, credentials>>

-----------------------------------------------------------------------------
(* The clock moves forward, up to the bound. *)
Tick == clock < MaxTime /\ clock' = clock + 1 /\ UNCHANGED tables

StoreInit ==
    /\ clock = 1
    /\ spends = {} /\ members = {} /\ credentials = {}

Request == [voucher : Vouchers, member : Members, device : Devices,
            passkey : Passkeys, counter : Counters, at : Nat]

StoreNext ==
    \/ Tick
    \/ \E v \in Vouchers, m \in Members, d \in Devices, p \in Passkeys,
          n \in Counters, at \in 1 .. clock :
           RegisterWithVoucher([voucher |-> v, member |-> m, device |-> d,
                                passkey |-> p, counter |-> n, at |-> at])
    \/ \E p \in Passkeys, m \in Members, n \in Counters : Insert(p, m, n)
    \/ \E p \in Passkeys, n \in Counters : UpdateCounter(p, n)
    \/ \E m \in Members, d \in Devices, at \in 1 .. clock : Rebind(m, d, at)

StoreSpec == StoreInit /\ [][StoreNext]_storeVars

-----------------------------------------------------------------------------
(* Properties.                                                             *)

(* The three tables never disagree, whatever operations interleave: a      *)
(* voucher is spent for exactly the member it admitted, a member has the   *)
(* spend of its own voucher, and a passkey id belongs to one member.       *)
TablesAgree ==
    /\ \A s, t \in spends : s.voucher = t.voucher \/ s.member = t.member => s = t
    /\ \A x, y \in members : x.id = y.id \/ x.voucher = y.voucher => x = y
    /\ \A x, y \in credentials : x.id = y.id => x = y
    /\ \A s \in spends : \E x \in members : x.id = s.member /\ x.voucher = s.voucher
    /\ \A x \in members : \E s \in spends : s.member = x.id /\ s.voucher = x.voucher
    /\ \A x \in members : HasMember(x.id)

(* No capacity the operator configured is ever exceeded. *)
WithinCapacity ==
    /\ Cardinality(spends) <= MaxVoucherSpends
    /\ Cardinality(credentials) <= MaxCredentials
    /\ \A m \in Members : Cardinality(PasskeysOf(m)) <= MaxPerMember

(* A spend is permanent and a passkey's counter never goes back, so no     *)
(* voucher is re-armed and no assertion with an old counter is accepted.   *)
NeverUndone ==
    [][/\ spends \subseteq spends'
       /\ \A x \in credentials : \E y \in credentials' :
              /\ y.id = x.id /\ y.member = x.member
              /\ y.counter >= x.counter]_storeVars

(* The tables implement the promise: an admission is a row of members.     *)
Promise == INSTANCE Membership
             WITH admitted <- {<<x.voucher, x.id>> : x \in members}
ImplementsMembership == Promise!Spec
=============================================================================
