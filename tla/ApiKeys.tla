------------------------------ MODULE ApiKeys ------------------------------
(***************************************************************************)
(* API keys in their SQLite or Turso tables, and the way a request with a  *)
(* bearer token takes through them.  Every operation is one transaction    *)
(* that first reads the clock and compares it with the persisted floor, so *)
(* that a clock set back cannot revive a key that has run out.  An         *)
(* operation that throws is rolled back and leaves the floor alone; one    *)
(* that merely refuses commits it.  After the transaction the Turso        *)
(* service judges the expiry again, and the HTTP handler awaits the        *)
(* membership lookup before it has a principal.                            *)
(***************************************************************************)
EXTENDS Integers, FiniteSets

CONSTANTS
    Callers,         \* requests with a bearer token in progress at once
    Members,
    Scopes,          \* the configured API scopes
    MemberUntil,     \* when the voucher of each member runs out
    MaxKeys, MaxKeysPerMember, MaxLifetime,   \* configured limits
    MaxCreated,      \* bound: keys ever created
    MaxTime          \* bound: the clock reads 1 .. MaxTime

ASSUME ApiKeyAssumption ==
    /\ MemberUntil \in [Members -> Nat]
    /\ MaxKeys \in Nat \ {0} /\ MaxKeysPerMember \in Nat \ {0}
    /\ MaxLifetime \in Nat \ {0}
    /\ MaxCreated \in Nat /\ MaxTime \in Nat \ {0}

VARIABLES
    store,    \* which of the two services runs
    clock,    \* the system clock, which may be set back
    floor,    \* cvld_api_key_clock.floor, 0 before its first row
    keys,     \* rows of cvld_api_keys
    created,  \* how many keys were created; the id of the last
    calls,    \* bearer requests in progress
    retired,  \* the Turso handle met an ambiguous commit
    revoked   \* history: keys a member was told are revoked

apiKeyVars == <<store, clock, floor, keys, created, calls, retired, revoked>>

Key == [id : 1 .. MaxCreated, member : Members, scopes : SUBSET Scopes,
        expiresAt : 1 .. MaxTime + MaxLifetime]
Idle == [pc |-> "idle"]
BearerCall == {Idle} \cup [pc : {"answer", "lookUpMember", "principal"}, key : Key, scope : Scopes]

Goto(c, state) == calls' = [calls EXCEPT ![c] = state]
-----------------------------------------------------------------------------
(* now() and current(): the time of a transaction, or a refusal.           *)
CurrentAnyTime == ~retired /\ floor' = clock
Current == ~retired /\ clock >= floor /\ floor' = clock

Unexpired(rows) == {k \in rows : k.expiresAt > clock}
KeysOf(m, rows) == {k \in rows : k.member = m}

(* The answer to a commit may be lost; only Turso awaits one. *)
Acknowledged == UNCHANGED retired
Ambiguous == store = "turso" /\ retired' = TRUE
(* The commit, or the rollback of what was refused, fails: nothing took    *)
(* effect, but nobody can tell.                                            *)
InDoubt ==
    /\ ~retired /\ Ambiguous
    /\ UNCHANGED <<store, clock, floor, keys, created, calls, revoked>>

RoomOffByOne(rows, m) ==
    Cardinality(rows) <= MaxKeys /\ Cardinality(KeysOf(m, rows)) <= MaxKeysPerMember
Room(rows, m) ==
    Cardinality(rows) < MaxKeys /\ Cardinality(KeysOf(m, rows)) < MaxKeysPerMember

(* Keys that have run out make room. *)
Create(m, scopes, until) ==
    /\ created < MaxCreated
    /\ Current
    /\ until > clock /\ until - clock <= MaxLifetime
    /\ Room(Unexpired(keys), m)
    /\ created' = created + 1
    /\ keys' = Unexpired(keys) \cup
         {[id |-> created + 1, member |-> m, scopes |-> scopes, expiresAt |-> until]}
    /\ Acknowledged \/ Ambiguous
    /\ UNCHANGED <<store, clock, calls, revoked>>

(* A token is of one key; an unknown, expired or unfit one is refused, and *)
(* the floor is committed all the same.                                    *)
Grants(k, scope) == k.expiresAt > clock /\ scope \in k.scopes
Authenticate(c) ==
    /\ calls[c] = Idle
    /\ Current
    /\ \/ /\ Acknowledged
          /\ \E k \in keys, scope \in Scopes :
                /\ Grants(k, scope)
                /\ Goto(c, [pc |-> "answer", key |-> k, scope |-> scope])
       \/ (Acknowledged \/ Ambiguous) /\ UNCHANGED calls
    /\ UNCHANGED <<store, clock, keys, created, revoked>>

(* Turso judges the expiry once more, by the clock alone. *)
Answered(c) ==
    /\ calls[c].pc = "answer"
    /\ IF store = "turso" => calls[c].key.expiresAt > clock
         THEN Goto(c, [calls[c] EXCEPT !.pc = "lookUpMember"])
         ELSE Goto(c, Idle)
    /\ UNCHANGED <<store, clock, floor, keys, created, retired, revoked>>

(* isCurrentMember, judged when the member has been read. *)
MemberLookedUp(c) ==
    /\ calls[c].pc = "lookUpMember"
    /\ IF MemberUntil[calls[c].key.member] > clock
         THEN Goto(c, [calls[c] EXCEPT !.pc = "principal"])
         ELSE Goto(c, Idle)
    /\ UNCHANGED <<store, clock, floor, keys, created, retired, revoked>>

PrincipalUsed(c) ==
    /\ calls[c].pc = "principal"
    /\ Goto(c, Idle)
    /\ UNCHANGED <<store, clock, floor, keys, created, retired, revoked>>

(* Only Turso deletes what has run out when a member lists its keys. *)
List(m) ==
    /\ Current
    /\ keys' = (IF store = "turso" THEN Unexpired(keys) ELSE keys)
    /\ Acknowledged \/ Ambiguous
    /\ UNCHANGED <<store, clock, created, calls, revoked>>

Removed(m, id) == {k \in keys : k.member = m /\ k.id = id}
RevokeWithoutDelete(m, id) ==
    /\ Current
    /\ UNCHANGED keys
    /\ \/ Acknowledged /\ revoked' = revoked \cup {k.id : k \in Removed(m, id)}
       \/ Ambiguous /\ UNCHANGED revoked
    /\ UNCHANGED <<store, clock, created, calls>>
Revoke(m, id) ==
    /\ Current
    /\ keys' = keys \ Removed(m, id)
    /\ \/ Acknowledged /\ revoked' = revoked \cup {k.id : k \in Removed(m, id)}
       \/ Ambiguous /\ UNCHANGED revoked
    /\ UNCHANGED <<store, clock, created, calls>>

(* The system clock is adjusted, in either direction. *)
SetClock ==
    /\ clock' \in 1 .. MaxTime
    /\ UNCHANGED <<store, floor, keys, created, calls, retired, revoked>>

(* The operator reopens the service on the same tables. *)
Reopen ==
    /\ retired' = FALSE
    /\ calls' = [c \in Callers |-> Idle]
    /\ UNCHANGED <<store, clock, floor, keys, created, revoked>>

Init ==
    /\ store \in {"sqlite", "turso"}
    /\ clock \in 1 .. MaxTime
    /\ floor = 0 /\ keys = {} /\ created = 0
    /\ calls = [c \in Callers |-> Idle]
    /\ retired = FALSE
    /\ revoked = {}

Next ==
    \/ SetClock \/ Reopen \/ InDoubt
    \/ \E m \in Members, scopes \in SUBSET Scopes \ {{}}, until \in 1 .. MaxTime + MaxLifetime :
          Create(m, scopes, until)
    \/ \E m \in Members : List(m) \/ \E id \in 1 .. MaxCreated : Revoke(m, id)
    \/ \E c \in Callers : Authenticate(c) \/ Answered(c) \/ MemberLookedUp(c) \/ PrincipalUsed(c)

Spec == Init /\ [][Next]_apiKeyVars
-----------------------------------------------------------------------------
(* Properties.                                                             *)

TypeOK ==
    /\ store \in {"sqlite", "turso"}
    /\ clock \in 1 .. MaxTime /\ floor \in 0 .. MaxTime
    /\ keys \in SUBSET Key /\ created \in 0 .. MaxCreated
    /\ calls \in [Callers -> BearerCall]
    /\ retired \in BOOLEAN
    /\ revoked \in SUBSET (1 .. created)

(* The configured numbers of keys are never exceeded, although keys that   *)
(* have run out only make room when an operation comes by to delete them.  *)
KeyCapacity ==
    /\ Cardinality(keys) <= MaxKeys
    /\ \A m \in Members : Cardinality(KeysOf(m, keys)) <= MaxKeysPerMember

(* Setting the clock back revives nothing: a key is only accepted if it    *)
(* had not run out at any time at which an earlier operation committed,    *)
(* and those times never go back.                                          *)
ExpiredStaysExpired ==
    [][/\ floor' >= floor
       /\ \A c \in Callers : calls[c] = Idle /\ calls'[c] # Idle =>
             calls'[c].key.expiresAt > floor]_apiKeyVars

(* A key whose member was told that it is revoked is never accepted again, *)
(* by any request that starts afterwards.                                  *)
RevokedNeverAgain ==
    [][\A c \in Callers : calls[c] = Idle /\ calls'[c] # Idle =>
             calls'[c].key.id \notin revoked]_apiKeyVars
=============================================================================
