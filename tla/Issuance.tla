------------------------------ MODULE Issuance ------------------------------
(***************************************************************************)
(* issuer.issue over the durable receipt tables.  An operation is one      *)
(* request with the attestations it carries; each attestation names a      *)
(* receipt and says until when it may be used.  A call reads the clock,    *)
(* checks the attestations, and asks the store to issue once: one          *)
(* transaction that forgets what has run out, answers a repeated           *)
(* operation with its stored result, and otherwise consumes the receipts   *)
(* and makes the credential.  Calls run in several processes on one SQLite *)
(* file, waiting for its lock, or await a Turso transaction: in both the   *)
(* time a call has read may be old when its transaction runs.  A SQLite    *)
(* transaction is one synchronous segment.  A Turso one holds the write    *)
(* lock while its statements are awaited: it reads the tables and the      *)
(* clock again, signs, and inserts and commits when time has passed.       *)
(***************************************************************************)
EXTENDS Integers, FiniteSets

CONSTANTS
    Workers,        \* calls of issue that may be in progress at once
    Receipts,       \* receipt ids
    Operations,     \* operation ids
    Attested,       \* per operation: its receipts, and until when each is good
    MaxLifetime,    \* maxCredentialLifetimeSeconds
    MaxReceipts,    \* configured capacity
    MaxSerial,      \* bound: credentials made
    MaxBoots,       \* bound: restarts
    MaxTime         \* bound: the clock stops here

ASSUME IssuanceAssumption ==
    /\ IsFiniteSet(Receipts)
    /\ \A op \in Operations :
          /\ DOMAIN Attested[op] \subseteq Receipts /\ DOMAIN Attested[op] # {}
          /\ Attested[op] \in [DOMAIN Attested[op] -> Nat]
    /\ MaxLifetime \in Nat \ {0}
    /\ MaxReceipts \in Nat
    /\ MaxSerial \in Nat /\ MaxBoots \in Nat /\ MaxTime \in Nat

VARIABLES
    store,       \* which store the service runs on
    clock,
    receipts,    \* rows of receipts
    results,     \* rows of issuances
    calls,       \* per worker: idle, waiting for its transaction, in it, or answered
    retired,     \* the Turso handle met an ambiguous commit
    serial,      \* credentials made, the number of the last
    boots,
    credentials  \* history: the credentials whose transaction took effect

issuanceVars == <<store, clock, receipts, results, calls, retired, serial, boots,
                  credentials>>

ReceiptsOf(op) == DOMAIN Attested[op]
ReceiptRows(op) == {[id |-> r, expiresAt |-> Attested[op][r]] : r \in ReceiptsOf(op)}
(* A credential ends with the first of its attestations. *)
ValidUntil(op) ==
    CHOOSE t \in {Attested[op][r] : r \in ReceiptsOf(op)} :
        \A r \in ReceiptsOf(op) : t <= Attested[op][r]

ReceiptRow == [id : Receipts, expiresAt : Nat]
Result == [operation : Operations, serial : Nat, expiresAt : Nat]
Idle == [pc |-> "idle"]
IssueCall == {Idle}
    \cup [pc : {"issueOnce", "commit"}, operation : Operations, now : Nat]
    \cup [pc : {"answered"}, operation : Operations, serial : Nat]

Answer(w, op, n) == calls' = [calls EXCEPT ![w] = [pc |-> "answered", operation |-> op,
                                                  serial |-> n]]
Reject(w) == calls' = [calls EXCEPT ![w] = Idle]
-----------------------------------------------------------------------------
(* issue: every attestation is good at the time the call reads.            *)
GoodAt(op, now) ==
    \A r \in ReceiptsOf(op) : now < Attested[op][r] /\ Attested[op][r] <= now + MaxLifetime

Issue(w, op) ==
    /\ calls[w] = Idle
    /\ ~retired
    /\ GoodAt(op, clock)
    /\ calls' = [calls EXCEPT ![w] = [pc |-> "issueOnce", operation |-> op, now |-> clock]]
    /\ UNCHANGED <<store, clock, receipts, results, retired, serial, boots, credentials>>

(* What the pruning at time now leaves of a table. *)
KeptOffByOne(rows, now) == {x \in rows : x.expiresAt > now + 1}
Kept(rows, now) == {x \in rows : x.expiresAt > now}

(* The stored result of an operation, if there is one. *)
StoredByReceipt(op, now) ==
    {x \in Kept(results, now) : ReceiptsOf(x.operation) \cap ReceiptsOf(op) # {}}
Stored(op, now) == {x \in Kept(results, now) : x.operation = op}

RoomOffByOne(op, now) == Cardinality(Kept(receipts, now)) < MaxReceipts
Room(op, now) ==
    Cardinality(Kept(receipts, now)) + Cardinality(ReceiptsOf(op)) <= MaxReceipts

Unconsumed(op, now) == \A x \in Kept(receipts, now) : x.id \notin ReceiptsOf(op)

(* The operation is new, and its receipts can be consumed. *)
Decided(op, now) == Stored(op, now) = {} /\ Room(op, now) /\ Unconsumed(op, now)

(* A Turso transaction is about to commit, and keeps all others waiting.   *)
Locked == \E w \in Workers : calls[w].pc = "commit"

(* The transaction finds the result of an earlier call. *)
RepeatOnce(op, now, n) ==
    /\ \E x \in Stored(op, now) : n = x.serial
    /\ receipts' = Kept(receipts, now)
    /\ results' = Kept(results, now) \ Stored(op, now)
    /\ UNCHANGED <<serial, credentials>>
Repeat(op, now, n) ==
    /\ \E x \in Stored(op, now) : n = x.serial
    /\ receipts' = Kept(receipts, now)
    /\ results' = Kept(results, now)
    /\ UNCHANGED <<serial, credentials>>

(* The transaction consumes the receipts and makes the credential. *)
Make(op, now, n) ==
    /\ serial < MaxSerial
    /\ n = serial + 1 /\ serial' = n
    /\ receipts' = Kept(receipts, now) \cup ReceiptRows(op)
    /\ LET made == [operation |-> op, serial |-> n, expiresAt |-> ValidUntil(op)] IN
         /\ results' = Kept(results, now) \cup {made}
         /\ credentials' = credentials \cup {made}
Produce(op, now, n) == Decided(op, now) /\ Make(op, now, n)

(* A transaction that took effect is answered, or its answer is lost.      *)
Committed(w, op, n) ==
    \/ Answer(w, op, n) /\ UNCHANGED retired
    \/ store = "turso" /\ Reject(w) /\ retired' = TRUE

(* A transaction is refused or fails, and is rolled back. *)
RolledBack(w) ==
    /\ Reject(w)
    /\ retired' \in (IF store = "turso" THEN {retired, TRUE} ELSE {retired})
    /\ UNCHANGED <<receipts, results, serial, credentials>>

(* The transaction of a waiting call, when it has the lock: it repeats a   *)
(* result, or on SQLite makes a credential in the same segment.            *)
IssueOnce(w) ==
    LET op == calls[w].operation IN
    /\ calls[w].pc = "issueOnce"
    /\ \/ /\ ~Locked
          /\ \E n \in 0 .. MaxSerial :
                /\ \/ Repeat(op, calls[w].now, n)
                   \/ store = "sqlite" /\ Produce(op, calls[w].now, n)
                /\ Committed(w, op, n)
       \/ RolledBack(w)
    /\ UNCHANGED <<store, clock, boots>>

(* The same on Turso up to the signature: the credential is still good at  *)
(* the time read now, and the inserts and the commit are awaited.          *)
Sign(w) ==
    LET op == calls[w].operation IN
    /\ calls[w].pc = "issueOnce" /\ store = "turso" /\ ~Locked
    /\ Decided(op, calls[w].now) /\ ValidUntil(op) > clock
    /\ calls' = [calls EXCEPT ![w] = [pc |-> "commit", operation |-> op,
                                      now |-> calls[w].now]]
    /\ UNCHANGED <<store, clock, receipts, results, retired, serial, boots, credentials>>

Commit(w) ==
    LET op == calls[w].operation IN
    /\ calls[w].pc = "commit"
    /\ \/ \E n \in 1 .. MaxSerial : Make(op, calls[w].now, n) /\ Committed(w, op, n)
       \/ RolledBack(w)
    /\ UNCHANGED <<store, clock, boots>>

(* The caller takes its credential away. *)
Deliver(w) ==
    /\ calls[w].pc = "answered"
    /\ Reject(w)
    /\ UNCHANGED <<store, clock, receipts, results, retired, serial, boots, credentials>>

(* A process crash loses the calls and reopens the store. *)
Restart ==
    /\ boots < MaxBoots
    /\ boots' = boots + 1
    /\ calls' = [w \in Workers |-> Idle]
    /\ retired' = FALSE
    /\ UNCHANGED <<store, clock, receipts, results, serial, credentials>>

Tick ==
    /\ clock < MaxTime
    /\ clock' = clock + 1
    /\ UNCHANGED <<store, receipts, results, calls, retired, serial, boots, credentials>>

Init ==
    /\ store \in {"sqlite", "turso"}
    /\ clock = 1
    /\ receipts = {} /\ results = {} /\ credentials = {}
    /\ calls = [w \in Workers |-> Idle]
    /\ retired = FALSE
    /\ serial = 0 /\ boots = 0

Next ==
    \/ Tick \/ Restart
    \/ \E w \in Workers :
          \/ IssueOnce(w) \/ Sign(w) \/ Commit(w) \/ Deliver(w)
          \/ \E op \in Operations : Issue(w, op)

Spec == Init /\ [][Next]_issuanceVars
-----------------------------------------------------------------------------
(* Properties.                                                             *)

TypeOK ==
    /\ store \in {"sqlite", "turso"}
    /\ clock \in Nat
    /\ receipts \in SUBSET ReceiptRow
    /\ results \in SUBSET Result /\ credentials \in SUBSET Result
    /\ calls \in [Workers -> IssueCall]
    /\ retired \in BOOLEAN
    /\ serial \in Nat /\ boots \in Nat

(* Forgetting receipts that have run out opens no replay window: no two    *)
(* credentials that both are still valid were made from one receipt, even  *)
(* when a transaction runs at a time its call read before others pruned.   *)
NoReplayWindow ==
    \A x, y \in credentials :
        /\ x.expiresAt > clock /\ y.expiresAt > clock
        /\ ReceiptsOf(x.operation) \cap ReceiptsOf(y.operation) # {}
        => x = y

(* A repeated operation is answered with the credential made the first     *)
(* time, also by another process, after a restart or after a lost answer.  *)
ExactRetry ==
    \A w \in Workers : calls[w].pc = "answered" =>
        /\ \E x \in credentials :
              x.operation = calls[w].operation /\ x.serial = calls[w].serial
        /\ \A x \in credentials :
              x.operation = calls[w].operation /\ x.expiresAt > clock
                => x.serial = calls[w].serial

(* The receipts table keeps to its capacity while receipts that have run   *)
(* out make room at the time of a call that may be late.                   *)
ReceiptCapacity == Cardinality(receipts) <= MaxReceipts

(* An answer that was lost can be fetched again as long as the credential  *)
(* is good for anything: a retry finds that very result, and nothing else, *)
(* however late its transaction and whatever others pruned before it.      *)
RetryFindsResult ==
    \A w \in Workers : calls[w].pc = "issueOnce" =>
        \A x \in credentials :
            x.operation = calls[w].operation /\ x.expiresAt > clock
              => Stored(x.operation, calls[w].now) = {x}

(* The tables, however often they are pruned, and the calls, however late  *)
(* or lost, do what Redemption promises.                                   *)
Asked == [w \in Workers |->
    IF calls[w].pc \in {"issueOnce", "commit"} THEN {calls[w].operation} ELSE {}]
Handed == [w \in Workers |->
    IF calls[w].pc = "answered"
      THEN {x \in credentials : x.serial = calls[w].serial} ELSE {}]
Promise == INSTANCE Redemption
             WITH Callers <- Workers, Serials <- 1 .. MaxSerial,
                  Needs <- [op \in Operations |-> ReceiptsOf(op)],
                  End <- [op \in Operations |-> ValidUntil(op)],
                  asked <- Asked, handed <- Handed
ImplementsRedemption == Promise!Spec
=============================================================================
