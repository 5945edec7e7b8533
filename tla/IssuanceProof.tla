---------------------------- MODULE IssuanceProof ----------------------------
(***************************************************************************)
(* Proofs about Issuance for any number of workers, receipts, operations,  *)
(* processes and restarts, any attested times and any capacity.  The       *)
(* inductive invariant says what the pruning of the tables keeps: as long  *)
(* as a credential is valid, its receipts and its result are in the        *)
(* tables, because no transaction prunes at a time later than the clock.   *)
(***************************************************************************)
EXTENDS Issuance, FiniteSetTheorems, WellFoundedInduction, TLAPS

(* The times calls have read are not later than the clock. *)
ReadBefore ==
    \A w \in Workers : calls[w].pc \in {"issueOnce", "commit"} => calls[w].now <= clock

(* A signed transaction still stands as it was decided: it is the only     *)
(* one, and nothing changed the tables since.                              *)
SignedAlone ==
    /\ \A v, w \in Workers : calls[v].pc = "commit" /\ calls[w].pc = "commit" => v = w
    /\ \A w \in Workers : calls[w].pc = "commit" =>
          Decided(calls[w].operation, calls[w].now)

(* Every credential ends with the attestations of its operation; while it  *)
(* is valid its result is stored and its receipts are consumed.            *)
Remembered ==
    /\ results \subseteq credentials
    /\ \A x \in credentials :
          /\ x.expiresAt = ValidUntil(x.operation)
          /\ x.expiresAt > clock =>
               /\ x \in results
               /\ \A r \in ReceiptsOf(x.operation) :
                     \E row \in receipts : row.id = r /\ row.expiresAt >= x.expiresAt

(* The inductive invariant. *)
IInv == TypeOK /\ ReadBefore /\ SignedAlone /\ Remembered /\ NoReplayWindow /\ ExactRetry
-----------------------------------------------------------------------------
(* A nonempty set of numbers has a smallest one. *)
LEMMA Smallest ==
  ASSUME NEW T \in SUBSET Nat, T # {}
  PROVE  \E t \in T : \A u \in T : t <= u
<1> DEFINE R == OpToRel(<, Nat)
<1>1. IsWellFoundedOn(R, Nat)
  BY NatLessThanWellFounded
<1> HIDE DEF R
<1>2. PICK t \in T : \A u \in T : ~ (<<u, t>> \in R)
  BY <1>1, WFMin
<1>3. ASSUME NEW u \in T, u < t PROVE <<u, t>> \in R
  BY <1>3 DEF R, OpToRel
<1>4. \A u \in T : ~(u < t)
  BY <1>2, <1>3
<1> QED BY <1>4

(* A credential ends no later than any attestation it was made from. *)
LEMMA ValidUntilIsLeast ==
  ASSUME NEW op \in Operations
  PROVE  /\ ValidUntil(op) \in Nat
         /\ \A r \in ReceiptsOf(op) : ValidUntil(op) <= Attested[op][r]
<1> DEFINE T == {Attested[op][r] : r \in ReceiptsOf(op)}
<1>1. T \in SUBSET Nat /\ T # {}
  BY IssuanceAssumption DEF ReceiptsOf
<1>2. \E t \in T : \A u \in T : t <= u
  <2> HIDE DEF T
  <2> QED BY <1>1, Smallest
<1>3. \E t \in T : \A r \in ReceiptsOf(op) : t <= Attested[op][r]
  BY <1>2
<1>4. ValidUntil(op) \in T /\ \A r \in ReceiptsOf(op) : ValidUntil(op) <= Attested[op][r]
  BY <1>3 DEF ValidUntil
<1> QED BY <1>1, <1>4

(* An operation inserts a well-typed row for each of its receipts, and no  *)
(* more rows than it has receipts.                                         *)
LEMMA ReceiptRowsAreFew ==
  ASSUME NEW op \in Operations
  PROVE  /\ ReceiptRows(op) \in SUBSET ReceiptRow
         /\ IsFiniteSet(ReceiptsOf(op)) /\ IsFiniteSet(ReceiptRows(op))
         /\ Cardinality(ReceiptRows(op)) <= Cardinality(ReceiptsOf(op))
<1>1. ReceiptRows(op) \in SUBSET ReceiptRow
  BY IssuanceAssumption DEF ReceiptRows, ReceiptRow, ReceiptsOf
<1>2. IsFiniteSet(ReceiptsOf(op))
  BY IssuanceAssumption, FS_Subset DEF ReceiptsOf
<1> DEFINE row == [r \in ReceiptsOf(op) |-> [id |-> r, expiresAt |-> Attested[op][r]]]
<1>3. row \in Surjection(ReceiptsOf(op), ReceiptRows(op))
  BY DEF Surjection, ReceiptRows
<1>4. IsFiniteSet(ReceiptRows(op))
        /\ Cardinality(ReceiptRows(op)) <= Cardinality(ReceiptsOf(op))
  <2> HIDE DEF row
  <2> QED BY <1>2, <1>3, FS_Surjection
<1> QED BY <1>1, <1>2, <1>4

(* Pruning removes rows and nothing else. *)
LEMMA KeptIsSubset ==
  ASSUME NEW rows, NEW now
  PROVE  Kept(rows, now) \subseteq rows
BY DEF Kept

(* What the end of a call's transaction does, if it has an effect. *)
LEMMA TransactionCases ==
  ASSUME TypeOK, SignedAlone, NEW w \in Workers, IssueOnce(w) \/ Commit(w)
  PROVE  \E op \in Operations, now \in Nat :
           /\ calls[w].pc \in {"issueOnce", "commit"}
           /\ calls[w].operation = op /\ calls[w].now = now
           /\ UNCHANGED <<store, clock, boots>>
           /\ retired' \in BOOLEAN
           /\ \/ /\ \A v \in Workers : v # w => calls[v].pc # "commit"
                 /\ \E n \in Nat : (Repeat(op, now, n) \/ Produce(op, now, n))
                                     /\ (Answer(w, op, n) \/ Reject(w))
              \/ Reject(w) /\ UNCHANGED <<receipts, results, serial, credentials>>
<1> DEFINE op == calls[w].operation  now == calls[w].now
<1>1. calls[w] \in IssueCall /\ calls[w].pc \in {"issueOnce", "commit"}
  BY DEF TypeOK, IssueOnce, Commit
<1>2. calls[w] \in [pc : {"issueOnce", "commit"}, operation : Operations, now : Nat]
  BY <1>1 DEF IssueCall, Idle
<1>3. op \in Operations /\ now \in Nat
  BY <1>2
<1>4. \A n \in 0 .. MaxSerial : n \in Nat
  BY IssuanceAssumption
<1>5. UNCHANGED <<store, clock, boots>>
  BY DEF IssueOnce, Commit
<1>6. retired' \in BOOLEAN
  BY DEF IssueOnce, Commit, Committed, RolledBack, TypeOK
<1> DEFINE Effective ==
      /\ \A v \in Workers : v # w => calls[v].pc # "commit"
      /\ \E n \in Nat : (Repeat(op, now, n) \/ Produce(op, now, n))
                          /\ (Answer(w, op, n) \/ Reject(w))
<1>7. CASE IssueOnce(w)
  <2>1. CASE RolledBack(w)
    BY <1>1, <1>3, <1>5, <1>6, <2>1 DEF RolledBack
  <2>2. ASSUME ~Locked, NEW n \in 0 .. MaxSerial, Repeat(op, now, n) \/ Produce(op, now, n),
               Committed(w, op, n)
        PROVE  Effective
    <3>1. n \in Nat /\ (Answer(w, op, n) \/ Reject(w))
      BY <1>4, <2>2 DEF Committed
    <3>2. \A v \in Workers : v # w => calls[v].pc # "commit"
      BY <2>2 DEF Locked
    <3> HIDE DEF op, now
    <3> QED BY <2>2, <3>1, <3>2
  <2>3. RolledBack(w) \/ Effective
    BY <1>7, <2>2, Zenon DEF IssueOnce
  <2> HIDE DEF Effective, op, now
  <2>4. CASE Effective
    BY <1>1, <1>3, <1>5, <1>6, <2>4, Zenon DEF Effective, op, now
  <2> QED BY <2>1, <2>3, <2>4
<1>8. CASE Commit(w)
  <2>1. CASE RolledBack(w)
    BY <1>1, <1>3, <1>5, <1>6, <2>1 DEF RolledBack
  <2>2. ASSUME NEW n \in 1 .. MaxSerial, Make(op, now, n), Committed(w, op, n)
        PROVE  Effective
    <3>1. n \in Nat /\ (Answer(w, op, n) \/ Reject(w))
      BY <1>4, <2>2 DEF Committed
    <3>2. calls[w].pc = "commit" /\ Decided(op, now)
      BY <1>8 DEF Commit, SignedAlone
    <3>3. \A v \in Workers : v # w => calls[v].pc # "commit"
      BY <3>2 DEF SignedAlone
    <3>4. Produce(op, now, n)
      BY <2>2, <3>2 DEF Produce, Make, Decided
    <3> HIDE DEF op, now
    <3> QED BY <3>1, <3>3, <3>4
  <2>3. RolledBack(w) \/ Effective
    BY <1>8, <2>2, Zenon DEF Commit
  <2> HIDE DEF Effective, op, now
  <2>4. CASE Effective
    BY <1>1, <1>3, <1>5, <1>6, <2>4, Zenon DEF Effective, op, now
  <2> QED BY <2>1, <2>3, <2>4
<1> QED BY <1>7, <1>8

(* A step is one of these: a repetition, a production, a call that ends    *)
(* without either, or a step that leaves tables and credentials alone.     *)
LEMMA StepCases ==
  ASSUME TypeOK, ReadBefore, SignedAlone, [Next]_issuanceVars
  PROVE  \/ /\ UNCHANGED <<store, receipts, results, credentials>>
            /\ clock' \in {clock, clock + 1}
            /\ \A w \in Workers : calls'[w].pc = "answered" => calls'[w] = calls[w]
         \/ /\ UNCHANGED <<store, clock>>
            /\ \E w \in Workers, op \in Operations, now \in Nat, n \in Nat :
                 /\ now <= clock
                 /\ \A v \in Workers : v # w => calls[v].pc # "commit"
                 /\ Repeat(op, now, n) \/ Produce(op, now, n)
                 /\ Answer(w, op, n) \/ Reject(w)
<1> USE DEF TypeOK
<1>1. CASE Tick
  BY <1>1 DEF Tick
<1>2. CASE Restart
  BY <1>2 DEF Restart, Idle
<1>3. ASSUME NEW w \in Workers, IssueOnce(w) \/ Commit(w)
      PROVE  \/ /\ UNCHANGED <<store, clock, receipts, results, credentials>>
                /\ Reject(w)
             \/ /\ UNCHANGED <<store, clock>>
                /\ \E op \in Operations, now \in Nat, n \in Nat :
                     /\ now <= clock
                     /\ \A v \in Workers : v # w => calls[v].pc # "commit"
                     /\ Repeat(op, now, n) \/ Produce(op, now, n)
                     /\ Answer(w, op, n) \/ Reject(w)
  <2>1. PICK op \in Operations, now \in Nat :
           /\ calls[w].pc \in {"issueOnce", "commit"} /\ calls[w].now = now
           /\ UNCHANGED <<store, clock, boots>>
           /\ \/ /\ \A v \in Workers : v # w => calls[v].pc # "commit"
                 /\ \E n \in Nat : (Repeat(op, now, n) \/ Produce(op, now, n))
                                     /\ (Answer(w, op, n) \/ Reject(w))
              \/ Reject(w) /\ UNCHANGED <<receipts, results, serial, credentials>>
    BY <1>3, TransactionCases
  <2>2. now <= clock
    BY <2>1 DEF ReadBefore
  <2>3. CASE Reject(w) /\ UNCHANGED <<receipts, results, serial, credentials>>
    BY <2>1, <2>3
  <2>4. ASSUME \A v \in Workers : v # w => calls[v].pc # "commit",
               NEW n \in Nat, Repeat(op, now, n) \/ Produce(op, now, n),
               Answer(w, op, n) \/ Reject(w)
        PROVE  /\ UNCHANGED <<store, clock>>
               /\ \E o \in Operations, t \in Nat, k \in Nat :
                    /\ t <= clock
                    /\ \A v \in Workers : v # w => calls[v].pc # "commit"
                    /\ Repeat(o, t, k) \/ Produce(o, t, k)
                    /\ Answer(w, o, k) \/ Reject(w)
    BY <2>1, <2>2, <2>4, Zenon
  <2> QED BY <2>1, <2>3, <2>4, Zenon
<1>4. ASSUME NEW w \in Workers, Reject(w)
      PROVE  \A v \in Workers : calls'[v].pc = "answered" => calls'[v] = calls[v]
  BY <1>4 DEF Reject, Idle
<1>5. ASSUME NEW w \in Workers, Deliver(w)
      PROVE  UNCHANGED <<store, clock, receipts, results, credentials>> /\ Reject(w)
  BY <1>5 DEF Deliver
<1>6. ASSUME NEW w \in Workers, Sign(w) \/ \E op \in Operations : Issue(w, op)
      PROVE  /\ UNCHANGED <<store, clock, receipts, results, credentials>>
             /\ \A v \in Workers : calls'[v].pc = "answered" => calls'[v] = calls[v]
  BY <1>6 DEF Sign, Issue
<1>7. CASE UNCHANGED issuanceVars
  BY <1>7 DEF issuanceVars
<1>8. CASE \E w \in Workers : IssueOnce(w) \/ Commit(w)
  <2>1. PICK w \in Workers : IssueOnce(w) \/ Commit(w)
    BY <1>8
  <2>2. CASE UNCHANGED <<store, clock, receipts, results, credentials>> /\ Reject(w)
    BY <1>4, <2>2
  <2>3. CASE /\ UNCHANGED <<store, clock>>
             /\ \E op \in Operations, now \in Nat, n \in Nat :
                  /\ now <= clock
                  /\ \A v \in Workers : v # w => calls[v].pc # "commit"
                  /\ Repeat(op, now, n) \/ Produce(op, now, n)
                  /\ Answer(w, op, n) \/ Reject(w)
    BY <2>3, Zenon
  <2> QED BY <1>3, <2>1, <2>2, <2>3, Zenon
<1>9. CASE \E w \in Workers : Deliver(w)
  BY <1>4, <1>5, <1>9
<1>10. CASE \E w \in Workers : Sign(w) \/ \E op \in Operations : Issue(w, op)
  BY <1>6, <1>10
<1>11. \/ Tick \/ Restart \/ UNCHANGED issuanceVars
       \/ \E w \in Workers : IssueOnce(w) \/ Commit(w)
       \/ \E w \in Workers : Deliver(w)
       \/ \E w \in Workers : Sign(w) \/ \E op \in Operations : Issue(w, op)
  BY Zenon DEF Next
<1> HIDE DEF TypeOK
<1> QED BY <1>1, <1>2, <1>7, <1>8, <1>9, <1>10, <1>11, Zenon
-----------------------------------------------------------------------------
(* The types are preserved by every step. *)
LEMMA TypesPreserved ==
  ASSUME TypeOK, SignedAlone, [Next]_issuanceVars
  PROVE  TypeOK'
<1>1. CASE Tick
  BY <1>1 DEF TypeOK, Tick
<1>2. CASE Restart
  <2>1. calls' \in [Workers -> IssueCall]
    BY <1>2 DEF Restart, IssueCall
  <2>2. retired' \in BOOLEAN
    BY <1>2 DEF Restart
  <2>3. boots' \in Nat
    BY <1>2 DEF TypeOK, Restart
  <2>4. UNCHANGED <<store, clock, receipts, results, serial, credentials>>
    BY <1>2 DEF Restart
  <2> QED BY <2>1, <2>2, <2>3, <2>4 DEF TypeOK
<1>3. ASSUME NEW w \in Workers, IssueOnce(w) \/ Commit(w)
      PROVE  TypeOK'
  <2>1. PICK op \in Operations, now \in Nat :
           /\ UNCHANGED <<store, clock, boots>>
           /\ retired' \in BOOLEAN
           /\ \/ \E n \in Nat : (Repeat(op, now, n) \/ Produce(op, now, n))
                                  /\ (Answer(w, op, n) \/ Reject(w))
              \/ Reject(w) /\ UNCHANGED <<receipts, results, serial, credentials>>
    BY <1>3, TransactionCases
  <2>2. CASE Reject(w) /\ UNCHANGED <<receipts, results, serial, credentials>>
    BY <2>1, <2>2 DEF TypeOK, Reject, IssueCall, Idle
  <2>3. ASSUME NEW n \in Nat, Repeat(op, now, n) \/ Produce(op, now, n),
               Answer(w, op, n) \/ Reject(w)
        PROVE  TypeOK'
    <3>1. calls' \in [Workers -> IssueCall]
      BY <2>3 DEF TypeOK, Answer, Reject, IssueCall, Idle
    <3>2. /\ receipts' \in SUBSET ReceiptRow /\ results' \in SUBSET Result
          /\ credentials' \in SUBSET Result /\ serial' \in Nat
      <4>1. /\ Kept(receipts, now) \in SUBSET ReceiptRow
            /\ Kept(results, now) \in SUBSET Result
        BY DEF TypeOK, Kept
      <4>2. CASE Repeat(op, now, n)
        BY <4>1, <4>2 DEF TypeOK, Repeat
      <4>3. CASE Produce(op, now, n)
        <5>1. [operation |-> op, serial |-> n, expiresAt |-> ValidUntil(op)] \in Result
          BY ValidUntilIsLeast DEF Result
        <5>2. ReceiptRows(op) \in SUBSET ReceiptRow
          BY ReceiptRowsAreFew
        <5> QED BY <4>1, <4>3, <5>1, <5>2 DEF TypeOK, Produce, Make
      <4> QED BY <2>3, <4>2, <4>3
    <3> QED BY <2>1, <3>1, <3>2 DEF TypeOK
  <2> QED BY <2>1, <2>2, <2>3
<1>4. ASSUME NEW w \in Workers, Deliver(w)
      PROVE  TypeOK'
  BY <1>4 DEF TypeOK, Deliver, Reject, IssueCall, Idle
<1>5. ASSUME NEW w \in Workers, NEW op \in Operations, Issue(w, op)
      PROVE  TypeOK'
  <2>1. [pc |-> "issueOnce", operation |-> op, now |-> clock] \in IssueCall
    BY DEF TypeOK, IssueCall
  <2> QED BY <1>5, <2>1 DEF TypeOK, Issue
<1>6. ASSUME NEW w \in Workers, Sign(w)
      PROVE  TypeOK'
  <2>1. calls[w] \in [pc : {"issueOnce", "commit"}, operation : Operations, now : Nat]
    BY <1>6 DEF Sign, TypeOK, IssueCall, Idle
  <2>2. [pc |-> "commit", operation |-> calls[w].operation, now |-> calls[w].now] \in IssueCall
    BY <2>1 DEF IssueCall
  <2> QED BY <1>6, <2>2 DEF TypeOK, Sign
<1>7. CASE UNCHANGED issuanceVars
  BY <1>7 DEF TypeOK, issuanceVars
<1> QED BY <1>1, <1>2, <1>3, <1>4, <1>5, <1>6, <1>7 DEF Next

(* The clock never goes back, so what a call has read stays before it. *)
LEMMA ReadBeforePreserved ==
  ASSUME TypeOK, ReadBefore, [Next]_issuanceVars
  PROVE  ReadBefore'
<1> USE DEF TypeOK, ReadBefore
<1>1. CASE Tick
  <2>1. ASSUME NEW w \in Workers, calls[w].pc \in {"issueOnce", "commit"}
        PROVE  calls[w].now \in Nat
    BY <2>1 DEF IssueCall, Idle
  <2> QED BY <1>1, <2>1 DEF Tick
<1>2. CASE Restart
  BY <1>2 DEF Restart, Idle
<1>3. ASSUME NEW w \in Workers, IssueOnce(w) \/ Commit(w)
      PROVE  ReadBefore'
  <2>1. UNCHANGED clock /\ ((\E op, n : Answer(w, op, n)) \/ Reject(w))
    BY <1>3, Zenon DEF IssueOnce, Commit, Committed, RolledBack
  <2> QED BY <2>1 DEF Answer, Reject, Idle
<1>4. ASSUME NEW w \in Workers, Deliver(w)
      PROVE  ReadBefore'
  BY <1>4 DEF Deliver, Reject, Idle
<1>5. ASSUME NEW w \in Workers, NEW op \in Operations, Issue(w, op)
      PROVE  ReadBefore'
  BY <1>5 DEF Issue
<1>6. ASSUME NEW w \in Workers, Sign(w)
      PROVE  ReadBefore'
  BY <1>6 DEF Sign
<1>7. CASE UNCHANGED issuanceVars
  BY <1>7 DEF issuanceVars
<1> QED BY <1>1, <1>2, <1>3, <1>4, <1>5, <1>6, <1>7 DEF Next

(* Whoever signs has the lock, and keeps all other transactions out.       *)
LEMMA SignedAlonePreserved ==
  ASSUME TypeOK, ReadBefore, SignedAlone, [Next]_issuanceVars
  PROVE  SignedAlone'
<1> USE DEF SignedAlone
<1>1. ASSUME UNCHANGED <<receipts, results>>, NEW w \in Workers, NEW c,
             calls' = [calls EXCEPT ![w] = c], c.pc # "commit"
      PROVE  SignedAlone'
  BY <1>1 DEF TypeOK, Decided, Stored, Room, Unconsumed, Kept
<1>2. ASSUME NEW w \in Workers, IssueOnce(w) \/ Commit(w)
      PROVE  SignedAlone'
  <2>1. (\E op, n : Answer(w, op, n)) \/ Reject(w)
    BY <1>2, Zenon DEF IssueOnce, Commit, Committed, RolledBack
  <2>2. \E c : calls' = [calls EXCEPT ![w] = c] /\ c.pc # "commit"
    BY <2>1 DEF Answer, Reject, Idle
  <2>3. CASE UNCHANGED <<receipts, results>>
    BY <1>1, <2>2, <2>3
  <2>4. CASE \A v \in Workers : v # w => calls[v].pc # "commit"
    BY <2>2, <2>4 DEF TypeOK
  <2> QED BY <1>2, <2>3, <2>4, TransactionCases
<1>3. ASSUME NEW w \in Workers, Deliver(w) \/ \E op \in Operations : Issue(w, op)
      PROVE  SignedAlone'
  <2>1. \E c : calls' = [calls EXCEPT ![w] = c] /\ c.pc # "commit"
    BY <1>3 DEF Deliver, Issue, Reject, Idle
  <2> QED BY <1>1, <1>3, <2>1 DEF Deliver, Issue
<1>4. ASSUME NEW w \in Workers, Sign(w)
      PROVE  SignedAlone'
  <2> DEFINE c == [pc |-> "commit", operation |-> calls[w].operation, now |-> calls[w].now]
  <2>1. /\ calls' = [calls EXCEPT ![w] = c]
        /\ \A v \in Workers : calls[v].pc # "commit"
        /\ Decided(c.operation, c.now)
        /\ UNCHANGED <<receipts, results>>
    BY <1>4 DEF Sign, Locked
  <2> HIDE DEF c
  <2> QED BY <2>1 DEF TypeOK, Decided, Stored, Room, Unconsumed, Kept
<1>5. CASE Restart
  BY <1>5 DEF Restart, Idle
<1>6. CASE Tick \/ UNCHANGED issuanceVars
  BY <1>6 DEF Tick, issuanceVars, Decided, Stored, Room, Unconsumed, Kept
<1> QED BY <1>2, <1>3, <1>4, <1>5, <1>6 DEF Next

(* What a transaction that takes effect does to tables and credentials.    *)
LEMMA Effect ==
  ASSUME IInv, UNCHANGED clock,
         NEW op \in Operations, NEW now \in Nat, now <= clock, NEW n \in Nat,
         Repeat(op, now, n) \/ Produce(op, now, n)
  PROVE  Remembered' /\ NoReplayWindow'
<1> DEFINE made == [operation |-> op, serial |-> n, expiresAt |-> ValidUntil(op)]
<1> USE DEF IInv
<1>1. /\ clock \in Nat
      /\ \A x \in credentials : x.expiresAt \in Nat
      /\ \A x \in receipts : x.expiresAt \in Nat
  BY DEF TypeOK, Result, ReceiptRow
<1>2. \A x \in credentials : x.expiresAt > clock => x \in Kept(results, now)
  BY <1>1 DEF Kept, Remembered
<1>3. \A x \in credentials : x.expiresAt > clock =>
        \A r \in ReceiptsOf(x.operation) :
          \E row \in Kept(receipts, now) : row.id = r /\ row.expiresAt >= x.expiresAt
  BY <1>1 DEF Kept, Remembered
<1>4. Kept(results, now) \subseteq credentials
  BY DEF Kept, Remembered
<1>5. CASE Repeat(op, now, n)
  <2>1. /\ receipts' = Kept(receipts, now) /\ results' = Kept(results, now)
        /\ UNCHANGED credentials
    BY <1>5 DEF Repeat
  <2>2. Remembered'
    BY <1>2, <1>3, <1>4, <2>1 DEF Remembered
  <2>3. NoReplayWindow'
    BY <2>1 DEF NoReplayWindow
  <2> QED BY <2>2, <2>3
<1>6. CASE Produce(op, now, n)
  <2>1. /\ Unconsumed(op, now)
        /\ receipts' = Kept(receipts, now) \cup ReceiptRows(op)
        /\ results' = Kept(results, now) \cup {made}
        /\ credentials' = credentials \cup {made}
    BY <1>6 DEF Produce, Make, Decided
  <2>2. /\ ValidUntil(op) \in Nat
        /\ \A r \in ReceiptsOf(op) : /\ Attested[op][r] \in Nat
                                     /\ ValidUntil(op) <= Attested[op][r]
    BY ValidUntilIsLeast, IssuanceAssumption DEF ReceiptsOf
  <2>3. \A r \in ReceiptsOf(op) :
          \E row \in ReceiptRows(op) : row.id = r /\ row.expiresAt >= ValidUntil(op)
    <3>1. ASSUME NEW r \in ReceiptsOf(op)
          PROVE  \E row \in ReceiptRows(op) : row.id = r /\ row.expiresAt >= ValidUntil(op)
      <4>1. [id |-> r, expiresAt |-> Attested[op][r]] \in ReceiptRows(op)
        BY DEF ReceiptRows
      <4> QED BY <2>2, <4>1
    <3> QED BY <3>1
  <2>4. Remembered'
    <3>1. (results \subseteq credentials)'
      BY <1>4, <2>1
    <3>2. made.operation = op /\ made.expiresAt = ValidUntil(op)
      OBVIOUS
    <3>3. ASSUME NEW x \in credentials
          PROVE  /\ x.expiresAt = ValidUntil(x.operation)
                 /\ x.expiresAt > clock =>
                      /\ x \in results'
                      /\ \A r \in ReceiptsOf(x.operation) :
                           \E row \in receipts' : row.id = r /\ row.expiresAt >= x.expiresAt
      <4>1. x.expiresAt = ValidUntil(x.operation)
        BY DEF Remembered
      <4>2. x.expiresAt > clock => x \in results'
        BY <1>2, <2>1
      <4>3. x.expiresAt > clock => \A r \in ReceiptsOf(x.operation) :
              \E row \in receipts' : row.id = r /\ row.expiresAt >= x.expiresAt
        <5> HIDE DEF made
        <5> QED BY <1>3, <2>1
      <4> QED BY <4>1, <4>2, <4>3
    <3>4. /\ made \in results'
          /\ \A r \in ReceiptsOf(made.operation) :
               \E row \in receipts' : row.id = r /\ row.expiresAt >= made.expiresAt
      BY <2>1, <2>3, <3>2
    <3> HIDE DEF made
    <3>5. \A x \in credentials' :
            /\ x.expiresAt = ValidUntil(x.operation)
            /\ x.expiresAt > clock =>
                 /\ x \in results'
                 /\ \A r \in ReceiptsOf(x.operation) :
                      \E row \in receipts' : row.id = r /\ row.expiresAt >= x.expiresAt
      BY <2>1, <3>2, <3>3, <3>4
    <3> QED BY <3>1, <3>5 DEF Remembered
  <2>5. NoReplayWindow'
    <3>1. \A x \in credentials : x.expiresAt > clock =>
            ReceiptsOf(x.operation) \cap ReceiptsOf(op) = {}
      BY <1>3, <2>1 DEF Unconsumed
    <3>2. made.operation = op
      OBVIOUS
    <3> HIDE DEF made
    <3> QED BY <2>1, <3>1, <3>2 DEF NoReplayWindow
  <2> QED BY <2>4, <2>5
<1> QED BY <1>5, <1>6

(* The answer of a transaction is the one valid credential of its          *)
(* operation, and it does not contradict the answers given before.         *)
LEMMA AnswersAgree ==
  ASSUME IInv, UNCHANGED clock, Remembered', NoReplayWindow',
         NEW w \in Workers, NEW op \in Operations,
         NEW now \in Nat, now <= clock, NEW n \in Nat,
         Repeat(op, now, n) \/ Produce(op, now, n),
         Answer(w, op, n) \/ Reject(w)
  PROVE  ExactRetry'
<1> DEFINE Agrees(o, k) ==
      /\ \E x \in credentials' : x.operation = o /\ x.serial = k
      /\ \A x \in credentials' : x.operation = o /\ x.expiresAt > clock => x.serial = k
<1>1. /\ clock \in Nat
      /\ \A x \in credentials : x.expiresAt \in Nat
      /\ calls \in [Workers -> IssueCall]
  BY DEF IInv, TypeOK, Result
<1>2. ReceiptsOf(op) # {}
  BY IssuanceAssumption DEF ReceiptsOf
<1>3. credentials \subseteq credentials'
  BY DEF Repeat, Produce, Make
<1>4. \E x \in credentials' : x.operation = op /\ x.serial = n
  <2>1. CASE Repeat(op, now, n)
    BY <2>1 DEF Repeat, Stored, Kept, IInv, Remembered
  <2>2. CASE Produce(op, now, n)
    <3> DEFINE made == [operation |-> op, serial |-> n, expiresAt |-> ValidUntil(op)]
    <3>1. made \in credentials' /\ made.operation = op /\ made.serial = n
      BY <2>2 DEF Produce, Make, Decided
    <3> QED BY <3>1
  <2> QED BY <2>1, <2>2
<1>5. Agrees(op, n)
  <2>1. PICK x \in credentials' : x.operation = op /\ x.serial = n
    BY <1>4
  <2>2. ASSUME NEW y \in credentials', y.operation = op, y.expiresAt > clock
        PROVE  y.serial = n
    <3>1. x.expiresAt = y.expiresAt
      BY <2>1, <2>2 DEF Remembered
    <3>2. x = y
      BY <1>2, <2>1, <2>2, <3>1 DEF NoReplayWindow
    <3> QED BY <2>1, <3>2
  <2> QED BY <1>4, <2>2
<1>6. ASSUME NEW v \in Workers, calls[v].pc = "answered"
      PROVE  Agrees(calls[v].operation, calls[v].serial)
  <2> DEFINE o == calls[v].operation  k == calls[v].serial
  <2>1. /\ \E x \in credentials : x.operation = o /\ x.serial = k
        /\ \A x \in credentials : x.operation = o /\ x.expiresAt > clock => x.serial = k
    BY <1>6 DEF IInv, ExactRetry
  <2>2. PICK x \in credentials : x.operation = o /\ x.serial = k
    BY <2>1
  <2>3. ASSUME NEW y \in credentials', y.operation = o, y.expiresAt > clock
        PROVE  y.serial = k
    <3>1. x \in credentials'
      BY <1>3
    <3>2. x.expiresAt = y.expiresAt
      BY <2>2, <2>3, <3>1 DEF Remembered
    <3>3. o \in Operations
      BY <1>1, <1>6 DEF IssueCall, Idle
    <3>4. ReceiptsOf(o) # {}
      BY <3>3, IssuanceAssumption DEF ReceiptsOf
    <3>5. x = y
      BY <2>2, <2>3, <3>1, <3>2, <3>4 DEF NoReplayWindow
    <3> QED BY <2>2, <3>5
  <2>4. \E z \in credentials' : z.operation = o /\ z.serial = k
    BY <1>3, <2>2
  <2> QED BY <2>3, <2>4
<1>7. ASSUME NEW v \in Workers, calls'[v].pc = "answered"
      PROVE  \/ calls'[v] = calls[v]
             \/ calls'[v].operation = op /\ calls'[v].serial = n
  BY <1>1, <1>7 DEF Answer, Reject, Idle
<1>8. ASSUME NEW v \in Workers, calls'[v].pc = "answered"
      PROVE  Agrees(calls'[v].operation, calls'[v].serial)
  <2> HIDE DEF Agrees
  <2> QED BY <1>5, <1>6, <1>7, <1>8
<1> QED BY <1>8 DEF ExactRetry
-----------------------------------------------------------------------------
(* The invariant is inductive, so all of its parts hold in every reachable *)
(* state, whatever the number of calls and processes.                      *)
LEMMA Initially == Init => IInv
<1> SUFFICES ASSUME Init PROVE IInv
  OBVIOUS
<1>1. retired \in BOOLEAN
  BY DEF Init
<1>2. TypeOK
  BY <1>1 DEF Init, TypeOK, IssueCall
<1>3. ReadBefore /\ ExactRetry
  BY DEF Init, ReadBefore, ExactRetry, Idle
<1>4. SignedAlone /\ Remembered /\ NoReplayWindow
  BY DEF Init, Idle, SignedAlone, Remembered, NoReplayWindow
<1> QED BY <1>2, <1>3, <1>4 DEF IInv

LEMMA Inductive == IInv /\ [Next]_issuanceVars => IInv'
<1> SUFFICES ASSUME IInv, [Next]_issuanceVars PROVE IInv'
  OBVIOUS
<1>1. TypeOK' /\ ReadBefore' /\ SignedAlone'
  BY TypesPreserved, ReadBeforePreserved, SignedAlonePreserved DEF IInv
<1>2. CASE /\ UNCHANGED <<store, receipts, results, credentials>>
           /\ clock' \in {clock, clock + 1}
           /\ \A w \in Workers : calls'[w].pc = "answered" => calls'[w] = calls[w]
  <2>1. /\ clock \in Nat
        /\ \A x \in credentials : x.expiresAt \in Nat
    BY DEF IInv, TypeOK, Result
  <2>2. \A x \in credentials : x.expiresAt > clock' => x.expiresAt > clock
    BY <1>2, <2>1
  <2>3. Remembered'
    BY <1>2, <2>2 DEF IInv, Remembered
  <2>4. NoReplayWindow'
    BY <1>2, <2>2 DEF IInv, NoReplayWindow
  <2>5. ExactRetry'
    BY <1>2, <2>2 DEF IInv, ExactRetry
  <2> QED BY <1>1, <2>3, <2>4, <2>5 DEF IInv
<1>3. ASSUME UNCHANGED <<store, clock>>,
             NEW w \in Workers, NEW op \in Operations, NEW now \in Nat, NEW n \in Nat,
             now <= clock, Repeat(op, now, n) \/ Produce(op, now, n),
             Answer(w, op, n) \/ Reject(w)
      PROVE  IInv'
  <2>1. Remembered' /\ NoReplayWindow'
    BY <1>3, Effect
  <2>2. ExactRetry'
    BY <1>3, <2>1, AnswersAgree
  <2> QED BY <1>1, <2>1, <2>2 DEF IInv
<1> QED BY <1>2, <1>3, StepCases DEF IInv

(* Tables, calls and history keep their types. *)
THEOREM IssuanceTypeCorrect == Spec => []TypeOK
<1>1. IInv => TypeOK
  BY DEF IInv
<1> QED BY <1>1, Initially, Inductive, PTL DEF Spec

(* No receipt ever stands behind two credentials that are both valid, for  *)
(* any number of processes and however late their transactions run.        *)
THEOREM NoReceiptReplayed == Spec => []NoReplayWindow
<1>1. IInv => NoReplayWindow
  BY DEF IInv
<1> QED BY <1>1, Initially, Inductive, PTL DEF Spec

(* A repeated operation is always answered with its one valid credential.  *)
THEOREM RetriesAreExact == Spec => []ExactRetry
<1>1. IInv => ExactRetry
  BY DEF IInv
<1> QED BY <1>1, Initially, Inductive, PTL DEF Spec

(* The receipts never exceed their capacity, whatever it is. *)
THEOREM ReceiptsWithinCapacity == Spec => []ReceiptCapacity
<1> DEFINE Bounded == IsFiniteSet(receipts) /\ ReceiptCapacity
<1>1. Init => Bounded
  BY IssuanceAssumption, FS_EmptySet DEF Init, ReceiptCapacity
<1>2. IInv /\ Bounded /\ [Next]_issuanceVars => Bounded'
  <2> SUFFICES ASSUME IInv, Bounded, [Next]_issuanceVars PROVE Bounded'
    OBVIOUS
  <2>1. CASE UNCHANGED receipts
    BY <2>1 DEF ReceiptCapacity
  <2>2. ASSUME NEW op \in Operations, NEW now \in Nat, NEW n \in Nat,
               Repeat(op, now, n) \/ Produce(op, now, n)
        PROVE  Bounded'
    <3>1. /\ IsFiniteSet(Kept(receipts, now))
          /\ Cardinality(Kept(receipts, now)) <= Cardinality(receipts)
          /\ Cardinality(Kept(receipts, now)) \in Nat
          /\ Cardinality(receipts) \in Nat
      BY KeptIsSubset, FS_Subset, FS_CardinalityType
    <3>2. MaxReceipts \in Nat
      BY IssuanceAssumption
    <3>3. CASE Repeat(op, now, n)
      BY <3>1, <3>2, <3>3 DEF Repeat, ReceiptCapacity
    <3>4. CASE Produce(op, now, n)
      <4> DEFINE K == Kept(receipts, now)  R == ReceiptRows(op)  O == ReceiptsOf(op)
      <4>1. receipts' = K \cup R /\ Cardinality(K) + Cardinality(O) <= MaxReceipts
        BY <3>4 DEF Produce, Make, Decided, Room
      <4>2. /\ IsFiniteSet(R) /\ IsFiniteSet(O)
            /\ Cardinality(R) <= Cardinality(O)
        BY ReceiptRowsAreFew
      <4> HIDE DEF K, R, O
      <4>3. /\ IsFiniteSet(K \cup R)
            /\ Cardinality(K \cup R) =
                 Cardinality(K) + Cardinality(R) - Cardinality(K \cap R)
        BY <3>1, <4>2, FS_Union DEF K
      <4>4. Cardinality(K \cap R) \in Nat
        BY <4>2, FS_Intersection, FS_CardinalityType
      <4>5. Cardinality(R) \in Nat /\ Cardinality(O) \in Nat /\ Cardinality(K) \in Nat
        BY <3>1, <4>2, FS_CardinalityType DEF K
      <4>6. Cardinality(receipts') <= MaxReceipts
        BY <3>2, <4>1, <4>2, <4>3, <4>4, <4>5
      <4> QED BY <4>1, <4>3, <4>6 DEF ReceiptCapacity
    <3> QED BY <2>2, <3>3, <3>4
  <2> QED BY <2>1, <2>2, StepCases DEF IInv
<1>3. Bounded => ReceiptCapacity
  OBVIOUS
<1> QED BY <1>1, <1>2, <1>3, Initially, Inductive, PTL DEF Spec

(* As long as a credential is valid, a retry of its operation finds it and *)
(* nothing else, for any number of processes and however often and late    *)
(* the tables are pruned.                                                  *)
THEOREM LostAnswersCanBeFetched == Spec => []RetryFindsResult
<1>1. IInv => RetryFindsResult
  <2> SUFFICES ASSUME IInv, NEW w \in Workers, calls[w].pc = "issueOnce",
                      NEW x \in credentials, x.operation = calls[w].operation,
                      x.expiresAt > clock
               PROVE  Stored(x.operation, calls[w].now) = {x}
    BY DEF RetryFindsResult
  <2> DEFINE op == x.operation  now == calls[w].now
  <2>1. /\ clock \in Nat /\ now \in Nat /\ now <= clock /\ op \in Operations
        /\ \A y \in credentials : y.expiresAt \in Nat
    BY DEF IInv, TypeOK, IssueCall, Idle, Result, ReadBefore
  <2>2. x \in Stored(op, now)
    BY <2>1 DEF IInv, Remembered, Stored, Kept
  <2>3. ASSUME NEW y \in Stored(op, now)
        PROVE  y = x
    <3>1. y \in credentials /\ y.operation = op
      BY <2>3 DEF IInv, Remembered, Stored, Kept
    <3>2. y.expiresAt > clock
      BY <3>1 DEF IInv, Remembered
    <3>3. ReceiptsOf(y.operation) \cap ReceiptsOf(x.operation) # {}
      BY <2>1, <3>1, IssuanceAssumption DEF ReceiptsOf
    <3> QED BY <3>1, <3>2, <3>3 DEF IInv, NoReplayWindow
  <2> QED BY <2>2, <2>3
<1> QED BY <1>1, Initially, Inductive, PTL DEF Spec

-----------------------------------------------------------------------------
(* The refinement of Redemption.                                           *)

(* No two credentials have the same serial: they are numbered as made.     *)
SerialsSound ==
    /\ \A x \in credentials : x.serial \in 1 .. serial
    /\ \A x, y \in credentials : x.serial = y.serial => x = y
    /\ serial \in 0 .. MaxSerial

(* Only a production adds a credential, under the next serial. *)
LEMMA SerialCases ==
  ASSUME TypeOK, SignedAlone, [Next]_issuanceVars
  PROVE  \/ UNCHANGED <<serial, credentials>>
         \/ \E op \in Operations, now \in Nat, n \in Nat : Produce(op, now, n)
<1>1. ASSUME NEW w \in Workers, IssueOnce(w) \/ Commit(w)
      PROVE  \/ UNCHANGED <<serial, credentials>>
             \/ \E op \in Operations, now \in Nat, n \in Nat : Produce(op, now, n)
  BY <1>1, TransactionCases DEF Repeat
<1>2. CASE Tick \/ Restart \/ UNCHANGED issuanceVars
  BY <1>2 DEF Tick, Restart, issuanceVars
<1>3. ASSUME NEW w \in Workers,
             Sign(w) \/ Deliver(w) \/ \E op \in Operations : Issue(w, op)
      PROVE  UNCHANGED <<serial, credentials>>
  BY <1>3 DEF Sign, Deliver, Issue
<1> QED BY <1>1, <1>2, <1>3, Zenon DEF Next

LEMMA SerialsKept ==
  ASSUME TypeOK, SignedAlone, SerialsSound, [Next]_issuanceVars
  PROVE  SerialsSound'
<1>1. CASE UNCHANGED <<serial, credentials>>
  BY <1>1 DEF SerialsSound
<1>2. ASSUME NEW op \in Operations, NEW now \in Nat, NEW n \in Nat, Produce(op, now, n)
      PROVE  SerialsSound'
  <2> DEFINE made == [operation |-> op, serial |-> n, expiresAt |-> ValidUntil(op)]
  <2>1. /\ n = serial + 1 /\ serial' = n /\ serial < MaxSerial
        /\ credentials' = credentials \cup {made}
    BY <1>2 DEF Produce, Make, Decided
  <2>2. made.serial = n
    OBVIOUS
  <2>3. serial \in Nat /\ MaxSerial \in Nat
    BY IssuanceAssumption DEF TypeOK
  <2> HIDE DEF made
  <2> QED BY <2>1, <2>2, <2>3 DEF SerialsSound
<1> QED BY <1>1, <1>2, SerialCases

(* What becomes of the abstract callers when one call moves on. *)
LEMMA AskedMoves ==
  ASSUME TypeOK, NEW w \in Workers, NEW c, calls' = [calls EXCEPT ![w] = c],
         c.pc \notin {"issueOnce", "commit"}
  PROVE  Asked' = [Asked EXCEPT ![w] = {}]
BY DEF TypeOK, Asked

LEMMA HandedMoves ==
  ASSUME IInv, SerialsSound, NEW w \in Workers, NEW c, calls' = [calls EXCEPT ![w] = c],
         credentials \subseteq credentials',
         \A x \in credentials' \ credentials : x.serial = serial + 1
  PROVE  /\ c.pc = "answered" =>
              Handed' = [Handed EXCEPT ![w] = {x \in credentials' : x.serial = c.serial}]
         /\ c.pc # "answered" => Handed' = [Handed EXCEPT ![w] = {}]
<1>1. ASSUME NEW v \in Workers, calls[v].pc = "answered"
      PROVE  {x \in credentials' : x.serial = calls[v].serial}
               = {x \in credentials : x.serial = calls[v].serial}
  <2>1. PICK y \in credentials : y.serial = calls[v].serial
    BY <1>1 DEF IInv, ExactRetry
  <2>2. serial \in Nat /\ calls[v].serial \in 1 .. serial
    BY <2>1 DEF SerialsSound
  <2> QED BY <2>2
<1>2. ASSUME NEW v \in Workers, v # w
      PROVE  calls'[v] = calls[v]
  BY <1>2 DEF IInv, TypeOK
<1>3. calls'[w] = c
  BY DEF IInv, TypeOK
<1>4. ASSUME NEW v \in Workers, v # w PROVE Handed'[v] = Handed[v]
  BY <1>1, <1>2, <1>4 DEF Handed
<1>5. Handed'[w] = IF c.pc = "answered" THEN {x \in credentials' : x.serial = c.serial} ELSE {}
  BY <1>3 DEF Handed
<1>6. /\ Handed = [v \in Workers |-> Handed[v]]
      /\ Handed' = [v \in Workers |-> Handed'[v]]
  BY DEF Handed
<1>7. ASSUME NEW S, Handed'[w] = S PROVE Handed' = [Handed EXCEPT ![w] = S]
  BY <1>4, <1>6, <1>7
<1> QED BY <1>5, <1>7

(* A call that is refused or over leaves, and nothing else changes. *)
LEMMA RejectLeaves ==
  ASSUME IInv, SerialsSound, NEW w \in Workers, Reject(w), UNCHANGED <<clock, credentials>>
  PROVE  Promise!Leave({w})
<1>1. calls' = [calls EXCEPT ![w] = Idle] /\ Idle.pc = "idle"
  BY DEF Reject, Idle
<1>2. Asked' = [Asked EXCEPT ![w] = {}]
  BY <1>1, AskedMoves DEF IInv
<1>3. Handed' = [Handed EXCEPT ![w] = {}]
  BY <1>1, HandedMoves
<1> QED BY <1>2, <1>3 DEF Promise!Leave, Asked, Handed

(* The answer, or its loss. *)
LEMMA AnswersMove ==
  ASSUME IInv, SerialsSound, NEW w \in Workers, NEW op \in Operations, NEW x,
         calls[w].pc # "answered", Answer(w, op, x.serial) \/ Reject(w),
         credentials \subseteq credentials', x \in credentials',
         \A y \in credentials' : y.serial = x.serial => y = x,
         \A y \in credentials' \ credentials : y.serial = serial + 1
  PROVE  Promise!Answer(w, x)
<1>1. CASE Answer(w, op, x.serial)
  <2> DEFINE c == [pc |-> "answered", operation |-> op, serial |-> x.serial]
  <2>1. calls' = [calls EXCEPT ![w] = c] /\ c.pc = "answered" /\ c.serial = x.serial
    BY <1>1 DEF Answer
  <2> HIDE DEF c
  <2>2. Asked' = [Asked EXCEPT ![w] = {}]
    BY <2>1, AskedMoves DEF IInv
  <2>3. Handed' = [Handed EXCEPT ![w] = {y \in credentials' : y.serial = c.serial}]
    BY <2>1, HandedMoves
  <2>4. {y \in credentials' : y.serial = c.serial} = {x}
    BY <2>1
  <2> QED BY <2>2, <2>3, <2>4 DEF Promise!Answer
<1>2. CASE Reject(w)
  <2>1. calls' = [calls EXCEPT ![w] = Idle] /\ Idle.pc = "idle"
    BY <1>2 DEF Reject, Idle
  <2>2. Asked' = [Asked EXCEPT ![w] = {}]
    BY <2>1, AskedMoves DEF IInv
  <2>3. Handed' = [Handed EXCEPT ![w] = {}]
    BY <2>1, HandedMoves
  <2>4. Handed' = Handed
    BY <2>3 DEF Handed
  <2> QED BY <2>2, <2>4 DEF Promise!Answer
<1> QED BY <1>1, <1>2

(* A transaction makes a credential only from receipts on which no valid   *)
(* one stands: those of a valid one have rows that it does not prune.      *)
LEMMA ReceiptsFree ==
  ASSUME IInv, NEW op \in Operations, NEW now \in Nat, now <= clock, Unconsumed(op, now),
         NEW x \in credentials, x.expiresAt > clock
  PROVE  ReceiptsOf(x.operation) \cap ReceiptsOf(op) = {}
<1>1. /\ clock \in Nat /\ x.expiresAt \in Nat
      /\ \A row \in receipts : row.expiresAt \in Nat
  BY DEF IInv, TypeOK, Result, ReceiptRow
<1>2. \A r \in ReceiptsOf(x.operation) : \E row \in Kept(receipts, now) : row.id = r
  BY <1>1 DEF IInv, Kept, Remembered
<1> QED BY <1>2 DEF Unconsumed

(* The transaction of a call is a step of the promise. *)
LEMMA TransactionPromised ==
  ASSUME IInv, SerialsSound, SerialsSound', NEW w \in Workers, IssueOnce(w) \/ Commit(w)
  PROVE  [Promise!Next]_(Promise!redemptionVars)
<1>1. PICK op \in Operations, now \in Nat :
         /\ calls[w].pc \in {"issueOnce", "commit"}
         /\ calls[w].operation = op /\ calls[w].now = now
         /\ UNCHANGED <<store, clock, boots>>
         /\ retired' \in BOOLEAN
         /\ \/ \E n \in Nat : (Repeat(op, now, n) \/ Produce(op, now, n))
                                /\ (Answer(w, op, n) \/ Reject(w))
            \/ Reject(w) /\ UNCHANGED <<receipts, results, serial, credentials>>
  BY TransactionCases DEF IInv
<1>2. now <= clock /\ Asked[w] = {op} /\ calls[w].pc # "answered"
  BY <1>1 DEF IInv, ReadBefore, Asked
<1>3. CASE Reject(w) /\ UNCHANGED <<receipts, results, serial, credentials>>
  BY <1>1, <1>3, RejectLeaves DEF Promise!Next
<1>4. ASSUME NEW n \in Nat, Repeat(op, now, n), Answer(w, op, n) \/ Reject(w)
      PROVE  Promise!Next
  <2>1. PICK x \in Stored(op, now) : n = x.serial
    BY <1>4 DEF Repeat
  <2>2. UNCHANGED <<serial, credentials>>
    BY <1>4 DEF Repeat
  <2>3. x \in credentials /\ x.operation = op
    BY <2>1 DEF Stored, Kept, IInv, Remembered
  <2>4. \A y \in credentials' : y.serial = x.serial => y = x
    BY <2>2, <2>3 DEF SerialsSound
  <2>5. Promise!Answer(w, x)
    BY <1>2, <1>4, <2>1, <2>2, <2>3, <2>4, AnswersMove
  <2>6. \A y \in credentials : y.operation = op /\ y.expiresAt > clock => y = x
    <3>1. ASSUME NEW y \in credentials, y.operation = op, y.expiresAt > clock
          PROVE  y = x
      <4>1. x.expiresAt > clock
        BY <2>3, <3>1 DEF IInv, Remembered
      <4>2. ReceiptsOf(op) \cap ReceiptsOf(op) # {}
        BY IssuanceAssumption DEF ReceiptsOf
      <4> QED BY <2>3, <3>1, <4>1, <4>2 DEF IInv, NoReplayWindow
    <3> QED BY <3>1
  <2>7. Promise!Repeat(w, x)
    BY <1>1, <1>2, <2>2, <2>3, <2>5, <2>6 DEF Promise!Repeat, Promise!Valid
  <2> QED BY <2>3, <2>7 DEF Promise!Next
<1>5. ASSUME NEW n \in Nat, Produce(op, now, n), Answer(w, op, n) \/ Reject(w)
      PROVE  Promise!Next
  <2> DEFINE made == [operation |-> op, serial |-> n, expiresAt |-> ValidUntil(op)]
  <2>1. /\ n = serial + 1 /\ serial' = n /\ serial < MaxSerial /\ Unconsumed(op, now)
        /\ credentials' = credentials \cup {made}
    BY <1>5 DEF Produce, Make, Decided
  <2>2. serial \in Nat /\ MaxSerial \in Nat /\ n \in 1 .. MaxSerial
    BY <2>1, IssuanceAssumption DEF IInv, TypeOK
  <2>3. made.serial = n
    OBVIOUS
  <2>4. \A x \in credentials :
           /\ x.serial # n
           /\ x.expiresAt > clock => ReceiptsOf(x.operation) \cap ReceiptsOf(op) = {}
    BY <1>2, <2>1, <2>2, ReceiptsFree DEF SerialsSound
  <2>5. Promise!Answer(w, made)
    <3> HIDE DEF made
    <3>1. \A y \in credentials' : y.serial = made.serial => y = made
      BY <2>1, <2>3, <2>4
    <3>2. \A y \in credentials' \ credentials : y.serial = serial + 1
      BY <2>1, <2>3
    <3> QED BY <1>2, <1>5, <2>1, <2>3, <3>1, <3>2, AnswersMove
  <2>6. \A x \in credentials : x.operation \in Operations
    BY DEF IInv, TypeOK, Result
  <2>7. Promise!Make(w, op, n)
    BY <1>1, <1>2, <2>1, <2>4, <2>5, <2>6 DEF Promise!Make, Promise!Valid
  <2> QED BY <2>2, <2>7 DEF Promise!Next
<1> QED BY <1>1, <1>3, <1>4, <1>5

(***************************************************************************)
(* The issuer implements Redemption: pruned tables, late transactions,     *)
(* lost answers and restarts do nothing that the promise does not allow.   *)
(***************************************************************************)
THEOREM IssuanceImplementsRedemption == Spec => ImplementsRedemption
<1>1. Init => IInv /\ SerialsSound
  <2> SUFFICES ASSUME Init PROVE SerialsSound
    BY Initially
  <2> QED BY IssuanceAssumption DEF Init, SerialsSound
<1>2. IInv /\ SerialsSound /\ [Next]_issuanceVars => (IInv /\ SerialsSound)'
  BY Inductive, SerialsKept DEF IInv
<1>3. Init => Promise!Init
  BY DEF Init, Promise!Init, Promise!Nothing, Asked, Handed, Idle
<1>4. IInv /\ SerialsSound /\ SerialsSound' /\ [Next]_issuanceVars
        => [Promise!Next]_(Promise!redemptionVars)
  <2> SUFFICES ASSUME IInv, SerialsSound, SerialsSound', [Next]_issuanceVars
               PROVE  [Promise!Next]_(Promise!redemptionVars)
    OBVIOUS
  <2>1. ASSUME UNCHANGED <<credentials, calls>>
        PROVE  UNCHANGED <<Asked, Handed>>
    BY <2>1 DEF Asked, Handed
  <2>2. CASE Tick
    BY <2>1, <2>2 DEF Tick, Promise!Tick, Promise!Next
  <2>3. CASE UNCHANGED issuanceVars
    BY <2>1, <2>3 DEF issuanceVars, Promise!redemptionVars
  <2>4. CASE Restart
    <3>1. \A w \in Workers : calls'[w].pc = "idle"
      BY <2>4 DEF Restart, Idle
    <3>2. Promise!Leave(Workers)
      BY <2>4, <3>1 DEF Restart, Promise!Leave, Asked, Handed
    <3> QED BY <3>2 DEF Promise!Next
  <2>5. ASSUME NEW w \in Workers, NEW op \in Operations, Issue(w, op)
        PROVE  Promise!Next
    <3>1. /\ calls[w].pc = "idle"
          /\ calls' = [calls EXCEPT ![w] = [pc |-> "issueOnce", operation |-> op, now |-> clock]]
          /\ UNCHANGED <<clock, credentials>>
      BY <2>5 DEF Issue, Idle
    <3>2. Asked[w] = {} /\ Handed[w] = {}
      BY <3>1 DEF Asked, Handed
    <3>3. Asked' = [Asked EXCEPT ![w] = {op}]
      BY <3>1 DEF Asked, IInv, TypeOK
    <3>4. Handed' = Handed
      BY <3>1 DEF Handed, IInv, TypeOK
    <3>5. Promise!Ask(w, op)
      BY <3>1, <3>2, <3>3, <3>4 DEF Promise!Ask
    <3> QED BY <3>5 DEF Promise!Next
  <2>6. ASSUME NEW w \in Workers, Deliver(w)
        PROVE  Promise!Next
    <3>1. Promise!Leave({w})
      BY <2>6, RejectLeaves DEF Deliver
    <3> QED BY <3>1 DEF Promise!Next
  <2>7. ASSUME NEW w \in Workers, IssueOnce(w) \/ Commit(w)
        PROVE  [Promise!Next]_(Promise!redemptionVars)
    BY <2>7, TransactionPromised
  <2>8. ASSUME NEW w \in Workers, Sign(w)
        PROVE  UNCHANGED Promise!redemptionVars
    <3>1. Asked' = Asked /\ Handed' = Handed
      BY <2>8 DEF Sign, Asked, Handed, IInv, TypeOK
    <3> QED BY <2>8, <3>1 DEF Sign, Promise!redemptionVars
  <2> QED BY <2>2, <2>3, <2>4, <2>5, <2>6, <2>7, <2>8, Zenon DEF Next
<1> QED BY <1>1, <1>2, <1>3, <1>4, PTL DEF Spec, ImplementsRedemption, Promise!Spec
=============================================================================
