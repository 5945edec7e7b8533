----------------------------- MODULE AccountsProof -----------------------------
(***************************************************************************)
(* Proofs about Accounts for any callers, members, capacities and          *)
(* lifetimes.  A segment of a call moves one challenge at most, from the   *)
(* pending ones to the call and from the call to an accepted assertion,    *)
(* and keeps only passkeys it has read from the table; that is what        *)
(* AccountStep says of every action, and what the invariants rest on.      *)
(* FurtherPasskeysSignedFor instead counts: TallyStep says what every      *)
(* action does to the two sides of its balance, for each member.           *)
(***************************************************************************)
EXTENDS Accounts, MembershipStoreProof

(* The locals of a call are those of the await it is at. *)
LEMMA Locals ==
  ASSUME NEW x \in Call
  PROVE  /\ x.pc = "makeOptions" => x \in [pc : {"makeOptions"}, member : Members]
         /\ x.pc = "verifyRegistration" =>
              x \in [pc : {"verifyRegistration"}, ch : RegistrationCeremony]
         /\ x.pc = "insertPasskey" =>
              x \in [pc : {"insertPasskey"}, ch : RegistrationCeremony, passkey : Passkeys,
                     counter : Counters]
         /\ x.pc = "passkeyFound" => x \in [pc : {"passkeyFound"}, credential : Credential]
         /\ x.pc = "verifyOwner" => x \in [pc : {"verifyOwner"}, ch : AdditionalCeremony]
         /\ x.pc = "countOwner" =>
              x \in [pc : {"countOwner"}, ch : AdditionalCeremony, counter : Counters]
         /\ x.pc = "verifyLogin" => x \in [pc : {"verifyLogin"}, ch : Login]
BY DEF Call, PasskeyCall, VerifierCall, Idle

(* A call may always return. *)
LEMMA IdleTyped == Idle \in Call
BY DEF Call

-----------------------------------------------------------------------------
(* What a state of a call answers, and the passkeys the memory keeps.      *)
Answers(x) == x.pc \in {"verifyRegistration", "insertPasskey", "verifyOwner",
                        "countOwner", "verifyLogin"}
Keeps(x) == CASE x.pc = "passkeyFound" -> {x.credential}
              [] x.pc \in {"verifyOwner", "countOwner", "verifyLogin"} -> {x.ch.credential}
              [] OTHER -> {}
Reads(S) == {y.credential : y \in S}
Additional(S) == {y \in S : y.kind = "additional"}
Snapshots == Reads(logins) \cup Reads(Additional(ceremonies))
               \cup UNION {Keeps(calls[c]) : c \in Callers}

Pending == ceremonies \cup logins

(* A segment of call c, which becomes x: it gives up whatever it answers,  *)
(* or takes a pending challenge, or goes on with the one it has, or has    *)
(* its assertion accepted, or puts a fresh challenge among the pending.    *)
Shrinks == Pending' \subseteq Pending /\ UNCHANGED tokens
AccountStep(c) ==
    \E x \in Call :
      /\ Goto(c, x)
      /\ \/ /\ ~Answers(x) /\ Shrinks /\ UNCHANGED assertions
         \/ /\ Answers(x) /\ x.ch \in Pending \ Pending' /\ Shrinks /\ UNCHANGED assertions
         \/ /\ Answers(x) /\ Answers(calls[c]) /\ x.ch = calls[c].ch
            /\ Shrinks /\ UNCHANGED assertions
         \/ /\ ~Answers(x) /\ Answers(calls[c]) /\ Shrinks
            /\ \E a \in Assertion : a.id = calls[c].ch.id /\ assertions' = assertions \cup {a}
         \/ /\ ~Answers(x) /\ UNCHANGED assertions /\ tokens' = tokens + 1
            /\ \E y \in Ceremony : y.id = tokens + 1 /\ Pending' \subseteq Pending \cup {y}

(* The types of what a segment changes besides. *)
MemoryTyped ==
    /\ ceremonies \in SUBSET Ceremony
    /\ logins \in SUBSET Login
    /\ retired \in BOOLEAN
    /\ tokens \in Nat /\ boots \in Nat
    /\ drawn \in SUBSET Members
    /\ held \in SUBSET Eligibility
    /\ grants \in SUBSET Grant

SegmentKeeps ==
    /\ MemoryTyped'
    /\ [StoreNext]_storeVars /\ UNCHANGED <<clock, store>>
    /\ Snapshots' \subseteq Snapshots \cup credentials

Segment(c) == AccountStep(c) /\ SegmentKeeps

-----------------------------------------------------------------------------
(* The segments, one lemma per action.                                     *)

(* What the memory keeps after a call went to x. *)
LEMMA SnapshotsMove ==
  ASSUME TypeOK, NEW c \in Callers, NEW x, Goto(c, x),
         Reads(logins') \subseteq Snapshots \cup credentials,
         Reads(Additional(ceremonies')) \subseteq Snapshots \cup credentials,
         Keeps(x) \subseteq Snapshots \cup credentials
  PROVE  Snapshots' \subseteq Snapshots \cup credentials
<1>1. calls'[c] = x /\ \A d \in Callers \ {c} : calls'[d] = calls[d]
  BY DEF Goto, TypeOK
<1>2. ASSUME NEW d \in Callers PROVE Keeps(calls'[d]) \subseteq Snapshots \cup credentials
  <2>1. CASE d = c
    BY <1>1, <2>1
  <2>2. CASE d # c
    BY <1>1, <2>2, Zenon DEF Snapshots
  <2> QED BY <2>1, <2>2
<1>3. UNION {Keeps(calls'[d]) : d \in Callers} \subseteq Snapshots \cup credentials
  BY <1>2
<1>4. Snapshots' = Reads(logins') \cup Reads(Additional(ceremonies'))
                     \cup UNION {Keeps(calls'[d]) : d \in Callers}
  BY DEF Snapshots, Reads, Additional, Keeps
<1> QED BY <1>3, <1>4

(* What the memory keeps is among the snapshots. *)
LEMMA SnapshotsHold ==
  ASSUME NEW c \in Callers
  PROVE  /\ Keeps(calls[c]) \subseteq Snapshots
         /\ Reads(logins) \subseteq Snapshots
         /\ Reads(Additional(ceremonies)) \subseteq Snapshots
BY DEF Snapshots

(* Fewer challenges keep fewer passkeys. *)
LEMMA FewerReads ==
  ASSUME NEW S, NEW T, T \subseteq S
  PROVE  Reads(T) \subseteq Reads(S) /\ Reads(Additional(T)) \subseteq Reads(Additional(S))
BY DEF Reads, Additional

(* What most segments are: pending challenges are dropped at most, the     *)
(* call answers nothing or goes on answering, and keeps what it kept.      *)
LEMMA PlainSegment ==
  ASSUME TypeOK, NEW c \in Callers, NEW x \in Call, Goto(c, x),
         ~Answers(x) \/ (Answers(calls[c]) /\ x.ch = calls[c].ch),
         Keeps(x) \subseteq Snapshots \cup credentials,
         ceremonies' \subseteq ceremonies, logins' \subseteq logins, retired' \in BOOLEAN,
         [StoreNext]_storeVars,
         UNCHANGED <<clock, store, tokens, boots, drawn, held, assertions, grants>>
  PROVE  Segment(c)
<1>1. Shrinks
  BY DEF Shrinks, Pending
<1>2. AccountStep(c)
  BY <1>1 DEF AccountStep
<1>3. MemoryTyped'
  BY DEF MemoryTyped, TypeOK
<1>4. Snapshots' \subseteq Snapshots \cup credentials
  BY FewerReads, SnapshotsHold, SnapshotsMove
<1> QED BY <1>2, <1>3, <1>4 DEF Segment, SegmentKeeps

(* A call may give up. *)
LEMMA GivesUp ==
  ASSUME TypeOK, NEW c \in Callers, Return(c),
         ceremonies' \subseteq ceremonies, logins' \subseteq logins, retired' \in BOOLEAN,
         [StoreNext]_storeVars,
         UNCHANGED <<clock, store, tokens, boots, drawn, held, assertions, grants>>
  PROVE  Segment(c)
<1>1. ~Answers(Idle) /\ Keeps(Idle) = {}
  BY DEF Answers, Keeps, Idle
<1> QED BY <1>1, IdleTyped, PlainSegment DEF Return

(* A call takes a pending challenge. *)
LEMMA TakesSegment ==
  ASSUME TypeOK, NEW c \in Callers, NEW x \in Call, Goto(c, x),
         Answers(x), x.ch \in Pending \ Pending', Keeps(x) \subseteq Snapshots,
         ceremonies' \subseteq ceremonies, logins' \subseteq logins,
         UNCHANGED <<storeVars, store, retired, tokens, boots, history>>
  PROVE  Segment(c)
<1>1. Shrinks /\ UNCHANGED assertions
  BY DEF Shrinks, Pending, history
<1>2. AccountStep(c)
  BY <1>1 DEF AccountStep
<1>3. MemoryTyped'
  BY DEF MemoryTyped, TypeOK, history
<1>4. Snapshots' \subseteq Snapshots \cup credentials
  BY FewerReads, SnapshotsHold, SnapshotsMove
<1>5. [StoreNext]_storeVars /\ UNCHANGED <<clock, store>>
  BY DEF storeVars
<1> QED BY <1>2, <1>3, <1>4, <1>5 DEF Segment, SegmentKeeps

(* A call hands out a fresh ceremony, or there is no room for it.          *)
LEMMA BeginSegment ==
  ASSUME TypeOK, NEW c \in Callers, Return(c), NEW y \in Ceremony, y.id = tokens + 1,
         y.kind = "additional" => y.credential \in Snapshots,
         BeginCeremony(y),
         UNCHANGED <<storeVars, store, logins, retired, boots, history>>
  PROVE  Segment(c)
<1>1. /\ ceremonies' \subseteq ceremonies \cup {y}
      /\ \/ tokens' = tokens + 1
         \/ tokens' = tokens /\ ceremonies' \subseteq ceremonies
  BY DEF BeginCeremony, Live
<1>2. UNCHANGED <<logins, assertions, retired, boots, drawn, held, grants>>
  BY DEF history
<1>3. Idle \in Call /\ ~Answers(Idle) /\ Keeps(Idle) = {}
  BY IdleTyped DEF Answers, Keeps, Idle
<1>4. AccountStep(c)
  <2>1. Pending' \subseteq Pending \cup {y}
    BY <1>1, <1>2 DEF Pending
  <2>2. CASE tokens' = tokens + 1
    BY <1>2, <1>3, <2>1, <2>2 DEF AccountStep, Return
  <2>3. CASE tokens' = tokens /\ ceremonies' \subseteq ceremonies
    <3>1. Shrinks
      BY <1>2, <2>3 DEF Shrinks, Pending
    <3> QED BY <1>2, <1>3, <3>1 DEF AccountStep, Return
  <2> QED BY <1>1, <2>2, <2>3
<1>5. MemoryTyped'
  BY <1>1, <1>2 DEF MemoryTyped, TypeOK
<1>6. Reads(Additional(ceremonies')) \subseteq Snapshots
  BY <1>1, SnapshotsHold DEF Reads, Additional
<1>7. Snapshots' \subseteq Snapshots \cup credentials
  BY <1>2, <1>3, <1>6, SnapshotsHold, SnapshotsMove DEF Return
<1>8. [StoreNext]_storeVars /\ UNCHANGED <<clock, store>>
  BY DEF storeVars
<1> QED BY <1>4, <1>5, <1>7, <1>8 DEF Segment, SegmentKeeps

(* A member id is made up. *)
LEMMA BeginRegistrationStep ==
  ASSUME TypeOK, NEW c \in Callers, BeginRegistration(c)
  PROVE  Segment(c)
<1>1. PICK m \in Members : /\ drawn' = drawn \cup {m}
                           /\ Goto(c, [pc |-> "makeOptions", member |-> m])
  BY DEF BeginRegistration
<1> DEFINE x == [pc |-> "makeOptions", member |-> m]
<1>2. UNCHANGED <<storeVars, store, ceremonies, logins, retired, tokens, boots,
                  held, assertions, grants>>
  BY DEF BeginRegistration
<1>3. x \in Call /\ ~Answers(x) /\ Keeps(x) = {}
  BY DEF Call, PasskeyCall, Answers, Keeps
<1>4. AccountStep(c)
  <2>1. Shrinks
    BY <1>2 DEF Shrinks, Pending
  <2> QED BY <1>1, <1>2, <1>3, <2>1 DEF AccountStep
<1>5. MemoryTyped'
  BY <1>1, <1>2 DEF MemoryTyped, TypeOK
<1>6. Snapshots' \subseteq Snapshots \cup credentials
  BY <1>1, <1>2, <1>3, SnapshotsHold, SnapshotsMove
<1>7. [StoreNext]_storeVars /\ UNCHANGED <<clock, store>>
  BY <1>2 DEF storeVars
<1> QED BY <1>4, <1>5, <1>6, <1>7 DEF Segment, SegmentKeeps

(* The locals of a call of a well-typed state. *)
LEMMA CallTyped ==
  ASSUME TypeOK, NEW c \in Callers
  PROVE  calls[c] \in Call
BY DEF TypeOK

(* A registration ceremony begins. *)
LEMMA OptionsMadeStep ==
  ASSUME TypeOK, NEW c \in Callers, OptionsMade(c)
  PROVE  Segment(c)
<1> DEFINE y == [id |-> tokens + 1, kind |-> "registration", member |-> calls[c].member,
                 expiresAt |-> clock + CeremonyLifetime]
<1>1. calls[c].member \in Members
  BY CallTyped, Locals DEF OptionsMade, At
<1>2. y \in Ceremony /\ y.id = tokens + 1 /\ y.kind # "additional"
  BY <1>1, AccountAssumption DEF Ceremony, RegistrationCeremony, TypeOK, StoreTypeOK
<1> QED BY <1>2, BeginSegment DEF OptionsMade

(* A ceremony that keeps a passkey begins. *)
LEMMA PasskeyFoundStep ==
  ASSUME TypeOK, NEW c \in Callers, PasskeyFound(c)
  PROVE  Segment(c)
<1> DEFINE y == [id |-> tokens + 1, kind |-> "additional",
                 credential |-> calls[c].credential, expiresAt |-> clock + CeremonyLifetime]
<1>1. calls[c].credential \in Credential
  BY CallTyped, Locals DEF PasskeyFound, At
<1>2. y \in Ceremony /\ y.id = tokens + 1
  BY <1>1, AccountAssumption DEF Ceremony, AdditionalCeremony, TypeOK, StoreTypeOK
<1>3. y.credential \in Snapshots
  BY SnapshotsHold DEF PasskeyFound, At, Keeps
<1> QED BY <1>2, <1>3, BeginSegment DEF PasskeyFound

(* No login is a ceremony. *)
LEMMA Apart == Ceremony \cap Login = {}
<1>1. ASSUME NEW x \in Ceremony PROVE "kind" \in DOMAIN x
  BY DEF Ceremony, RegistrationCeremony, AdditionalCeremony
<1>2. ASSUME NEW x \in Login PROVE "kind" \notin DOMAIN x
  BY DEF Login
<1> QED BY <1>1, <1>2

(* A ceremony that is consumed is pending no more. *)
LEMMA Consumed ==
  ASSUME TypeOK, NEW ch \in ceremonies, Consume(ch), UNCHANGED logins
  PROVE  ch \in Pending \ Pending' /\ ceremonies' \subseteq ceremonies
<1>1. ch \notin logins
  BY Apart DEF TypeOK
<1> QED BY <1>1 DEF Consume, Pending

(* A registration is answered. *)
LEMMA FinishRegistrationStep ==
  ASSUME TypeOK, NEW c \in Callers, FinishRegistration(c)
  PROVE  Segment(c)
<1>1. PICK ch \in ceremonies :
         /\ Consume(ch)
         /\ IF Answerable(ch, "registration")
              THEN Goto(c, [pc |-> "verifyRegistration", ch |-> ch])
              ELSE Return(c)
  BY DEF FinishRegistration
<1> DEFINE x == [pc |-> "verifyRegistration", ch |-> ch]
<1>2. UNCHANGED <<storeVars, store, logins, retired, tokens, boots, history>>
  BY DEF FinishRegistration
<1>3. ch \in Pending \ Pending' /\ ceremonies' \subseteq ceremonies /\ logins' \subseteq logins
  BY <1>1, <1>2, Consumed
<1>4. CASE Answerable(ch, "registration")
  <2>1. ch \in RegistrationCeremony
    BY <1>4 DEF Answerable, TypeOK, Ceremony, AdditionalCeremony
  <2>2. x \in Call /\ Answers(x) /\ Keeps(x) = {} /\ x.ch = ch
    BY <2>1 DEF Call, PasskeyCall, Answers, Keeps
  <2> QED BY <1>1, <1>2, <1>3, <1>4, <2>2, TakesSegment
<1>5. CASE ~Answerable(ch, "registration")
  BY <1>1, <1>2, <1>3, <1>5, GivesUp DEF storeVars, history, TypeOK
<1> QED BY <1>4, <1>5

(* The new passkey is verified. *)
LEMMA RegistrationVerifiedStep ==
  ASSUME TypeOK, NEW c \in Callers, RegistrationVerified(c)
  PROVE  Segment(c)
<1>1. /\ UNCHANGED <<storeVars, store, ceremonies, logins, retired, tokens, boots, history>>
      /\ At(c, "verifyRegistration")
  BY DEF RegistrationVerified
<1>2. /\ [StoreNext]_storeVars /\ retired' \in BOOLEAN
      /\ ceremonies' \subseteq ceremonies /\ logins' \subseteq logins
      /\ UNCHANGED <<clock, store, tokens, boots, drawn, held, assertions, grants>>
  BY <1>1 DEF storeVars, history, TypeOK
<1>3. ASSUME NEW p \in Passkeys, NEW n \in Counters,
             Goto(c, [pc |-> "insertPasskey", ch |-> calls[c].ch, passkey |-> p,
                      counter |-> n])
      PROVE  Segment(c)
  <2> DEFINE x == [pc |-> "insertPasskey", ch |-> calls[c].ch, passkey |-> p, counter |-> n]
  <2>1. calls[c].ch \in RegistrationCeremony
    BY <1>1, CallTyped, Locals DEF At
  <2>2. x \in Call /\ Keeps(x) = {} /\ x.ch = calls[c].ch /\ Answers(calls[c])
    BY <1>1, <2>1 DEF Call, PasskeyCall, Answers, Keeps, At
  <2> QED BY <1>2, <1>3, <2>2, PlainSegment
<1> QED BY <1>2, <1>3, GivesUp DEF RegistrationVerified

(* The new passkey is inserted, or it is not known whether it was.         *)
LEMMA PasskeyInsertedStep ==
  ASSUME TypeOK, NEW c \in Callers, PasskeyInserted(c)
  PROVE  Segment(c)
<1>1. /\ calls[c].passkey \in Passkeys /\ calls[c].ch.member \in Members
      /\ calls[c].counter \in Counters
  <2>1. calls[c] \in [pc : {"insertPasskey"}, ch : RegistrationCeremony, passkey : Passkeys,
                      counter : Counters]
    BY CallTyped, Locals DEF PasskeyInserted, At
  <2> QED BY <2>1 DEF RegistrationCeremony
<1>2. ASSUME Insert(calls[c].passkey, calls[c].ch.member, calls[c].counter)
      PROVE  StoreNext /\ UNCHANGED clock
  BY <1>1, <1>2 DEF StoreNext, Insert
<1>3. Return(c) /\ [StoreNext]_storeVars /\ UNCHANGED clock
  BY <1>2 DEF PasskeyInserted, Unacknowledged, storeVars
<1>4. retired' \in BOOLEAN
  BY DEF PasskeyInserted, Unacknowledged, TypeOK
<1> QED BY <1>3, <1>4, GivesUp DEF PasskeyInserted, history

(* The passkey of an owner is read. *)
LEMMA BeginAdditionalRegistrationStep ==
  ASSUME TypeOK, NEW c \in Callers, BeginAdditionalRegistration(c)
  PROVE  Segment(c)
<1>1. PICK k \in credentials : Goto(c, [pc |-> "passkeyFound", credential |-> k])
  BY DEF BeginAdditionalRegistration
<1> DEFINE x == [pc |-> "passkeyFound", credential |-> k]
<1>2. k \in Credential
  BY DEF TypeOK, StoreTypeOK
<1>3. x \in Call /\ Keeps(x) = {k} /\ ~Answers(x)
  BY <1>2 DEF Call, PasskeyCall, Answers, Keeps
<1> QED BY <1>1, <1>3, PlainSegment
        DEF BeginAdditionalRegistration, storeVars, history, TypeOK

(* An owner signs for a further passkey. *)
LEMMA AuthorizeStep ==
  ASSUME TypeOK, NEW c \in Callers, AuthorizeAdditionalRegistration(c)
  PROVE  Segment(c)
<1>1. PICK ch \in ceremonies :
         /\ Consume(ch)
         /\ IF Answerable(ch, "additional")
              THEN Goto(c, [pc |-> "verifyOwner", ch |-> ch])
              ELSE Return(c)
  BY DEF AuthorizeAdditionalRegistration
<1> DEFINE x == [pc |-> "verifyOwner", ch |-> ch]
<1>2. UNCHANGED <<storeVars, store, logins, retired, tokens, boots, history>>
  BY DEF AuthorizeAdditionalRegistration
<1>3. ch \in Pending \ Pending' /\ ceremonies' \subseteq ceremonies /\ logins' \subseteq logins
  BY <1>1, <1>2, Consumed
<1>4. CASE Answerable(ch, "additional")
  <2>1. ch \in AdditionalCeremony /\ ch.kind = "additional"
    BY <1>4 DEF Answerable, TypeOK, Ceremony, RegistrationCeremony
  <2>2. x \in Call /\ Answers(x) /\ Keeps(x) = {ch.credential} /\ x.ch = ch
    BY <2>1 DEF Call, PasskeyCall, Answers, Keeps
  <2>3. ch.credential \in Snapshots
    BY <2>1, SnapshotsHold DEF Reads, Additional
  <2> QED BY <1>1, <1>2, <1>3, <1>4, <2>2, <2>3, TakesSegment
<1>5. CASE ~Answerable(ch, "additional")
  BY <1>1, <1>2, <1>3, <1>5, GivesUp DEF storeVars, history, TypeOK
<1> QED BY <1>4, <1>5

(* The signature is verified. *)
LEMMA OwnerVerifiedStep ==
  ASSUME TypeOK, NEW c \in Callers, OwnerVerified(c)
  PROVE  Segment(c)
<1>1. /\ UNCHANGED <<storeVars, store, ceremonies, logins, retired, tokens, boots, history>>
      /\ At(c, "verifyOwner")
  BY DEF OwnerVerified
<1>2. /\ [StoreNext]_storeVars /\ retired' \in BOOLEAN
      /\ ceremonies' \subseteq ceremonies /\ logins' \subseteq logins
      /\ UNCHANGED <<clock, store, tokens, boots, drawn, held, assertions, grants>>
  BY <1>1 DEF storeVars, history, TypeOK
<1>3. ASSUME NEW n \in Counters,
             Goto(c, [pc |-> "countOwner", ch |-> calls[c].ch, counter |-> n])
      PROVE  Segment(c)
  <2> DEFINE x == [pc |-> "countOwner", ch |-> calls[c].ch, counter |-> n]
  <2>1. calls[c].ch \in AdditionalCeremony
    BY <1>1, CallTyped, Locals DEF At
  <2>2. x \in Call /\ Keeps(x) = Keeps(calls[c]) /\ x.ch = calls[c].ch /\ Answers(calls[c])
    BY <1>1, <2>1 DEF Call, PasskeyCall, Answers, Keeps, At
  <2> QED BY <1>2, <1>3, <2>2, SnapshotsHold, PlainSegment
<1> QED BY <1>2, <1>3, GivesUp DEF OwnerVerified

(* An assertion over what a call answers is accepted.                      *)
LEMMA AcceptedSegment ==
  ASSUME TypeOK, NEW c \in Callers, NEW x \in Call, Goto(c, x), ~Answers(x), Keeps(x) = {},
         Answers(calls[c]), NEW a \in Assertion, a.id = calls[c].ch.id,
         assertions' = assertions \cup {a}, [StoreNext]_storeVars, grants' \in SUBSET Grant,
         UNCHANGED <<clock, store, ceremonies, logins, retired, tokens, boots, drawn, held>>
  PROVE  Segment(c)
<1>1. Shrinks
  BY DEF Shrinks, Pending
<1>2. AccountStep(c)
  BY <1>1 DEF AccountStep
<1>3. MemoryTyped'
  BY DEF MemoryTyped, TypeOK
<1>4. Snapshots' \subseteq Snapshots \cup credentials
  BY SnapshotsHold, SnapshotsMove
<1> QED BY <1>2, <1>3, <1>4 DEF Segment, SegmentKeeps

(* The owner's counter is stored, or it is not known whether it was.       *)
LEMMA OwnerCountedStep ==
  ASSUME TypeOK, NEW c \in Callers, OwnerCounted(c)
  PROVE  Segment(c)
<1> DEFINE ch == calls[c].ch
           a == [id |-> ch.id, purpose |-> "passkey", passkey |-> ch.credential.id,
                 member |-> ch.credential.member, counter |-> calls[c].counter]
           x == [pc |-> "makeOptions", member |-> ch.credential.member]
<1>1. /\ At(c, "countOwner") /\ ch \in AdditionalCeremony /\ calls[c].counter \in Counters
      /\ ch.credential.id \in Passkeys /\ ch.credential.member \in Members
  <2>1. At(c, "countOwner")
    BY DEF OwnerCounted
  <2>2. calls[c] \in [pc : {"countOwner"}, ch : AdditionalCeremony, counter : Counters]
    BY <2>1, CallTyped, Locals DEF At
  <2> QED BY <2>1, <2>2 DEF AdditionalCeremony, Credential
<1>2. UNCHANGED <<store, ceremonies, logins, tokens, boots, drawn, held, grants>>
  BY DEF OwnerCounted
<1>3. ASSUME UpdateCounter(ch.credential.id, calls[c].counter)
      PROVE  StoreNext /\ UNCHANGED clock
  BY <1>1, <1>3 DEF StoreNext, UpdateCounter
<1>4. CASE /\ UpdateCounter(ch.credential.id, calls[c].counter)
           /\ Accepted(ch, "passkey", calls[c].counter)
           /\ Goto(c, x)
           /\ UNCHANGED retired
  <2>1. a \in Assertion /\ a.id = ch.id /\ assertions' = assertions \cup {a}
    BY <1>1, <1>4 DEF Accepted, Assertion, AdditionalCeremony
  <2>2. x \in Call /\ ~Answers(x) /\ Keeps(x) = {} /\ Answers(calls[c])
    BY <1>1 DEF Call, PasskeyCall, Answers, Keeps, At
  <2>3. grants' \in SUBSET Grant
    BY <1>2 DEF TypeOK
  <2> HIDE DEF a, x
  <2> QED BY <1>2, <1>3, <1>4, <2>1, <2>2, <2>3, AcceptedSegment
<1>5. CASE /\ Unacknowledged(c, UpdateCounter(ch.credential.id, calls[c].counter))
           /\ UNCHANGED assertions
  <2>1. Return(c) /\ [StoreNext]_storeVars /\ UNCHANGED clock
    BY <1>3, <1>5 DEF Unacknowledged, storeVars
  <2>2. retired' \in BOOLEAN
    BY <1>5 DEF Unacknowledged, TypeOK
  <2> QED BY <1>2, <1>5, <2>1, <2>2, GivesUp
<1> QED BY <1>4, <1>5 DEF OwnerCounted

(* A login is answered. *)
LEMMA AuthenticateStep ==
  ASSUME TypeOK, NEW c \in Callers, Authenticate(c)
  PROVE  Segment(c)
<1>1. PICK ch \in logins :
         /\ logins' = logins \ {ch}
         /\ Goto(c, [pc |-> "verifyLogin", ch |-> ch]) \/ Return(c)
  BY DEF Authenticate
<1> DEFINE x == [pc |-> "verifyLogin", ch |-> ch]
<1>2. UNCHANGED <<storeVars, store, ceremonies, retired, tokens, boots, history>>
  BY DEF Authenticate
<1>3. ch \in Pending \ Pending' /\ ceremonies' \subseteq ceremonies /\ logins' \subseteq logins
  BY <1>1, <1>2, Apart DEF Pending, TypeOK
<1>4. CASE Goto(c, x)
  <2>1. x \in Call /\ Answers(x) /\ Keeps(x) = {ch.credential} /\ x.ch = ch
    BY DEF Call, VerifierCall, Answers, Keeps, TypeOK
  <2>2. ch.credential \in Snapshots
    BY SnapshotsHold DEF Reads
  <2> QED BY <1>1, <1>2, <1>3, <1>4, <2>1, <2>2, TakesSegment
<1>5. CASE Return(c)
  BY <1>2, <1>3, <1>5, GivesUp DEF storeVars, history, TypeOK
<1> QED BY <1>1, <1>4, <1>5

(* An admission is signed, or not. *)
LEMMA LoginVerifiedStep ==
  ASSUME TypeOK, NEW c \in Callers, LoginVerified(c)
  PROVE  Segment(c)
<1> DEFINE ch == calls[c].ch
<1>1. At(c, "verifyLogin") /\ ch \in Login /\ ch.credential \in Credential
  <2>1. At(c, "verifyLogin")
    BY DEF LoginVerified
  <2>2. calls[c] \in [pc : {"verifyLogin"}, ch : Login]
    BY <2>1, CallTyped, Locals DEF At
  <2> QED BY <2>1, <2>2 DEF Login
<1>2. /\ UNCHANGED <<store, ceremonies, logins, retired, tokens, boots, drawn, held>>
      /\ Return(c) /\ retired' \in BOOLEAN
  BY DEF LoginVerified, TypeOK
<1>3. CASE UNCHANGED <<storeVars, assertions, grants>>
  BY <1>2, <1>3, GivesUp DEF storeVars
<1>4. ASSUME NEW n \in Counters, UpdateCounter(ch.credential.id, n),
             Accepted(ch, "admission", n),
             grants' = grants \cup
               {[id |-> ch.id, member |-> ch.credential.member, device |-> ch.device,
                 issuedAt |-> ch.issuedAt, expiresAt |-> ch.grantExpiresAt]}
      PROVE  Segment(c)
  <2> DEFINE a == [id |-> ch.id, purpose |-> "admission", passkey |-> ch.credential.id,
                   member |-> ch.credential.member, counter |-> n]
  <2>1. a \in Assertion /\ a.id = ch.id /\ assertions' = assertions \cup {a}
    BY <1>1, <1>4 DEF Accepted, Assertion, Login, Credential
  <2>2. Idle \in Call /\ ~Answers(Idle) /\ Keeps(Idle) = {} /\ Answers(calls[c])
    BY <1>1, IdleTyped DEF Answers, Keeps, At, Idle
  <2>3. grants' \in SUBSET Grant
    BY <1>1, <1>4 DEF TypeOK, Grant, Login, Credential
  <2>4. [StoreNext]_storeVars /\ UNCHANGED clock
    BY <1>1, <1>4 DEF StoreNext, UpdateCounter, Credential
  <2> HIDE DEF a
  <2> QED BY <1>2, <2>1, <2>2, <2>3, <2>4, AcceptedSegment DEF Return
<1> QED BY <1>3, <1>4 DEF LoginVerified

(* Every step of a call is a segment. *)
LEMMA CallStep ==
  ASSUME TypeOK, NEW c \in Callers, PasskeyStep(c) \/ VerifierStep(c)
  PROVE  Segment(c)
BY BeginRegistrationStep, OptionsMadeStep, FinishRegistrationStep, RegistrationVerifiedStep,
   PasskeyInsertedStep, BeginAdditionalRegistrationStep, PasskeyFoundStep, AuthorizeStep,
   OwnerVerifiedStep, OwnerCountedStep, AuthenticateStep, LoginVerifiedStep, Zenon
   DEF PasskeyStep, VerifierStep

-----------------------------------------------------------------------------
(* The inductive invariant.                                                *)

(* No id of a challenge that was ever handed out is above tokens. *)
IdsDrawn ==
    /\ \A y \in Pending : y.id <= tokens
    /\ \A a \in assertions : a.id <= tokens
    /\ \A c \in Callers : Answers(calls[c]) => calls[c].ch.id <= tokens

(* A passkey the memory keeps is still its member's. *)
SnapshotsHeld ==
    \A x \in Snapshots : \E y \in credentials : y.id = x.id /\ y.member = x.member

(* A credential of a holder ends with the voucher; a presentation that was *)
(* accepted was of such a credential.                                      *)
Covered(m, until) == \E u \in ValidUntil(m) : until <= u
HeldHonoured ==
    /\ \A e \in held : Covered(e.member, e.validUntil)
    /\ \A c \in Callers : At(c, "verifyLogin") =>
          Covered(calls[c].ch.credential.member, calls[c].ch.grantExpiresAt)

Typed == TypeOK /\ clock >= 1
IInv == /\ Typed /\ IdsDrawn /\ AnsweredOnce
        /\ TablesAgree /\ SnapshotsHeld /\ CountersAcceptedOnce /\ HeldHonoured

(* What happens around the calls leaves the challenges alone, or ends them *)
(* with the process.                                                       *)
LEMMA AroundStep ==
  ASSUME Typed, Around
  PROVE  /\ Typed' /\ [StoreNext]_storeVars
         /\ UNCHANGED <<tokens, assertions, grants>>
         /\ \/ UNCHANGED <<ceremonies, logins, calls>>
            \/ /\ ceremonies' = {} /\ logins' = {} /\ calls' = [c \in Callers |-> Idle]
               /\ UNCHANGED <<storeVars, held>>
<1> USE DEF Typed, history
<1>1. CASE Tick /\ UNCHANGED <<store, ceremonies, logins, calls, retired, tokens, boots, history>>
  <2>1. StoreNext /\ StoreTypeOK'
    BY <1>1, StoreTypesPreserved DEF TypeOK, StoreNext
  <2>2. clock' >= 1
    BY <1>1 DEF Tick, TypeOK, StoreTypeOK
  <2> QED BY <1>1, <2>1, <2>2 DEF TypeOK
<1>2. CASE EntryWrites
  <2>1. /\ UNCHANGED <<store, ceremonies, logins, calls, tokens, boots, history>>
        /\ retired' \in BOOLEAN
    BY <1>2 DEF EntryWrites, TypeOK
  <2>2. [StoreNext]_storeVars /\ clock' = clock
    <3>1. ASSUME NEW v \in Vouchers, NEW m \in Members, NEW d \in Devices,
                 NEW p \in Passkeys, NEW n \in Counters, NEW at \in 1 .. clock,
                 RegisterWithVoucher([voucher |-> v, member |-> m, device |-> d,
                                      passkey |-> p, counter |-> n, at |-> at])
          PROVE  StoreNext /\ clock' = clock
      BY <3>1, Zenon DEF StoreNext, RegisterWithVoucher
    <3>2. ASSUME NEW p \in Passkeys, NEW n \in Counters, UpdateCounter(p, n)
          PROVE  StoreNext /\ clock' = clock
      BY <3>2 DEF StoreNext, UpdateCounter
    <3>3. ASSUME NEW m \in Members, NEW d \in Devices, NEW at \in 1 .. clock,
                 Rebind(m, d, at)
          PROVE  StoreNext /\ clock' = clock
      BY <3>3 DEF StoreNext, Rebind
    <3>4. UNCHANGED storeVars => [StoreNext]_storeVars /\ clock' = clock
      BY DEF storeVars
    <3> QED BY <1>2, <3>1, <3>2, <3>3, <3>4, Zenon DEF EntryWrites
  <2>3. StoreTypeOK'
    BY <2>2, StoreTypesPreserved DEF TypeOK
  <2> QED BY <2>1, <2>2, <2>3 DEF TypeOK
<1>3. CASE Hold
  <2>1. PICK m \in Members : \E until \in ValidUntil(m) : \E t \in clock + 1 .. until :
           held' = held \cup {[member |-> m, validUntil |-> t]}
    BY <1>3 DEF Hold
  <2>2. PICK until \in ValidUntil(m) : \E t \in clock + 1 .. until :
           held' = held \cup {[member |-> m, validUntil |-> t]}
    BY <2>1
  <2>5. until \in Nat
    BY DEF ValidUntil, TypeOK, StoreTypeOK, Spend
  <2>6. PICK t \in clock + 1 .. until : held' = held \cup {[member |-> m, validUntil |-> t]}
    BY <2>2
  <2>3. [member |-> m, validUntil |-> t] \in Eligibility
    BY <2>5 DEF Eligibility, TypeOK, StoreTypeOK
  <2>4. UNCHANGED <<storeVars, store, ceremonies, logins, calls, retired, tokens, boots,
                    drawn, assertions, grants>>
    BY <1>3 DEF Hold
  <2> QED BY <2>6, <2>3, <2>4 DEF TypeOK, StoreTypeOK, storeVars
<1>4. CASE Restart
  <2>1. /\ boots' = boots + 1 /\ ceremonies' = {} /\ logins' = {}
        /\ calls' = [c \in Callers |-> Idle] /\ retired' = FALSE
        /\ UNCHANGED <<storeVars, store, tokens, drawn, held, assertions, grants>>
    BY <1>4 DEF Restart
  <2>2. calls' \in [Callers -> Call] /\ retired' \in BOOLEAN
    BY <2>1, IdleTyped
  <2>3. StoreTypeOK' /\ clock' >= 1
    BY <2>1 DEF TypeOK, StoreTypeOK, storeVars
  <2> QED BY <2>1, <2>2, <2>3 DEF TypeOK, storeVars
<1> QED BY <1>1, <1>2, <1>3, <1>4 DEF Around

(* A login challenge is handed out, or there is no room. *)
LEMMA BeginStep ==
  ASSUME Typed, Begin
  PROVE  /\ Typed' /\ UNCHANGED <<storeVars, ceremonies, calls, drawn, held, assertions, grants>>
         /\ \/ logins' \subseteq logins /\ UNCHANGED tokens
            \/ /\ tokens' = tokens + 1
               /\ \E y \in Login : /\ y.id = tokens + 1 /\ y.credential \in credentials
                                   /\ logins' \subseteq logins \cup {y}
<1> USE DEF Typed, history
<1>1. UNCHANGED <<storeVars, store, ceremonies, calls, retired, boots, drawn, held,
                  assertions, grants>>
  BY DEF Begin
<1>2. PICK x \in credentials, d \in Devices :
         \/ /\ tokens' = tokens + 1
            /\ logins' = Live(logins) \cup
                  {[id |-> tokens + 1, credential |-> x, device |-> d, issuedAt |-> clock,
                    expiresAt |-> clock + LoginLifetime,
                    grantExpiresAt |-> clock + GrantLifetime]}
         \/ UNCHANGED tokens /\ logins' = Live(logins)
  BY DEF Begin
<1> DEFINE y == [id |-> tokens + 1, credential |-> x, device |-> d, issuedAt |-> clock,
                 expiresAt |-> clock + LoginLifetime,
                 grantExpiresAt |-> clock + GrantLifetime]
<1>3. y \in Login /\ y.id = tokens + 1 /\ y.credential = x
  BY AccountAssumption DEF Login, TypeOK, StoreTypeOK
<1>4. Live(logins) \subseteq logins
  BY DEF Live
<1> HIDE DEF y
<1>5. logins' \in SUBSET Login /\ tokens' \in Nat
  BY <1>2, <1>3, <1>4 DEF TypeOK, y
<1>6. StoreTypeOK' /\ clock' >= 1
  BY <1>1 DEF TypeOK, StoreTypeOK, storeVars
<1>7. Typed'
  BY <1>1, <1>5, <1>6 DEF TypeOK
<1> QED BY <1>1, <1>2, <1>3, <1>4, <1>7 DEF y

(* A segment keeps the types. *)
LEMMA SegmentTyped ==
  ASSUME Typed, NEW c \in Callers, Segment(c)
  PROVE  Typed' /\ [StoreNext]_storeVars
<1>1. /\ MemoryTyped' /\ [StoreNext]_storeVars /\ UNCHANGED <<clock, store>>
      /\ AccountStep(c)
  BY DEF Segment, SegmentKeeps
<1>2. StoreTypeOK'
  BY <1>1, StoreTypesPreserved DEF Typed, TypeOK
<1>3. calls' \in [Callers -> Call] /\ assertions' \in SUBSET Assertion
  BY <1>1 DEF AccountStep, Goto, Typed, TypeOK
<1> QED BY <1>1, <1>2, <1>3 DEF Typed, TypeOK, MemoryTyped

-----------------------------------------------------------------------------
(* A challenge is answered once.                                           *)

(* AnsweredOnce, call by call. *)
Apart1(c) ==
    Answers(calls[c]) =>
      /\ \A y \in Pending : y.id # calls[c].ch.id
      /\ \A a \in assertions : a.id # calls[c].ch.id
      /\ \A d \in Callers : Answers(calls[d]) /\ calls[d].ch.id = calls[c].ch.id => d = c
Single ==
    /\ \A x, y \in Pending : x.id = y.id => x = y
    /\ \A a, b \in assertions : a.id = b.id => a = b
    /\ \A x \in Pending, a \in assertions : x.id # a.id
    /\ \A c \in Callers : Apart1(c)

LEMMA SingleMeansOnce == Single <=> AnsweredOnce
<1>1. Answering = {c \in Callers : Answers(calls[c])}
  BY DEF Answering, Answers
<1>2. ASSUME NEW i
      PROVE  i \notin Ids(ceremonies \cup logins) \cup Ids(assertions) <=>
               /\ \A y \in Pending : y.id # i
               /\ \A a \in assertions : a.id # i
  BY DEF Ids, Pending
<1> QED BY <1>1, <1>2, Zenon DEF Single, Apart1, AnsweredOnce, Pending

(* The ids of what is pending, answered and accepted are numbers. *)
LEMMA IdsAreNumbers ==
  ASSUME TypeOK
  PROVE  /\ \A y \in Pending : y.id \in Nat
         /\ \A a \in assertions : a.id \in Nat
         /\ \A c \in Callers : Answers(calls[c]) => calls[c].ch.id \in Nat
<1>1. \A y \in Pending : y.id \in Nat
  BY DEF TypeOK, Pending, Ceremony, RegistrationCeremony, AdditionalCeremony, Login
<1>2. \A a \in assertions : a.id \in Nat
  BY DEF TypeOK, Assertion
<1>3. ASSUME NEW c \in Callers, Answers(calls[c]) PROVE calls[c].ch.id \in Nat
  <2>1. calls[c].ch \in Ceremony \cup Login
    BY <1>3, CallTyped, Locals DEF Answers, Ceremony
  <2> QED BY <2>1 DEF Ceremony, RegistrationCeremony, AdditionalCeremony, Login
<1> QED BY <1>1, <1>2, <1>3

(* A segment keeps challenges single: it takes one from where it was.      *)
LEMMA SegmentSingle ==
  ASSUME TypeOK, IdsDrawn, Single, NEW c \in Callers, AccountStep(c)
  PROVE  IdsDrawn' /\ Single'
<1>0. tokens \in Nat
  BY DEF TypeOK
<1>1. PICK x \in Call :
      /\ Goto(c, x)
      /\ \/ ~Answers(x) /\ Shrinks /\ UNCHANGED assertions
         \/ /\ Answers(x) /\ x.ch \in Pending \ Pending' /\ Shrinks /\ UNCHANGED assertions
         \/ /\ Answers(x) /\ Answers(calls[c]) /\ x.ch = calls[c].ch
            /\ Shrinks /\ UNCHANGED assertions
         \/ /\ ~Answers(x) /\ Answers(calls[c]) /\ Shrinks
            /\ \E a \in Assertion : a.id = calls[c].ch.id /\ assertions' = assertions \cup {a}
         \/ /\ ~Answers(x) /\ UNCHANGED assertions /\ tokens' = tokens + 1
            /\ \E y \in Ceremony : y.id = tokens + 1 /\ Pending' \subseteq Pending \cup {y}
  BY Zenon DEF AccountStep
<1>2. calls'[c] = x /\ \A d \in Callers \ {c} : calls'[d] = calls[d]
  BY <1>1 DEF Goto, TypeOK
<1>3. /\ Apart1(c)' <=> (Answers(x) =>
           /\ \A y \in Pending' : y.id # x.ch.id
           /\ \A a \in assertions' : a.id # x.ch.id
           /\ \A d \in Callers : Answers(calls'[d]) /\ calls'[d].ch.id = x.ch.id => d = c)
  BY <1>2 DEF Apart1, Answers
<1>4. ASSUME Shrinks PROVE tokens' = tokens /\ Pending' \subseteq Pending
  BY <1>4 DEF Shrinks
<1>5. CASE ~Answers(x) /\ Shrinks /\ UNCHANGED assertions
  BY <1>2, <1>4, <1>5 DEF Single, Apart1, IdsDrawn, Answers
<1>6. CASE Answers(x) /\ x.ch \in Pending \ Pending' /\ Shrinks /\ UNCHANGED assertions
  <2>1. \A y \in Pending' : y.id # x.ch.id
    BY <1>4, <1>6 DEF Single
  <2>2. \A a \in assertions' : a.id # x.ch.id
    BY <1>6 DEF Single
  <2>3. \A d \in Callers \ {c} : Answers(calls[d]) => calls[d].ch.id # x.ch.id
    BY <1>6 DEF Single, Apart1
  <2>4. Apart1(c)'
    BY <1>2, <1>3, <2>1, <2>2, <2>3
  <2>5. ASSUME NEW d \in Callers \ {c} PROVE Apart1(d)'
    BY <1>2, <1>4, <1>6, <2>3, <2>5 DEF Single, Apart1, Answers
  <2>6. Single'
    BY <1>4, <1>6, <2>4, <2>5 DEF Single
  <2>7. IdsDrawn'
    BY <1>2, <1>4, <1>6 DEF IdsDrawn, Answers
  <2> QED BY <2>6, <2>7
<1>7. CASE /\ Answers(x) /\ Answers(calls[c]) /\ x.ch = calls[c].ch
           /\ Shrinks /\ UNCHANGED assertions
  <2>1. \A d \in Callers : /\ Answers(calls'[d]) <=> Answers(calls[d])
                           /\ Answers(calls[d]) => calls'[d].ch = calls[d].ch
    BY <1>2, <1>7
  <2>2. ASSUME NEW d \in Callers PROVE Apart1(d)'
    <3>1. Apart1(d)
      BY DEF Single
    <3>2. SUFFICES ASSUME Answers(calls[d])
                   PROVE  Apart1(d)'
      BY <2>1 DEF Apart1, Answers
    <3>3. calls'[d].ch = calls[d].ch
      BY <2>1, <3>2 DEF Answers
    <3>4. ASSUME NEW e \in Callers, Answers(calls'[e]), calls'[e].ch.id = calls[d].ch.id
          PROVE  e = d
      <4>1. Answers(calls[e]) /\ calls[e].ch.id = calls[d].ch.id
        BY <2>1, <3>4 DEF Answers
      <4> QED BY <3>1, <3>2, <4>1 DEF Apart1, Answers
    <3>5. /\ \A y \in Pending' : y.id # calls[d].ch.id
          /\ \A a \in assertions' : a.id # calls[d].ch.id
      BY <1>4, <1>7, <3>1, <3>2 DEF Apart1
    <3> QED BY <3>3, <3>4, <3>5 DEF Apart1, Answers
  <2>3. Single'
    BY <1>4, <1>7, <2>2 DEF Single
  <2>4. IdsDrawn'
    BY <1>4, <1>7, <2>1 DEF IdsDrawn, Answers
  <2> QED BY <2>3, <2>4
<1>8. CASE /\ ~Answers(x) /\ Answers(calls[c]) /\ Shrinks
           /\ \E a \in Assertion : a.id = calls[c].ch.id /\ assertions' = assertions \cup {a}
  <2>1. PICK a \in Assertion : a.id = calls[c].ch.id /\ assertions' = assertions \cup {a}
    BY <1>8
  <2>2. \A b \in assertions : b.id # a.id
    BY <1>8, <2>1 DEF Single, Apart1
  <2>3. \A y \in Pending' : y.id # a.id
    BY <1>4, <1>8, <2>1 DEF Single, Apart1
  <2>4. ASSUME NEW d \in Callers PROVE Apart1(d)'
    <3>1. CASE d = c
      BY <1>3, <1>8, <3>1
    <3>2. CASE d # c
      <4>1. Answers(calls[d]) => calls[d].ch.id # a.id
        BY <1>8, <2>1, <3>2 DEF Single, Apart1
      <4> QED BY <1>2, <1>4, <1>8, <2>1, <3>2, <4>1 DEF Single, Apart1, Answers
    <3> QED BY <3>1, <3>2
  <2>5. Single'
    BY <1>4, <1>8, <2>1, <2>2, <2>3, <2>4 DEF Single
  <2>6. IdsDrawn'
    BY <1>2, <1>4, <1>8, <2>1 DEF IdsDrawn, Answers
  <2> QED BY <2>5, <2>6
<1>9. CASE /\ ~Answers(x) /\ UNCHANGED assertions /\ tokens' = tokens + 1
           /\ \E y \in Ceremony : y.id = tokens + 1 /\ Pending' \subseteq Pending \cup {y}
  <2>1. PICK y \in Ceremony : y.id = tokens + 1 /\ Pending' \subseteq Pending \cup {y}
    BY <1>9
  <2>2. /\ \A z \in Pending : z.id # y.id
        /\ \A a \in assertions : a.id # y.id
        /\ \A d \in Callers : Answers(calls[d]) => calls[d].ch.id # y.id
    BY <1>0, <2>1, IdsAreNumbers DEF IdsDrawn
  <2>3. ASSUME NEW d \in Callers PROVE Apart1(d)'
    BY <1>2, <1>9, <2>1, <2>2 DEF Single, Apart1, Answers
  <2>4. Single'
    BY <1>9, <2>1, <2>2, <2>3 DEF Single
  <2>5. IdsDrawn'
    BY <1>0, <1>2, <1>9, <2>1, IdsAreNumbers DEF IdsDrawn, Answers
  <2> QED BY <2>4, <2>5
<1> QED BY <1>1, <1>5, <1>6, <1>7, <1>8, <1>9
(* A login challenge is fresh too, and what happens around takes none.     *)
LEMMA OtherSingle ==
  ASSUME Typed, IdsDrawn, Single, Begin \/ Around
  PROVE  IdsDrawn' /\ Single'
<1>0. TypeOK /\ tokens \in Nat
  BY DEF Typed, TypeOK
<1>1. CASE /\ Pending' \subseteq Pending /\ UNCHANGED <<tokens, assertions>>
           /\ calls' = calls \/ calls' = [c \in Callers |-> Idle]
  <2>1. ASSUME NEW c \in Callers, Answers(calls'[c]) PROVE calls'[c] = calls[c]
    BY <1>1, <2>1 DEF Answers, Idle
  <2>2. ASSUME NEW c \in Callers PROVE Apart1(c)'
    BY <1>1, <2>1 DEF Single, Apart1, Answers
  <2> QED BY <1>1, <2>1, <2>2 DEF Single, IdsDrawn, Answers
<1>2. CASE /\ tokens' = tokens + 1 /\ UNCHANGED <<calls, assertions>>
           /\ \E y \in Login : y.id = tokens + 1 /\ Pending' \subseteq Pending \cup {y}
  <2>1. PICK y \in Login : y.id = tokens + 1 /\ Pending' \subseteq Pending \cup {y}
    BY <1>2
  <2>2. /\ \A z \in Pending : z.id # y.id
        /\ \A a \in assertions : a.id # y.id
        /\ \A d \in Callers : Answers(calls[d]) => calls[d].ch.id # y.id
    BY <1>0, <2>1, IdsAreNumbers DEF IdsDrawn
  <2>3. ASSUME NEW d \in Callers PROVE Apart1(d)'
    BY <1>2, <2>1, <2>2 DEF Single, Apart1, Answers
  <2>4. Single'
    BY <1>2, <2>1, <2>2, <2>3 DEF Single
  <2>5. IdsDrawn'
    BY <1>0, <1>2, <2>1, IdsAreNumbers DEF IdsDrawn, Answers
  <2> QED BY <2>4, <2>5
<1>3. CASE Around
  <2>1. Pending' \subseteq Pending
    BY <1>3, AroundStep DEF Pending
  <2> QED BY <1>1, <1>3, <2>1, AroundStep
<1>4. CASE Begin
  <2>1. UNCHANGED <<ceremonies, calls, assertions>>
    BY <1>4, BeginStep
  <2>2. CASE logins' \subseteq logins /\ UNCHANGED tokens
    BY <1>1, <2>1, <2>2 DEF Pending
  <2>3. CASE /\ tokens' = tokens + 1
             /\ \E y \in Login : /\ y.id = tokens + 1 /\ y.credential \in credentials
                                 /\ logins' \subseteq logins \cup {y}
    BY <1>2, <2>1, <2>3 DEF Pending
  <2> QED BY <1>4, <2>2, <2>3, BeginStep
<1> QED BY <1>3, <1>4

-----------------------------------------------------------------------------
(* The passkeys kept in memory and the counters of accepted assertions.    *)

(* A step keeps a passkey that it kept, or has read. *)
LEMMA SnapshotsKept ==
  ASSUME Typed, TablesAgree, SnapshotsHeld, [StoreNext]_storeVars,
         Snapshots' \subseteq Snapshots \cup credentials
  PROVE  SnapshotsHeld'
<1>1. Kept
  BY RowsKept DEF Typed, TypeOK
<1>2. ASSUME NEW x \in Snapshots'
      PROVE  \E y \in credentials' : y.id = x.id /\ y.member = x.member
  <2>1. PICK z \in credentials : z.id = x.id /\ z.member = x.member
    BY <1>2 DEF SnapshotsHeld
  <2> QED BY <1>1, <2>1 DEF Kept
<1> QED BY <1>2 DEF SnapshotsHeld

(* Begin keeps a passkey it has read, and what happens around keeps none.  *)
LEMMA OtherSnapshots ==
  ASSUME Typed, Begin \/ Around
  PROVE  Snapshots' \subseteq Snapshots \cup credentials
<1>1. CASE UNCHANGED <<ceremonies, logins, calls>>
  <2>1. Snapshots' = Snapshots
    BY <1>1 DEF Snapshots, Reads, Additional, Keeps
  <2> QED BY <2>1
<1>2. CASE ceremonies' = {} /\ logins' = {} /\ calls' = [c \in Callers |-> Idle]
  <2>1. \A c \in Callers : Keeps(calls'[c]) = {}
    BY <1>2 DEF Keeps, Idle
  <2>2. Reads(logins') = {} /\ Reads(Additional(ceremonies')) = {}
    BY <1>2 DEF Reads, Additional
  <2>3. Snapshots' = Reads(logins') \cup Reads(Additional(ceremonies'))
                       \cup UNION {Keeps(calls'[d]) : d \in Callers}
    BY DEF Snapshots, Reads, Additional, Keeps
  <2> QED BY <2>1, <2>2, <2>3
<1>3. CASE Begin
  <2>1. UNCHANGED <<ceremonies, calls>>
    BY <1>3, BeginStep
  <2>2. Reads(logins') \subseteq Reads(logins) \cup credentials
    BY <1>3, BeginStep DEF Reads
  <2>3. Snapshots' = Reads(logins') \cup Reads(Additional(ceremonies))
                       \cup UNION {Keeps(calls[d]) : d \in Callers}
    BY <2>1 DEF Snapshots, Reads, Additional, Keeps
  <2> QED BY <2>2, <2>3 DEF Snapshots
<1> QED BY <1>1, <1>2, <1>3, AroundStep

(* Rows keep the counters of the assertions they have accepted. *)
LEMMA CountersKept ==
  ASSUME Typed, TablesAgree, CountersAcceptedOnce, [StoreNext]_storeVars,
         UNCHANGED assertions, StoreTypeOK'
  PROVE  CountersAcceptedOnce'
<1>1. Kept
  BY RowsKept DEF Typed, TypeOK
<1>2. /\ \A x \in credentials : x.counter \in Int
      /\ \A x \in credentials' : x.counter \in Int
      /\ \A a \in assertions : a.counter \in Int
  BY StoreAssumption DEF Typed, TypeOK, StoreTypeOK, Credential, Counters, Assertion
<1>3. ASSUME NEW a \in assertions
      PROVE  \E y \in credentials' :
               y.id = a.passkey /\ y.member = a.member /\ y.counter >= a.counter
  <2>1. PICK x \in credentials :
           x.id = a.passkey /\ x.member = a.member /\ x.counter >= a.counter
    BY DEF CountersAcceptedOnce
  <2>2. PICK y \in credentials' :
           y.id = x.id /\ y.member = x.member /\ y.counter >= x.counter
    BY <1>1 DEF Kept
  <2> QED BY <1>2, <2>1, <2>2
<1> QED BY <1>3 DEF CountersAcceptedOnce

(* The store compares with the row as it is, so what it accepts is new.    *)
LEMMA CountersAccepted ==
  ASSUME Typed, TablesAgree, SnapshotsHeld, CountersAcceptedOnce,
         NEW k \in Snapshots, NEW n \in Counters, UpdateCounter(k.id, n),
         NEW a \in Assertion, a.passkey = k.id, a.member = k.member, a.counter = n,
         assertions' = assertions \cup {a}
  PROVE  CountersAcceptedOnce'
<1>1. /\ \A x \in credentials : x.counter \in Int
      /\ \A b \in assertions : b.counter \in Int
      /\ n \in Int
  BY StoreAssumption DEF Typed, TypeOK, StoreTypeOK, Credential, Counters, Assertion
<1>2. PICK x \in credentials :
        /\ x.id = k.id /\ Accepts(x.counter, n)
        /\ credentials' = (credentials \ {x}) \cup {[x EXCEPT !.counter = n]}
  BY DEF UpdateCounter
<1>3. \A y, z \in credentials : y.id = z.id => y = z
  BY DEF TablesAgree
<1>4. x.member = k.member
  BY <1>2, <1>3 DEF SnapshotsHeld
<1> DEFINE row == [x EXCEPT !.counter = n]
<1>5. row.id = x.id /\ row.member = x.member /\ row.counter = n
  BY DEF Typed, TypeOK, StoreTypeOK, Credential
<1>6. row \in credentials' /\ \A y \in credentials : y # x => y \in credentials'
  BY <1>2
<1> HIDE DEF row
<1>7. n >= x.counter /\ (n > 0 => n > x.counter)
  BY <1>1, <1>2 DEF Accepts
<1>8. ASSUME NEW b \in assertions, b.passkey = k.id PROVE b.counter <= x.counter
  <2>1. PICK y \in credentials : y.id = b.passkey /\ y.counter >= b.counter
    BY DEF CountersAcceptedOnce
  <2> QED BY <1>1, <1>2, <1>3, <1>8, <2>1
<1>9. ASSUME NEW b \in assertions'
      PROVE  \E y \in credentials' :
               y.id = b.passkey /\ y.member = b.member /\ y.counter >= b.counter
  <2>1. CASE b = a
    BY <1>1, <1>2, <1>4, <1>5, <1>6, <2>1
  <2>2. CASE b \in assertions
    <3>1. PICK y \in credentials :
             y.id = b.passkey /\ y.member = b.member /\ y.counter >= b.counter
      BY <2>2 DEF CountersAcceptedOnce
    <3>2. CASE y = x
      BY <1>1, <1>5, <1>6, <1>7, <2>2, <3>1, <3>2
    <3>3. CASE y # x
      BY <1>6, <3>1, <3>3
    <3> QED BY <3>2, <3>3
  <2> QED BY <1>9, <2>1, <2>2
<1>10. ASSUME NEW b \in assertions, b.passkey = a.passkey, b.counter = a.counter
       PROVE  ~(b.counter > 0)
  BY <1>1, <1>7, <1>8, <1>10
<1>11. ASSUME NEW b \in assertions', NEW d \in assertions', b.passkey = d.passkey,
              b.counter = d.counter, b.counter > 0
       PROVE  b = d
  <2>1. CASE b \in assertions /\ d \in assertions
    BY <1>11, <2>1 DEF CountersAcceptedOnce
  <2>2. CASE b = a
    BY <1>10, <1>11, <2>2
  <2>3. CASE d = a
    BY <1>10, <1>11, <2>3
  <2> QED BY <1>11, <2>1, <2>2, <2>3
<1> QED BY <1>9, <1>11 DEF CountersAcceptedOnce
(* A step of a call accepts an assertion of a passkey it keeps, if any. *)
LEMMA CallAccepts ==
  ASSUME TypeOK, NEW c \in Callers, PasskeyStep(c) \/ VerifierStep(c)
  PROVE  \/ UNCHANGED assertions
         \/ \E k \in Keeps(calls[c]), n \in Counters, a \in Assertion :
              /\ UpdateCounter(k.id, n)
              /\ a.passkey = k.id /\ a.member = k.member /\ a.counter = n
              /\ assertions' = assertions \cup {a}
<1>1. CASE OwnerCounted(c)
  <2> DEFINE ch == calls[c].ch
             k == ch.credential
             a == [id |-> ch.id, purpose |-> "passkey", passkey |-> k.id,
                   member |-> k.member, counter |-> calls[c].counter]
  <2>1. /\ ch \in AdditionalCeremony /\ calls[c].counter \in Counters
        /\ Keeps(calls[c]) = {k}
    BY <1>1, CallTyped, Locals DEF OwnerCounted, At, Keeps
  <2>2. a \in Assertion
    BY <2>1 DEF Assertion, AdditionalCeremony, Credential
  <2>3. CASE /\ UpdateCounter(k.id, calls[c].counter)
             /\ Accepted(ch, "passkey", calls[c].counter)
    <3>1. assertions' = assertions \cup {a}
      BY <2>3 DEF Accepted
    <3>2. a.passkey = k.id /\ a.member = k.member /\ a.counter = calls[c].counter
      OBVIOUS
    <3> HIDE DEF a
    <3> QED BY <2>1, <2>2, <2>3, <3>1, <3>2
  <2> QED BY <1>1, <2>3 DEF OwnerCounted
<1>2. CASE LoginVerified(c)
  <2> DEFINE ch == calls[c].ch
             k == ch.credential
  <2>1. ch \in Login /\ Keeps(calls[c]) = {k}
    BY <1>2, CallTyped, Locals DEF LoginVerified, At, Keeps
  <2>2. ASSUME NEW n \in Counters, UpdateCounter(k.id, n), Accepted(ch, "admission", n)
        PROVE  \E e \in Keeps(calls[c]), i \in Counters, a \in Assertion :
                 /\ UpdateCounter(e.id, i)
                 /\ a.passkey = e.id /\ a.member = e.member /\ a.counter = i
                 /\ assertions' = assertions \cup {a}
    <3> DEFINE a == [id |-> ch.id, purpose |-> "admission", passkey |-> k.id,
                     member |-> k.member, counter |-> n]
    <3>1. a \in Assertion
      BY <2>1 DEF Assertion, Login, Credential
    <3>2. assertions' = assertions \cup {a}
      BY <2>2 DEF Accepted
    <3>3. a.passkey = k.id /\ a.member = k.member /\ a.counter = n
      OBVIOUS
    <3> HIDE DEF a
    <3> QED BY <2>1, <2>2, <3>1, <3>2, <3>3
  <2> QED BY <1>2, <2>2 DEF LoginVerified
<1>3. CASE ~OwnerCounted(c) /\ ~LoginVerified(c)
  BY <1>3 DEF PasskeyStep, VerifierStep, BeginRegistration, OptionsMade, FinishRegistration,
              RegistrationVerified, PasskeyInserted, BeginAdditionalRegistration,
              PasskeyFound, AuthorizeAdditionalRegistration, OwnerVerified, Authenticate,
              history
<1> QED BY <1>1, <1>2, <1>3

-----------------------------------------------------------------------------
(* Credentials end with the vouchers, and admissions with the credentials. *)

(* A member's validity is never taken back. *)
LEMMA ValidUntilKept ==
  ASSUME Typed, TablesAgree, [StoreNext]_storeVars, NEW m
  PROVE  ValidUntil(m) \subseteq ValidUntil(m)'
<1>1. spends \subseteq spends'
  BY RowsKept DEF Typed, TypeOK, Kept
<1>2. ASSUME NEW x \in members
      PROVE  \E y \in members' : y.id = x.id /\ y.voucher = x.voucher
  <2>1. CASE members \subseteq members'
    BY <2>1
  <2>2. CASE \E p \in Members, d \in Devices, at \in Nat : Rebind(p, d, at)
    <3>1. PICK z \in members, d \in Devices :
             members' = (members \ {z}) \cup {[z EXCEPT !.device = d]}
      BY <2>2 DEF Rebind
    <3>2. /\ [z EXCEPT !.device = d].id = z.id
          /\ [z EXCEPT !.device = d].voucher = z.voucher
      BY DEF Typed, TypeOK, StoreTypeOK, Member
    <3> QED BY <3>1, <3>2, Zenon
  <2>3. \/ UNCHANGED tables
        \/ \E req \in Request : RegisterWithVoucher(req)
        \/ \E p \in Passkeys, q \in Members, n \in Counters : Insert(p, q, n)
        \/ \E p \in Passkeys, n \in Counters : UpdateCounter(p, n)
        \/ \E p \in Members, d \in Devices, at \in Nat : Rebind(p, d, at)
    BY StepCases DEF Typed, TypeOK
  <2> QED BY <2>1, <2>2, <2>3 DEF tables, RegisterWithVoucher, Insert, UpdateCounter
<1> QED BY <1>1, <1>2 DEF ValidUntil

(* Hence what is covered stays covered. *)
LEMMA CoveredKept ==
  ASSUME Typed, TablesAgree, [StoreNext]_storeVars, NEW m, NEW t, Covered(m, t)
  PROVE  Covered(m, t)'
BY ValidUntilKept DEF Covered

(* A presentation is of a credential a holder has, until it is needed.     *)
LEMMA Presented ==
  ASSUME Typed, HeldHonoured, NEW ch \in Login, Presentable(ch)
  PROVE  Covered(ch.credential.member, ch.grantExpiresAt)
<1>1. PICK e \in held : e.member = ch.credential.member /\ e.validUntil >= ProofValidUntil(ch)
  BY DEF Presentable
<1>2. PICK u \in ValidUntil(e.member) : e.validUntil <= u
  BY DEF HeldHonoured, Covered
<1>3. u \in Nat /\ e.validUntil \in Nat
  BY DEF ValidUntil, Typed, TypeOK, StoreTypeOK, Spend, Eligibility
<1>4. ch.expiresAt \in Nat /\ ch.grantExpiresAt \in Nat
  BY DEF Login
<1>5. ch.grantExpiresAt <= ProofValidUntil(ch) /\ ProofValidUntil(ch) \in Nat
  BY <1>4 DEF ProofValidUntil
<1> QED BY <1>1, <1>2, <1>3, <1>4, <1>5 DEF Covered

(* Only a call that authenticates goes on to verify a login. *)
LEMMA Elsewhere ==
  ASSUME TypeOK, NEW c \in Callers, PasskeyStep(c) \/ LoginVerified(c)
  PROVE  calls'[c].pc # "verifyLogin"
<1> DEFINE Away == calls'[c].pc # "verifyLogin"
<1>1. ASSUME NEW y, Goto(c, y), y.pc # "verifyLogin" PROVE Away
  BY <1>1 DEF Goto, TypeOK
<1>2. Return(c) => Away
  BY <1>1 DEF Return, Idle
<1> HIDE DEF Away
<1>3. OptionsMade(c) \/ PasskeyInserted(c) \/ PasskeyFound(c) \/ LoginVerified(c)
         => Away
  BY <1>2 DEF OptionsMade, PasskeyInserted, PasskeyFound, LoginVerified, Unacknowledged
<1>4. BeginRegistration(c) => Away
  BY <1>1 DEF BeginRegistration
<1>5. FinishRegistration(c) \/ AuthorizeAdditionalRegistration(c) => Away
  BY <1>1, <1>2 DEF FinishRegistration, AuthorizeAdditionalRegistration
<1>6. RegistrationVerified(c) => Away
  BY <1>1, <1>2 DEF RegistrationVerified
<1>7. BeginAdditionalRegistration(c) => Away
  BY <1>1 DEF BeginAdditionalRegistration
<1>8. OwnerVerified(c) => Away
  BY <1>1, <1>2 DEF OwnerVerified
<1>9. OwnerCounted(c) => Away
  BY <1>1, <1>2 DEF OwnerCounted, Unacknowledged
<1>10. Away
  BY <1>3, <1>4, <1>5, <1>6, <1>7, <1>8, <1>9 DEF PasskeyStep
<1> QED BY <1>10 DEF Away

(* A call that begins to verify a login has seen a presentation.           *)
LEMMA CallHonoured ==
  ASSUME Typed, TablesAgree, HeldHonoured, NEW c \in Callers,
         PasskeyStep(c) \/ VerifierStep(c)
  PROVE  HeldHonoured'
<1>1. Segment(c)
  BY CallStep DEF Typed
<1>2. [StoreNext]_storeVars
  BY <1>1 DEF Segment, SegmentKeeps
<1>3. UNCHANGED held
  BY DEF PasskeyStep, VerifierStep, BeginRegistration, OptionsMade, FinishRegistration,
         RegistrationVerified, PasskeyInserted, BeginAdditionalRegistration, PasskeyFound,
         AuthorizeAdditionalRegistration, OwnerVerified, OwnerCounted, Authenticate,
         LoginVerified, history
<1>4. PICK x \in Call : Goto(c, x)
  BY <1>1 DEF Segment, AccountStep
<1>5. calls'[c] = x /\ \A d \in Callers \ {c} : calls'[d] = calls[d]
  BY <1>4 DEF Goto, Typed, TypeOK
<1>6. ASSUME x.pc = "verifyLogin"
      PROVE  Covered(x.ch.credential.member, x.ch.grantExpiresAt)
  <2>1. CASE Authenticate(c)
    <3>1. PICK ch \in logins :
             \/ Presentable(ch) /\ Goto(c, [pc |-> "verifyLogin", ch |-> ch])
             \/ Return(c)
      BY <2>1 DEF Authenticate
    <3>2. ~Return(c)
      BY <1>4, <1>5, <1>6 DEF Return, Goto, Idle, Typed, TypeOK
    <3>3. x = [pc |-> "verifyLogin", ch |-> ch]
      BY <1>5, <3>1, <3>2 DEF Goto, Typed, TypeOK
    <3>4. ch \in Login
      BY DEF Typed, TypeOK
    <3> QED BY <3>1, <3>2, <3>3, <3>4, Presented
  <2>2. CASE ~Authenticate(c)
    BY <1>5, <1>6, <2>2, Elsewhere DEF Typed, PasskeyStep, VerifierStep
  <2> QED BY <2>1, <2>2
<1>7. ASSUME NEW d \in Callers, calls'[d].pc = "verifyLogin"
      PROVE  Covered(calls'[d].ch.credential.member, calls'[d].ch.grantExpiresAt)
  <2>1. CASE d = c
    BY <1>5, <1>6, <1>7, <2>1
  <2>2. CASE d # c
    <3>1. calls'[d] = calls[d]
      BY <1>5, <2>2
    <3> QED BY <1>7, <3>1 DEF HeldHonoured, At
  <2> QED BY <2>1, <2>2
<1>8. ASSUME NEW m, NEW t, Covered(m, t) PROVE Covered(m, t)'
  BY <1>2, <1>8, CoveredKept
<1>9. ASSUME NEW e \in held' PROVE Covered(e.member, e.validUntil)'
  BY <1>3, <1>8 DEF HeldHonoured
<1>10. ASSUME NEW d \in Callers, At(d, "verifyLogin")'
       PROVE  Covered(calls[d].ch.credential.member, calls[d].ch.grantExpiresAt)'
  <2>1. PICK m, t : /\ m = calls'[d].ch.credential.member
                    /\ t = calls'[d].ch.grantExpiresAt
    OBVIOUS
  <2>2. Covered(m, t)
    BY <1>7, <1>10, <2>1 DEF At
  <2>3. Covered(m, t)'
    BY <1>8, <2>2
  <2> QED BY <2>1, <2>3 DEF Covered, ValidUntil
<1> QED BY <1>9, <1>10 DEF HeldHonoured
(* A holder accepts a credential that its member's voucher covers.         *)
LEMMA OtherHonoured ==
  ASSUME Typed, TablesAgree, HeldHonoured, Begin \/ Around
  PROVE  HeldHonoured'
<1>1. [StoreNext]_storeVars
  BY BeginStep, AroundStep DEF storeVars
<1>2. ASSUME NEW m, NEW t, Covered(m, t) PROVE Covered(m, t)'
  BY <1>1, <1>2, CoveredKept
<1>3. ASSUME NEW e \in held' PROVE Covered(e.member, e.validUntil)
  <2>1. CASE UNCHANGED held
    BY <1>3, <2>1 DEF HeldHonoured
  <2>2. CASE Hold
    <3>1. PICK m \in Members : \E until \in ValidUntil(m) : \E t \in clock + 1 .. until :
             held' = held \cup {[member |-> m, validUntil |-> t]}
      BY <2>2 DEF Hold
    <3>2. PICK until \in ValidUntil(m) : \E t \in clock + 1 .. until :
             held' = held \cup {[member |-> m, validUntil |-> t]}
      BY <3>1
    <3>3. PICK t \in clock + 1 .. until : held' = held \cup {[member |-> m, validUntil |-> t]}
      BY <3>2
    <3>4. until \in Nat /\ clock \in Nat
      BY DEF ValidUntil, Typed, TypeOK, StoreTypeOK, Spend
    <3>5. Covered(m, t)
      BY <3>4 DEF Covered
    <3> QED BY <1>3, <3>3, <3>5 DEF HeldHonoured
  <2>3. UNCHANGED held \/ Hold
    BY BeginStep DEF Around, EntryWrites, Restart, history
  <2> QED BY <2>1, <2>2, <2>3
<1>4. ASSUME NEW d \in Callers, At(d, "verifyLogin")'
      PROVE  Covered(calls[d].ch.credential.member, calls[d].ch.grantExpiresAt)'
  <2>1. calls'[d] = calls[d]
    BY <1>4, BeginStep, AroundStep DEF At, Idle
  <2>2. PICK m, t : /\ m = calls[d].ch.credential.member
                    /\ t = calls[d].ch.grantExpiresAt
    OBVIOUS
  <2>3. Covered(m, t)'
    BY <1>2, <1>4, <2>1, <2>2 DEF HeldHonoured, At
  <2> QED BY <2>1, <2>2, <2>3 DEF Covered, ValidUntil
<1> QED BY <1>2, <1>3, <1>4 DEF HeldHonoured

-----------------------------------------------------------------------------
(* The theorems.                                                           *)

(* What every step does to the tables. *)
LEMMA TablesStep ==
  ASSUME Typed, [Next]_accountVars
  PROVE  Typed' /\ [StoreNext]_storeVars
<1>1. CASE Begin \/ Around
  BY <1>1, BeginStep, AroundStep DEF storeVars
<1>2. ASSUME NEW c \in Callers, PasskeyStep(c) \/ VerifierStep(c)
      PROVE  Typed' /\ [StoreNext]_storeVars
  BY <1>2, CallStep, SegmentTyped DEF Typed
<1>3. CASE UNCHANGED accountVars
  BY <1>3 DEF accountVars, storeVars, Typed, TypeOK, StoreTypeOK
<1> QED BY <1>1, <1>2, <1>3 DEF Next

(* Begin, and what happens around the calls, keep the invariant.           *)
LEMMA OtherKeeps ==
  ASSUME IInv, Begin \/ Around
  PROVE  Typed' /\ IdsDrawn' /\ Single' /\ TablesAgree' /\ SnapshotsHeld'
         /\ CountersAcceptedOnce' /\ HeldHonoured'
<1>1. Typed /\ IdsDrawn /\ Single /\ TablesAgree /\ SnapshotsHeld
      /\ CountersAcceptedOnce /\ HeldHonoured
  BY SingleMeansOnce DEF IInv
<1>2. Typed' /\ [StoreNext]_storeVars
  BY <1>1, TablesStep DEF Next
<1>3. TablesAgree' /\ StoreTypeOK'
  BY <1>1, <1>2, AgreementKept DEF Typed, TypeOK
<1>4. UNCHANGED assertions
  BY <1>1, BeginStep, AroundStep
<1>5. CountersAcceptedOnce'
  BY <1>1, <1>2, <1>3, <1>4, CountersKept
<1>6. SnapshotsHeld'
  BY <1>1, <1>2, OtherSnapshots, SnapshotsKept
<1>7. IdsDrawn' /\ Single' /\ HeldHonoured'
  BY <1>1, OtherSingle, OtherHonoured
<1> QED BY <1>2, <1>3, <1>5, <1>6, <1>7

(* So does a step of a call. *)
LEMMA CallKeeps ==
  ASSUME IInv, NEW c \in Callers, PasskeyStep(c) \/ VerifierStep(c)
  PROVE  Typed' /\ IdsDrawn' /\ Single' /\ TablesAgree' /\ SnapshotsHeld'
         /\ CountersAcceptedOnce' /\ HeldHonoured'
<1>1. Typed /\ IdsDrawn /\ Single /\ TablesAgree /\ SnapshotsHeld
      /\ CountersAcceptedOnce /\ HeldHonoured /\ TypeOK
  BY SingleMeansOnce DEF IInv, Typed
<1>2. Segment(c)
  BY <1>1, CallStep
<1>3. Typed' /\ [StoreNext]_storeVars
  BY <1>1, <1>2, SegmentTyped
<1>4. TablesAgree' /\ StoreTypeOK'
  BY <1>1, <1>3, AgreementKept DEF Typed, TypeOK
<1>5. IdsDrawn' /\ Single'
  BY <1>1, <1>2, SegmentSingle DEF Segment
<1>6. SnapshotsHeld'
  BY <1>1, <1>2, <1>3, SnapshotsKept DEF Segment, SegmentKeeps
<1>7. CountersAcceptedOnce'
  <2>1. CASE UNCHANGED assertions
    BY <1>1, <1>3, <1>4, <2>1, CountersKept
  <2>2. ASSUME NEW k \in Keeps(calls[c]), NEW n \in Counters, NEW a \in Assertion,
               UpdateCounter(k.id, n), a.passkey = k.id, a.member = k.member,
               a.counter = n, assertions' = assertions \cup {a}
        PROVE  CountersAcceptedOnce'
    <3>1. k \in Snapshots
      BY SnapshotsHold
    <3> QED BY <1>1, <2>2, <3>1, CountersAccepted
  <2> QED BY <1>1, <2>1, <2>2, CallAccepts
<1>8. HeldHonoured'
  BY <1>1, CallHonoured
<1> QED BY <1>3, <1>4, <1>5, <1>6, <1>7, <1>8

(* The invariant holds initially. *)
LEMMA InitHolds ==
  ASSUME AccountInit
  PROVE  IInv
<1> USE DEF AccountInit, StoreInit
<1>1. Typed
  <2>1. calls \in [Callers -> Call]
    BY IdleTyped
  <2>2. StoreTypeOK /\ clock >= 1
    BY DEF StoreTypeOK
  <2>3. retired \in BOOLEAN /\ tokens \in Nat /\ boots \in Nat
    OBVIOUS
  <2>4. /\ ceremonies \in SUBSET Ceremony /\ logins \in SUBSET Login
        /\ drawn \in SUBSET Members /\ held \in SUBSET Eligibility
        /\ assertions \in SUBSET Assertion /\ grants \in SUBSET Grant
    OBVIOUS
  <2>5. store \in {"sync", "turso"}
    OBVIOUS
  <2> QED BY <2>1, <2>2, <2>3, <2>4, <2>5, Zenon DEF Typed, TypeOK
<1>2. \A c \in Callers : calls[c] = Idle
  BY Zenon
<1>3. \A c \in Callers : ~Answers(calls[c]) /\ Keeps(calls[c]) = {}
                         /\ ~At(c, "verifyLogin")
  BY <1>2 DEF Answers, Keeps, At, Idle
<1>4. IdsDrawn
  BY <1>3 DEF IdsDrawn, Pending
<1>5. Single
  BY <1>3 DEF Single, Apart1, Pending
<1>6. Snapshots = {}
  <2>1. UNION {Keeps(calls[c]) : c \in Callers} = {}
    BY <1>3
  <2>2. Reads(logins) = {} /\ Reads(Additional(ceremonies)) = {}
    BY DEF Reads, Additional
  <2> QED BY <2>1, <2>2 DEF Snapshots
<1>7. SnapshotsHeld /\ TablesAgree /\ CountersAcceptedOnce
  BY <1>6 DEF SnapshotsHeld, TablesAgree, CountersAcceptedOnce
<1>8. HeldHonoured
  BY <1>3 DEF HeldHonoured
<1> QED BY <1>1, <1>4, <1>5, <1>7, <1>8, SingleMeansOnce DEF IInv

(* Every step keeps it. *)
LEMMA IInvKept ==
  ASSUME IInv, [Next]_accountVars
  PROVE  IInv'
<1>1. CASE UNCHANGED accountVars
  <2>1. UNCHANGED <<Pending, Snapshots>>
    BY <1>1 DEF accountVars, Pending, Snapshots, Reads, Additional, Keeps
  <2>2. UNCHANGED <<clock, spends, members, credentials, store, ceremonies, logins, calls,
                    retired, tokens, boots, drawn, held, assertions, grants>>
    BY <1>1 DEF accountVars
  <2> QED BY <2>1, <2>2
          DEF IInv, Typed, TypeOK, StoreTypeOK, IdsDrawn, AnsweredOnce, Answering, Ids,
              TablesAgree, HasMember, PasskeysOf, SnapshotsHeld, CountersAcceptedOnce,
              HeldHonoured, Covered, ValidUntil, At, Answers
<1>2. CASE Next
  <2>1. Typed' /\ IdsDrawn' /\ Single' /\ TablesAgree' /\ SnapshotsHeld'
        /\ CountersAcceptedOnce' /\ HeldHonoured'
    BY <1>2, OtherKeeps, CallKeeps DEF Next
  <2>2. Single' => AnsweredOnce'
    BY SingleMeansOnce, PTL
  <2> QED BY <2>1, <2>2 DEF IInv
<1> QED BY <1>1, <1>2

(* So it holds in every reachable state. *)
LEMMA Invariant == Spec => []IInv
<1>1. IInv /\ [Next]_accountVars => IInv'
  BY IInvKept
<1>2. AccountInit => IInv
  BY InitHolds
<1> QED BY <1>1, <1>2, PTL DEF Spec

(***************************************************************************)
(* Memory, calls and histories have their types in every reachable state.  *)
(***************************************************************************)
THEOREM AccountTypeCorrect == Spec => []TypeOK
<1>1. IInv => TypeOK
  BY DEF IInv, Typed
<1> QED BY <1>1, Invariant, PTL

(***************************************************************************)
(* A challenge of the passkey service or the verifier is answered at most  *)
(* once: it moves from the pending ones to one call, and from the call to  *)
(* one accepted assertion.                                                 *)
(***************************************************************************)
THEOREM ChallengesAnsweredOnce == Spec => []AnsweredOnce
<1>1. IInv => AnsweredOnce
  BY DEF IInv
<1> QED BY <1>1, Invariant, PTL

(***************************************************************************)
(* The counter of an accepted assertion is kept by the table and is above  *)
(* every one accepted before it, however old the passkey it was verified   *)
(* with: the passkey in memory is still its member's, and the store        *)
(* compares with the row as it is now.                                     *)
(***************************************************************************)
THEOREM AccountCountersOnce == Spec => []CountersAcceptedOnce
<1>1. IInv => CountersAcceptedOnce
  BY DEF IInv
<1> QED BY <1>1, Invariant, PTL

(***************************************************************************)
(* An admission is signed before it ends, for a member whose voucher lasts *)
(* until then: the presentation was of a credential that ends with the     *)
(* voucher, and spends are permanent.                                      *)
(***************************************************************************)
THEOREM AdmissionsAlwaysHonoured == Spec => AdmissionsHonoured
<1> DEFINE Honoured == \A g \in grants' \ grants :
                          /\ clock < g.expiresAt
                          /\ \E until \in ValidUntil(g.member) : g.expiresAt <= until
<1>1. IInv /\ [Next]_accountVars => [Honoured]_accountVars
  <2> SUFFICES ASSUME IInv, Next PROVE Honoured
    OBVIOUS
  <2>1. CASE Begin \/ Around
    BY <2>1, BeginStep, AroundStep DEF IInv
  <2>2. ASSUME NEW c \in Callers, PasskeyStep(c)
        PROVE  Honoured
    BY <2>2
       DEF PasskeyStep, BeginRegistration, OptionsMade, FinishRegistration,
           RegistrationVerified, PasskeyInserted, BeginAdditionalRegistration, PasskeyFound,
           AuthorizeAdditionalRegistration, OwnerVerified, OwnerCounted, history
  <2>3. ASSUME NEW c \in Callers, Authenticate(c) PROVE Honoured
    BY <2>3 DEF Authenticate, history
  <2>4. ASSUME NEW c \in Callers, LoginVerified(c) PROVE Honoured
    <3> DEFINE ch == calls[c].ch
               g == [id |-> ch.id, member |-> ch.credential.member, device |-> ch.device,
                     issuedAt |-> ch.issuedAt, expiresAt |-> ch.grantExpiresAt]
    <3>1. Covered(ch.credential.member, ch.grantExpiresAt)
      BY <2>4 DEF LoginVerified, IInv, HeldHonoured
    <3>2. CASE InTime(ch) /\ grants' = grants \cup {g}
      BY <3>1, <3>2 DEF InTime, Covered
    <3>3. CASE UNCHANGED grants
      BY <3>3
    <3> QED BY <2>4, <3>2, <3>3 DEF LoginVerified
  <2> QED BY <2>1, <2>2, <2>3, <2>4 DEF Next, VerifierStep
<1> QED BY <1>1, Invariant, PTL DEF Spec, AdmissionsHonoured

(***************************************************************************)
(* The passkey service and the verifier change the tables by the store's   *)
(* own operations only, so what is proved of the store holds with them.    *)
(***************************************************************************)
THEOREM AccountsKeepTables == Spec => KeepsTables
<1>1. AccountInit => StoreInit
  BY DEF AccountInit
<1>2. IInv /\ [Next]_accountVars => [StoreNext]_storeVars
  BY TablesStep DEF IInv
<1> QED BY <1>1, <1>2, Invariant, PTL DEF Spec, KeepsTables, StoreSpec

-----------------------------------------------------------------------------
(***************************************************************************)
(* A further passkey is signed for.  For each member a step puts at most   *)
(* one thing more on the left of the balance, and then takes one off it or *)
(* puts one on the right.  A and A2 are the member's passkeys before and   *)
(* after, B its registration ceremonies, G its calls, F its first passkey, *)
(* S its assertions.                                                       *)
(***************************************************************************)
Balanced(A, B, G, F, S) ==
    Cardinality(A) + Cardinality(B) + Cardinality(G) <= Cardinality(F) + Cardinality(S)

Gains(X, Y) == \E y : Y \subseteq X \cup {y}
Loses(X, Y) == \E y \in X : Y \subseteq X \ {y}

Moves(A, B, G, F, S, A2, B2, G2, F2, S2) ==
    /\ F \subseteq F2 /\ S \subseteq S2
    /\ \/ Cardinality(A2) = Cardinality(A) /\ B2 \subseteq B /\ G2 \subseteq G
       \/ A2 = A /\ Gains(B, B2) /\ Loses(G, G2)
       \/ A2 = A /\ Loses(B, B2) /\ Gains(G, G2)
       \/ Gains(A, A2) /\ B2 = B /\ Loses(G, G2)
       \/ Gains(A, A2) /\ B2 = B /\ G2 = G /\ Loses(F2, F)
       \/ A2 = A /\ B2 = B /\ Gains(G, G2) /\ Loses(F2, F)
       \/ Cardinality(A2) = Cardinality(A) /\ B2 = B /\ Gains(G, G2) /\ Loses(S2, S)

LEMMA Counted ==
  ASSUME NEW X, IsFiniteSet(X), NEW Y
  PROVE  /\ Cardinality(X) \in Nat
         /\ Y \subseteq X => /\ IsFiniteSet(Y) /\ Cardinality(Y) \in Nat
                             /\ Cardinality(Y) <= Cardinality(X)
         /\ Gains(X, Y) => /\ IsFiniteSet(Y) /\ Cardinality(Y) \in Nat
                           /\ Cardinality(Y) <= Cardinality(X) + 1
         /\ Loses(X, Y) => /\ IsFiniteSet(Y) /\ Cardinality(Y) \in Nat
                           /\ Cardinality(Y) <= Cardinality(X) - 1
<1>1. Cardinality(X) \in Nat
  BY FS_CardinalityType
<1>2. ASSUME NEW Z, IsFiniteSet(Z), NEW W, W \subseteq Z
      PROVE  IsFiniteSet(W) /\ Cardinality(W) \in Nat /\ Cardinality(W) <= Cardinality(Z)
  BY <1>2, FS_Subset, FS_CardinalityType
<1>3. ASSUME NEW y, Y \subseteq X \cup {y}
      PROVE  IsFiniteSet(Y) /\ Cardinality(Y) \in Nat /\ Cardinality(Y) <= Cardinality(X) + 1
  <2>1. /\ IsFiniteSet(X \cup {y}) /\ Cardinality(X \cup {y}) \in Nat
        /\ Cardinality(X \cup {y}) <= Cardinality(X) + 1
    BY AddCardinality
  <2>2. /\ IsFiniteSet(Y) /\ Cardinality(Y) \in Nat
        /\ Cardinality(Y) <= Cardinality(X \cup {y})
    BY <1>2, <1>3, <2>1
  <2> QED BY <1>1, <2>1, <2>2
<1>4. ASSUME NEW y \in X, Y \subseteq X \ {y}
      PROVE  IsFiniteSet(Y) /\ Cardinality(Y) \in Nat /\ Cardinality(Y) <= Cardinality(X) - 1
  <2>1. IsFiniteSet(X \ {y}) /\ Cardinality(X \ {y}) = Cardinality(X) - 1
    BY FS_RemoveElement
  <2>2. /\ IsFiniteSet(Y) /\ Cardinality(Y) \in Nat
        /\ Cardinality(Y) <= Cardinality(X \ {y})
    BY <1>2, <1>4, <2>1
  <2> QED BY <2>1, <2>2
<1> QED BY <1>1, <1>2, <1>3, <1>4 DEF Gains, Loses

LEMMA StaysBalanced ==
  ASSUME NEW A, NEW B, NEW G, NEW F, NEW S, NEW A2, NEW B2, NEW G2, NEW F2, NEW S2,
         IsFiniteSet(A), IsFiniteSet(B), IsFiniteSet(G), IsFiniteSet(F2), IsFiniteSet(S2),
         IsFiniteSet(A2),
         Balanced(A, B, G, F, S), Moves(A, B, G, F, S, A2, B2, G2, F2, S2)
  PROVE  Balanced(A2, B2, G2, F2, S2)
<1>1. /\ Cardinality(A) \in Nat /\ Cardinality(B) \in Nat /\ Cardinality(G) \in Nat
      /\ Cardinality(F2) \in Nat /\ Cardinality(S2) \in Nat /\ Cardinality(A2) \in Nat
  BY FS_CardinalityType
<1>2. /\ F \subseteq F2 /\ S \subseteq S2
      /\ Cardinality(F) \in Nat /\ Cardinality(F) <= Cardinality(F2)
      /\ Cardinality(S) \in Nat /\ Cardinality(S) <= Cardinality(S2)
  BY Counted DEF Moves
<1>3. Cardinality(A) + Cardinality(B) + Cardinality(G) <= Cardinality(F) + Cardinality(S)
  BY DEF Balanced
<1>4. CASE Cardinality(A2) = Cardinality(A) /\ B2 \subseteq B /\ G2 \subseteq G
  <2>1. /\ Cardinality(B2) \in Nat /\ Cardinality(B2) <= Cardinality(B)
        /\ Cardinality(G2) \in Nat /\ Cardinality(G2) <= Cardinality(G)
    BY <1>4, Counted
  <2> QED BY <1>1, <1>2, <1>3, <1>4, <2>1 DEF Balanced
<1>5. CASE A2 = A /\ Gains(B, B2) /\ Loses(G, G2)
  <2>1. /\ Cardinality(B2) \in Nat /\ Cardinality(B2) <= Cardinality(B) + 1
        /\ Cardinality(G2) \in Nat /\ Cardinality(G2) <= Cardinality(G) - 1
    BY <1>5, Counted
  <2> QED BY <1>1, <1>2, <1>3, <1>5, <2>1 DEF Balanced
<1>6. CASE A2 = A /\ Loses(B, B2) /\ Gains(G, G2)
  <2>1. /\ Cardinality(B2) \in Nat /\ Cardinality(B2) <= Cardinality(B) - 1
        /\ Cardinality(G2) \in Nat /\ Cardinality(G2) <= Cardinality(G) + 1
    BY <1>6, Counted
  <2> QED BY <1>1, <1>2, <1>3, <1>6, <2>1 DEF Balanced
<1>7. CASE Gains(A, A2) /\ B2 = B /\ Loses(G, G2)
  <2>1. /\ Cardinality(A2) <= Cardinality(A) + 1
        /\ Cardinality(G2) \in Nat /\ Cardinality(G2) <= Cardinality(G) - 1
    BY <1>7, Counted
  <2> QED BY <1>1, <1>2, <1>3, <1>7, <2>1 DEF Balanced
<1>8. CASE Gains(A, A2) /\ B2 = B /\ G2 = G /\ Loses(F2, F)
  <2>1. /\ Cardinality(A2) <= Cardinality(A) + 1
        /\ Cardinality(F) <= Cardinality(F2) - 1
    BY <1>8, Counted
  <2> QED BY <1>1, <1>2, <1>3, <1>8, <2>1 DEF Balanced
<1>9. CASE A2 = A /\ B2 = B /\ Gains(G, G2) /\ Loses(F2, F)
  <2>1. /\ Cardinality(G2) \in Nat /\ Cardinality(G2) <= Cardinality(G) + 1
        /\ Cardinality(F) <= Cardinality(F2) - 1
    BY <1>9, Counted
  <2> QED BY <1>1, <1>2, <1>3, <1>9, <2>1 DEF Balanced
<1>10. CASE Cardinality(A2) = Cardinality(A) /\ B2 = B /\ Gains(G, G2) /\ Loses(S2, S)
  <2>1. /\ Cardinality(G2) \in Nat /\ Cardinality(G2) <= Cardinality(G) + 1
        /\ Cardinality(S) <= Cardinality(S2) - 1
    BY <1>10, Counted
  <2> QED BY <1>1, <1>2, <1>3, <1>10, <2>1 DEF Balanced
<1> QED BY <1>4, <1>5, <1>6, <1>7, <1>8, <1>9, <1>10 DEF Moves

-----------------------------------------------------------------------------
(* A call holds a registration of m, or not.                               *)
Reg(x, m) == \/ x.pc = "makeOptions" /\ x.member = m
             \/ x.pc \in {"verifyRegistration", "insertPasskey"} /\ x.ch.member = m

TallyStep(m) ==
    Moves(PasskeysOf(m), RegistrationsOf(m), Registering(m), First(m), SignedFor(m),
          PasskeysOf(m)', RegistrationsOf(m)', Registering(m)', First(m)', SignedFor(m)')

Finite == IsFiniteSet(credentials) /\ IsFiniteSet(Pending) /\ IsFiniteSet(assertions)

(* What a call does to the registrations it and the others hold.           *)
LEMMA CallMoves ==
  ASSUME TypeOK, NEW c \in Callers, NEW x, Goto(c, x), NEW m
  PROVE  /\ Gains(Registering(m), Registering(m)')
         /\ (Reg(x, m) => Reg(calls[c], m)) => Registering(m)' \subseteq Registering(m)
         /\ Reg(calls[c], m) /\ ~Reg(x, m) => Loses(Registering(m), Registering(m)')
<1>1. calls'[c] = x /\ \A d \in Callers \ {c} : calls'[d] = calls[d]
  BY DEF Goto, TypeOK
<1> DEFINE G == Registering(m)
           H == Registering(m)'
<1>2. \A d : d \in G <=> d \in Callers /\ Reg(calls[d], m)
  BY DEF Registering, Reg, At
<1>3. \A d : d \in H <=> d \in Callers /\ Reg(calls'[d], m)
  BY DEF Registering, Reg, At
<1>4. c \in H <=> Reg(x, m)
  BY <1>1, <1>3
<1>5. c \in G <=> Reg(calls[c], m)
  BY <1>2
<1>6. \A d : d # c => (d \in H <=> d \in G)
  <2> TAKE d
  <2> HAVE d # c
  <2>1. CASE d \in Callers
    <3>1. calls'[d] = calls[d]
      BY <1>1, <2>1
    <3> QED BY <1>2, <1>3, <2>1, <3>1
  <2>2. CASE d \notin Callers
    BY <1>2, <1>3, <2>2
  <2> QED BY <2>1, <2>2
<1> HIDE DEF G, H
<1>7. Gains(G, H)
  BY <1>6 DEF Gains
<1>8. (c \in H => c \in G) => H \subseteq G
  BY <1>6
<1>9. c \in G /\ c \notin H => Loses(G, H)
  BY <1>6 DEF Loses
<1>10. /\ (Reg(x, m) => Reg(calls[c], m)) => H \subseteq G
       /\ Reg(calls[c], m) /\ ~Reg(x, m) => Loses(G, H)
  BY <1>4, <1>5, <1>8, <1>9
<1> QED BY <1>7, <1>10 DEF G, H

(* The right of the balance only grows.                                    *)
Grounds == /\ drawn \subseteq drawn' /\ assertions \subseteq assertions'
           /\ \A x \in members : \E y \in members' : y.id = x.id
LEMMA GroundsGrow ==
  ASSUME Grounds, NEW m
  PROVE  First(m) \subseteq First(m)' /\ SignedFor(m) \subseteq SignedFor(m)'
BY DEF Grounds, First, SignedFor

(* A step that hands out nothing.                                          *)
LEMMA QuietStep ==
  ASSUME Grounds, NEW m,
         Cardinality(PasskeysOf(m)') = Cardinality(PasskeysOf(m)),
         ceremonies' \subseteq ceremonies,
         Registering(m)' \subseteq Registering(m)
  PROVE  TallyStep(m)
<1>1. RegistrationsOf(m)' \subseteq RegistrationsOf(m)
  BY DEF RegistrationsOf
<1> QED BY <1>1, GroundsGrow DEF TallyStep, Moves

LEMMA QuietCall ==
  ASSUME TypeOK, NEW m, NEW c \in Callers, NEW x, Goto(c, x),
         Reg(x, m) => Reg(calls[c], m),
         Cardinality(PasskeysOf(m)') = Cardinality(PasskeysOf(m)),
         ceremonies' \subseteq ceremonies,
         UNCHANGED members, drawn \subseteq drawn', assertions \subseteq assertions'
  PROVE  TallyStep(m)
<1>1. Registering(m)' \subseteq Registering(m)
  BY CallMoves
<1>2. Grounds
  BY DEF Grounds
<1> QED BY <1>1, <1>2, QuietStep

LEMMA QuietReturn ==
  ASSUME TypeOK, NEW m, NEW c \in Callers, Return(c),
         Cardinality(PasskeysOf(m)') = Cardinality(PasskeysOf(m)),
         ceremonies' \subseteq ceremonies,
         UNCHANGED members, drawn \subseteq drawn', assertions \subseteq assertions'
  PROVE  TallyStep(m)
<1>1. ~Reg(Idle, m)
  BY DEF Reg, Idle
<1> QED BY <1>1, QuietCall DEF Return

(* A counter that moves replaces a row by one of the same passkey.         *)
LEMMA UpdateKeepsCount ==
  ASSUME StoreTypeOK, TablesAgree, Finite, NEW p, NEW n \in Counters, UpdateCounter(p, n), NEW m
  PROVE  Cardinality(PasskeysOf(m)') = Cardinality(PasskeysOf(m)) /\ IsFiniteSet(credentials')
<1>1. PICK x \in credentials :
         credentials' = (credentials \ {x}) \cup {[x EXCEPT !.counter = n]}
  BY DEF UpdateCounter
<1> DEFINE z == [x EXCEPT !.counter = n]
<1>2. x \in Credential /\ z.id = x.id /\ z.member = x.member
  BY DEF StoreTypeOK, Credential
<1>3. z \notin credentials \ {x}
  BY <1>2 DEF TablesAgree
<1> HIDE DEF z
<1>4. credentials' = (credentials \ {x}) \cup {z}
  BY <1>1 DEF z
<1>5. IsFiniteSet(credentials')
  BY <1>3, <1>4, ReplaceCardinality DEF Finite
<1>6. IsFiniteSet(PasskeysOf(m))
  BY FS_Subset DEF PasskeysOf, Finite
<1>7. CASE x.member = m
  <2>1. PasskeysOf(m)' = (PasskeysOf(m) \ {x}) \cup {z}
    BY <1>2, <1>4, <1>7 DEF PasskeysOf
  <2>2. x \in PasskeysOf(m) /\ z \notin PasskeysOf(m) \ {x}
    BY <1>3, <1>7 DEF PasskeysOf
  <2> QED BY <1>5, <1>6, <2>1, <2>2, ReplaceCardinality
<1>8. CASE x.member # m
  <2>1. PasskeysOf(m)' = PasskeysOf(m)
    BY <1>2, <1>4, <1>8 DEF PasskeysOf
  <2> QED BY <1>5, <2>1
<1> QED BY <1>7, <1>8

(* A step that leaves the passkeys and the ceremonies of m alone, or only  *)
(* drops some of its ceremonies.                                           *)
LEMMA SamePasskeys ==
  ASSUME NEW m, UNCHANGED credentials
  PROVE  /\ PasskeysOf(m)' = PasskeysOf(m)
         /\ Cardinality(PasskeysOf(m)') = Cardinality(PasskeysOf(m))
<1>1. PasskeysOf(m)' = PasskeysOf(m)
  BY DEF PasskeysOf
<1> QED BY <1>1

(* A member id is made up, and a call holds its first registration.        *)
LEMMA BeginRegistrationTally ==
  ASSUME TypeOK, NEW c \in Callers, BeginRegistration(c), NEW m
  PROVE  TallyStep(m)
<1>1. PICK i \in Members \ (drawn \cup {x.id : x \in members}) :
         /\ drawn' = drawn \cup {i}
         /\ Goto(c, [pc |-> "makeOptions", member |-> i])
  BY DEF BeginRegistration
<1> DEFINE x == [pc |-> "makeOptions", member |-> i]
<1>2. UNCHANGED <<storeVars, ceremonies, assertions>>
  BY DEF BeginRegistration
<1>3. UNCHANGED <<credentials, members>>
  BY <1>2 DEF storeVars
<1>4. Grounds
  BY <1>1, <1>2, <1>3 DEF Grounds
<1>5. CASE m = i
  <2>1. Gains(Registering(m), Registering(m)')
    BY <1>1, CallMoves
  <2>2. RegistrationsOf(m)' = RegistrationsOf(m)
    BY <1>2 DEF RegistrationsOf
  <2>3. First(m) = {} /\ First(m)' = {m}
    BY <1>1, <1>5 DEF First
  <2>4. Loses(First(m)', First(m))
    BY <2>3 DEF Loses
  <2> QED BY <1>3, <1>4, <2>1, <2>2, <2>4, SamePasskeys, GroundsGrow DEF TallyStep, Moves
<1>6. CASE m # i
  <2>1. ~Reg(x, m)
    BY <1>6 DEF Reg
  <2> QED BY <1>1, <1>2, <1>3, <2>1, SamePasskeys, QuietCall
<1> QED BY <1>5, <1>6

(* The call's registration becomes a ceremony of the same member, or is    *)
(* lost because there is no room for it.                                   *)
LEMMA OptionsMadeTally ==
  ASSUME TypeOK, NEW c \in Callers, OptionsMade(c), NEW m
  PROVE  TallyStep(m)
<1> DEFINE i == calls[c].member
           y == [id |-> tokens + 1, kind |-> "registration", member |-> i,
                 expiresAt |-> clock + CeremonyLifetime]
<1>1. /\ At(c, "makeOptions") /\ Return(c) /\ BeginCeremony(y)
      /\ UNCHANGED <<credentials, members, drawn, assertions>>
  BY DEF OptionsMade, storeVars, history
<1>2. ceremonies' \subseteq ceremonies \cup {y}
  BY <1>1 DEF BeginCeremony, Live
<1>3. Grounds
  BY <1>1 DEF Grounds
<1>4. CASE m = i
  <2>1. Reg(calls[c], m) /\ ~Reg(Idle, m)
    BY <1>1, <1>4 DEF Reg, At, Idle
  <2>2. Loses(Registering(m), Registering(m)')
    BY <1>1, <2>1, CallMoves DEF Return
  <2>3. Gains(RegistrationsOf(m), RegistrationsOf(m)')
    BY <1>2 DEF RegistrationsOf, Gains
  <2> QED BY <1>1, <1>3, <2>2, <2>3, SamePasskeys, GroundsGrow DEF TallyStep, Moves
<1>5. CASE m # i
  <2>1. Registering(m)' \subseteq Registering(m)
    BY <1>1, CallMoves DEF Return, Reg, Idle
  <2>2. RegistrationsOf(m)' \subseteq RegistrationsOf(m)
    BY <1>2, <1>5 DEF RegistrationsOf
  <2> QED BY <1>1, <1>3, <2>1, <2>2, SamePasskeys, GroundsGrow DEF TallyStep, Moves
<1> QED BY <1>4, <1>5

(* A registration ceremony goes to the call that answers it, or is lost.   *)
LEMMA FinishRegistrationTally ==
  ASSUME TypeOK, NEW c \in Callers, FinishRegistration(c), NEW m
  PROVE  TallyStep(m)
<1>1. PICK ch \in ceremonies :
         /\ Consume(ch)
         /\ IF Answerable(ch, "registration")
              THEN Goto(c, [pc |-> "verifyRegistration", ch |-> ch])
              ELSE Return(c)
  BY DEF FinishRegistration
<1> DEFINE x == [pc |-> "verifyRegistration", ch |-> ch]
<1>2. UNCHANGED <<credentials, members, drawn, assertions>>
  BY DEF FinishRegistration, storeVars, history
<1>3. ceremonies' = ceremonies \ {ch}
  BY <1>1 DEF Consume
<1>4. Grounds
  BY <1>2 DEF Grounds
<1>5. CASE Answerable(ch, "registration") /\ ch.member = m
  <2>1. Gains(Registering(m), Registering(m)')
    BY <1>1, <1>5, CallMoves
  <2>2. Loses(RegistrationsOf(m), RegistrationsOf(m)')
    BY <1>3, <1>5 DEF RegistrationsOf, Loses, Answerable
  <2> QED BY <1>2, <1>4, <2>1, <2>2, SamePasskeys, GroundsGrow DEF TallyStep, Moves
<1>6. CASE Answerable(ch, "registration") /\ ch.member # m
  <2>1. ~Reg(x, m)
    BY <1>6 DEF Reg
  <2> QED BY <1>1, <1>2, <1>3, <1>6, <2>1, SamePasskeys, QuietCall
<1>7. CASE ~Answerable(ch, "registration")
  BY <1>1, <1>2, <1>3, <1>7, SamePasskeys, QuietReturn
<1> QED BY <1>5, <1>6, <1>7

(* The verified registration is still that member's.                       *)
LEMMA RegistrationVerifiedTally ==
  ASSUME TypeOK, NEW c \in Callers, RegistrationVerified(c), NEW m
  PROVE  TallyStep(m)
<1>1. /\ UNCHANGED <<credentials, members, ceremonies, drawn, assertions>>
      /\ At(c, "verifyRegistration")
  BY DEF RegistrationVerified, storeVars, history
<1>2. ASSUME NEW p, NEW n,
             Goto(c, [pc |-> "insertPasskey", ch |-> calls[c].ch, passkey |-> p,
                      counter |-> n])
      PROVE  TallyStep(m)
  <2> DEFINE x == [pc |-> "insertPasskey", ch |-> calls[c].ch, passkey |-> p, counter |-> n]
  <2>1. Reg(x, m) => Reg(calls[c], m)
    BY <1>1 DEF Reg, At
  <2> QED BY <1>1, <1>2, <2>1, SamePasskeys, QuietCall
<1> QED BY <1>1, <1>2, SamePasskeys, QuietReturn DEF RegistrationVerified

(* The registration becomes a passkey of its member, or is given up; when  *)
(* the answer is lost it may be either.                                    *)
LEMMA PasskeyInsertedTally ==
  ASSUME TypeOK, NEW c \in Callers, PasskeyInserted(c), NEW m
  PROVE  TallyStep(m)
<1> DEFINE p == calls[c].passkey
           i == calls[c].ch.member
           n == calls[c].counter
           row == [id |-> p, member |-> i, counter |-> n]
<1>1. /\ At(c, "insertPasskey") /\ Return(c)
      /\ UNCHANGED <<ceremonies, drawn, assertions>>
      /\ Insert(p, i, n) \/ UNCHANGED storeVars
  BY DEF PasskeyInserted, Unacknowledged, history
<1>2. CASE UNCHANGED storeVars
  BY <1>1, <1>2, SamePasskeys, QuietReturn DEF storeVars
<1>3. CASE Insert(p, i, n)
  <2>1. credentials' = credentials \cup {row} /\ UNCHANGED members
    BY <1>3 DEF Insert
  <2>2. Grounds
    BY <1>1, <2>1 DEF Grounds
  <2>3. CASE m = i
    <3>1. Reg(calls[c], m) /\ ~Reg(Idle, m)
      BY <1>1, <2>3 DEF Reg, At, Idle
    <3>2. Loses(Registering(m), Registering(m)')
      BY <1>1, <3>1, CallMoves DEF Return
    <3>3. Gains(PasskeysOf(m), PasskeysOf(m)')
      BY <2>1 DEF PasskeysOf, Gains
    <3>4. RegistrationsOf(m)' = RegistrationsOf(m)
      BY <1>1 DEF RegistrationsOf
    <3> QED BY <2>2, <3>2, <3>3, <3>4, GroundsGrow DEF TallyStep, Moves
  <2>4. CASE m # i
    <3>1. PasskeysOf(m)' = PasskeysOf(m)
      BY <2>1, <2>4 DEF PasskeysOf
    <3>2. Cardinality(PasskeysOf(m)') = Cardinality(PasskeysOf(m))
      BY <3>1
    <3> QED BY <1>1, <2>1, <3>2, QuietReturn
  <2> QED BY <2>3, <2>4
<1> QED BY <1>1, <1>2, <1>3

(* A passkey is read, to authorize a further one.                          *)
LEMMA BeginAdditionalTally ==
  ASSUME TypeOK, NEW c \in Callers, BeginAdditionalRegistration(c), NEW m
  PROVE  TallyStep(m)
<1>1. PICK x \in credentials : Goto(c, [pc |-> "passkeyFound", credential |-> x])
  BY DEF BeginAdditionalRegistration
<1>2. UNCHANGED <<credentials, members, ceremonies, drawn, assertions>>
  BY DEF BeginAdditionalRegistration, storeVars, history
<1>3. ~Reg([pc |-> "passkeyFound", credential |-> x], m)
  BY DEF Reg
<1> QED BY <1>1, <1>2, <1>3, SamePasskeys, QuietCall

(* Its ceremony begins, which is not a registration.                       *)
LEMMA PasskeyFoundTally ==
  ASSUME TypeOK, NEW c \in Callers, PasskeyFound(c), NEW m
  PROVE  TallyStep(m)
<1> DEFINE y == [id |-> tokens + 1, kind |-> "additional",
                 credential |-> calls[c].credential, expiresAt |-> clock + CeremonyLifetime]
<1>1. /\ Return(c) /\ BeginCeremony(y)
      /\ UNCHANGED <<credentials, members, drawn, assertions>>
  BY DEF PasskeyFound, storeVars, history
<1>2. ceremonies' \subseteq ceremonies \cup {y}
  BY <1>1 DEF BeginCeremony, Live
<1>3. Grounds
  BY <1>1 DEF Grounds
<1>4. Registering(m)' \subseteq Registering(m)
  BY <1>1, CallMoves DEF Return, Reg, Idle
<1>5. RegistrationsOf(m)' \subseteq RegistrationsOf(m)
  BY <1>2 DEF RegistrationsOf
<1> QED BY <1>1, <1>3, <1>4, <1>5, SamePasskeys, GroundsGrow DEF TallyStep, Moves

(* The ceremony is answered: the owner's call holds no registration yet.   *)
LEMMA AuthorizeTally ==
  ASSUME TypeOK, NEW c \in Callers, AuthorizeAdditionalRegistration(c), NEW m
  PROVE  TallyStep(m)
<1>1. PICK ch \in ceremonies :
         /\ Consume(ch)
         /\ Goto(c, [pc |-> "verifyOwner", ch |-> ch]) \/ Return(c)
  BY DEF AuthorizeAdditionalRegistration
<1>2. UNCHANGED <<credentials, members, drawn, assertions>>
  BY DEF AuthorizeAdditionalRegistration, storeVars, history
<1>3. ceremonies' \subseteq ceremonies
  BY <1>1 DEF Consume
<1>4. ~Reg([pc |-> "verifyOwner", ch |-> ch], m)
  BY DEF Reg
<1> QED BY <1>1, <1>2, <1>3, <1>4, SamePasskeys, QuietCall, QuietReturn

LEMMA OwnerVerifiedTally ==
  ASSUME TypeOK, NEW c \in Callers, OwnerVerified(c), NEW m
  PROVE  TallyStep(m)
<1>1. UNCHANGED <<credentials, members, ceremonies, drawn, assertions>>
  BY DEF OwnerVerified, storeVars, history
<1>2. \/ Return(c)
      \/ \E n \in Counters : Goto(c, [pc |-> "countOwner", ch |-> calls[c].ch, counter |-> n])
  BY DEF OwnerVerified
<1>3. \A n : ~Reg([pc |-> "countOwner", ch |-> calls[c].ch, counter |-> n], m)
  BY DEF Reg
<1> QED BY <1>1, <1>2, <1>3, SamePasskeys, QuietCall, QuietReturn

(* The owner's assertion is accepted, the first over its ceremony, and the *)
(* call holds a registration for the same member.                          *)
LEMMA OwnerCountedTally ==
  ASSUME TypeOK, TablesAgree, AnsweredOnce, Finite, NEW c \in Callers, OwnerCounted(c), NEW m
  PROVE  TallyStep(m)
<1> DEFINE ch == calls[c].ch
           i == ch.credential.member
           n == calls[c].counter
           update == UpdateCounter(ch.credential.id, n)
           x == [pc |-> "makeOptions", member |-> i]
           a == [id |-> ch.id, purpose |-> "passkey", passkey |-> ch.credential.id,
                 member |-> i, counter |-> n]
<1>1. /\ At(c, "countOwner") /\ UNCHANGED <<ceremonies, drawn>>
      /\ \/ update /\ assertions' = assertions \cup {a} /\ Goto(c, x)
         \/ (update \/ UNCHANGED storeVars) /\ Return(c) /\ UNCHANGED assertions
  BY DEF OwnerCounted, Unacknowledged, Accepted
<1>2. calls[c].counter \in Counters
  BY <1>1, CallTyped, Locals DEF At
<1>3. update \/ UNCHANGED storeVars
  BY <1>1
<1>4. Cardinality(PasskeysOf(m)') = Cardinality(PasskeysOf(m)) /\ UNCHANGED members
  <2>1. CASE update
    BY <1>2, <2>1, UpdateKeepsCount DEF UpdateCounter, TypeOK
  <2>2. CASE UNCHANGED storeVars
    BY <2>2, SamePasskeys DEF storeVars
  <2> QED BY <1>3, <2>1, <2>2
<1>5. CASE Return(c) /\ UNCHANGED assertions
  BY <1>1, <1>4, <1>5, QuietReturn
<1>6. CASE assertions' = assertions \cup {a} /\ Goto(c, x) /\ m # i
  <2>1. ~Reg(x, m)
    BY <1>6 DEF Reg
  <2> QED BY <1>1, <1>4, <1>6, <2>1, QuietCall
<1>7. CASE assertions' = assertions \cup {a} /\ Goto(c, x) /\ m = i
  <2>1. Gains(Registering(m), Registering(m)')
    BY <1>7, CallMoves
  <2>2. c \in Answering
    BY <1>1 DEF Answering, At
  <2>3. a \notin assertions
    BY <2>2 DEF AnsweredOnce, Ids
  <2>4. Loses(SignedFor(m)', SignedFor(m))
    BY <1>7, <2>3 DEF SignedFor, Loses
  <2>5. RegistrationsOf(m)' = RegistrationsOf(m)
    BY <1>1 DEF RegistrationsOf
  <2>6. Grounds
    BY <1>1, <1>4, <1>7 DEF Grounds
  <2> QED BY <1>4, <2>1, <2>4, <2>5, <2>6, GroundsGrow DEF TallyStep, Moves
<1> QED BY <1>1, <1>5, <1>6, <1>7

(* A login holds no registration.                                          *)
LEMMA VerifierTally ==
  ASSUME TypeOK, TablesAgree, Finite, NEW c \in Callers, VerifierStep(c), NEW m
  PROVE  TallyStep(m)
<1>1. CASE Authenticate(c)
  <2>1. PICK ch \in logins : Goto(c, [pc |-> "verifyLogin", ch |-> ch]) \/ Return(c)
    BY <1>1 DEF Authenticate
  <2>2. UNCHANGED <<credentials, members, ceremonies, drawn, assertions>>
    BY <1>1 DEF Authenticate, storeVars, history
  <2>3. ~Reg([pc |-> "verifyLogin", ch |-> ch], m)
    BY DEF Reg
  <2> QED BY <2>1, <2>2, <2>3, SamePasskeys, QuietCall, QuietReturn
<1>2. CASE LoginVerified(c)
  <2> DEFINE ch == calls[c].ch
  <2>1. Return(c) /\ UNCHANGED <<ceremonies, drawn>> /\ assertions \subseteq assertions'
    BY <1>2 DEF LoginVerified, Accepted
  <2>2. (\E n \in Counters : UpdateCounter(ch.credential.id, n)) \/ UNCHANGED storeVars
    BY <1>2 DEF LoginVerified
  <2>3. Cardinality(PasskeysOf(m)') = Cardinality(PasskeysOf(m)) /\ UNCHANGED members
    <3>1. ASSUME NEW n \in Counters, UpdateCounter(ch.credential.id, n)
          PROVE  Cardinality(PasskeysOf(m)') = Cardinality(PasskeysOf(m)) /\ UNCHANGED members
      BY <3>1, UpdateKeepsCount DEF UpdateCounter, TypeOK
    <3>2. CASE UNCHANGED storeVars
      BY <3>2, SamePasskeys DEF storeVars
    <3> QED BY <2>2, <3>1, <3>2
  <2> QED BY <2>1, <2>3, QuietReturn
<1> QED BY <1>1, <1>2 DEF VerifierStep

(* Around the calls, a member's first passkey comes with its membership;   *)
(* a restart forgets ceremonies and calls.                                 *)
LEMMA AroundTally ==
  ASSUME Typed, TablesAgree, Finite, Begin \/ Around, NEW m
  PROVE  TallyStep(m)
<1>1. UNCHANGED <<assertions, drawn>>
  BY DEF Begin, Around, EntryWrites, Hold, Restart, history
<1> DEFINE Still == UNCHANGED <<ceremonies, calls>>
<1>2. ASSUME Still
      PROVE  /\ RegistrationsOf(m)' = RegistrationsOf(m) /\ Registering(m)' = Registering(m)
             /\ Registering(m)' \subseteq Registering(m)
  BY <1>2 DEF RegistrationsOf, Registering, At
<1>3. CASE Still /\ UNCHANGED <<credentials, members>>
  <2>1. Grounds
    BY <1>1, <1>3 DEF Grounds
  <2> QED BY <1>2, <1>3, <2>1, SamePasskeys, QuietStep
<1>4. CASE Restart
  <2>1. ceremonies' = {} /\ calls' = [c \in Callers |-> Idle] /\ UNCHANGED storeVars
    BY <1>4 DEF Restart
  <2>2. Registering(m)' = {}
    BY <2>1 DEF Registering, At, Idle
  <2>3. Grounds /\ UNCHANGED credentials
    BY <1>1, <2>1 DEF Grounds, storeVars
  <2> QED BY <2>1, <2>2, <2>3, SamePasskeys, QuietStep
<1>5. ASSUME NEW v \in Vouchers, NEW i \in Members \ drawn, NEW d \in Devices,
             NEW p \in Passkeys, NEW n \in Counters, NEW at, Still,
             RegisterWithVoucher([voucher |-> v, member |-> i, device |-> d,
                                  passkey |-> p, counter |-> n, at |-> at])
      PROVE  TallyStep(m)
  <2> DEFINE req == [voucher |-> v, member |-> i, device |-> d,
                     passkey |-> p, counter |-> n, at |-> at]
             row == [id |-> p, member |-> i, counter |-> n]
  <2>1. /\ credentials' = credentials \cup {row}
        /\ members' = members \cup {[id |-> i, device |-> d, voucher |-> v]}
        /\ NewMember(req)
    BY <1>5 DEF RegisterWithVoucher, CredentialRow, MemberRow, Registrable
  <2>2. Grounds
    BY <1>1, <2>1 DEF Grounds
  <2>3. CASE m = i
    <3>1. First(m) = {} /\ First(m)' = {m}
      <4>1. \A x \in members : x.id # i
        BY <2>1 DEF NewMember
      <4>2. \E x \in members' : x.id = i
        <5> DEFINE r == [id |-> i, device |-> d, voucher |-> v]
        <5>1. r \in members' /\ r.id = i
          BY <2>1
        <5> QED BY <5>1
      <4>3. m \notin drawn \cup {x.id : x \in members}
        BY <2>3, <4>1
      <4>4. m \in (drawn \cup {x.id : x \in members})'
        BY <2>3, <4>2
      <4> QED BY <4>3, <4>4 DEF First
    <3>2. Loses(First(m)', First(m))
      BY <3>1 DEF Loses
    <3>3. Gains(PasskeysOf(m), PasskeysOf(m)')
      BY <2>1 DEF PasskeysOf, Gains
    <3> QED BY <1>2, <1>5, <2>2, <3>2, <3>3, GroundsGrow DEF TallyStep, Moves
  <2>4. CASE m # i
    <3>1. PasskeysOf(m)' = PasskeysOf(m)
      BY <2>1, <2>4 DEF PasskeysOf
    <3>2. Cardinality(PasskeysOf(m)') = Cardinality(PasskeysOf(m))
      BY <3>1
    <3> QED BY <1>2, <1>5, <2>2, <3>2, QuietStep
  <2> QED BY <2>3, <2>4
<1>6. ASSUME NEW p \in Passkeys, NEW n \in Counters, UpdateCounter(p, n), Still
      PROVE  TallyStep(m)
  <2>1. Cardinality(PasskeysOf(m)') = Cardinality(PasskeysOf(m)) /\ UNCHANGED members
    BY <1>6, UpdateKeepsCount DEF UpdateCounter, Typed, TypeOK
  <2>2. Grounds
    BY <1>1, <2>1 DEF Grounds
  <2> QED BY <1>2, <1>6, <2>1, <2>2, QuietStep
<1>7. ASSUME NEW i \in Members, NEW d \in Devices, NEW at, Rebind(i, d, at), Still
      PROVE  TallyStep(m)
  <2>1. PICK x \in members : members' = (members \ {x}) \cup {[x EXCEPT !.device = d]}
    BY <1>7 DEF Rebind
  <2>2. x \in Member
    BY DEF Typed, TypeOK, StoreTypeOK
  <2>3. [x EXCEPT !.device = d].id = x.id
    BY <2>2 DEF Member
  <2>4. \A z \in members : \E y \in members' : y.id = z.id
    BY <2>1, <2>3
  <2>5. Grounds
    BY <1>1, <2>4 DEF Grounds
  <2>6. UNCHANGED credentials
    BY <1>7 DEF Rebind
  <2> QED BY <1>2, <1>7, <2>5, <2>6, SamePasskeys, QuietStep
<1>8. Begin => Still /\ UNCHANGED <<credentials, members>>
  BY DEF Begin, storeVars
<1>9. CASE Around
  <2>1. CASE Tick /\ UNCHANGED <<store, ceremonies, logins, calls, retired, tokens, boots, history>>
    BY <1>3, <2>1 DEF Tick, tables
  <2>2. CASE EntryWrites
    <3>1. Still
      BY <2>2 DEF EntryWrites
    <3>2. CASE UNCHANGED storeVars
      BY <1>3, <3>1, <3>2 DEF storeVars
    <3> QED BY <1>5, <1>6, <1>7, <2>2, <3>1, <3>2 DEF EntryWrites
  <2>3. CASE Hold
    BY <1>3, <2>3 DEF Hold, storeVars
  <2> QED BY <1>4, <1>9, <2>1, <2>2, <2>3 DEF Around
<1> QED BY <1>3, <1>8, <1>9

(* Every step moves the balance of every member.                           *)
LEMMA StepTallies ==
  ASSUME IInv, Finite, Next, NEW m
  PROVE  TallyStep(m)
<1>1. /\ Typed /\ TypeOK /\ TablesAgree /\ AnsweredOnce
  BY DEF IInv, Typed
<1>2. CASE Begin \/ Around
  BY <1>1, <1>2, AroundTally
<1>3. ASSUME NEW c \in Callers, PasskeyStep(c) PROVE TallyStep(m)
  BY <1>1, <1>3, BeginRegistrationTally, OptionsMadeTally, FinishRegistrationTally,
     RegistrationVerifiedTally, PasskeyInsertedTally, BeginAdditionalTally, PasskeyFoundTally,
     AuthorizeTally, OwnerVerifiedTally, OwnerCountedTally, Zenon DEF PasskeyStep
<1>4. ASSUME NEW c \in Callers, VerifierStep(c) PROVE TallyStep(m)
  BY <1>1, <1>4, VerifierTally
<1> QED BY <1>2, <1>3, <1>4 DEF Next

(* No step leaves the finite: it adds one row, one challenge or one        *)
(* assertion at most.                                                      *)
LEMMA AddsOne ==
  ASSUME NEW X, IsFiniteSet(X), NEW Y, NEW y, Y \subseteq X \cup {y}
  PROVE  IsFiniteSet(Y)
BY Counted DEF Gains

LEMMA TablesStayFinite ==
  ASSUME StoreTypeOK, TablesAgree, Finite, [StoreNext]_storeVars
  PROVE  IsFiniteSet(credentials')
<1>1. CASE UNCHANGED credentials
  BY <1>1 DEF Finite
<1>2. ASSUME NEW y, credentials' = credentials \cup {y} PROVE IsFiniteSet(credentials')
  BY <1>2, AddsOne DEF Finite
<1>3. ASSUME NEW p \in Passkeys, NEW n \in Counters, UpdateCounter(p, n)
      PROVE  IsFiniteSet(credentials')
  BY <1>3, UpdateKeepsCount
<1>4. CASE UNCHANGED storeVars
  BY <1>1, <1>4 DEF storeVars
<1>5. CASE StoreNext
  <2>1. ASSUME NEW req, RegisterWithVoucher(req) PROVE IsFiniteSet(credentials')
    BY <1>2, <2>1 DEF RegisterWithVoucher
  <2>2. ASSUME NEW p, NEW m, NEW n, Insert(p, m, n) PROVE IsFiniteSet(credentials')
    BY <1>2, <2>2 DEF Insert
  <2>3. ASSUME NEW m, NEW d, NEW at, Rebind(m, d, at) PROVE UNCHANGED credentials
    BY <2>3 DEF Rebind
  <2>4. Tick => UNCHANGED credentials
    BY DEF Tick, tables
  <2> QED BY <1>1, <1>3, <1>5, <2>1, <2>2, <2>3, <2>4 DEF StoreNext
<1> QED BY <1>4, <1>5

LEMMA StaysFinite ==
  ASSUME IInv, Finite, Next
  PROVE  Finite'
<1>1. Typed /\ TypeOK /\ StoreTypeOK /\ TablesAgree
  BY DEF IInv, Typed, TypeOK
<1>2. IsFiniteSet(credentials')
  BY <1>1, TablesStep, TablesStayFinite
<1>3. IsFiniteSet(Pending') /\ IsFiniteSet(assertions')
  <2>1. CASE Begin
    <3>1. UNCHANGED <<ceremonies, assertions>> /\ \E y : logins' \subseteq logins \cup {y}
      BY <1>1, <2>1, BeginStep
    <3>2. \E y : Pending' \subseteq Pending \cup {y}
      BY <3>1 DEF Pending
    <3> QED BY <3>1, <3>2, AddsOne DEF Finite
  <2>2. CASE Around
    <3>1. UNCHANGED assertions /\ Pending' \subseteq Pending
      BY <1>1, <2>2, AroundStep DEF Pending
    <3> QED BY <3>1, FS_Subset DEF Finite
  <2>3. ASSUME NEW c \in Callers, PasskeyStep(c) \/ VerifierStep(c)
        PROVE  IsFiniteSet(Pending') /\ IsFiniteSet(assertions')
    <3>1. AccountStep(c)
      BY <1>1, <2>3, CallStep DEF Segment
    <3>2. \E y : Pending' \subseteq Pending \cup {y}
      BY <3>1 DEF AccountStep, Shrinks
    <3>3. \E a : assertions' \subseteq assertions \cup {a}
      BY <3>1 DEF AccountStep
    <3> QED BY <3>2, <3>3, AddsOne DEF Finite
  <2> QED BY <2>1, <2>2, <2>3 DEF Next
<1> QED BY <1>2, <1>3 DEF Finite

(* The balance of a member is one of finite sets.                          *)
LEMMA FiniteParts ==
  ASSUME Finite, NEW m
  PROVE  /\ IsFiniteSet(PasskeysOf(m)) /\ IsFiniteSet(RegistrationsOf(m))
         /\ IsFiniteSet(Registering(m)) /\ IsFiniteSet(First(m)) /\ IsFiniteSet(SignedFor(m))
<1>1. PasskeysOf(m) \subseteq credentials /\ RegistrationsOf(m) \subseteq Pending
      /\ Registering(m) \subseteq Callers /\ SignedFor(m) \subseteq assertions
  BY DEF PasskeysOf, RegistrationsOf, Registering, SignedFor, Pending
<1>2. First(m) \subseteq {m} /\ IsFiniteSet({m})
  BY FS_Singleton DEF First
<1> QED BY <1>1, <1>2, FS_Subset, AccountAssumption DEF Finite

(***************************************************************************)
(* Every passkey of a member beyond its first, and every registration      *)
(* ceremony or call that may still become one, stands for an assertion of  *)
(* its own by a passkey the member had: begun or lost, a registration is   *)
(* moved and never copied, and one is added only by a first registration   *)
(* or by the store's acceptance of an assertion not accepted before.       *)
(***************************************************************************)
THEOREM FurtherPasskeysAlwaysSignedFor == Spec => []FurtherPasskeysSignedFor
<1> DEFINE Tally(m) == Balanced(PasskeysOf(m), RegistrationsOf(m), Registering(m),
                                First(m), SignedFor(m))
           TallyInv == Finite /\ \A m \in Members : Tally(m)
<1>1. AccountInit => TallyInv
  <2> SUFFICES ASSUME AccountInit PROVE TallyInv
    OBVIOUS
  <2>1. credentials = {} /\ Pending = {} /\ assertions = {} /\ \A c \in Callers : calls[c] = Idle
    BY DEF AccountInit, StoreInit, Pending
  <2>2. Finite
    BY <2>1, FS_EmptySet DEF Finite
  <2>3. ASSUME NEW m \in Members PROVE Tally(m)
    <3>1. /\ PasskeysOf(m) = {} /\ RegistrationsOf(m) = {} /\ Registering(m) = {}
          /\ First(m) = {} /\ SignedFor(m) = {}
      <4>1. drawn = {} /\ members = {}
        BY DEF AccountInit, StoreInit
      <4> QED BY <2>1, <4>1
              DEF PasskeysOf, RegistrationsOf, Registering, First, SignedFor, Pending, At, Idle
    <3> QED BY <3>1, FS_EmptySet DEF Balanced
  <2> QED BY <2>2, <2>3
<1>2. IInv /\ TallyInv /\ [Next]_accountVars => TallyInv'
  <2> SUFFICES ASSUME IInv, TallyInv, [Next]_accountVars PROVE TallyInv'
    OBVIOUS
  <2>1. CASE Next
    <3>1. Finite'
      BY <2>1, StaysFinite
    <3>2. ASSUME NEW m \in Members PROVE Tally(m)'
      <4>1. TallyStep(m)
        BY <2>1, StepTallies
      <4>2. /\ IsFiniteSet(PasskeysOf(m)) /\ IsFiniteSet(RegistrationsOf(m))
            /\ IsFiniteSet(Registering(m))
        BY FiniteParts
      <4>3. /\ IsFiniteSet(PasskeysOf(m)') /\ IsFiniteSet(First(m)')
            /\ IsFiniteSet(SignedFor(m)')
        <5>1. /\ PasskeysOf(m)' \subseteq credentials' /\ First(m)' \subseteq {m}
              /\ SignedFor(m)' \subseteq assertions'
          BY DEF PasskeysOf, First, SignedFor
        <5> QED BY <3>1, <5>1, FS_Subset, FS_Singleton DEF Finite
      <4> QED BY <3>1, <4>1, <4>2, <4>3, StaysBalanced DEF TallyStep
    <3> QED BY <3>1, <3>2
  <2>2. CASE UNCHANGED accountVars
    BY <2>2 DEF accountVars, Finite, Pending, Balanced, PasskeysOf, RegistrationsOf,
                Registering, First, SignedFor, At
  <2> QED BY <2>1, <2>2
<1>3. TallyInv => FurtherPasskeysSignedFor
  BY DEF FurtherPasskeysSignedFor, Balanced
<1> QED BY <1>1, <1>2, <1>3, Invariant, PTL DEF Spec

-----------------------------------------------------------------------------
(***************************************************************************)
(* What a segment does to what the two services share with the entry       *)
(* service: it inserts a passkey, moves a counter, or leaves the tables    *)
(* alone; it may retire the handle.                                        *)
(***************************************************************************)
AccountUses ==
    /\ \/ \E p \in Passkeys, m \in Members, n \in Counters : Insert(p, m, n)
       \/ \E p \in Passkeys, n \in Counters : UpdateCounter(p, n)
       \/ UNCHANGED storeVars
    /\ retired' \in {retired, TRUE}
    /\ UNCHANGED <<store, boots, held>>

LEMMA AccountCallUses ==
  ASSUME TypeOK, NEW c \in Callers, PasskeyStep(c) \/ VerifierStep(c)
  PROVE  AccountUses
<1>1. CASE UNCHANGED <<storeVars, retired, store, boots, held>>
  BY <1>1 DEF AccountUses
<1>2. CASE PasskeyInserted(c)
  <2>1. /\ calls[c].passkey \in Passkeys /\ calls[c].ch.member \in Members
        /\ calls[c].counter \in Counters
    BY <1>2, CallTyped, Locals DEF PasskeyInserted, At, RegistrationCeremony
  <2>2. Insert(calls[c].passkey, calls[c].ch.member, calls[c].counter) \/ UNCHANGED storeVars
    BY <1>2, Zenon DEF PasskeyInserted, Unacknowledged
  <2>3. retired' \in {retired, TRUE} /\ UNCHANGED <<store, boots, held>>
    BY <1>2 DEF PasskeyInserted, Unacknowledged, history
  <2> QED BY <2>1, <2>2, <2>3 DEF AccountUses
<1>3. CASE OwnerCounted(c)
  <2>1. calls[c].ch.credential.id \in Passkeys /\ calls[c].counter \in Counters
    BY <1>3, CallTyped, Locals DEF OwnerCounted, At, AdditionalCeremony, Credential
  <2>2. UpdateCounter(calls[c].ch.credential.id, calls[c].counter) \/ UNCHANGED storeVars
    BY <1>3, Zenon DEF OwnerCounted, Unacknowledged
  <2>3. retired' \in {retired, TRUE} /\ UNCHANGED <<store, boots, held>>
    BY <1>3 DEF OwnerCounted, Unacknowledged
  <2> QED BY <2>1, <2>2, <2>3 DEF AccountUses
<1>4. CASE LoginVerified(c)
  <2>1. calls[c].ch.credential.id \in Passkeys
    BY <1>4, CallTyped, Locals DEF LoginVerified, At, Login, Credential
  <2>2. \/ \E n \in Counters : UpdateCounter(calls[c].ch.credential.id, n)
        \/ UNCHANGED storeVars
    BY <1>4, Zenon DEF LoginVerified
  <2>3. UNCHANGED <<retired, store, boots, held>>
    BY <1>4 DEF LoginVerified
  <2> QED BY <2>1, <2>2, <2>3 DEF AccountUses
<1>5. CASE Authenticate(c)
  BY <1>1, <1>5 DEF Authenticate, history
<1>6. CASE PasskeyStep(c) /\ ~PasskeyInserted(c) /\ ~OwnerCounted(c)
  BY <1>1, <1>6
     DEF PasskeyStep, BeginRegistration, OptionsMade, FinishRegistration,
         RegistrationVerified, BeginAdditionalRegistration, PasskeyFound,
         AuthorizeAdditionalRegistration, OwnerVerified, history
<1> QED BY <1>2, <1>3, <1>4, <1>5, <1>6 DEF VerifierStep

(* A login is verified only after a presentation, and an admission signed  *)
(* only for a login being verified.                                        *)
LEMMA GrantsPresented ==
  ASSUME TypeOK, NEW c \in Callers, PasskeyStep(c) \/ VerifierStep(c)
  PROVE  /\ \A d \in Callers : calls'[d].pc = "verifyLogin" =>
               \/ calls'[d] = calls[d]
               \/ calls'[d].ch \in Login /\ Presentable(calls'[d].ch)
         /\ \A g \in grants' \ grants : \E d \in Callers :
               /\ At(d, "verifyLogin") /\ g.member = calls[d].ch.credential.member
               /\ g.expiresAt = calls[d].ch.grantExpiresAt
<1>1. PICK x \in Call : Goto(c, x)
  BY CallStep DEF Segment, AccountStep
<1>2. calls'[c] = x /\ \A d \in Callers \ {c} : calls'[d] = calls[d]
  BY <1>1 DEF Goto, TypeOK
<1>3. CASE Authenticate(c)
  <2>1. PICK ch \in logins :
           \/ Presentable(ch) /\ Goto(c, [pc |-> "verifyLogin", ch |-> ch])
           \/ Return(c)
    BY <1>3 DEF Authenticate
  <2>2. x.pc = "verifyLogin" => x.ch = ch /\ Presentable(ch)
    <3>1. CASE Return(c)
      BY <1>2, <3>1 DEF Return, Goto, Idle, TypeOK
    <3>2. CASE Presentable(ch) /\ Goto(c, [pc |-> "verifyLogin", ch |-> ch])
      BY <1>2, <3>2 DEF Goto, TypeOK
    <3> QED BY <2>1, <3>1, <3>2
  <2>3. ch \in Login /\ UNCHANGED grants
    BY <1>3 DEF Authenticate, TypeOK, history
  <2> QED BY <1>2, <2>2, <2>3
<1>4. CASE LoginVerified(c)
  <2>1. x.pc # "verifyLogin"
    BY <1>2, <1>4, Elsewhere
  <2>2. At(c, "verifyLogin")
    BY <1>4 DEF LoginVerified
  <2>3. \A g \in grants' \ grants : /\ g.member = calls[c].ch.credential.member
                                    /\ g.expiresAt = calls[c].ch.grantExpiresAt
    BY <1>4 DEF LoginVerified
  <2> QED BY <1>2, <2>1, <2>2, <2>3
<1>5. CASE PasskeyStep(c)
  <2>1. x.pc # "verifyLogin"
    BY <1>2, <1>5, Elsewhere
  <2>2. UNCHANGED grants
    BY <1>5
       DEF PasskeyStep, BeginRegistration, OptionsMade, FinishRegistration,
           RegistrationVerified, PasskeyInserted, BeginAdditionalRegistration, PasskeyFound,
           AuthorizeAdditionalRegistration, OwnerVerified, OwnerCounted, history
  <2> QED BY <1>2, <2>1, <2>2
<1> QED BY <1>3, <1>4, <1>5 DEF VerifierStep

-----------------------------------------------------------------------------
(***************************************************************************)
(* Where a segment takes a call: to the store only while the handle is     *)
(* usable, to the verification of a login only from a pending one; and the *)
(* tables change only when a call comes back from the store, or when a     *)
(* login is verified.                                                      *)
(***************************************************************************)
Heads(c) ==
    /\ \A d \in Callers \ {c} : calls'[d] = calls[d]
    /\ calls'[c].pc \in AtStore => calls'[c].pc = calls[c].pc \/ Usable
    /\ calls'[c].pc = "verifyLogin" => calls[c].pc = "verifyLogin" \/ logins # {}
    /\ \/ UNCHANGED <<spends, members, credentials>>
       \/ calls[c].pc = "verifyLogin"
       \/ calls[c].pc \in AtStore /\ calls'[c].pc \notin AtStore

LEMMA CallHeads ==
  ASSUME TypeOK, NEW c \in Callers, PasskeyStep(c) \/ VerifierStep(c)
  PROVE  Heads(c)
<1> USE DEF TypeOK, At, Goto, Return, Idle, AtStore, Heads, storeVars
<1>1. CASE BeginRegistration(c)
  BY <1>1 DEF BeginRegistration
<1>2. CASE OptionsMade(c)
  BY <1>2 DEF OptionsMade
<1>3. CASE FinishRegistration(c)
  BY <1>3 DEF FinishRegistration
<1>4. CASE RegistrationVerified(c)
  BY <1>4 DEF RegistrationVerified
<1>5. CASE PasskeyInserted(c)
  <2>1. calls[c].pc = "insertPasskey"
    BY <1>5 DEF PasskeyInserted
  <2>2. Return(c)
    BY <1>5, Zenon DEF PasskeyInserted, Unacknowledged
  <2> QED BY <2>1, <2>2
<1>6. CASE BeginAdditionalRegistration(c)
  BY <1>6 DEF BeginAdditionalRegistration
<1>7. CASE PasskeyFound(c)
  BY <1>7 DEF PasskeyFound
<1>8. CASE AuthorizeAdditionalRegistration(c)
  BY <1>8 DEF AuthorizeAdditionalRegistration
<1>9. CASE OwnerVerified(c)
  BY <1>9 DEF OwnerVerified
<1>10. CASE OwnerCounted(c)
  <2>1. calls[c].pc = "countOwner"
    BY <1>10 DEF OwnerCounted
  <2>2. Return(c) \/ Goto(c, [pc |-> "makeOptions", member |-> calls[c].ch.credential.member])
    BY <1>10, Zenon DEF OwnerCounted, Unacknowledged
  <2> QED BY <2>1, <2>2
<1>11. CASE Authenticate(c)
  BY <1>11 DEF Authenticate
<1>12. CASE LoginVerified(c)
  <2>1. calls[c].pc = "verifyLogin"
    BY <1>12 DEF LoginVerified
  <2>2. Return(c)
    BY <1>12, Zenon DEF LoginVerified
  <2> QED BY <2>1, <2>2
<1> QED BY <1>1, <1>2, <1>3, <1>4, <1>5, <1>6, <1>7, <1>8, <1>9, <1>10, <1>11, <1>12
        DEF PasskeyStep, VerifierStep

(* Only a Turso handle is ever retired, and the verifier never runs on one. *)
SyncOnly ==
    /\ retired => store = "turso"
    /\ store = "turso" => logins = {} /\ \A c \in Callers : calls[c].pc # "verifyLogin"

LEMMA SyncOnlyKept ==
  ASSUME TypeOK, SyncOnly, [Next]_accountVars
  PROVE  SyncOnly'
<1>1. CASE UNCHANGED <<store, logins, calls>> /\ (retired' => retired \/ store = "turso")
  BY <1>1 DEF SyncOnly
<1>2. CASE Around
  <2>1. CASE Restart
    BY <2>1 DEF Restart, SyncOnly, Idle
  <2>2. CASE EntryWrites
    BY <1>1, <2>2 DEF EntryWrites
  <2>3. CASE Tick /\ UNCHANGED <<store, ceremonies, logins, calls, retired, tokens, boots, history>>
    BY <1>1, <2>3
  <2>4. CASE Hold
    BY <1>1, <2>4 DEF Hold
  <2> QED BY <1>2, <2>1, <2>2, <2>3, <2>4 DEF Around
<1>3. CASE Begin
  BY <1>3 DEF Begin, SyncOnly
<1>4. ASSUME NEW c \in Callers, PasskeyStep(c) \/ VerifierStep(c)
      PROVE  SyncOnly'
  <2>1. UNCHANGED store
    BY <1>4, AccountCallUses DEF AccountUses
  <2>2. retired' => retired \/ store = "turso"
    BY <1>4
       DEF PasskeyStep, BeginRegistration, OptionsMade, FinishRegistration,
           RegistrationVerified, PasskeyInserted, BeginAdditionalRegistration, PasskeyFound,
           AuthorizeAdditionalRegistration, OwnerVerified, OwnerCounted, Unacknowledged,
           VerifierStep, Authenticate, LoginVerified
  <2>3. logins' \subseteq logins
    BY <1>4
       DEF PasskeyStep, BeginRegistration, OptionsMade, FinishRegistration,
           RegistrationVerified, PasskeyInserted, BeginAdditionalRegistration, PasskeyFound,
           AuthorizeAdditionalRegistration, OwnerVerified, OwnerCounted,
           VerifierStep, Authenticate, LoginVerified
  <2> QED BY <1>4, <2>1, <2>2, <2>3, CallHeads DEF Heads, SyncOnly
<1>5. CASE UNCHANGED accountVars
  BY <1>1, <1>5 DEF accountVars
<1> QED BY <1>2, <1>3, <1>4, <1>5 DEF Next

LEMMA SyncOnlyInductive == Spec => []SyncOnly
<1>1. AccountInit => SyncOnly
  BY DEF AccountInit, SyncOnly, Idle
<1>2. IInv /\ SyncOnly /\ [Next]_accountVars => SyncOnly'
  BY SyncOnlyKept DEF IInv, Typed
<1> QED BY <1>1, <1>2, Invariant, PTL DEF Spec
=============================================================================
