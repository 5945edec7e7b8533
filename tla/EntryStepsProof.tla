---------------------------- MODULE EntryStepsProof ----------------------------
(***************************************************************************)
(* What every segment of a call of EntryService does to the parts of the   *)
(* state its session limit, its types and its tables depend on, for any    *)
(* callers, members, capacities and lifetimes: one lemma per action, all   *)
(* with the same conclusion, EntryStep.  EntryProof draws the theorems.    *)
(***************************************************************************)
EXTENDS EntryService, MembershipStoreProof

(* The times read before a transaction are not later than the clock.       *)
Timely(x) ==
    /\ x.pc = "commitMember" => x.at \in 1 .. clock
    /\ x.pc = "commitRebind" => x.cert.issuedAt \in 1 .. clock

(* There is a time, and no call keeps a later one. *)
Started == clock >= 1 /\ \A c \in Callers : Timely(calls[c])

-----------------------------------------------------------------------------
(* A step of one call, as far as the invariant is concerned: the call gets *)
(* to a well-typed state, keeping, taking or giving back its reservation,  *)
(* and only a call that gives one back may add a session.                  *)
Holds(x) == x.pc \in {"commitMember", "publishMember", "commitCounter", "publishLogin"}
MayBecome(x) == x \in Call /\ Timely(x)

MemoryTyped ==
    /\ pending \in SUBSET Challenge
    /\ sessions \in SUBSET Session
    /\ retired \in BOOLEAN
    /\ tokens \in Nat /\ boots \in Nat
    /\ issued \in SUBSET Certificate
    /\ offers \in SUBSET Offer
    /\ minted \in SUBSET [offer : Nat, member : Members, validUntil : Nat]

EntryStep(c) ==
    /\ \E x : /\ MayBecome(x) /\ Goto(c, x)
              /\ \/ /\ Holds(x) <=> Holds(calls[c])
                    /\ UNCHANGED reserved /\ sessions' \subseteq sessions
                 \/ /\ ~Holds(calls[c]) /\ Holds(x) /\ reserved' = reserved + 1
                    /\ sessions' \subseteq sessions /\ RoomForSession(sessions')
                 \/ /\ Holds(calls[c]) /\ ~Holds(x) /\ reserved' = reserved - 1
                    /\ \E s : sessions' \subseteq sessions \cup {s}
    /\ MemoryTyped'
    /\ [StoreNext]_storeVars /\ UNCHANGED clock

(* The locals of a call are those of the await it is at. *)
LEMMA Locals ==
  ASSUME NEW x \in Call
  PROVE  /\ x.pc \in {"checkDevice", "lookUpMember", "draftChallenge"} =>
              x \in [pc : {"checkDevice", "lookUpMember", "draftChallenge"},
                     auth : Authorizations, voucher : Vouchers]
         /\ x.pc = "verifyPasskey" => x \in [pc : {"verifyPasskey"}, ch : RegistrationChallenge]
         /\ x.pc = "offerWallet" =>
              x \in [pc : {"offerWallet"}, ch : RegistrationChallenge, passkey : Passkeys]
         /\ x.pc = "verifyWallet" => x \in [pc : {"verifyWallet"}, ch : WalletChallenge]
         /\ x.pc = "verifyVoucher" =>
              x \in [pc : {"verifyVoucher"}, ch : WalletChallenge, counter : Counters]
         /\ x.pc = "commitMember" =>
              x \in [pc : {"commitMember"}, ch : WalletChallenge, counter : Counters, at : Nat]
         /\ x.pc = "publishMember" =>
              x \in [pc : {"publishMember"}, ch : WalletChallenge, ok : BOOLEAN]
         /\ x.pc = "readPasskey" =>
              x \in [pc : {"readPasskey"}, ch : LoginChallenge, passkey : Passkeys]
         /\ x.pc \in {"foundPasskey", "verifyLogin"} =>
              x \in [pc : {"foundPasskey", "verifyLogin"}, ch : LoginChallenge,
                     passkey : Passkeys, member : Members]
         /\ x.pc = "commitCounter" =>
              x \in [pc : {"commitCounter"}, ch : LoginChallenge, passkey : Passkeys,
                     member : Members, counter : Counters]
         /\ x.pc = "publishLogin" =>
              x \in [pc : {"publishLogin"}, ch : LoginChallenge, passkey : Passkeys,
                     member : Members, counter : Counters, ok : BOOLEAN]
BY DEF Call, RegistrationCall, LoginCall, MemberCall, CredentialCall, Idle

(* The same for the operations of a member and for credentials. *)
LEMMA MemberLocals ==
  ASSUME NEW x \in Call
  PROVE  /\ x.pc \in {"checkRebind", "readMember"} =>
              x \in [pc : {"checkRebind", "readMember"}, session : Session,
                     auth : Authorizations]
         /\ x.pc = "foundMember" =>
              x \in [pc : {"foundMember"}, session : Session, auth : Authorizations,
                     until : SUBSET Nat]
         /\ x.pc = "commitRebind" =>
              x \in [pc : {"commitRebind"}, session : Session, cert : Certificate]
         /\ x.pc = "publishRebind" =>
              x \in [pc : {"publishRebind"}, cert : Certificate, ok : BOOLEAN]
         /\ x.pc = "readOwner" => x \in [pc : {"readOwner"}, session : Session]
         /\ x.pc = "foundOwner" =>
              x \in [pc : {"foundOwner"}, session : Session, until : SUBSET Nat]
         /\ x.pc \in {"offerActor", "offerMember"} =>
              x \in [pc : {"offerActor", "offerMember"}, actor : Actor]
         /\ x.pc \in {"offerActorFound", "offerMemberFound"} =>
              x \in [pc : {"offerActorFound", "offerMemberFound"}, actor : Actor,
                     row : SUBSET (Vouchers \X Nat)]
         /\ x.pc \in {"issueActor", "issueMember"} =>
              x \in [pc : {"issueActor", "issueMember"}, actor : Actor, offer : Offer]
         /\ x.pc \in {"issueActorFound", "issueMemberFound"} =>
              x \in [pc : {"issueActorFound", "issueMemberFound"}, actor : Actor,
                     offer : Offer, row : SUBSET (Vouchers \X Nat)]
         /\ x.pc = "mint" =>
              x \in [pc : {"mint"}, actor : Actor, offer : Offer, validUntil : Nat]
BY DEF Call, RegistrationCall, LoginCall, MemberCall, CredentialCall, Idle

(* A call may always return. *)
LEMMA IdleIsGood == MayBecome(Idle) /\ ~Holds(Idle)
BY DEF MayBecome, Call, Timely, Holds, Idle

(* What most segments are: nothing but the call itself changes. *)
LEMMA PlainStep ==
  ASSUME TypeOK, NEW c \in Callers, NEW x, MayBecome(x), Goto(c, x),
         Holds(x) <=> Holds(calls[c]),
         UNCHANGED <<storeVars, memory, retired, tokens, boots, issued, issuance>>
  PROVE  EntryStep(c)
<1>1. UNCHANGED <<pending, sessions, reserved, retired, tokens, boots, issued, offers, minted>>
  BY DEF memory, issuance
<1>2. MemoryTyped'
  BY <1>1 DEF MemoryTyped, TypeOK
<1>3. [StoreNext]_storeVars /\ UNCHANGED clock
  BY DEF storeVars
<1> QED BY <1>1, <1>2, <1>3 DEF EntryStep

(* A call that awaits nothing with a reservation may give up. *)
LEMMA GivesUp ==
  ASSUME TypeOK, NEW c \in Callers, Return(c), ~Holds(calls[c]),
         UNCHANGED <<storeVars, memory, retired, tokens, boots, issued, issuance>>
  PROVE  EntryStep(c)
BY IdleIsGood, PlainStep DEF Return

(* The states of a call in which no time is kept. *)
LEMMA Becomes ==
  ASSUME NEW x \in RegistrationCall \cup LoginCall \cup MemberCall \cup CredentialCall,
         x.pc \notin {"commitMember", "commitRebind"}
  PROVE  MayBecome(x)
BY DEF MayBecome, Call, Timely

(* What TypeOK says of the call in slot c. *)
LEMMA CallTyped ==
  ASSUME TypeOK, NEW c \in Callers
  PROVE  calls[c] \in Call
BY DEF TypeOK

-----------------------------------------------------------------------------
(* Registration. *)

(* beginRegistration starts with a device authorization that has not expired. *)
LEMMA BeginRegistrationStep ==
  ASSUME TypeOK, NEW c \in Callers, BeginRegistration(c)
  PROVE  EntryStep(c)
<1>1. PICK auth \in Authorizations, v \in Vouchers :
        Goto(c, [pc |-> "checkDevice", auth |-> auth, voucher |-> v])
  BY DEF BeginRegistration
<1> DEFINE x == [pc |-> "checkDevice", auth |-> auth, voucher |-> v]
<1>2. MayBecome(x) /\ ~Holds(x)
  BY Becomes DEF RegistrationCall, Holds
<1>3. ~Holds(calls[c])
  BY DEF BeginRegistration, At, Holds
<1> QED BY <1>1, <1>2, <1>3, PlainStep DEF BeginRegistration

(* The bridge has answered on the device. *)
LEMMA DeviceCheckedStep ==
  ASSUME TypeOK, NEW c \in Callers, DeviceChecked(c)
  PROVE  EntryStep(c)
<1> DEFINE x == [calls[c] EXCEPT !.pc = "lookUpMember"]
<1>1. ~Holds(calls[c])
  BY DEF DeviceChecked, At, Holds
<1>2. x \in RegistrationCall /\ x.pc = "lookUpMember"
  BY CallTyped, Locals DEF DeviceChecked, At, RegistrationCall
<1>3. MayBecome(x) /\ ~Holds(x)
  BY <1>2, Becomes DEF Holds
<1> QED BY <1>1, <1>3, PlainStep, GivesUp DEF DeviceChecked

(* The store has said whether the member exists. *)
LEMMA MemberLookedUpStep ==
  ASSUME TypeOK, NEW c \in Callers, MemberLookedUp(c)
  PROVE  EntryStep(c)
<1> DEFINE x == [calls[c] EXCEPT !.pc = "draftChallenge"]
<1>1. ~Holds(calls[c])
  BY DEF MemberLookedUp, At, Holds
<1>2. x \in RegistrationCall /\ x.pc = "draftChallenge"
  BY CallTyped, Locals DEF MemberLookedUp, At, RegistrationCall
<1>3. MayBecome(x) /\ ~Holds(x)
  BY <1>2, Becomes DEF Holds
<1> QED BY <1>1, <1>3, PlainStep, GivesUp DEF MemberLookedUp

(* The clock, the ids and the lifetimes are natural numbers. *)
LEMMA Numbers ==
  ASSUME TypeOK
  PROVE  /\ clock \in Nat /\ tokens \in Nat /\ tokens + 1 \in Nat
         /\ clock + ChallengeLifetime \in Nat /\ clock + SessionLifetime \in Nat
         /\ clock + GrantLifetime \in Nat /\ clock + OfferLifetime \in Nat
         /\ clock + CredentialLifetime \in Nat
<1>1. clock \in Nat /\ tokens \in Nat
  BY DEF TypeOK, StoreTypeOK
<1> QED BY <1>1, EntryAssumption

(* Reserve keeps the challenges typed, given a typed draft. *)
LEMMA ReserveTyped ==
  ASSUME TypeOK, NEW ch, Reserve(ch),
         \A n, e \in Nat : [ch EXCEPT !.id = n, !.expiresAt = e] \in Challenge
  PROVE  /\ pending' \in SUBSET Challenge
         /\ sessions' \subseteq sessions
         /\ tokens' \in Nat
<1>1. tokens + 1 \in Nat /\ clock + ChallengeLifetime \in Nat
  BY Numbers, Zenon
<1>2. Live(pending, clock) \subseteq Challenge
  BY DEF Live, TypeOK
<1>3. sessions' \subseteq sessions
  BY DEF Reserve, Live
<1>4. tokens' \in Nat
  BY <1>1 DEF Reserve, TypeOK
<1>5. pending' \subseteq Challenge
  BY <1>1, <1>2 DEF Reserve
<1> QED BY <1>3, <1>4, <1>5

(* The first challenge is stored, if there is room for it. *)
LEMMA ChallengeReservedStep ==
  ASSUME TypeOK, NEW c \in Callers, ChallengeReserved(c)
  PROVE  EntryStep(c)
<1> DEFINE draft == [id |-> 0, kind |-> "registration", auth |-> calls[c].auth,
                     voucher |-> calls[c].voucher, passkey |-> None, expiresAt |-> 0]
<1>1. calls[c].auth \in Authorizations /\ calls[c].voucher \in Vouchers
  BY CallTyped, Locals DEF ChallengeReserved, At
<1>2. \A n, e \in Nat : [draft EXCEPT !.id = n, !.expiresAt = e] \in Challenge
  BY <1>1 DEF Challenge, RegistrationChallenge
<1>3. /\ pending' \in SUBSET Challenge /\ sessions' \subseteq sessions /\ tokens' \in Nat
  <2>1. CASE Reserve(draft)
    BY <2>1, <1>2, ReserveTyped
  <2>2. CASE UNCHANGED <<pending, sessions, tokens>>
    BY <2>2 DEF TypeOK
  <2> QED BY <2>1, <2>2 DEF ChallengeReserved
<1>4. MemoryTyped'
  BY <1>3 DEF MemoryTyped, TypeOK, ChallengeReserved, issuance
<1>5. ~Holds(calls[c]) /\ Goto(c, Idle) /\ UNCHANGED reserved
  BY DEF ChallengeReserved, At, Holds, Return
<1>6. UNCHANGED storeVars
  BY DEF ChallengeReserved
<1> QED BY <1>3, <1>4, <1>5, <1>6, IdleIsGood DEF EntryStep, storeVars

(* The precommit takes the challenge out. *)
LEMMA PrecommitStep ==
  ASSUME TypeOK, NEW c \in Callers, Precommit(c)
  PROVE  EntryStep(c)
<1>1. PICK ch \in pending : /\ ch.kind = "registration" /\ Consume(ch)
                            /\ Goto(c, [pc |-> "verifyPasskey", ch |-> ch])
  BY DEF Precommit
<1> DEFINE x == [pc |-> "verifyPasskey", ch |-> ch]
<1>2. ch \in RegistrationChallenge
  BY <1>1 DEF TypeOK, Challenge, WalletChallenge, LoginChallenge
<1>3. MayBecome(x) /\ ~Holds(x)
  BY <1>2, Becomes DEF RegistrationCall, Holds
<1>4. ~Holds(calls[c]) /\ UNCHANGED <<storeVars, sessions, reserved>>
  BY DEF Precommit, At, Holds
<1>5. MemoryTyped'
  BY <1>1 DEF MemoryTyped, TypeOK, Precommit, Consume, issuance
<1> QED BY <1>1, <1>3, <1>4, <1>5 DEF EntryStep, storeVars

(* The new passkey has been verified. *)
LEMMA PasskeyVerifiedStep ==
  ASSUME TypeOK, NEW c \in Callers, PasskeyVerified(c)
  PROVE  EntryStep(c)
<1>1. ~Holds(calls[c])
  BY DEF PasskeyVerified, At, Holds
<1>2. ASSUME NEW p \in Passkeys,
             Goto(c, [pc |-> "offerWallet", ch |-> calls[c].ch, passkey |-> p])
      PROVE  EntryStep(c)
  <2> DEFINE x == [pc |-> "offerWallet", ch |-> calls[c].ch, passkey |-> p]
  <2>1. calls[c].ch \in RegistrationChallenge
    BY CallTyped, Locals DEF PasskeyVerified, At
  <2>2. MayBecome(x) /\ ~Holds(x)
    BY <2>1, Becomes DEF RegistrationCall, Holds
  <2> QED BY <1>1, <1>2, <2>2, PlainStep DEF PasskeyVerified
<1> QED BY <1>1, <1>2, GivesUp DEF PasskeyVerified

(* The challenge goes back as one for the wallet. *)
LEMMA WalletOfferedStep ==
  ASSUME TypeOK, NEW c \in Callers, WalletOffered(c)
  PROVE  EntryStep(c)
<1> DEFINE ch == calls[c].ch
           back == [ch EXCEPT !.kind = "registration-wallet",
                              !.passkey = calls[c].passkey]
<1>1. ch \in RegistrationChallenge /\ calls[c].passkey \in Passkeys
  BY CallTyped, Locals DEF WalletOffered, At
<1>2. back \in Challenge
  BY <1>1 DEF Challenge, RegistrationChallenge, WalletChallenge
<1>3. pending' \subseteq Challenge
  BY <1>2 DEF WalletOffered, Live, TypeOK
<1>4. /\ ~Holds(calls[c]) /\ Goto(c, Idle)
      /\ UNCHANGED <<storeVars, reserved>> /\ sessions' \subseteq sessions
  BY DEF WalletOffered, At, Holds, Return, Live
<1>5. MemoryTyped'
  BY <1>3, <1>4 DEF MemoryTyped, TypeOK, WalletOffered, issuance
<1> QED BY <1>4, <1>5, IdleIsGood DEF EntryStep, storeVars

(* finishRegistration takes the wallet's challenge out. *)
LEMMA FinishRegistrationStep ==
  ASSUME TypeOK, NEW c \in Callers, FinishRegistration(c)
  PROVE  EntryStep(c)
<1>1. PICK ch \in pending :
        /\ ch.kind = "registration-wallet" /\ Consume(ch)
        /\ Goto(c, [pc |-> "verifyWallet", ch |-> ch]) \/ Return(c)
  BY DEF FinishRegistration
<1> DEFINE x == [pc |-> "verifyWallet", ch |-> ch]
<1>2. ch \in WalletChallenge
  BY <1>1 DEF TypeOK, Challenge, RegistrationChallenge, LoginChallenge
<1>3. MayBecome(x) /\ ~Holds(x)
  BY <1>2, Becomes DEF RegistrationCall, Holds
<1>4. ~Holds(calls[c]) /\ UNCHANGED <<storeVars, sessions, reserved>>
  BY DEF FinishRegistration, At, Holds
<1>5. MemoryTyped'
  BY <1>1 DEF MemoryTyped, TypeOK, FinishRegistration, Consume, issuance
<1> QED BY <1>1, <1>3, <1>4, <1>5, IdleIsGood DEF EntryStep, storeVars, Return

(* The wallet's response has been verified. *)
LEMMA WalletVerifiedStep ==
  ASSUME TypeOK, NEW c \in Callers, WalletVerified(c)
  PROVE  EntryStep(c)
<1>1. ~Holds(calls[c])
  BY DEF WalletVerified, At, Holds
<1>2. ASSUME NEW n \in Counters,
             Goto(c, [pc |-> "verifyVoucher", ch |-> calls[c].ch, counter |-> n])
      PROVE  EntryStep(c)
  <2> DEFINE x == [pc |-> "verifyVoucher", ch |-> calls[c].ch, counter |-> n]
  <2>1. calls[c].ch \in WalletChallenge
    BY CallTyped, Locals DEF WalletVerified, At
  <2>2. MayBecome(x) /\ ~Holds(x)
    BY <2>1, Becomes DEF RegistrationCall, Holds
  <2> QED BY <1>1, <1>2, <2>2, PlainStep DEF WalletVerified
<1> QED BY <1>1, <1>2, GivesUp DEF WalletVerified

(* A pruned and possibly extended set of sessions stays typed. *)
LEMMA NewSessionTyped ==
  ASSUME TypeOK, NEW m \in Members, NEW p \in Passkeys, NewSession(m, p)
  PROVE  /\ pending' \in SUBSET Challenge
         /\ sessions' \in SUBSET Session
         /\ \E s : sessions' \subseteq sessions \cup {s}
         /\ tokens' \in Nat
<1> DEFINE s == [id |-> tokens + 1, member |-> m, passkey |-> p,
                 expiresAt |-> clock + SessionLifetime]
<1>1. s \in Session
  BY Numbers DEF Session
<1>2. pending' \in SUBSET Challenge
  BY DEF NewSession, Live, TypeOK
<1>3. sessions' \subseteq Live(sessions, clock) \cup {s} /\ tokens' \in {tokens, tokens + 1}
  BY Zenon DEF NewSession
<1>4. Live(sessions, clock) \subseteq sessions /\ sessions \subseteq Session
  BY DEF Live, TypeOK
<1> HIDE DEF s
<1>5. sessions' \in SUBSET Session /\ sessions' \subseteq sessions \cup {s}
  BY <1>1, <1>3, <1>4
<1> QED BY <1>2, <1>3, <1>5, Numbers

(* The end of a certificate is one of the times it is bounded by. *)
LEMMA CertificateTyped ==
  ASSUME TypeOK, NEW auth \in Authorizations, NEW until \in Nat
  PROVE  /\ CertificateFor(auth, until) \in Certificate
         /\ CertificateFor(auth, until).issuedAt = clock
         /\ CertificateFor(auth, until).member = auth.member
         /\ CertificateFor(auth, until).device = auth.device
<1> DEFINE g == clock + GrantLifetime
           ends == {g, until, auth.expiresAt}
           end == CHOOSE e \in ends : \A f \in ends : e <= f
<1>1. auth.expiresAt \in Nat /\ auth.member \in Members /\ auth.device \in Devices
  BY EntryAssumption DEF Authorization
<1>2. g \in Nat /\ clock \in Nat
  BY Numbers
<1> HIDE DEF g
<1>3. \E e \in ends : \A f \in ends : e <= f
  BY <1>1, <1>2
<1>4. end \in ends
  BY <1>3
<1>5. end \in Nat
  BY <1>1, <1>2, <1>4
<1>6. CertificateFor(auth, until) =
        [member |-> auth.member, device |-> auth.device, issuedAt |-> clock,
         expiresAt |-> end]
  BY DEF CertificateFor, g
<1> HIDE DEF end
<1> QED BY <1>1, <1>2, <1>5, <1>6 DEF Certificate

(* The voucher has been verified: a registration reserves its place here. *)
LEMMA VoucherVerifiedStep ==
  ASSUME TypeOK, Started, NEW c \in Callers, VoucherVerified(c)
  PROVE  EntryStep(c)
<1> DEFINE x == [pc |-> "commitMember", ch |-> calls[c].ch,
                 counter |-> calls[c].counter, at |-> clock]
<1>1. ~Holds(calls[c]) /\ UNCHANGED storeVars
  BY DEF VoucherVerified, At, Holds
<1>2. calls[c].ch \in WalletChallenge /\ calls[c].counter \in Counters
  BY CallTyped, Locals DEF VoucherVerified, At
<1>3. x \in Call
  BY <1>2, Numbers DEF RegistrationCall, Call
<1>4. MayBecome(x) /\ Holds(x)
  BY <1>3, Numbers DEF MayBecome, Timely, Holds, Started
<1>5. ASSUME Prune PROVE /\ MemoryTyped' /\ sessions' \subseteq sessions
  BY <1>5 DEF Prune, Live, MemoryTyped, TypeOK, VoucherVerified, issuance
<1>6. ASSUME Prune, RoomForSession(sessions'), reserved' = reserved + 1, Goto(c, x)
      PROVE  EntryStep(c)
  BY <1>1, <1>4, <1>5, <1>6 DEF EntryStep, storeVars
<1>7. ASSUME Prune, UNCHANGED reserved, Return(c)
      PROVE  EntryStep(c)
  BY <1>1, <1>5, <1>7, IdleIsGood DEF EntryStep, storeVars, Return
<1> HIDE DEF x
<1>8. CASE Return(c) /\ UNCHANGED memory
  BY <1>1, <1>8, GivesUp DEF VoucherVerified
<1> QED BY <1>6, <1>7, <1>8 DEF VoucherVerified, x

(* The registering transaction, with all of its outcomes. *)
LEMMA MemberCommittedStep ==
  ASSUME TypeOK, Started, NEW c \in Callers, MemberCommitted(c)
  PROVE  EntryStep(c)
<1> DEFINE ch == calls[c].ch
           y(ok) == [pc |-> "publishMember", ch |-> ch, ok |-> ok]
<1>1. Holds(calls[c]) /\ calls[c].pc = "commitMember"
  BY DEF MemberCommitted, At, Holds
<1>2. calls[c] \in [pc : {"commitMember"}, ch : WalletChallenge, counter : Counters, at : Nat]
  BY <1>1, CallTyped, Locals
<1>3. /\ ch \in WalletChallenge /\ calls[c].counter \in Counters
      /\ calls[c].at \in 1 .. clock
  BY <1>1, <1>2 DEF Started, Timely
<1>4. /\ ch.voucher \in Vouchers /\ ch.auth \in Authorizations /\ ch.passkey \in Passkeys
  BY <1>3 DEF WalletChallenge
<1>5. ch.auth.member \in Members /\ ch.auth.device \in Devices
  BY <1>4, EntryAssumption DEF Authorization
<1>6. \A ok \in BOOLEAN : MayBecome(y(ok)) /\ Holds(y(ok))
  BY <1>3, Becomes DEF RegistrationCall, Holds
<1>7. Redemption(calls[c]) = [voucher |-> ch.voucher, member |-> ch.auth.member,
                              device |-> ch.auth.device, passkey |-> ch.passkey,
                              counter |-> calls[c].counter, at |-> calls[c].at]
  BY DEF Redemption
<1> HIDE DEF ch
<1>8. RegisterWithVoucher(Redemption(calls[c])) => StoreNext /\ UNCHANGED clock
  <2>1. RegisterWithVoucher(Redemption(calls[c])) => StoreNext
    <3> DEFINE v == ch.voucher  m == ch.auth.member  d == ch.auth.device
               p == ch.passkey  n == calls[c].counter  at == calls[c].at
    <3>1. /\ v \in Vouchers /\ m \in Members /\ d \in Devices /\ p \in Passkeys
          /\ n \in Counters /\ at \in 1 .. clock
      BY <1>3, <1>4, <1>5
    <3>2. Redemption(calls[c]) = [voucher |-> v, member |-> m, device |-> d,
                                  passkey |-> p, counter |-> n, at |-> at]
      BY <1>7
    <3> HIDE DEF v, m, d, p, n, at
    <3> QED BY <3>1, <3>2, Zenon DEF StoreNext
  <2> QED BY <2>1 DEF RegisterWithVoucher
<1>9. /\ [StoreNext]_storeVars /\ UNCHANGED clock
      /\ \E ok \in BOOLEAN : Goto(c, y(ok))
      /\ retired' \in BOOLEAN
  <2>1. retired \in BOOLEAN
    BY DEF TypeOK
  <2> QED BY <1>8, <2>1 DEF MemberCommitted, Transaction, ch, storeVars
<1>10. MemoryTyped' /\ UNCHANGED <<reserved, sessions>>
  BY <1>9 DEF MemoryTyped, TypeOK, MemberCommitted, memory, issuance
<1> QED BY <1>1, <1>6, <1>9, <1>10 DEF EntryStep

(* The registration is answered and its place given back. *)
LEMMA MemberPublishedStep ==
  ASSUME TypeOK, NEW c \in Callers, MemberPublished(c)
  PROVE  EntryStep(c)
<1> DEFINE ch == calls[c].ch
<1>1. Holds(calls[c]) /\ UNCHANGED storeVars /\ Goto(c, Idle) /\ reserved' = reserved - 1
  BY DEF MemberPublished, At, Holds, Return
<1>2. ch \in WalletChallenge
  BY CallTyped, Locals DEF MemberPublished, At
<1>3. /\ ch.voucher \in Vouchers /\ ch.auth \in Authorizations /\ ch.passkey \in Passkeys
  BY <1>2 DEF WalletChallenge
<1>4. ch.auth.member \in Members /\ VoucherExpiry[ch.voucher] \in Nat
  BY <1>3, EntryAssumption, StoreAssumption DEF Authorization
<1> DEFINE cert == CertificateFor(ch.auth, VoucherExpiry[ch.voucher])
<1>5. cert \in Certificate
  BY <1>3, <1>4, CertificateTyped
<1> HIDE DEF cert
<1>6. CASE NewSession(ch.auth.member, ch.passkey) /\ issued' \in {issued, issued \cup {cert}}
  <2>1. /\ pending' \in SUBSET Challenge /\ sessions' \in SUBSET Session
        /\ tokens' \in Nat /\ \E s : sessions' \subseteq sessions \cup {s}
    BY <1>3, <1>4, <1>6, NewSessionTyped
  <2>2. MemoryTyped'
    BY <1>5, <1>6, <2>1 DEF MemoryTyped, TypeOK, MemberPublished, issuance
  <2> QED BY <1>1, <2>1, <2>2, IdleIsGood DEF EntryStep, storeVars
<1>7. CASE UNCHANGED <<pending, sessions, tokens, issued>>
  <2>1. MemoryTyped'
    BY <1>7 DEF MemoryTyped, TypeOK, MemberPublished, issuance
  <2>2. \E s : sessions' \subseteq sessions \cup {s}
    BY <1>7
  <2> QED BY <1>1, <2>1, <2>2, IdleIsGood DEF EntryStep, storeVars
<1> QED BY <1>6, <1>7 DEF MemberPublished, cert

(* Registration as a whole. *)
LEMMA RegistrationStep ==
  ASSUME TypeOK, Started, NEW c \in Callers,
         RegistrationBegins(c) \/ RegistrationContinues(c)
  PROVE  EntryStep(c)
BY BeginRegistrationStep, PrecommitStep, FinishRegistrationStep, DeviceCheckedStep,
   MemberLookedUpStep, ChallengeReservedStep, PasskeyVerifiedStep, WalletOfferedStep,
   WalletVerifiedStep, VoucherVerifiedStep, MemberCommittedStep, MemberPublishedStep, Zenon
   DEF RegistrationBegins, RegistrationContinues

-----------------------------------------------------------------------------
(* Login. *)

(* beginAuthentication is a single segment: the call stays idle. *)
LEMMA BeginAuthenticationStep ==
  ASSUME TypeOK, Started, NEW c \in Callers, BeginAuthentication(c)
  PROVE  EntryStep(c)
<1> DEFINE draft == [id |-> 0, kind |-> "authentication", auth |-> None,
                     voucher |-> None, passkey |-> None, expiresAt |-> 0]
<1>1. \A n, e \in Nat : [draft EXCEPT !.id = n, !.expiresAt = e] \in Challenge
  BY DEF Challenge, LoginChallenge
<1>2. Reserve(draft)
  BY DEF BeginAuthentication
<1> HIDE DEF draft
<1>3. pending' \in SUBSET Challenge /\ sessions' \subseteq sessions /\ tokens' \in Nat
  BY <1>1, <1>2, ReserveTyped
<1>4. MemoryTyped'
  BY <1>3 DEF MemoryTyped, TypeOK, BeginAuthentication, issuance
<1>5. Goto(c, Idle) /\ UNCHANGED <<storeVars, reserved>> /\ ~Holds(calls[c])
  <2>1. calls[c] \in Call /\ calls[c].pc = "idle" /\ calls' = calls
    BY CallTyped DEF BeginAuthentication, At
  <2>2. calls[c] = Idle
    BY <2>1 DEF Call, Idle, RegistrationCall, LoginCall, MemberCall, CredentialCall
  <2>3. Goto(c, Idle)
    BY <2>1, <2>2 DEF Goto, TypeOK
  <2> QED BY <2>1, <2>3 DEF BeginAuthentication, Holds
<1> QED BY <1>3, <1>4, <1>5, IdleIsGood DEF EntryStep, storeVars

(* finishAuthentication takes the challenge out. *)
LEMMA FinishAuthenticationStep ==
  ASSUME TypeOK, NEW c \in Callers, FinishAuthentication(c)
  PROVE  EntryStep(c)
<1>1. PICK ch \in pending :
        /\ ch.kind = "authentication" /\ Consume(ch)
        /\ \/ \E p \in Passkeys : Goto(c, [pc |-> "readPasskey", ch |-> ch, passkey |-> p])
           \/ Return(c)
  BY DEF FinishAuthentication
<1>2. ch \in LoginChallenge
  BY <1>1 DEF TypeOK, Challenge, RegistrationChallenge, WalletChallenge
<1>3. ~Holds(calls[c]) /\ UNCHANGED <<storeVars, sessions, reserved>>
  BY DEF FinishAuthentication, At, Holds
<1>4. MemoryTyped'
  BY <1>1 DEF MemoryTyped, TypeOK, FinishAuthentication, Consume, issuance
<1>5. ASSUME NEW p \in Passkeys, Goto(c, [pc |-> "readPasskey", ch |-> ch, passkey |-> p])
      PROVE  EntryStep(c)
  <2> DEFINE x == [pc |-> "readPasskey", ch |-> ch, passkey |-> p]
  <2>1. MayBecome(x) /\ ~Holds(x)
    BY <1>2, Becomes DEF LoginCall, Holds
  <2> QED BY <1>3, <1>4, <1>5, <2>1 DEF EntryStep, storeVars
<1>6. CASE Return(c)
  BY <1>3, <1>4, <1>6, IdleIsGood DEF EntryStep, storeVars, Return
<1> QED BY <1>1, <1>5, <1>6

(* The store has answered with the passkey's row. *)
LEMMA PasskeyReadStep ==
  ASSUME TypeOK, NEW c \in Callers, PasskeyRead(c)
  PROVE  EntryStep(c)
<1>1. ~Holds(calls[c])
  BY DEF PasskeyRead, At, Holds
<1>2. ASSUME NEW r \in credentials,
             Goto(c, [pc |-> "foundPasskey", ch |-> calls[c].ch, passkey |-> r.id,
                      member |-> r.member])
      PROVE  EntryStep(c)
  <2> DEFINE x == [pc |-> "foundPasskey", ch |-> calls[c].ch, passkey |-> r.id,
                   member |-> r.member]
  <2>1. calls[c].ch \in LoginChallenge
    BY CallTyped, Locals DEF PasskeyRead, At
  <2>2. r.id \in Passkeys /\ r.member \in Members
    BY DEF TypeOK, StoreTypeOK, Credential
  <2>3. MayBecome(x) /\ ~Holds(x)
    BY <2>1, <2>2, Becomes DEF LoginCall, Holds
  <2> QED BY <1>1, <1>2, <2>3, PlainStep DEF PasskeyRead
<1> QED BY <1>1, <1>2, GivesUp DEF PasskeyRead

(* The call gives up early when sessions are full. *)
LEMMA PasskeyFoundStep ==
  ASSUME TypeOK, NEW c \in Callers, PasskeyFound(c)
  PROVE  EntryStep(c)
<1> DEFINE x == [calls[c] EXCEPT !.pc = "verifyLogin"]
<1>1. ~Holds(calls[c]) /\ UNCHANGED <<storeVars, reserved>>
  BY DEF PasskeyFound, At, Holds
<1>2. x \in LoginCall /\ x.pc = "verifyLogin"
  BY CallTyped, Locals DEF PasskeyFound, At, LoginCall
<1>3. MayBecome(x) /\ ~Holds(x)
  BY <1>2, Becomes DEF Holds
<1>4. MemoryTyped' /\ sessions' \subseteq sessions
  BY DEF Prune, Live, MemoryTyped, TypeOK, PasskeyFound, issuance
<1> HIDE DEF x
<1>5. CASE Goto(c, x)
  BY <1>1, <1>3, <1>4, <1>5 DEF EntryStep, storeVars
<1>6. CASE Return(c)
  BY <1>1, <1>4, <1>6, IdleIsGood DEF EntryStep, storeVars, Return
<1> QED BY <1>5, <1>6 DEF PasskeyFound, x

(* The assertion has been verified: a login reserves its place here. *)
LEMMA LoginVerifiedStep ==
  ASSUME TypeOK, NEW c \in Callers, LoginVerified(c)
  PROVE  EntryStep(c)
<1> DEFINE x(n) == [pc |-> "commitCounter", ch |-> calls[c].ch,
                    passkey |-> calls[c].passkey, member |-> calls[c].member,
                    counter |-> n]
<1>1. ~Holds(calls[c]) /\ UNCHANGED storeVars
  BY DEF LoginVerified, At, Holds
<1>2. /\ calls[c].ch \in LoginChallenge /\ calls[c].passkey \in Passkeys
      /\ calls[c].member \in Members
  BY CallTyped, Locals DEF LoginVerified, At
<1>3. ASSUME NEW n \in Counters PROVE MayBecome(x(n)) /\ Holds(x(n))
  BY <1>2, Becomes DEF LoginCall, Holds
<1>4. ASSUME Prune PROVE MemoryTyped' /\ sessions' \subseteq sessions
  BY <1>4 DEF Prune, Live, MemoryTyped, TypeOK, LoginVerified, issuance
<1>5. ASSUME NEW n \in Counters, Prune, RoomForSession(sessions'),
             reserved' = reserved + 1, Goto(c, x(n))
      PROVE  EntryStep(c)
  BY <1>1, <1>3, <1>4, <1>5 DEF EntryStep, storeVars
<1>6. ASSUME Prune, UNCHANGED reserved, Return(c)
      PROVE  EntryStep(c)
  BY <1>1, <1>4, <1>6, IdleIsGood DEF EntryStep, storeVars, Return
<1>7. CASE Return(c) /\ UNCHANGED memory
  BY <1>1, <1>7, GivesUp DEF LoginVerified
<1> QED BY <1>5, <1>6, <1>7 DEF LoginVerified

(* The transaction that advances the counter, with all of its outcomes. *)
LEMMA CounterCommittedStep ==
  ASSUME TypeOK, NEW c \in Callers, CounterCommitted(c)
  PROVE  EntryStep(c)
<1>1. Holds(calls[c]) /\ calls[c].pc = "commitCounter"
  BY DEF CounterCommitted, At, Holds
<1>2. /\ calls[c].ch \in LoginChallenge /\ calls[c].passkey \in Passkeys
      /\ calls[c].member \in Members /\ calls[c].counter \in Counters
  BY <1>1, CallTyped, Locals
<1>3. \A ok \in BOOLEAN : MayBecome(LoginAnswered(c, ok)) /\ Holds(LoginAnswered(c, ok))
  BY <1>2, Becomes DEF LoginCall, Holds, LoginAnswered
<1>4. UpdateCounter(calls[c].passkey, calls[c].counter) => StoreNext /\ UNCHANGED clock
  <2>1. UpdateCounter(calls[c].passkey, calls[c].counter) => StoreNext
    BY <1>2, Zenon DEF StoreNext
  <2> QED BY <2>1 DEF UpdateCounter
<1>5. /\ [StoreNext]_storeVars /\ UNCHANGED clock
      /\ \E ok \in BOOLEAN : Goto(c, LoginAnswered(c, ok))
      /\ retired' \in BOOLEAN
  <2>1. retired \in BOOLEAN
    BY DEF TypeOK
  <2> QED BY <1>4, <2>1 DEF CounterCommitted, Transaction, storeVars
<1>6. MemoryTyped' /\ UNCHANGED <<reserved, sessions>>
  BY <1>5 DEF MemoryTyped, TypeOK, CounterCommitted, memory, issuance
<1> QED BY <1>1, <1>3, <1>5, <1>6 DEF EntryStep

(* The login is answered and its place given back. *)
LEMMA LoginPublishedStep ==
  ASSUME TypeOK, NEW c \in Callers, LoginPublished(c)
  PROVE  EntryStep(c)
<1>1. Holds(calls[c]) /\ UNCHANGED storeVars /\ Goto(c, Idle) /\ reserved' = reserved - 1
  BY DEF LoginPublished, At, Holds, Return
<1>2. calls[c].passkey \in Passkeys /\ calls[c].member \in Members
  BY CallTyped, Locals DEF LoginPublished, At
<1>3. CASE NewSession(calls[c].member, calls[c].passkey)
  <2>1. /\ pending' \in SUBSET Challenge /\ sessions' \in SUBSET Session
        /\ tokens' \in Nat /\ \E s : sessions' \subseteq sessions \cup {s}
    BY <1>2, <1>3, NewSessionTyped
  <2>2. MemoryTyped'
    BY <2>1 DEF MemoryTyped, TypeOK, LoginPublished, issuance
  <2> QED BY <1>1, <2>1, <2>2, IdleIsGood DEF EntryStep, storeVars
<1>4. CASE UNCHANGED <<pending, sessions, tokens>>
  <2>1. MemoryTyped'
    BY <1>4 DEF MemoryTyped, TypeOK, LoginPublished, issuance
  <2>2. \E s : sessions' \subseteq sessions \cup {s}
    BY <1>4
  <2> QED BY <1>1, <2>1, <2>2, IdleIsGood DEF EntryStep, storeVars
<1> QED BY <1>3, <1>4 DEF LoginPublished

(* Login as a whole. *)
LEMMA LoginStep ==
  ASSUME TypeOK, Started, NEW c \in Callers, LoginBegins(c) \/ LoginContinues(c)
  PROVE  EntryStep(c)
BY BeginAuthenticationStep, FinishAuthenticationStep, PasskeyReadStep, PasskeyFoundStep,
   LoginVerifiedStep, CounterCommittedStep, LoginPublishedStep, Zenon
   DEF LoginBegins, LoginContinues

-----------------------------------------------------------------------------
(* The operations of a member. *)

(* What the store answers about a member's voucher is typed. *)
LEMMA ValiditiesTyped ==
  ASSUME TypeOK, NEW m
  PROVE  /\ ValidUntil(m) \in SUBSET Nat
         /\ Lookup(m) \in SUBSET (Vouchers \X Nat)
BY DEF ValidUntil, Lookup, TypeOK, StoreTypeOK, Spend

(* rebindDevice starts from a live session. *)
LEMMA RebindDeviceStep ==
  ASSUME TypeOK, NEW c \in Callers, RebindDevice(c)
  PROVE  EntryStep(c)
<1>1. PICK s \in sessions, auth \in Authorizations :
        Goto(c, [pc |-> "checkRebind", session |-> s, auth |-> auth])
  BY DEF RebindDevice
<1> DEFINE x == [pc |-> "checkRebind", session |-> s, auth |-> auth]
<1>2. s \in Session
  BY DEF TypeOK
<1>3. MayBecome(x) /\ ~Holds(x)
  BY <1>2, Becomes DEF MemberCall, Holds
<1>4. ~Holds(calls[c])
  BY DEF RebindDevice, At, Holds
<1> QED BY <1>1, <1>3, <1>4, PlainStep DEF RebindDevice

(* The bridge has answered on the new device. *)
LEMMA RebindCheckedStep ==
  ASSUME TypeOK, NEW c \in Callers, RebindChecked(c)
  PROVE  EntryStep(c)
<1> DEFINE x == [calls[c] EXCEPT !.pc = "readMember"]
<1>1. ~Holds(calls[c])
  BY DEF RebindChecked, At, Holds
<1>2. x \in MemberCall /\ x.pc = "readMember"
  BY CallTyped, MemberLocals DEF RebindChecked, At, MemberCall
<1>3. MayBecome(x) /\ ~Holds(x)
  BY <1>2, Becomes DEF Holds
<1> QED BY <1>1, <1>3, PlainStep, GivesUp DEF RebindChecked

(* The store has answered with the member's voucher. *)
LEMMA MemberReadStep ==
  ASSUME TypeOK, NEW c \in Callers, MemberRead(c)
  PROVE  EntryStep(c)
<1> DEFINE until == ValidUntil(calls[c].session.member)
           x == [pc |-> "foundMember", session |-> calls[c].session,
                 auth |-> calls[c].auth, until |-> until]
<1>1. ~Holds(calls[c])
  BY DEF MemberRead, At, Holds
<1>2. calls[c].session \in Session /\ calls[c].auth \in Authorizations
  BY CallTyped, MemberLocals DEF MemberRead, At
<1>3. until \in SUBSET Nat
  BY ValiditiesTyped
<1> HIDE DEF until
<1>4. MayBecome(x) /\ ~Holds(x)
  BY <1>2, <1>3, Becomes DEF MemberCall, Holds
<1> QED BY <1>1, <1>4, PlainStep, GivesUp DEF MemberRead, until

(* The certificate is signed, issued at the present time. *)
LEMMA MemberFoundStep ==
  ASSUME TypeOK, Started, NEW c \in Callers, MemberFound(c)
  PROVE  EntryStep(c)
<1>1. ~Holds(calls[c])
  BY DEF MemberFound, At, Holds
<1>2. /\ calls[c].session \in Session /\ calls[c].auth \in Authorizations
      /\ calls[c].until \in SUBSET Nat
  BY CallTyped, MemberLocals DEF MemberFound, At
<1>3. ASSUME NEW until \in calls[c].until,
             Goto(c, [pc |-> "commitRebind", session |-> calls[c].session,
                      cert |-> CertificateFor(calls[c].auth, until)])
      PROVE  EntryStep(c)
  <2> DEFINE cert == CertificateFor(calls[c].auth, until)
             x == [pc |-> "commitRebind", session |-> calls[c].session, cert |-> cert]
  <2>1. cert \in Certificate /\ cert.issuedAt = clock
    BY <1>2, CertificateTyped
  <2>2. clock \in 1 .. clock
    BY Numbers DEF Started
  <2>3. Goto(c, x)
    BY <1>3
  <2> HIDE DEF cert
  <2>4. x \in Call
    BY <1>2, <2>1 DEF Call, MemberCall
  <2>5. MayBecome(x) /\ ~Holds(x)
    BY <2>1, <2>2, <2>4 DEF MayBecome, Timely, Holds
  <2> QED BY <1>1, <2>3, <2>5, PlainStep DEF MemberFound
<1>4. CASE Return(c)
  BY <1>1, <1>4, GivesUp DEF MemberFound
<1> QED BY <1>3, <1>4, Zenon DEF MemberFound

(* The rebinding transaction, with all of its outcomes. *)
LEMMA RebindCommittedStep ==
  ASSUME TypeOK, Started, NEW c \in Callers, RebindCommitted(c)
  PROVE  EntryStep(c)
<1> DEFINE cert == calls[c].cert
           x == [pc |-> "publishRebind", cert |-> cert, ok |-> TRUE]
<1>1. ~Holds(calls[c]) /\ calls[c].pc = "commitRebind"
  BY DEF RebindCommitted, At, Holds
<1>2. cert \in Certificate
  BY <1>1, CallTyped, MemberLocals
<1>3. cert.member \in Members /\ cert.device \in Devices /\ cert.issuedAt \in 1 .. clock
  BY <1>1, <1>2 DEF Certificate, Started, Timely
<1>4. MayBecome(x) /\ ~Holds(x)
  BY <1>2, Becomes DEF MemberCall, Holds
<1>5. Rebind(cert.member, cert.device, cert.issuedAt) => StoreNext /\ UNCHANGED clock
  <2>1. Rebind(cert.member, cert.device, cert.issuedAt) => StoreNext
    BY <1>3, Zenon DEF StoreNext
  <2> QED BY <2>1 DEF Rebind
<1>6. /\ [StoreNext]_storeVars /\ UNCHANGED clock
      /\ Goto(c, x) \/ Goto(c, Idle)
      /\ retired' \in BOOLEAN
  <2>1. retired \in BOOLEAN
    BY DEF TypeOK
  <2> QED BY <1>5, <2>1 DEF RebindCommitted, Transaction, storeVars
<1>7. MemoryTyped' /\ UNCHANGED <<reserved, sessions>>
  BY <1>6 DEF MemoryTyped, TypeOK, RebindCommitted, memory, issuance
<1> HIDE DEF x
<1> QED BY <1>1, <1>4, <1>6, <1>7, IdleIsGood DEF EntryStep

(* The signed certificate is handed out. *)
LEMMA RebindPublishedStep ==
  ASSUME TypeOK, NEW c \in Callers, RebindPublished(c)
  PROVE  EntryStep(c)
<1>1. /\ ~Holds(calls[c]) /\ Goto(c, Idle)
      /\ UNCHANGED <<storeVars, sessions, reserved>>
  BY DEF RebindPublished, At, Holds, Return, memory
<1>2. calls[c].cert \in Certificate
  BY CallTyped, MemberLocals DEF RebindPublished, At
<1>3. MemoryTyped'
  BY <1>2 DEF MemoryTyped, TypeOK, RebindPublished, memory, issuance
<1> QED BY <1>1, <1>3, IdleIsGood DEF EntryStep, storeVars

(* authenticatedSession starts from a live session. *)
LEMMA AuthenticateSessionStep ==
  ASSUME TypeOK, NEW c \in Callers, AuthenticateSession(c)
  PROVE  EntryStep(c)
<1>1. PICK s \in sessions : Goto(c, [pc |-> "readOwner", session |-> s])
  BY DEF AuthenticateSession
<1> DEFINE x == [pc |-> "readOwner", session |-> s]
<1>2. s \in Session
  BY DEF TypeOK
<1>3. MayBecome(x) /\ ~Holds(x)
  BY <1>2, Becomes DEF MemberCall, Holds
<1>4. ~Holds(calls[c])
  BY DEF AuthenticateSession, At, Holds
<1> QED BY <1>1, <1>3, <1>4, PlainStep DEF AuthenticateSession

(* The store has answered with the owner's voucher. *)
LEMMA OwnerReadStep ==
  ASSUME TypeOK, NEW c \in Callers, OwnerRead(c)
  PROVE  EntryStep(c)
<1> DEFINE until == ValidUntil(calls[c].session.member)
           x == [pc |-> "foundOwner", session |-> calls[c].session, until |-> until]
<1>1. ~Holds(calls[c])
  BY DEF OwnerRead, At, Holds
<1>2. calls[c].session \in Session
  BY CallTyped, MemberLocals DEF OwnerRead, At
<1>3. until \in SUBSET Nat
  BY ValiditiesTyped
<1> HIDE DEF until
<1>4. MayBecome(x) /\ ~Holds(x)
  BY <1>2, <1>3, Becomes DEF MemberCall, Holds
<1> QED BY <1>1, <1>4, PlainStep, GivesUp DEF OwnerRead, until

(* The session is granted, or not. *)
LEMMA OwnerFoundStep ==
  ASSUME TypeOK, NEW c \in Callers, OwnerFound(c)
  PROVE  EntryStep(c)
<1> DEFINE x == [pc |-> "granted", session |-> calls[c].session, at |-> clock]
<1>1. ~Holds(calls[c])
  BY DEF OwnerFound, At, Holds
<1>2. calls[c].session \in Session
  BY CallTyped, MemberLocals DEF OwnerFound, At
<1>3. MayBecome(x) /\ ~Holds(x)
  BY <1>2, Numbers, Becomes DEF MemberCall, Holds
<1> QED BY <1>1, <1>3, PlainStep, GivesUp DEF OwnerFound

(* The grant has been used. *)
LEMMA SessionUsedStep ==
  ASSUME TypeOK, NEW c \in Callers, SessionUsed(c)
  PROVE  EntryStep(c)
BY GivesUp DEF SessionUsed, At, Holds

(* The operations of a member as a whole. *)
LEMMA MemberStep ==
  ASSUME TypeOK, Started, NEW c \in Callers, MemberBegins(c) \/ MemberContinues(c)
  PROVE  EntryStep(c)
BY RebindDeviceStep, RebindCheckedStep, MemberReadStep, MemberFoundStep,
   RebindCommittedStep, RebindPublishedStep, AuthenticateSessionStep, OwnerReadStep,
   OwnerFoundStep, SessionUsedStep, Zenon
   DEF MemberBegins, MemberContinues

-----------------------------------------------------------------------------
(* Member credentials. *)

(* The actors a credential call may have are typed. *)
LEMMA ActorsTyped == TypeOK => Actors \subseteq Actor
BY DEF TypeOK, Actors, Actor, Session

(* beginCredential starts for a live actor. *)
LEMMA BeginCredentialStep ==
  ASSUME TypeOK, NEW c \in Callers, BeginCredential(c)
  PROVE  EntryStep(c)
<1>1. PICK actor \in Actors : Goto(c, [pc |-> "offerActor", actor |-> actor])
  BY DEF BeginCredential
<1> DEFINE x == [pc |-> "offerActor", actor |-> actor]
<1>2. actor \in Actor
  BY ActorsTyped
<1>3. MayBecome(x) /\ ~Holds(x)
  BY <1>2, Becomes DEF CredentialCall, Holds
<1>4. ~Holds(calls[c])
  BY DEF BeginCredential, At, Holds
<1> QED BY <1>1, <1>3, <1>4, PlainStep DEF BeginCredential

(* The store has answered on the actor. *)
LEMMA OfferActorReadStep ==
  ASSUME TypeOK, NEW c \in Callers, OfferActorRead(c)
  PROVE  EntryStep(c)
<1> DEFINE row == Lookup(calls[c].actor.member)
           x == [pc |-> "offerActorFound", actor |-> calls[c].actor,
                 row |-> row]
<1>1. ~Holds(calls[c])
  BY DEF OfferActorRead, At, Holds
<1>2. calls[c].actor \in Actor
  BY CallTyped, MemberLocals DEF OfferActorRead, At
<1>3. row \in SUBSET (Vouchers \X Nat)
  BY ValiditiesTyped
<1> HIDE DEF row
<1>4. MayBecome(x) /\ ~Holds(x)
  BY <1>2, <1>3, Becomes DEF CredentialCall, Holds
<1> QED BY <1>1, <1>4, PlainStep, GivesUp DEF OfferActorRead, row

(* The actor has been judged. *)
LEMMA OfferActorFoundStep ==
  ASSUME TypeOK, NEW c \in Callers, OfferActorFound(c)
  PROVE  EntryStep(c)
<1> DEFINE x == [pc |-> "offerMember", actor |-> calls[c].actor]
<1>1. ~Holds(calls[c])
  BY DEF OfferActorFound, At, Holds
<1>2. calls[c].actor \in Actor
  BY CallTyped, MemberLocals DEF OfferActorFound, At
<1>3. MayBecome(x) /\ ~Holds(x)
  BY <1>2, Becomes DEF CredentialCall, Holds
<1> QED BY <1>1, <1>3, PlainStep, GivesUp DEF OfferActorFound

(* The store has answered on the member. *)
LEMMA OfferMemberReadStep ==
  ASSUME TypeOK, NEW c \in Callers, OfferMemberRead(c)
  PROVE  EntryStep(c)
<1> DEFINE row == Lookup(calls[c].actor.member)
           x == [pc |-> "offerMemberFound", actor |-> calls[c].actor,
                 row |-> row]
<1>1. ~Holds(calls[c])
  BY DEF OfferMemberRead, At, Holds
<1>2. calls[c].actor \in Actor
  BY CallTyped, MemberLocals DEF OfferMemberRead, At
<1>3. row \in SUBSET (Vouchers \X Nat)
  BY ValiditiesTyped
<1> HIDE DEF row
<1>4. MayBecome(x) /\ ~Holds(x)
  BY <1>2, <1>3, Becomes DEF CredentialCall, Holds
<1> QED BY <1>1, <1>4, PlainStep, GivesUp DEF OfferMemberRead, row

(* The offer is stored, if there is room for it. *)
LEMMA OfferMadeStep ==
  ASSUME TypeOK, NEW c \in Callers, OfferMade(c)
  PROVE  EntryStep(c)
<1> DEFINE offer(r) == [id |-> tokens + 1, member |-> calls[c].actor.member,
                        voucher |-> r[1], expiresAt |-> clock + OfferLifetime]
           kept == Live(offers, clock)
<1>1. /\ ~Holds(calls[c]) /\ Goto(c, Idle)
      /\ UNCHANGED <<storeVars, sessions, reserved>>
  BY DEF OfferMade, At, Holds, Return, memory
<1>2. calls[c].actor.member \in Members /\ calls[c].row \in SUBSET (Vouchers \X Nat)
  BY CallTyped, MemberLocals DEF OfferMade, At, Actor
<1>3. kept \subseteq Offer
  BY DEF Live, TypeOK
<1>4. \A r \in calls[c].row : offer(r) \in Offer
  BY <1>2, Numbers DEF Offer
<1> HIDE DEF offer, kept
<1>5. /\ \/ offers' = kept
         \/ \E r \in calls[c].row : offers' = kept \cup {offer(r)}
      /\ tokens' \in {tokens, tokens + 1}
  BY Zenon DEF OfferMade, offer, kept
<1>6. offers' \in SUBSET Offer /\ tokens' \in Nat
  BY <1>3, <1>4, <1>5, Numbers
<1>7. MemoryTyped'
  BY <1>6 DEF MemoryTyped, TypeOK, OfferMade, memory
<1> QED BY <1>1, <1>7, IdleIsGood DEF EntryStep, storeVars

(* issueCredential takes the offer out. *)
LEMMA IssueCredentialStep ==
  ASSUME TypeOK, NEW c \in Callers, IssueCredential(c)
  PROVE  EntryStep(c)
<1>1. PICK offer \in offers :
        /\ offers' = offers \ {offer}
        /\ \/ \E actor \in Actors :
                Goto(c, [pc |-> "issueActor", actor |-> actor, offer |-> offer])
           \/ Return(c)
  BY DEF IssueCredential
<1>2. offer \in Offer
  BY DEF TypeOK
<1>3. ~Holds(calls[c]) /\ UNCHANGED <<storeVars, sessions, reserved>>
  BY DEF IssueCredential, At, Holds, memory
<1>4. MemoryTyped'
  BY <1>1 DEF MemoryTyped, TypeOK, IssueCredential, memory
<1>5. ASSUME NEW actor \in Actors,
             Goto(c, [pc |-> "issueActor", actor |-> actor, offer |-> offer])
      PROVE  EntryStep(c)
  <2> DEFINE x == [pc |-> "issueActor", actor |-> actor, offer |-> offer]
  <2>1. actor \in Actor
    BY ActorsTyped
  <2>2. MayBecome(x) /\ ~Holds(x)
    BY <1>2, <2>1, Becomes DEF CredentialCall, Holds
  <2> QED BY <1>3, <1>4, <1>5, <2>2 DEF EntryStep, storeVars
<1>6. CASE Return(c)
  BY <1>3, <1>4, <1>6, IdleIsGood DEF EntryStep, storeVars, Return
<1> QED BY <1>1, <1>5, <1>6

(* The store has answered on the actor. *)
LEMMA IssueActorReadStep ==
  ASSUME TypeOK, NEW c \in Callers, IssueActorRead(c)
  PROVE  EntryStep(c)
<1> DEFINE row == Lookup(calls[c].actor.member)
           x == [pc |-> "issueActorFound", actor |-> calls[c].actor, offer |-> calls[c].offer,
                 row |-> row]
<1>1. ~Holds(calls[c])
  BY DEF IssueActorRead, At, Holds
<1>2. calls[c].actor \in Actor /\ calls[c].offer \in Offer
  BY CallTyped, MemberLocals DEF IssueActorRead, At
<1>3. row \in SUBSET (Vouchers \X Nat)
  BY ValiditiesTyped
<1> HIDE DEF row
<1>4. MayBecome(x) /\ ~Holds(x)
  BY <1>2, <1>3, Becomes DEF CredentialCall, Holds
<1> QED BY <1>1, <1>4, PlainStep, GivesUp DEF IssueActorRead, row

(* Actor and offer have been judged. *)
LEMMA IssueActorFoundStep ==
  ASSUME TypeOK, NEW c \in Callers, IssueActorFound(c)
  PROVE  EntryStep(c)
<1> DEFINE x == [pc |-> "issueMember", actor |-> calls[c].actor, offer |-> calls[c].offer]
<1>1. ~Holds(calls[c])
  BY DEF IssueActorFound, At, Holds
<1>2. calls[c].actor \in Actor /\ calls[c].offer \in Offer
  BY CallTyped, MemberLocals DEF IssueActorFound, At
<1>3. MayBecome(x) /\ ~Holds(x)
  BY <1>2, Becomes DEF CredentialCall, Holds
<1> QED BY <1>1, <1>3, PlainStep, GivesUp DEF IssueActorFound

(* The store has answered on the member of the offer. *)
LEMMA IssueMemberReadStep ==
  ASSUME TypeOK, NEW c \in Callers, IssueMemberRead(c)
  PROVE  EntryStep(c)
<1> DEFINE row == Lookup(calls[c].offer.member)
           x == [pc |-> "issueMemberFound", actor |-> calls[c].actor, offer |-> calls[c].offer,
                 row |-> row]
<1>1. ~Holds(calls[c])
  BY DEF IssueMemberRead, At, Holds
<1>2. calls[c].actor \in Actor /\ calls[c].offer \in Offer
  BY CallTyped, MemberLocals DEF IssueMemberRead, At
<1>3. row \in SUBSET (Vouchers \X Nat)
  BY ValiditiesTyped
<1> HIDE DEF row
<1>4. MayBecome(x) /\ ~Holds(x)
  BY <1>2, <1>3, Becomes DEF CredentialCall, Holds
<1> QED BY <1>1, <1>4, PlainStep, GivesUp DEF IssueMemberRead, row

(* The voucher is attested to, for as long as it lasts. *)
LEMMA IssueMemberFoundStep ==
  ASSUME TypeOK, NEW c \in Callers, IssueMemberFound(c)
  PROVE  EntryStep(c)
<1>1. ~Holds(calls[c])
  BY DEF IssueMemberFound, At, Holds
<1>2. /\ calls[c].actor \in Actor /\ calls[c].offer \in Offer
      /\ calls[c].row \in SUBSET (Vouchers \X Nat)
  BY CallTyped, MemberLocals DEF IssueMemberFound, At
<1>3. ASSUME NEW r \in calls[c].row,
             Goto(c, [pc |-> "mint", actor |-> calls[c].actor, offer |-> calls[c].offer,
                      validUntil |-> Attest(r[2])])
      PROVE  EntryStep(c)
  <2> DEFINE x == [pc |-> "mint", actor |-> calls[c].actor, offer |-> calls[c].offer,
                   validUntil |-> Attest(r[2])]
  <2>1. Attest(r[2]) \in Nat
    BY <1>2, Numbers DEF Attest
  <2>2. MayBecome(x) /\ ~Holds(x)
    BY <1>2, <2>1, Becomes DEF CredentialCall, Holds
  <2> QED BY <1>1, <1>3, <2>2, PlainStep DEF IssueMemberFound
<1>4. CASE Return(c)
  BY <1>1, <1>4, GivesUp DEF IssueMemberFound
<1> QED BY <1>3, <1>4, Zenon DEF IssueMemberFound

(* The issuer has made the credential, or rejected. *)
LEMMA MintedStep ==
  ASSUME TypeOK, NEW c \in Callers, Minted(c)
  PROVE  EntryStep(c)
<1>1. /\ ~Holds(calls[c]) /\ Goto(c, Idle)
      /\ UNCHANGED <<storeVars, sessions, reserved>>
  BY DEF Minted, At, Holds, Return, memory
<1> DEFINE made == [offer |-> calls[c].offer.id, member |-> calls[c].offer.member,
                    validUntil |-> calls[c].validUntil]
<1>2. made \in [offer : Nat, member : Members, validUntil : Nat]
  BY CallTyped, MemberLocals DEF Minted, At, Offer
<1> HIDE DEF made
<1>3. minted' \in {minted, minted \cup {made}}
  BY DEF Minted, made
<1>4. MemoryTyped'
  BY <1>2, <1>3 DEF MemoryTyped, TypeOK, Minted, memory
<1> QED BY <1>1, <1>4, IdleIsGood DEF EntryStep, storeVars

(* Credentials as a whole. *)
LEMMA CredentialStep ==
  ASSUME TypeOK, NEW c \in Callers, CredentialBegins(c) \/ CredentialContinues(c)
  PROVE  EntryStep(c)
BY BeginCredentialStep, OfferActorReadStep, OfferActorFoundStep, OfferMemberReadStep,
   OfferMadeStep, IssueCredentialStep, IssueActorReadStep, IssueActorFoundStep,
   IssueMemberReadStep, IssueMemberFoundStep, MintedStep, Zenon
   DEF CredentialBegins, CredentialContinues
=============================================================================
