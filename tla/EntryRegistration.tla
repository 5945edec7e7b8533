--------------------------- MODULE EntryRegistration ---------------------------
(***************************************************************************)
(* Joining with a voucher, in three calls of the client: beginRegistration *)
(* hands out a challenge, beginRegistrationPrecommit verifies the new      *)
(* passkey and hands out a second challenge under the same id, and         *)
(* finishRegistration verifies that one and the voucher, registers the     *)
(* member in one transaction and opens a session.  There is one action per *)
(* synchronous segment.  WebAuthn and the bridge are external: they accept *)
(* or refuse, and a bridge that times out refuses.                         *)
(***************************************************************************)
EXTENDS EntryState

RegistrationCall ==
    [pc : {"checkDevice", "lookUpMember", "draftChallenge"},
     auth : Authorizations, voucher : Vouchers]
    \cup [pc : {"verifyPasskey"}, ch : RegistrationChallenge]
    \cup [pc : {"offerWallet"}, ch : RegistrationChallenge, passkey : Passkeys]
    \cup [pc : {"verifyWallet"}, ch : WalletChallenge]
    \cup [pc : {"verifyVoucher"}, ch : WalletChallenge, counter : Counters]
    \cup [pc : {"commitMember"}, ch : WalletChallenge, counter : Counters, at : Nat]
    \cup [pc : {"publishMember"}, ch : WalletChallenge, ok : BOOLEAN]

-----------------------------------------------------------------------------
(* beginRegistration.                                                      *)

BeginRegistration(c) ==
    /\ At(c, "idle")
    /\ tokens < MaxTokens
    /\ \E auth \in Authorizations, v \in Vouchers :
          /\ auth.expiresAt > clock
          /\ Goto(c, [pc |-> "checkDevice", auth |-> auth, voucher |-> v])
    /\ UNCHANGED <<storeVars, memory, retired, tokens, boots, issued, issuance>>

(* The bridge answers; an accepted device leads to store.hasMember, which  *)
(* a retired store refuses.                                                *)
DeviceChecked(c) ==
    /\ At(c, "checkDevice")
    /\ \/ Usable /\ Goto(c, [calls[c] EXCEPT !.pc = "lookUpMember"])
       \/ Return(c)
    /\ UNCHANGED <<storeVars, memory, retired, tokens, boots, issued, issuance>>

MemberLookedUp(c) ==
    /\ At(c, "lookUpMember")
    /\ \/ ~HasMember(calls[c].auth.member)
          /\ Goto(c, [calls[c] EXCEPT !.pc = "draftChallenge"])
       \/ Return(c)
    /\ UNCHANGED <<storeVars, memory, retired, tokens, boots, issued, issuance>>

(* The authorization is judged again at the time the challenge is stored.  *)
ChallengeReserved(c) ==
    /\ At(c, "draftChallenge")
    /\ IF calls[c].auth.expiresAt > clock
         THEN Reserve([id |-> 0, kind |-> "registration", auth |-> calls[c].auth,
                       voucher |-> calls[c].voucher, passkey |-> None,
                       expiresAt |-> 0])
         ELSE UNCHANGED <<pending, sessions, tokens>>
    /\ Return(c)
    /\ UNCHANGED <<storeVars, reserved, retired, boots, issued, issuance>>

-----------------------------------------------------------------------------
(* beginRegistrationPrecommit.                                             *)

(* Expiry is not judged here but after the response is verified. *)
PrecommitWithoutTaking(c) ==
    /\ At(c, "idle")
    /\ \E ch \in pending :
          /\ ch.kind = "registration"
          /\ Goto(c, [pc |-> "verifyPasskey", ch |-> ch])
    /\ UNCHANGED <<storeVars, memory, retired, tokens, boots, issued, issuance>>
Precommit(c) ==
    /\ At(c, "idle")
    /\ \E ch \in pending :
          /\ ch.kind = "registration"
          /\ Consume(ch)
          /\ Goto(c, [pc |-> "verifyPasskey", ch |-> ch])
    /\ UNCHANGED <<storeVars, sessions, reserved, retired, tokens, boots, issued, issuance>>

PasskeyVerified(c) ==
    /\ At(c, "verifyPasskey")
    /\ \/ \E p \in Passkeys :
             /\ clock < calls[c].ch.expiresAt
             /\ Goto(c, [pc |-> "offerWallet", ch |-> calls[c].ch, passkey |-> p])
       \/ Return(c)
    /\ UNCHANGED <<storeVars, memory, retired, tokens, boots, issued, issuance>>

(* The challenge goes back under its id, for the wallet, with its expiry.  *)
WalletOffered(c) ==
    LET ch == calls[c].ch
        kept == Live(pending, clock)
    IN  /\ At(c, "offerWallet")
        /\ sessions' = Live(sessions, clock)
        /\ pending' = IF clock < ch.expiresAt /\ RoomForChallenge(kept)
                        THEN {x \in kept : x.id # ch.id} \cup
                             {[ch EXCEPT !.kind = "registration-wallet",
                                         !.passkey = calls[c].passkey]}
                        ELSE kept
        /\ Return(c)
        /\ UNCHANGED <<storeVars, reserved, retired, tokens, boots, issued, issuance>>

-----------------------------------------------------------------------------
(* finishRegistration.                                                     *)

FinishRegistration(c) ==
    /\ At(c, "idle")
    /\ \E ch \in pending :
          /\ ch.kind = "registration-wallet"
          /\ Consume(ch)
          /\ \/ clock < ch.expiresAt
                /\ Goto(c, [pc |-> "verifyWallet", ch |-> ch])
             \/ Return(c)
    /\ UNCHANGED <<storeVars, sessions, reserved, retired, tokens, boots, issued, issuance>>

WalletVerified(c) ==
    /\ At(c, "verifyWallet")
    /\ \/ \E n \in Counters :
             /\ clock < calls[c].ch.expiresAt
             /\ Goto(c, [pc |-> "verifyVoucher", ch |-> calls[c].ch, counter |-> n])
       \/ Return(c)
    /\ UNCHANGED <<storeVars, memory, retired, tokens, boots, issued, issuance>>

(* Nothing has run out at time now that the registration depends on.       *)
InTime(ch, now) ==
    /\ now < ch.expiresAt
    /\ now < ch.auth.expiresAt
    /\ now < VoucherExpiry[ch.voucher]

(* The bridge has verified the voucher.  A session place is reserved       *)
(* before the store is called; a retired store throws at once, and the     *)
(* place is given back.                                                    *)
VoucherVerifiedWaiting(c) ==
    /\ At(c, "verifyVoucher")
    /\ InTime(calls[c].ch, clock)
    /\ Prune
    /\ RoomForSession(sessions') /\ Usable
    /\ reserved' = reserved + 1
    /\ Goto(c, [pc |-> "commitMember", ch |-> calls[c].ch,
                counter |-> calls[c].counter, at |-> clock])
    /\ UNCHANGED <<storeVars, retired, tokens, boots, issued, issuance>>
VoucherVerified(c) ==
    /\ At(c, "verifyVoucher")
    /\ \/ /\ InTime(calls[c].ch, clock)
          /\ Prune
          /\ IF RoomForSession(sessions') /\ Usable
               THEN /\ reserved' = reserved + 1
                    /\ Goto(c, [pc |-> "commitMember", ch |-> calls[c].ch,
                                counter |-> calls[c].counter, at |-> clock])
               ELSE Return(c) /\ UNCHANGED reserved
       \/ Return(c) /\ UNCHANGED memory
    /\ UNCHANGED <<storeVars, retired, tokens, boots, issued, issuance>>

Redemption(call) ==
    [voucher |-> call.ch.voucher, member |-> call.ch.auth.member,
     device |-> call.ch.auth.device, passkey |-> call.ch.passkey,
     counter |-> call.counter, at |-> call.at]

MemberCommitted(c) ==
    /\ At(c, "commitMember")
    /\ Transaction(c, RegisterWithVoucher(Redemption(calls[c])),
                   [pc |-> "publishMember", ch |-> calls[c].ch, ok |-> TRUE],
                   [pc |-> "publishMember", ch |-> calls[c].ch, ok |-> FALSE])
    /\ UNCHANGED <<memory, tokens, boots, issued, issuance>>

(* The store has answered; whatever happens, the reservation is released.  *)
MayPublishUnanswered(c) == InTime(calls[c].ch, clock)
MayPublish(c) == calls[c].ok /\ InTime(calls[c].ch, clock)

MemberPublished(c) ==
    LET ch == calls[c].ch IN
    /\ At(c, "publishMember")
    /\ reserved' = reserved - 1
    /\ Return(c)
    /\ IF MayPublish(c)
         THEN /\ NewSession(ch.auth.member, ch.passkey)
              /\ issued' = IF sessions' \subseteq sessions THEN issued
                           ELSE issued \cup
                                {CertificateFor(ch.auth, VoucherExpiry[ch.voucher])}
         ELSE UNCHANGED <<pending, sessions, tokens, issued>>
    /\ UNCHANGED <<storeVars, retired, boots, issuance>>

-----------------------------------------------------------------------------
RegistrationBegins(c) ==
    BeginRegistration(c) \/ Precommit(c) \/ FinishRegistration(c)

RegistrationContinues(c) ==
    \/ DeviceChecked(c) \/ MemberLookedUp(c) \/ ChallengeReserved(c)
    \/ PasskeyVerified(c) \/ WalletOffered(c)
    \/ WalletVerified(c) \/ VoucherVerified(c)
    \/ MemberCommitted(c) \/ MemberPublished(c)
=============================================================================
