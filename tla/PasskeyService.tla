---------------------------- MODULE PasskeyService ----------------------------
(***************************************************************************)
(* Registering passkeys without a voucher: a first one, for a member id    *)
(* the service makes up, or a further one, which a passkey of the same     *)
(* member must sign for first.  Either way a registration ceremony begins, *)
(* and its answer inserts the passkey.                                     *)
(***************************************************************************)
EXTENDS AccountState

PasskeyCall ==
    [pc : {"makeOptions"}, member : Members]
    \cup [pc : {"verifyRegistration"}, ch : RegistrationCeremony]
    \cup [pc : {"insertPasskey"}, ch : RegistrationCeremony, passkey : Passkeys,
          counter : Counters]
    \cup [pc : {"passkeyFound"}, credential : Credential]
    \cup [pc : {"verifyOwner"}, ch : AdditionalCeremony]
    \cup [pc : {"countOwner"}, ch : AdditionalCeremony, counter : Counters]

RoomForCeremony(S) == Cardinality(S) < MaxCeremonies

(* reserve: a ceremony of a fresh id begins, or there is no room for it    *)
(* and the call throws; what has run out is forgotten in both cases.       *)
BeginCeremony(begun) ==
    LET kept == Live(ceremonies) IN
    \/ /\ RoomForCeremony(kept) /\ tokens' = tokens + 1
       /\ ceremonies' = kept \cup {begun}
    \/ /\ ~RoomForCeremony(kept) /\ UNCHANGED tokens
       /\ ceremonies' = kept

(* consume: the ceremony is gone, whether or not it is of the right kind.  *)
ConsumeOnlyAtSuccess(ch) == UNCHANGED ceremonies
Consume(ch) == ceremonies' = ceremonies \ {ch}
AnswerableOfAnyKind(ch, kind) == clock < ch.expiresAt
Answerable(ch, kind) == ch.kind = kind /\ clock < ch.expiresAt

-----------------------------------------------------------------------------
(* A registration, of a first passkey or of an authorized further one.     *)

BeginRegistration(c) ==
    /\ At(c, "idle") /\ tokens < MaxTokens
    /\ \E m \in Members \ (drawn \cup {x.id : x \in members}) :
          /\ drawn' = drawn \cup {m}
          /\ Goto(c, [pc |-> "makeOptions", member |-> m])
    /\ UNCHANGED <<storeVars, store, ceremonies, logins, retired, tokens, boots,
                   held, assertions, grants>>

(* The options are generated: the ceremony begins. *)
OptionsMade(c) ==
    /\ At(c, "makeOptions")
    /\ BeginCeremony([id |-> tokens + 1, kind |-> "registration",
                      member |-> calls[c].member, expiresAt |-> clock + CeremonyLifetime])
    /\ Return(c)
    /\ UNCHANGED <<storeVars, store, logins, retired, boots, history>>

FinishRegistration(c) ==
    /\ At(c, "idle")
    /\ \E ch \in ceremonies :
          /\ Consume(ch)
          /\ IF Answerable(ch, "registration")
               THEN Goto(c, [pc |-> "verifyRegistration", ch |-> ch])
               ELSE Return(c)
    /\ UNCHANGED <<storeVars, store, logins, retired, tokens, boots, history>>

(* WebAuthn has verified a new passkey and its first counter, or has not.  *)
RegistrationVerified(c) ==
    /\ At(c, "verifyRegistration")
    /\ \/ /\ clock < calls[c].ch.expiresAt /\ Usable
          /\ \E p \in Passkeys, n \in Counters :
                Goto(c, [pc |-> "insertPasskey", ch |-> calls[c].ch,
                         passkey |-> p, counter |-> n])
       \/ Return(c)
    /\ UNCHANGED <<storeVars, store, ceremonies, logins, retired, tokens, boots, history>>

PasskeyInserted(c) ==
    LET insertion == Insert(calls[c].passkey, calls[c].ch.member, calls[c].counter) IN
    /\ At(c, "insertPasskey")
    /\ \/ insertion /\ Return(c) /\ UNCHANGED retired
       \/ Unacknowledged(c, insertion)
    /\ UNCHANGED <<store, ceremonies, logins, tokens, boots, history>>

-----------------------------------------------------------------------------
(* Authorizing a further passkey.                                          *)

(* The passkey is read; the ceremony keeps it as it is now.                *)
BeginAdditionalRegistration(c) ==
    /\ At(c, "idle") /\ tokens < MaxTokens /\ Usable
    /\ \E x \in credentials : Goto(c, [pc |-> "passkeyFound", credential |-> x])
    /\ UNCHANGED <<storeVars, store, ceremonies, logins, retired, tokens, boots, history>>

PasskeyFound(c) ==
    /\ At(c, "passkeyFound")
    /\ BeginCeremony([id |-> tokens + 1, kind |-> "additional",
                      credential |-> calls[c].credential,
                      expiresAt |-> clock + CeremonyLifetime])
    /\ Return(c)
    /\ UNCHANGED <<storeVars, store, logins, retired, boots, history>>

AuthorizeAdditionalRegistration(c) ==
    /\ At(c, "idle")
    /\ \E ch \in ceremonies :
          /\ Consume(ch)
          /\ IF Answerable(ch, "additional")
               THEN Goto(c, [pc |-> "verifyOwner", ch |-> ch])
               ELSE Return(c)
    /\ UNCHANGED <<storeVars, store, logins, retired, tokens, boots, history>>

(* WebAuthn compares the counter with the one read at the beginning.       *)
OwnerVerified(c) ==
    /\ At(c, "verifyOwner")
    /\ \/ /\ clock < calls[c].ch.expiresAt /\ Usable
          /\ \E n \in Counters :
                /\ Accepts(calls[c].ch.credential.counter, n)
                /\ Goto(c, [pc |-> "countOwner", ch |-> calls[c].ch, counter |-> n])
       \/ Return(c)
    /\ UNCHANGED <<storeVars, store, ceremonies, logins, retired, tokens, boots, history>>

(* The store decides.  Only now is a registration begun for the owner; it  *)
(* may still find no room, and then the owner has to sign again.           *)
OwnerCounted(c) ==
    LET ch == calls[c].ch
        update == UpdateCounter(ch.credential.id, calls[c].counter)
    IN  /\ At(c, "countOwner")
        /\ \/ /\ update
              /\ Accepted(ch, "passkey", calls[c].counter)
              /\ Goto(c, [pc |-> "makeOptions", member |-> ch.credential.member])
              /\ UNCHANGED retired
           \/ Unacknowledged(c, update) /\ UNCHANGED assertions
        /\ UNCHANGED <<store, ceremonies, logins, tokens, boots, drawn, held, grants>>

PasskeyStep(c) ==
    \/ BeginRegistration(c) \/ OptionsMade(c)
    \/ FinishRegistration(c) \/ RegistrationVerified(c) \/ PasskeyInserted(c)
    \/ BeginAdditionalRegistration(c) \/ PasskeyFound(c)
    \/ AuthorizeAdditionalRegistration(c) \/ OwnerVerified(c) \/ OwnerCounted(c)
=============================================================================
