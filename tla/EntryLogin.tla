------------------------------ MODULE EntryLogin ------------------------------
(***************************************************************************)
(* Logging in with a passkey: beginAuthentication hands out a challenge,   *)
(* finishAuthentication reads the passkey from the store, verifies the     *)
(* assertion, advances the durable counter under a reserved session place, *)
(* and opens a session.                                                    *)
(***************************************************************************)
EXTENDS EntryState

LoginCall ==
    [pc : {"readPasskey"}, ch : LoginChallenge, passkey : Passkeys]
    \cup [pc : {"foundPasskey", "verifyLogin"}, ch : LoginChallenge,
          passkey : Passkeys, member : Members]
    \cup [pc : {"commitCounter"}, ch : LoginChallenge, passkey : Passkeys,
          member : Members, counter : Counters]
    \cup [pc : {"publishLogin"}, ch : LoginChallenge, passkey : Passkeys,
          member : Members, counter : Counters, ok : BOOLEAN]

(* The challenge is stored at the time it was generated. *)
BeginAuthentication(c) ==
    /\ At(c, "idle")
    /\ tokens < MaxTokens
    /\ Reserve([id |-> 0, kind |-> "authentication", auth |-> None,
                voucher |-> None, passkey |-> None, expiresAt |-> 0])
    /\ UNCHANGED <<storeVars, reserved, calls, retired, boots, issued, issuance>>

FinishAuthentication(c) ==
    /\ At(c, "idle")
    /\ \E ch \in pending :
          /\ ch.kind = "authentication"
          /\ Consume(ch)
          /\ \/ /\ clock < ch.expiresAt /\ Usable
                /\ \E p \in Passkeys :
                      Goto(c, [pc |-> "readPasskey", ch |-> ch, passkey |-> p])
             \/ Return(c)
    /\ UNCHANGED <<storeVars, sessions, reserved, retired, tokens, boots, issued, issuance>>

PasskeyRead(c) ==
    /\ At(c, "readPasskey")
    /\ \/ \E x \in credentials :
             /\ x.id = calls[c].passkey
             /\ Goto(c, [pc |-> "foundPasskey", ch |-> calls[c].ch,
                         passkey |-> x.id, member |-> x.member])
       \/ Return(c)
    /\ UNCHANGED <<storeVars, memory, retired, tokens, boots, issued, issuance>>

(* Before it verifies, the call gives up if there is no place at all; it   *)
(* does not count the reserved ones yet.                                   *)
PasskeyFound(c) ==
    /\ At(c, "foundPasskey")
    /\ Prune
    /\ IF Cardinality(sessions') < MaxSessions
         THEN Goto(c, [calls[c] EXCEPT !.pc = "verifyLogin"])
         ELSE Return(c)
    /\ UNCHANGED <<storeVars, reserved, retired, tokens, boots, issued, issuance>>

(* The assertion is verified: a place is reserved before the counter.      *)
LoginVerified(c) ==
    /\ At(c, "verifyLogin")
    /\ \/ /\ clock < calls[c].ch.expiresAt
          /\ Prune
          /\ IF RoomForSession(sessions') /\ Usable
               THEN \E n \in Counters :
                      /\ reserved' = reserved + 1
                      /\ Goto(c, [pc |-> "commitCounter", ch |-> calls[c].ch,
                                  passkey |-> calls[c].passkey,
                                  member |-> calls[c].member, counter |-> n])
               ELSE Return(c) /\ UNCHANGED reserved
       \/ Return(c) /\ UNCHANGED memory
    /\ UNCHANGED <<storeVars, retired, tokens, boots, issued, issuance>>

LoginAnswered(c, accepted) ==
    [pc |-> "publishLogin", ch |-> calls[c].ch, passkey |-> calls[c].passkey,
     member |-> calls[c].member, counter |-> calls[c].counter, ok |-> accepted]

CounterCommitted(c) ==
    /\ At(c, "commitCounter")
    /\ Transaction(c, UpdateCounter(calls[c].passkey, calls[c].counter),
                   LoginAnswered(c, TRUE), LoginAnswered(c, FALSE))
    /\ UNCHANGED <<memory, tokens, boots, issued, issuance>>

(* Only an advanced counter opens a session, and only in time. *)
MayOpenUncounted(c) == clock < calls[c].ch.expiresAt
MayOpenSession(c) == calls[c].ok /\ clock < calls[c].ch.expiresAt

LoginPublishedLeaking(c) ==
    /\ At(c, "publishLogin")
    /\ reserved' = IF MayOpenSession(c) THEN reserved - 1 ELSE reserved
    /\ Return(c)
    /\ IF MayOpenSession(c)
         THEN NewSession(calls[c].member, calls[c].passkey)
         ELSE UNCHANGED <<pending, sessions, tokens>>
    /\ UNCHANGED <<storeVars, retired, boots, issued, issuance>>
LoginPublished(c) ==
    /\ At(c, "publishLogin")
    /\ reserved' = reserved - 1
    /\ Return(c)
    /\ IF MayOpenSession(c)
         THEN NewSession(calls[c].member, calls[c].passkey)
         ELSE UNCHANGED <<pending, sessions, tokens>>
    /\ UNCHANGED <<storeVars, retired, boots, issued, issuance>>

LoginBegins(c) == BeginAuthentication(c) \/ FinishAuthentication(c)

LoginContinues(c) ==
    \/ PasskeyRead(c) \/ PasskeyFound(c) \/ LoginVerified(c)
    \/ CounterCommitted(c) \/ LoginPublished(c)
=============================================================================
