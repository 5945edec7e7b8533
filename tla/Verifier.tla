------------------------------- MODULE Verifier -------------------------------
(***************************************************************************)
(* The eligibility verifier: begin reads a passkey and hands out a login   *)
(* challenge with a presentation request; authenticate takes it back with  *)
(* a presentation of the member's eligibility and an assertion of the      *)
(* passkey, and signs an admission for the chat key.  It does not await    *)
(* its store, so it only runs on one that answers at once.                 *)
(***************************************************************************)
EXTENDS AccountState

VerifierCall == [pc : {"verifyLogin"}, ch : Login]

RoomForLogin(S) == Cardinality(S) < MaxLogins

(* A login is over when its challenge or its admission has run out, the    *)
(* presentation must be good until both have.                              *)
InTime(ch) == clock < ch.expiresAt /\ clock < ch.grantExpiresAt
ProofValidUntilChallenge(ch) == ch.expiresAt
ProofValidUntil(ch) ==
    IF ch.expiresAt > ch.grantExpiresAt THEN ch.expiresAt ELSE ch.grantExpiresAt

(* A presentation reveals the member and proves the validity. *)
PresentableByAnyone(ch) == \E e \in held : e.validUntil >= ProofValidUntil(ch)
Presentable(ch) ==
    \E e \in held : e.member = ch.credential.member /\ e.validUntil >= ProofValidUntil(ch)

Begin ==
    LET kept == Live(logins) IN
    /\ store = "sync" /\ tokens < MaxTokens
    /\ \E x \in credentials, d \in Devices :
          \/ /\ RoomForLogin(kept) /\ tokens' = tokens + 1
             /\ logins' = kept \cup
                  {[id |-> tokens + 1, credential |-> x, device |-> d, issuedAt |-> clock,
                    expiresAt |-> clock + LoginLifetime,
                    grantExpiresAt |-> clock + GrantLifetime]}
          \/ ~RoomForLogin(kept) /\ UNCHANGED tokens /\ logins' = kept
    /\ UNCHANGED <<storeVars, store, ceremonies, calls, retired, boots, history>>

(* The challenge is gone before anything of the answer is looked at.       *)
AuthenticateKeeping(c) ==
    /\ At(c, "idle")
    /\ \E ch \in logins :
          /\ InTime(ch) /\ Presentable(ch)
          /\ Goto(c, [pc |-> "verifyLogin", ch |-> ch])
    /\ UNCHANGED <<storeVars, store, ceremonies, logins, retired, tokens, boots, history>>
Authenticate(c) ==
    /\ At(c, "idle")
    /\ \E ch \in logins :
          /\ logins' = logins \ {ch}
          /\ \/ /\ InTime(ch) /\ Presentable(ch)
                /\ Goto(c, [pc |-> "verifyLogin", ch |-> ch])
             \/ Return(c)
    /\ UNCHANGED <<storeVars, store, ceremonies, retired, tokens, boots, history>>

(* WebAuthn has compared the assertion with the passkey as it was at the   *)
(* beginning; the store compares it with the passkey as it is now.         *)
LoginVerifiedBySnapshot(c) ==
    LET ch == calls[c].ch IN
    /\ At(c, "verifyLogin")
    /\ \/ /\ InTime(ch)
          /\ \E n \in Counters :
                /\ Accepts(ch.credential.counter, n)
                /\ UpdateCounter(ch.credential.id, n) \/ UNCHANGED storeVars
                /\ Accepted(ch, "admission", n)
          /\ grants' = grants \cup
               {[id |-> ch.id, member |-> ch.credential.member, device |-> ch.device,
                 issuedAt |-> ch.issuedAt, expiresAt |-> ch.grantExpiresAt]}
       \/ UNCHANGED <<storeVars, assertions, grants>>
    /\ Return(c)
    /\ UNCHANGED <<store, ceremonies, logins, retired, tokens, boots, drawn, held>>
LoginVerified(c) ==
    LET ch == calls[c].ch IN
    /\ At(c, "verifyLogin")
    /\ \/ /\ InTime(ch)
          /\ \E n \in Counters :
                /\ Accepts(ch.credential.counter, n)
                /\ UpdateCounter(ch.credential.id, n)
                /\ Accepted(ch, "admission", n)
          /\ grants' = grants \cup
               {[id |-> ch.id, member |-> ch.credential.member, device |-> ch.device,
                 issuedAt |-> ch.issuedAt, expiresAt |-> ch.grantExpiresAt]}
       \/ UNCHANGED <<storeVars, assertions, grants>>
    /\ Return(c)
    /\ UNCHANGED <<store, ceremonies, logins, retired, tokens, boots, drawn, held>>

VerifierStep(c) == Authenticate(c) \/ LoginVerified(c)
=============================================================================
