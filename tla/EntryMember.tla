----------------------------- MODULE EntryMember -----------------------------
(***************************************************************************)
(* What a member with a session does: rebindDevice moves the membership to *)
(* another device, and authenticatedSession tells another part of the      *)
(* server, on every request, whether a session stands for a current        *)
(* member.  Both read the store in between, and look at the session again  *)
(* afterwards, since it may have been revoked or pruned meanwhile.         *)
(***************************************************************************)
EXTENDS EntryState

MemberCall ==
    [pc : {"checkRebind", "readMember"}, session : Session, auth : Authorizations]
    \cup [pc : {"foundMember"}, session : Session, auth : Authorizations,
          until : SUBSET Nat]
    \cup [pc : {"commitRebind"}, session : Session, cert : Certificate]
    \cup [pc : {"publishRebind"}, cert : Certificate, ok : BOOLEAN]
    \cup [pc : {"readOwner"}, session : Session]
    \cup [pc : {"foundOwner"}, session : Session, until : SUBSET Nat]
    \cup [pc : {"granted"}, session : Session, at : Nat]

-----------------------------------------------------------------------------
(* rebindDevice.                                                           *)

RebindDevice(c) ==
    /\ At(c, "idle")
    /\ \E s \in sessions, auth \in Authorizations :
          /\ StillLive(s)
          /\ auth.member = s.member /\ auth.expiresAt > clock
          /\ Goto(c, [pc |-> "checkRebind", session |-> s, auth |-> auth])
    /\ UNCHANGED <<storeVars, memory, retired, tokens, boots, issued, issuance>>

RebindChecked(c) ==
    /\ At(c, "checkRebind")
    /\ \/ /\ StillLive(calls[c].session) /\ Usable
          /\ Goto(c, [calls[c] EXCEPT !.pc = "readMember"])
       \/ Return(c)
    /\ UNCHANGED <<storeVars, memory, retired, tokens, boots, issued, issuance>>
(* members.get answers with the member's voucher validity, or nothing.     *)
MemberRead(c) ==
    /\ At(c, "readMember")
    /\ \/ Goto(c, [pc |-> "foundMember", session |-> calls[c].session,
                   auth |-> calls[c].auth,
                   until |-> ValidUntil(calls[c].session.member)])
       \/ Return(c)
    /\ UNCHANGED <<storeVars, memory, retired, tokens, boots, issued, issuance>>

(* The certificate is signed before the transaction that makes it true.    *)
MemberFound(c) ==
    /\ At(c, "foundMember")
    /\ \/ \E until \in calls[c].until :
             LET cert == CertificateFor(calls[c].auth, until) IN
             /\ StillLive(calls[c].session)
             /\ until > clock /\ cert.expiresAt > clock
             /\ Usable
             /\ Goto(c, [pc |-> "commitRebind", session |-> calls[c].session,
                         cert |-> cert])
       \/ Return(c)
    /\ UNCHANGED <<storeVars, memory, retired, tokens, boots, issued, issuance>>

RebindCommitted(c) ==
    LET cert == calls[c].cert IN
    /\ At(c, "commitRebind")
    /\ Transaction(c, Rebind(cert.member, cert.device, cert.issuedAt),
                   [pc |-> "publishRebind", cert |-> cert, ok |-> TRUE], Idle)
    /\ UNCHANGED <<memory, tokens, boots, issued, issuance>>

RebindPublished(c) ==
    /\ At(c, "publishRebind")
    /\ issued' = issued \cup {calls[c].cert}
    /\ Return(c)
    /\ UNCHANGED <<storeVars, memory, retired, tokens, boots, issuance>>

-----------------------------------------------------------------------------
(* authenticatedSession, through actorMember and currentMember.            *)

AuthenticateSession(c) ==
    /\ At(c, "idle")
    /\ Usable
    /\ \E s \in sessions :
          StillLive(s) /\ Goto(c, [pc |-> "readOwner", session |-> s])
    /\ UNCHANGED <<storeVars, memory, retired, tokens, boots, issued, issuance>>

OwnerRead(c) ==
    /\ At(c, "readOwner")
    /\ \/ Goto(c, [pc |-> "foundOwner", session |-> calls[c].session,
                   until |-> ValidUntil(calls[c].session.member)])
       \/ Return(c)
    /\ UNCHANGED <<storeVars, memory, retired, tokens, boots, issued, issuance>>

(* The caller is handed the session, at this time, or nothing.             *)
OwnerFound(c) ==
    /\ At(c, "foundOwner")
    /\ \/ /\ \E until \in calls[c].until : until > clock
          /\ StillLive(calls[c].session)
          /\ Goto(c, [pc |-> "granted", session |-> calls[c].session, at |-> clock])
       \/ Return(c)
    /\ UNCHANGED <<storeVars, memory, retired, tokens, boots, issued, issuance>>

SessionUsed(c) ==
    /\ At(c, "granted")
    /\ Return(c)
    /\ UNCHANGED <<storeVars, memory, retired, tokens, boots, issued, issuance>>

MemberBegins(c) == RebindDevice(c) \/ AuthenticateSession(c)

MemberContinues(c) ==
    \/ RebindChecked(c) \/ MemberRead(c) \/ MemberFound(c)
    \/ RebindCommitted(c) \/ RebindPublished(c)
    \/ OwnerRead(c) \/ OwnerFound(c) \/ SessionUsed(c)
=============================================================================
