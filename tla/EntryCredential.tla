--------------------------- MODULE EntryCredential ---------------------------
(***************************************************************************)
(* Obtaining a member credential: beginCredential hands out an offer,      *)
(* issueCredential takes it back with a blinded request, attests to the    *)
(* voucher and has the issuer make the credential.  The actor is a session *)
(* or an API key some other part of the server has authenticated.  Both    *)
(* calls look the member up twice, for the actor and for the offer, and    *)
(* judge actor, voucher and offer again after every await.                 *)
(***************************************************************************)
EXTENDS EntryState

Actor == [session : Session \cup {None}, member : Members]

CredentialCall ==
    [pc : {"offerActor", "offerMember"}, actor : Actor]
    \cup [pc : {"offerActorFound", "offerMemberFound"}, actor : Actor,
          row : SUBSET (Vouchers \X Nat)]
    \cup [pc : {"issueActor", "issueMember"}, actor : Actor, offer : Offer]
    \cup [pc : {"issueActorFound", "issueMemberFound"}, actor : Actor, offer : Offer,
          row : SUBSET (Vouchers \X Nat)]
    \cup [pc : {"mint"}, actor : Actor, offer : Offer, validUntil : Nat]

(* The member's voucher and its validity, or nothing. *)
Lookup(m) == {<<s.voucher, s.expiresAt>> : s \in {t \in spends :
                \E x \in members : x.id = m /\ x.voucher = t.voucher}}

Current(row) == \E r \in row : r[2] > clock

ActorUnexpired(actor) == actor.session # None => actor.session.expiresAt > clock
ActorLive(actor) == actor.session # None => StillLive(actor.session)

Actors == {[session |-> s, member |-> s.member] : s \in sessions}
            \cup {[session |-> None, member |-> m] : m \in Members}

RoomForOffer(S) == Cardinality(S) < MaxOffers

-----------------------------------------------------------------------------
(* beginCredential.                                                        *)

BeginCredential(c) ==
    /\ At(c, "idle")
    /\ tokens < MaxTokens /\ Usable
    /\ \E actor \in Actors :
          ActorLive(actor) /\ Goto(c, [pc |-> "offerActor", actor |-> actor])
    /\ UNCHANGED <<storeVars, memory, retired, tokens, boots, issued, issuance>>

OfferActorRead(c) ==
    /\ At(c, "offerActor")
    /\ \/ Goto(c, [pc |-> "offerActorFound", actor |-> calls[c].actor,
                   row |-> Lookup(calls[c].actor.member)])
       \/ Return(c)
    /\ UNCHANGED <<storeVars, memory, retired, tokens, boots, issued, issuance>>

OfferActorFound(c) ==
    /\ At(c, "offerActorFound")
    /\ IF Current(calls[c].row) /\ ActorLive(calls[c].actor) /\ Usable
         THEN Goto(c, [pc |-> "offerMember", actor |-> calls[c].actor])
         ELSE Return(c)
    /\ UNCHANGED <<storeVars, memory, retired, tokens, boots, issued, issuance>>

OfferMemberRead(c) ==
    /\ At(c, "offerMember")
    /\ \/ Goto(c, [pc |-> "offerMemberFound", actor |-> calls[c].actor,
                   row |-> Lookup(calls[c].actor.member)])
       \/ Return(c)
    /\ UNCHANGED <<storeVars, memory, retired, tokens, boots, issued, issuance>>

(* Expired offers make room; the new one remembers the voucher.            *)
OfferMade(c) ==
    LET actor == calls[c].actor
        kept == Live(offers, clock)
    IN  /\ At(c, "offerMemberFound")
        /\ IF RoomForOffer(kept) /\ ActorLive(actor) /\ Current(calls[c].row)
             THEN /\ tokens' = tokens + 1
                  /\ \E r \in calls[c].row : offers' = kept \cup
                       {[id |-> tokens + 1, member |-> actor.member,
                         voucher |-> r[1], expiresAt |-> clock + OfferLifetime]}
             ELSE UNCHANGED tokens /\ offers' = kept
        /\ Return(c)
        /\ UNCHANGED <<storeVars, memory, retired, boots, issued, minted>>

-----------------------------------------------------------------------------
(* issueCredential.                                                        *)

(* The offer is taken first: it is gone even if the actor is no longer     *)
(* good, or is not the member it was made for.                             *)
IssueWithoutTaking(c) ==
    /\ At(c, "idle")
    /\ \E offer \in offers, actor \in Actors :
          Goto(c, [pc |-> "issueActor", actor |-> actor, offer |-> offer])
    /\ UNCHANGED <<storeVars, memory, retired, tokens, boots, issued, issuance>>
IssueCredential(c) ==
    /\ At(c, "idle")
    /\ \E offer \in offers :
          /\ offers' = offers \ {offer}
          /\ \/ /\ Usable
                /\ \E actor \in Actors :
                      /\ ActorLive(actor)
                      /\ Goto(c, [pc |-> "issueActor", actor |-> actor, offer |-> offer])
             \/ Return(c)
    /\ UNCHANGED <<storeVars, memory, retired, tokens, boots, issued, minted>>

IssueActorRead(c) ==
    /\ At(c, "issueActor")
    /\ \/ Goto(c, [pc |-> "issueActorFound", actor |-> calls[c].actor,
                   offer |-> calls[c].offer, row |-> Lookup(calls[c].actor.member)])
       \/ Return(c)
    /\ UNCHANGED <<storeVars, memory, retired, tokens, boots, issued, issuance>>

OfferOf(offer, actor) == offer.expiresAt > clock /\ offer.member = actor.member

IssueActorFound(c) ==
    LET actor == calls[c].actor IN
    /\ At(c, "issueActorFound")
    /\ IF /\ Current(calls[c].row) /\ ActorLive(actor)
          /\ OfferOf(calls[c].offer, actor) /\ Usable
         THEN Goto(c, [pc |-> "issueMember", actor |-> actor, offer |-> calls[c].offer])
         ELSE Return(c)
    /\ UNCHANGED <<storeVars, memory, retired, tokens, boots, issued, issuance>>

IssueMemberRead(c) ==
    /\ At(c, "issueMember")
    /\ \/ Goto(c, [pc |-> "issueMemberFound", actor |-> calls[c].actor,
                   offer |-> calls[c].offer, row |-> Lookup(calls[c].offer.member)])
       \/ Return(c)
    /\ UNCHANGED <<storeVars, memory, retired, tokens, boots, issued, issuance>>

(* The voucher attestation is valid until the voucher or the credential    *)
(* lifetime ends, whichever is earlier.                                    *)
AttestIgnoringVoucher(until) == clock + CredentialLifetime
Attest(until) ==
    IF until < clock + CredentialLifetime THEN until ELSE clock + CredentialLifetime

IssueMemberFound(c) ==
    LET offer == calls[c].offer IN
    /\ At(c, "issueMemberFound")
    /\ \/ \E r \in calls[c].row :
             /\ r[1] = offer.voucher /\ r[2] > clock
             /\ offer.expiresAt > clock
             /\ ActorLive(calls[c].actor)
             /\ Goto(c, [pc |-> "mint", actor |-> calls[c].actor, offer |-> offer,
                         validUntil |-> Attest(r[2])])
       \/ Return(c)
    /\ UNCHANGED <<storeVars, memory, retired, tokens, boots, issued, issuance>>

(* The issuer makes the credential, or rejects; Issuer models how.         *)
Minted(c) ==
    /\ At(c, "mint")
    /\ \/ minted' = minted \cup {[offer |-> calls[c].offer.id,
                                  member |-> calls[c].offer.member,
                                  validUntil |-> calls[c].validUntil]}
       \/ UNCHANGED minted
    /\ Return(c)
    /\ UNCHANGED <<storeVars, memory, retired, tokens, boots, issued, offers>>

CredentialBegins(c) == BeginCredential(c) \/ IssueCredential(c)

CredentialContinues(c) ==
    \/ OfferActorRead(c) \/ OfferActorFound(c) \/ OfferMemberRead(c) \/ OfferMade(c)
    \/ IssueActorRead(c) \/ IssueActorFound(c)
    \/ IssueMemberRead(c) \/ IssueMemberFound(c) \/ Minted(c)
=============================================================================
