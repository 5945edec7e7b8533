------------------------------ MODULE Principals ------------------------------
(***************************************************************************)
(* How the HTTP handler finds out on whose behalf a request acts, and the  *)
(* routes behind it that manage API keys or ask for a credential.  A       *)
(* request names a session by its cookie, carries a bearer token, or both; *)
(* the session goes first, and when it is refused, even after an await,    *)
(* the token is tried.  calls[r] of ApiKeys is the bearer half of request  *)
(* r.  Of the entry service this module has the sessions and the expiry of *)
(* the vouchers alone.                                                     *)
(***************************************************************************)
EXTENDS ApiKeys

CONSTANTS
    SessionLifetime,
    MaxOpened            \* bound: sessions ever opened

ASSUME PrincipalAssumption ==
    /\ SessionLifetime \in Nat \ {0}
    /\ MaxOpened \in Nat

VARIABLES
    sessions,   \* sessions of the entry service
    opened,     \* how many were opened; the id of the last
    requests    \* requests in progress

principalVars == <<store, clock, floor, keys, created, calls, retired, revoked,
                   sessions, opened, requests>>

Session == [id : 1 .. MaxOpened, member : Members,
            expiresAt : 1 .. MaxTime + SessionLifetime]
Routes == {"create", "list", "revoke", "credential"}
ScopeOf(route) == IF route = "credential" THEN "credentials:issue" ELSE "api-key:manage"

(* A request in progress.  session is the one its cookie named on arrival, *)
(* if it was open.                                                         *)
NoRequest == [pc |-> "none"]
Request == {NoRequest} \cup
    [pc : {"readOwner", "bearer", "principal"}, route : Routes, token : BOOLEAN,
     session : SUBSET Session]

At(r, pc) == requests[r].pc = pc
Move(r, pc) == requests' = [requests EXCEPT ![r].pc = pc]
Respond(r) == requests' = [requests EXCEPT ![r] = NoRequest]
Live(s) == s \in sessions /\ s.expiresAt > clock
-----------------------------------------------------------------------------
(* The handler and authenticatedPrincipal let a request through if its     *)
(* origin is the configured one.  A read may also come without an origin,  *)
(* and so may a request for a credential that only has a token.            *)
Admitted(route, cookie, token, origin) ==
    \/ origin = "own"
    \/ origin = "none" /\ route = "list"
    \/ origin = "none" /\ route = "credential" /\ cookie = 0 /\ token

Arrive(r) ==
    /\ At(r, "none")
    /\ \E route \in Routes, cookie \in 0 .. MaxOpened, token \in BOOLEAN,
          origin \in {"own", "none", "foreign"} :
          LET named == {s \in sessions : s.id = cookie /\ Live(s)} IN
          /\ Admitted(route, cookie, token, origin)
          /\ requests' = [requests EXCEPT ![r] =
                [pc |-> IF named = {} THEN "bearer" ELSE "readOwner", route |-> route,
                 token |-> token, session |-> named]]
    /\ UNCHANGED <<apiKeyVars, sessions, opened>>

(* authenticatedSession has read the member: the session is looked at once *)
(* more, and the token is tried if it is no longer there.                  *)
OwnerRead(r) ==
    /\ At(r, "readOwner")
    /\ \E s \in requests[r].session :
          IF Live(s) /\ MemberUntil[s.member] > clock
            THEN Move(r, "principal")
            ELSE Move(r, "bearer")
    /\ UNCHANGED <<apiKeyVars, sessions, opened>>

(* A token that is accepted starts the bearer half; one that is refused,   *)
(* by a transaction or before one, ends the request.                       *)
BearerAsked(r) ==
    /\ At(r, "bearer") /\ requests[r].token
    /\ Authenticate(r)
    /\ IF calls'[r] = Idle
         THEN Respond(r)
         ELSE calls'[r].scope = ScopeOf(requests[r].route) /\ UNCHANGED requests
    /\ UNCHANGED <<sessions, opened>>
BearerContinues(r) ==
    /\ Answered(r) \/ MemberLookedUp(r)
    /\ IF calls'[r] = Idle THEN Respond(r) ELSE UNCHANGED requests
    /\ UNCHANGED <<sessions, opened>>

-----------------------------------------------------------------------------
(* The routes.  Keys are managed by a session alone.                       *)

SessionPrincipal(r) ==
    IF At(r, "principal") THEN {s.member : s \in requests[r].session} ELSE {}
BearerPrincipal(r) == IF calls[r].pc = "principal" THEN {calls[r].key.member} ELSE {}
AnyPrincipal(r) == SessionPrincipal(r) \cup BearerPrincipal(r)
Manager(r) == SessionPrincipal(r)

(* A request ends without effect: nobody is behind it, or a store throws,  *)
(* which may leave the handle of the keys in doubt.                        *)
Refused(r) ==
    /\ ~At(r, "none") /\ calls[r] = Idle
    /\ Respond(r)
    /\ \/ UNCHANGED apiKeyVars
       \/ /\ \/ At(r, "bearer") /\ requests[r].token
             \/ Manager(r) # {} /\ requests[r].route # "credential"
          /\ InDoubt
    /\ UNCHANGED <<sessions, opened>>

KeyCreated(r) ==
    /\ requests[r].route = "create"
    /\ \E m \in Manager(r), scopes \in SUBSET Scopes \ {{}},
          until \in 1 .. MaxTime + MaxLifetime : Create(m, scopes, until)

KeysListed(r) ==
    /\ requests[r].route = "list"
    /\ \E m \in Manager(r) : List(m)

KeyRevoked(r) ==
    /\ requests[r].route = "revoke"
    /\ \E m \in Manager(r), id \in 1 .. MaxCreated : Revoke(m, id)

Manage(r) ==
    /\ ~At(r, "none")
    /\ KeyCreated(r) \/ KeysListed(r) \/ KeyRevoked(r)
    /\ Respond(r)
    /\ UNCHANGED <<sessions, opened>>

(* A bearer principal is handed to the entry service for a credential, or  *)
(* turned away by the routes for keys.                                     *)
BearerUsed(r) ==
    /\ PrincipalUsed(r)
    /\ Respond(r)
    /\ UNCHANGED <<sessions, opened>>

-----------------------------------------------------------------------------
(* The entry service, the clock and the process.                           *)

OpenSession ==
    /\ opened < MaxOpened /\ opened' = opened + 1
    /\ \E m \in Members :
          /\ MemberUntil[m] > clock
          /\ sessions' = sessions \cup
               {[id |-> opened + 1, member |-> m, expiresAt |-> clock + SessionLifetime]}
    /\ UNCHANGED <<apiKeyVars, requests>>

(* A member logs out, or an expired session is forgotten. *)
EndSession ==
    /\ \E s \in sessions : sessions' = sessions \ {s}
    /\ UNCHANGED <<apiKeyVars, opened, requests>>

ClockSet == SetClock /\ UNCHANGED <<sessions, opened, requests>>

Restart ==
    /\ Reopen
    /\ sessions' = {} /\ requests' = [r \in Callers |-> NoRequest]
    /\ UNCHANGED opened

PrincipalInit ==
    /\ Init
    /\ sessions = {} /\ opened = 0
    /\ requests = [r \in Callers |-> NoRequest]

PrincipalNext ==
    \/ OpenSession \/ EndSession \/ ClockSet \/ Restart
    \/ \E r \in Callers :
          \/ Arrive(r) \/ OwnerRead(r) \/ BearerAsked(r) \/ BearerContinues(r)
          \/ Refused(r) \/ Manage(r) \/ BearerUsed(r)

PrincipalSpec == PrincipalInit /\ [][PrincipalNext]_principalVars
-----------------------------------------------------------------------------
(* Properties.                                                             *)

(* Requests, sessions and the bearer halves of requests fit together.      *)
PrincipalTypeOK ==
    /\ sessions \in SUBSET Session /\ opened \in 0 .. MaxOpened
    /\ requests \in [Callers -> Request]
    /\ \A r \in Callers : calls[r] # Idle => At(r, "bearer")

(* docs/voucher-entry.md: "an API key cannot mint or revoke another key".  *)
(* A key comes into being, or goes before its time, only in a request whose *)
(* cookie named an open session of the key's member when it arrived: not   *)
(* by a token, not by one tried after the session had been refused, and    *)
(* not by a session ended before.                                          *)
KeysNeedASession ==
    [][\A k \in (keys' \ keys) \cup Unexpired(keys \ keys') :
          \E r \in Callers :
             /\ requests[r].pc = "principal" /\ requests'[r] = NoRequest
             /\ \E s \in requests[r].session : s.member = k.member]_principalVars

(* What is proved of the keys for any requests holds for those of the      *)
(* handler.                                                                *)
KeepsKeys == Spec
=============================================================================
