------------------------------ MODULE Redemption ------------------------------
(***************************************************************************)
(* What the issuer promises whoever relies on its credentials, and nothing *)
(* of how: at no time do two valid credentials stand on one receipt, a     *)
(* credential ends with the attestations it was made from, and an          *)
(* operation that is repeated is handed the valid credential it has, if it *)
(* has one, however often it is asked and whatever is lost in between.     *)
(***************************************************************************)
EXTENDS Naturals

CONSTANTS
    Callers,
    Operations,
    Serials,    \* what tells credentials apart
    Needs,      \* the receipts of an operation
    End         \* when the first of its attestations runs out

VARIABLES
    clock,
    credentials,   \* all that were ever made
    asked,         \* the operation a caller asks for, if any
    handed         \* the credential a caller is being handed, if any

redemptionVars == <<clock, credentials, asked, handed>>

Valid(x) == x.expiresAt > clock
Nothing == [c \in Callers |-> {}]

Init ==
    /\ clock = 1
    /\ credentials = {}
    /\ asked = Nothing /\ handed = Nothing

Ask(c, op) ==
    /\ asked[c] = {} /\ handed[c] = {}
    /\ asked' = [asked EXCEPT ![c] = {op}]
    /\ UNCHANGED <<clock, credentials, handed>>

(* The answer to a caller arrives or is lost. *)
Answer(c, x) ==
    /\ asked' = [asked EXCEPT ![c] = {}]
    /\ UNCHANGED handed \/ handed' = [handed EXCEPT ![c] = {x}]

(* A credential is made from receipts on which no valid one stands. *)
Make(c, op, n) ==
    LET made == [operation |-> op, serial |-> n, expiresAt |-> End[op]] IN
    /\ asked[c] = {op}
    /\ \A x \in credentials :
          x.serial # n /\ (Valid(x) => Needs[x.operation] \cap Needs[op] = {})
    /\ credentials' = credentials \cup {made}
    /\ Answer(c, made)
    /\ UNCHANGED clock

(* An earlier one is handed out again, never in place of a valid one. *)
Repeat(c, x) ==
    /\ asked[c] = {x.operation}
    /\ \A y \in credentials : y.operation = x.operation /\ Valid(y) => y = x
    /\ Answer(c, x)
    /\ UNCHANGED <<clock, credentials>>

(* Callers are refused, lost, or go away with what they were handed. *)
Leave(gone) ==
    /\ asked' = [c \in Callers |-> IF c \in gone THEN {} ELSE asked[c]]
    /\ handed' = [c \in Callers |-> IF c \in gone THEN {} ELSE handed[c]]
    /\ UNCHANGED <<clock, credentials>>

Tick == clock' = clock + 1 /\ UNCHANGED <<credentials, asked, handed>>

Next ==
    \/ Tick
    \/ \E gone \in SUBSET Callers : Leave(gone)
    \/ \E c \in Callers :
          \/ \E op \in Operations : Ask(c, op) \/ \E n \in Serials : Make(c, op, n)
          \/ \E x \in credentials : Repeat(c, x)

Spec == Init /\ [][Next]_redemptionVars
=============================================================================
