----------------------------- MODULE AtomicHolder -----------------------------
(***************************************************************************)
(* What a page may rely on when it calls its credential holder, and        *)
(* nothing of how: no Worker, no messages.  Calls are made one at a time;  *)
(* a call takes effect at one moment between its beginning and its answer, *)
(* or not at all; its promise is settled by its own outcome, or rejected   *)
(* when the holder is given up, and then for good.                         *)
(***************************************************************************)
EXTENDS Naturals

CONSTANT MaxCalls

VARIABLES
    closed,
    last,      \* the number of calls made
    calls,     \* what has become of each
    outcome,   \* how the pending one went, once it has taken effect
    ready,     \* initialized
    handle     \* the credential handle and how far it is

atomicVars == <<closed, last, calls, outcome, ready, handle>>

Ids == 1 .. MaxCalls
Ops == {"init", "request", "accept", "restore", "presentProfile", "verifyProfile"}

Pending(i) == calls[i].state = "pending"

Init ==
    /\ closed = FALSE /\ last = 0
    /\ calls = [i \in Ids |-> [state |-> "none", op |-> "init"]]
    /\ outcome = {} /\ ready = FALSE /\ handle = "none"

Invoke(op) ==
    /\ ~closed /\ \A i \in Ids : ~Pending(i)
    /\ last < MaxCalls /\ last' = last + 1
    /\ IF last = 0 THEN op = "init" ELSE op # "init" /\ calls[1].state = "resolved"
    /\ \E state \in {"pending", "rejected"} :
          /\ calls' = [calls EXCEPT ![last + 1] = [state |-> state, op |-> op]]
          /\ closed' = (state = "rejected")
    /\ UNCHANGED <<outcome, ready, handle>>

(* A request that fails may leave a handle, and an accept that fails may   *)
(* have accepted; of the others a failure leaves nothing.                  *)
Effect(op, good) ==
    \/ op = "init" /\ ready' = (ready \/ good) /\ UNCHANGED handle
    \/ /\ op = "request" /\ UNCHANGED ready
       /\ \/ good /\ ready /\ handle = "none" /\ handle' = "requested"
          \/ ~good /\ ready /\ handle = "none" /\ handle' = "fresh"
          \/ ~good /\ UNCHANGED handle
    \/ /\ op = "accept" /\ UNCHANGED ready
       /\ \/ ready /\ handle = "requested" /\ handle' = "held"
          \/ ~good /\ UNCHANGED handle
    \/ /\ op = "restore" /\ UNCHANGED ready
       /\ \/ good /\ ready /\ handle = "none" /\ handle' = "held"
          \/ ~good /\ UNCHANGED handle
    \/ /\ op \in {"presentProfile", "verifyProfile"} /\ UNCHANGED <<ready, handle>>
       /\ good => ready /\ (op = "presentProfile" => handle = "held")

Perform(i) ==
    /\ ~closed /\ Pending(i) /\ outcome = {}
    /\ \E good \in BOOLEAN : outcome' = {good} /\ Effect(calls[i].op, good)
    /\ UNCHANGED <<closed, last, calls>>

Return(i) ==
    /\ ~closed /\ Pending(i)
    /\ \E good \in outcome :
          /\ calls' = [calls EXCEPT ![i].state = IF good THEN "resolved" ELSE "rejected"]
          /\ closed' = (calls[i].op = "init" /\ ~good)
    /\ outcome' = {}
    /\ UNCHANGED <<last, ready, handle>>

GiveUp ==
    /\ ~closed /\ closed' = TRUE
    /\ calls' = [i \in Ids |-> IF Pending(i) THEN [calls[i] EXCEPT !.state = "rejected"]
                                             ELSE calls[i]]
    /\ outcome' = {}
    /\ UNCHANGED <<last, ready, handle>>

Next ==
    \/ \E op \in Ops : Invoke(op)
    \/ \E i \in Ids : Perform(i) \/ Return(i)
    \/ GiveUp

Spec == Init /\ [][Next]_atomicVars
=============================================================================
