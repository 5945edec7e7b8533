--------------------------- MODULE BrowserHolder ---------------------------
(***************************************************************************)
(* The browser's credential holder: a page that calls a dedicated Worker,  *)
(* one call at a time with a deadline, and the Worker, which keeps the     *)
(* link secret, the metadata of a pending request and the credential.      *)
(* They exchange messages; the Worker handles one at a time but awaits     *)
(* the loading of WebAssembly and the sealing and opening of its state.    *)
(* One holder is modelled, from createBrowserCredentialHolder to close.    *)
(***************************************************************************)
EXTENDS Integers, Sequences

CONSTANTS
    None,       \* no call is active, no message is being worked on
    MaxCalls    \* bound: calls the page makes

VARIABLES
    sequence,     \* page: the id of its last call
    active,       \* page: the call it waits for, or None
    closed,       \* page: closed, and the Worker terminated
    promises,     \* page: what has become of each call
    toWorker,     \* messages on their way to the Worker
    toPage,       \* messages on their way to the page
    initialized,  \* Worker: the WebAssembly module is loaded
    holder,       \* Worker: the credential handle and how far it is
    working       \* Worker: the message being awaited (busy), or None

page == <<sequence, active, closed, promises>>
worker == <<initialized, holder, working>>
holderVars == <<sequence, active, closed, promises, toWorker, toPage,
                initialized, holder, working>>

Ids == 1 .. MaxCalls
Ops == {"init", "request", "accept", "restore", "presentProfile", "verifyProfile"}
Message == [id : Ids, op : Ops]
ASSUME HolderAssumption == MaxCalls \in Nat \ {0} /\ None \notin Message

Promised == [state : {"none", "pending", "resolved", "rejected"}, op : Ops]

Settle(i, state) == promises' = [promises EXCEPT ![i].state = state]
-----------------------------------------------------------------------------
(* The page.                                                               *)

(* Closing rejects the active call and terminates the Worker, for good.    *)
CloseSilently ==
    /\ ~closed /\ closed' = TRUE
    /\ active' = None /\ UNCHANGED promises
    /\ toWorker' = <<>>
    /\ UNCHANGED <<sequence, toPage, worker>>
Close ==
    /\ ~closed /\ closed' = TRUE
    /\ active' = None
    /\ IF active # None THEN Settle(active.id, "rejected") ELSE UNCHANGED promises
    /\ toWorker' = <<>>
    /\ UNCHANGED <<sequence, toPage, worker>>

(* The first call is init, and there are no others before it has resolved. *)
Call(op) ==
    /\ ~closed /\ active = None
    /\ sequence < MaxCalls
    /\ IF sequence = 0 THEN op = "init" ELSE op # "init" /\ promises[1].state = "resolved"
    /\ sequence' = sequence + 1
    /\ LET sent == [id |-> sequence + 1, op |-> op]
           promise(state) == [promises EXCEPT ![sent.id] = [state |-> state, op |-> op]]
       IN  \/ /\ active' = sent /\ promises' = promise("pending")
              /\ toWorker' = Append(toWorker, sent)
              /\ UNCHANGED <<closed, toPage, worker>>
           \/ (* postMessage throws *)
              /\ active' = None /\ promises' = promise("rejected")
              /\ closed' = TRUE /\ toWorker' = <<>>
              /\ UNCHANGED <<toPage, worker>>

(* A message that is not the answer to the active call closes the holder,  *)
(* and so does a failed init.                                              *)
Answered ==
    /\ toPage # <<>>
    /\ LET answer == Head(toPage) IN
         IF ~closed /\ active # None /\ answer.id = active.id
           THEN /\ Settle(active.id, IF answer.ok THEN "resolved" ELSE "rejected")
                /\ active' = None
                /\ closed' = (active.op = "init" /\ ~answer.ok)
                /\ UNCHANGED <<sequence, toWorker>>
           ELSE IF closed THEN UNCHANGED <<page, toWorker>>
           ELSE /\ closed' = TRUE /\ active' = None /\ toWorker' = <<>>
                /\ IF active # None THEN Settle(active.id, "rejected")
                                    ELSE UNCHANGED promises
                /\ UNCHANGED sequence
    /\ toPage' = Tail(toPage)
    /\ UNCHANGED worker

(* The timer of a call runs until it is answered. *)
DeadlineOfInit == active # None /\ active.op = "init" /\ Close
DeadlineKeepingWorker ==
    /\ active # None /\ active' = None
    /\ Settle(active.id, "rejected")
    /\ UNCHANGED <<sequence, closed, toWorker, toPage, worker>>
Deadline == active # None /\ Close

-----------------------------------------------------------------------------
(* The Worker.                                                             *)

Answer(m, good) == toPage' = Append(toPage, [id |-> m.id, ok |-> good])

Initialize(m) ==
    /\ m.op = "init"
    /\ \/ ~initialized /\ working' = m /\ UNCHANGED <<initialized, holder, toPage>>
       \/ Answer(m, FALSE) /\ UNCHANGED worker

(* The handle exists before the request is made: when that fails, it stays *)
(* without metadata.                                                       *)
RequestAnyTime(m) ==
    /\ m.op = "request"
    /\ \/ /\ initialized
          /\ \/ holder' = "requested" /\ Answer(m, TRUE)
             \/ holder' \in {"none", "fresh"} /\ Answer(m, FALSE)
          /\ UNCHANGED <<initialized, working>>
       \/ Answer(m, FALSE) /\ UNCHANGED worker
Request(m) ==
    /\ m.op = "request"
    /\ \/ /\ initialized /\ holder = "none"
          /\ \/ holder' = "requested" /\ Answer(m, TRUE)
             \/ holder' \in {"none", "fresh"} /\ Answer(m, FALSE)
          /\ UNCHANGED <<initialized, working>>
       \/ /\ ~initialized \/ holder # "none"
          /\ Answer(m, FALSE) /\ UNCHANGED worker

(* The credential is kept before its state is sealed. *)
Accept(m) ==
    /\ m.op = "accept"
    /\ \/ /\ initialized /\ holder = "requested"
          /\ holder' = "held" /\ working' = m
          /\ UNCHANGED <<initialized, toPage>>
       \/ Answer(m, FALSE) /\ UNCHANGED worker

Restore(m) ==
    /\ m.op = "restore"
    /\ \/ /\ initialized /\ holder = "none"
          /\ working' = m
          /\ UNCHANGED <<initialized, holder, toPage>>
       \/ Answer(m, FALSE) /\ UNCHANGED worker

Prove(m) ==
    /\ m.op \in {"presentProfile", "verifyProfile"}
    /\ \E good \in BOOLEAN :
          /\ good => initialized /\ (m.op = "presentProfile" => holder = "held")
          /\ Answer(m, good)
    /\ UNCHANGED worker

(* A message that comes while another is awaited is refused. *)
Handle ==
    /\ ~closed /\ toWorker # <<>>
    /\ LET m == Head(toWorker) IN
         IF working # None THEN Answer(m, FALSE) /\ UNCHANGED worker
         ELSE Initialize(m) \/ Request(m) \/ Accept(m) \/ Restore(m) \/ Prove(m)
    /\ toWorker' = Tail(toWorker)
    /\ UNCHANGED page

(* What was awaited arrives or fails. *)
Finish ==
    /\ ~closed /\ working # None
    /\ working' = None
    /\ \E good \in BOOLEAN :
          /\ Answer(working, good)
          /\ initialized' = (initialized \/ (good /\ working.op = "init"))
          /\ holder' = IF good /\ working.op = "restore" THEN "held" ELSE holder
    /\ UNCHANGED <<page, toWorker>>

Init ==
    /\ sequence = 0 /\ active = None /\ closed = FALSE
    /\ promises = [i \in Ids |-> [state |-> "none", op |-> "init"]]
    /\ toWorker = <<>> /\ toPage = <<>>
    /\ initialized = FALSE /\ holder = "none" /\ working = None

Next ==
    \/ \E op \in Ops : Call(op)
    \/ Close \/ Deadline \/ Answered
    \/ Handle \/ Finish

Spec == Init /\ [][Next]_holderVars

(* A timer that is not cleared fires; nothing else is sure to happen.      *)
FairSpec == Spec /\ WF_holderVars(Deadline)
-----------------------------------------------------------------------------
(* Properties.                                                             *)

TypeOK ==
    /\ sequence \in 0 .. MaxCalls
    /\ active \in Message \cup {None}
    /\ closed \in BOOLEAN
    /\ promises \in [Ids -> Promised]
    /\ toWorker \in Seq(Message)
    /\ toPage \in Seq([id : Ids, ok : BOOLEAN])
    /\ initialized \in BOOLEAN
    /\ holder \in {"none", "fresh", "requested", "held"}
    /\ working \in Message \cup {None}

(* The page waits for exactly the call that is active: none is forgotten   *)
(* when the holder closes, and none is settled by the answer to another.   *)
PromisesAccounted ==
    \A i \in Ids :
        promises[i].state = "pending" <=> active # None /\ active.id = i

(* The page never sends a message while the Worker is busy, so the refusal *)
(* of a busy Worker is never the answer to a call.                         *)
NeverBusy == working # None => toWorker = <<>>

(* What the page was told of the Worker stays so: a blinded request it was *)
(* given can still be accepted, and a credential it was told of is held.   *)
AnswersStayTrue ==
    \A i \in Ids : promises[i].state = "resolved" =>
        /\ promises[i].op = "request" => holder \in {"requested", "held"}
        /\ promises[i].op \in {"accept", "restore"} => holder = "held"

(* Every call is settled, at the latest by its deadline. *)
EveryCallSettles ==
    \A i \in Ids : promises[i].state = "pending" ~> promises[i].state # "pending"

(* To the page the holder is an object that does one thing at a time.  An  *)
(* accept takes effect when it is answered, although the Worker keeps the  *)
(* credential before: nothing can be seen of it until then.                *)
Kept == IF working # None /\ working.op = "accept" THEN "requested" ELSE holder
Outcome == IF active # None /\ toPage # <<>> THEN {Head(toPage).ok} ELSE {}
Promise == INSTANCE AtomicHolder
             WITH last <- sequence, calls <- promises, outcome <- Outcome,
                  ready <- initialized, handle <- Kept
ImplementsAtomicHolder == Promise!Spec
=============================================================================
