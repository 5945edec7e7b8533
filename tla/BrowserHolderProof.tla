-------------------------- MODULE BrowserHolderProof --------------------------
(***************************************************************************)
(* Proofs about BrowserHolder for any number of calls.  Page and Worker    *)
(* share no state, but what is between them is one call at most: its       *)
(* message, the Worker's work on it, or its answer.  A holder that closes  *)
(* gives up the call and never sends another, so a late answer finds none. *)
(***************************************************************************)
EXTENDS BrowserHolder, TLAPS

(* Where the active call is. *)
Sent(m) == toWorker = <<m>> /\ working = None /\ toPage = <<>>
Worked(m) == toWorker = <<>> /\ working = m /\ toPage = <<>>
Replied(m, good) ==
    toWorker = <<>> /\ working = None /\ toPage = <<[id |-> m.id, ok |-> good]>>
Quiet == toWorker = <<>> /\ working = None /\ toPage = <<>>

(* What an answer says of the Worker. *)
Shown(op) ==
    /\ op = "request" => holder \in {"requested", "held"}
    /\ op \in {"accept", "restore"} => holder = "held"

OneInFlight ==
    /\ closed => active = None /\ toWorker = <<>>
    /\ ~closed /\ active = None => Quiet
    /\ ~closed /\ active # None =>
          \/ Sent(active)
          \/ /\ Worked(active) /\ active.op # "request"
             /\ active.op = "accept" => holder = "held"
          \/ Replied(active, FALSE)
          \/ Replied(active, TRUE) /\ Shown(active.op)
Accounted ==
    /\ PromisesAccounted
    /\ active # None => promises[active.id].op = active.op

(* The inductive invariant. *)
IInv == TypeOK /\ OneInFlight /\ Accounted /\ AnswersStayTrue

(* It implies that the Worker is never asked while it is busy. *)
LEMMA Implied == IInv => TypeOK /\ PromisesAccounted /\ NeverBusy /\ AnswersStayTrue
BY DEF IInv, Accounted, OneInFlight, Quiet, Sent, Worked, Replied, NeverBusy

(* A message is never None. *)
LEMMA Messages ==
  /\ \A m \in Message : m # None /\ m.id \in Ids /\ m.op \in Ops
  /\ \A i \in Ids, op \in Ops : [id |-> i, op |-> op] \in Message
BY HolderAssumption DEF Message
-----------------------------------------------------------------------------
(* The page's steps, by what becomes of the promises.                      *)

(* A call that is active is settled, and no other call is pending then.    *)
LEMMA Settled ==
  ASSUME IInv, active # None, NEW state \in {"resolved", "rejected"},
         Settle(active.id, state), active' = None, UNCHANGED holder,
         state = "resolved" => Shown(active.op)
  PROVE  promises' \in [Ids -> Promised] /\ Accounted' /\ AnswersStayTrue'
<1>1. active \in Message /\ active.id \in Ids /\ promises \in [Ids -> Promised]
  BY Messages DEF IInv, TypeOK
<1> DEFINE p == promises[active.id]
<1>2. /\ promises' = [promises EXCEPT ![active.id] = [p EXCEPT !.state = state]]
      /\ p \in Promised
  BY <1>1 DEF Settle
<1>3. /\ [p EXCEPT !.state = state] \in Promised
      /\ [p EXCEPT !.state = state].state = state
      /\ [p EXCEPT !.state = state].op = active.op
  BY <1>1, <1>2 DEF Promised, IInv, Accounted
<1>4. /\ promises' \in [Ids -> Promised]
      /\ promises'[active.id].state = state /\ promises'[active.id].op = active.op
      /\ \A i \in Ids : i # active.id => promises'[i] = promises[i]
  BY <1>1, <1>2, <1>3
<1>5. Accounted'
  BY <1>1, <1>4 DEF IInv, Accounted, PromisesAccounted
<1>6. AnswersStayTrue'
  BY <1>1, <1>4 DEF IInv, AnswersStayTrue, Shown
<1> QED BY <1>4, <1>5, <1>6

(* The holder closes. *)
LEMMA CloseKeeps ==
  ASSUME IInv, Close
  PROVE  IInv'
<1>1. /\ active' = None /\ closed' = TRUE /\ toWorker' = <<>>
      /\ UNCHANGED <<sequence, toPage, initialized, holder, working>>
  BY DEF Close, worker
<1>2. promises' \in [Ids -> Promised] /\ Accounted' /\ AnswersStayTrue'
  <2>1. CASE active # None
    BY <1>1, <2>1, Settled DEF Close
  <2>2. CASE active = None
    BY <1>1, <2>2
       DEF Close, IInv, TypeOK, Accounted, PromisesAccounted, AnswersStayTrue
  <2> QED BY <2>1, <2>2
<1>3. TypeOK'
  <2>1. TypeOK
    BY DEF IInv
  <2>2. toWorker' \in Seq(Message) /\ active' \in Message \cup {None} /\ closed' \in BOOLEAN
    BY <1>1
  <2> QED BY <1>1, <1>2, <2>1, <2>2, Zenon DEF TypeOK
<1>4. OneInFlight'
  BY <1>1, Zenon DEF OneInFlight
<1> QED BY <1>2, <1>3, <1>4 DEF IInv

(* A call is made: nothing is on its way before it. *)
LEMMA CallKeeps ==
  ASSUME IInv, NEW op \in Ops, Call(op)
  PROVE  IInv'
<1> DEFINE sent == [id |-> sequence + 1, op |-> op]
<1>1. /\ sequence \in 0 .. MaxCalls /\ sequence < MaxCalls /\ sequence' = sequence + 1
      /\ active = None /\ ~closed /\ UNCHANGED <<toPage, initialized, holder, working>>
      /\ promises \in [Ids -> Promised]
  BY DEF Call, IInv, TypeOK, worker
<1>2. sent.id \in Ids /\ sent \in Message /\ sent.op = op /\ sent # None
      /\ sequence' \in 0 .. MaxCalls
  BY <1>1, HolderAssumption, Messages DEF Ids
<1>3. Quiet
  BY <1>1 DEF IInv, OneInFlight
<1>4. PICK state \in {"pending", "rejected"} :
        /\ promises' = [promises EXCEPT ![sent.id] = [state |-> state, op |-> op]]
        /\ \/ /\ state = "pending" /\ active' = sent
              /\ toWorker' = Append(toWorker, sent) /\ UNCHANGED closed
           \/ state = "rejected" /\ active' = None /\ closed' = TRUE /\ toWorker' = <<>>
  BY DEF Call
<1> HIDE DEF sent
<1>5. /\ promises'[sent.id] = [state |-> state, op |-> op]
      /\ \A i \in Ids : i # sent.id => promises'[i] = promises[i]
      /\ promises' \in [Ids -> Promised]
  BY <1>1, <1>2, <1>4 DEF Promised
<1>6. \/ active' = sent /\ toWorker' = <<sent>> /\ closed' = FALSE
      \/ active' = None /\ toWorker' = <<>> /\ closed' = TRUE
  BY <1>1, <1>3, <1>4 DEF Quiet, IInv, TypeOK
<1>7. TypeOK'
  <2>1. TypeOK
    BY DEF IInv
  <2>2. toWorker' \in Seq(Message)
    <3>1. <<sent>> \in Seq(Message) /\ <<>> \in Seq(Message)
      BY <1>2
    <3> QED BY <1>6, <3>1, Zenon
  <2>3. active' \in Message \cup {None} /\ closed' \in BOOLEAN
    BY <1>2, <1>6, Zenon
  <2> QED BY <1>1, <1>2, <1>5, <2>1, <2>2, <2>3, Zenon DEF TypeOK
<1>8. OneInFlight'
  <2>1. CASE active' = sent /\ toWorker' = <<sent>> /\ closed' = FALSE
    <3>1. Sent(active)'
      BY <1>1, <1>3, <2>1 DEF Quiet, Sent
    <3> QED BY <1>2, <2>1, <3>1 DEF OneInFlight
  <2>2. CASE active' = None /\ toWorker' = <<>> /\ closed' = TRUE
    BY <2>2 DEF OneInFlight
  <2> QED BY <1>6, <2>1, <2>2
<1>9. Accounted'
  BY <1>1, <1>2, <1>4, <1>5 DEF IInv, Accounted, PromisesAccounted
<1>10. AnswersStayTrue'
  BY <1>1, <1>2, <1>4, <1>5 DEF IInv, AnswersStayTrue
<1> QED BY <1>7, <1>8, <1>9, <1>10 DEF IInv

(* An answer comes: to the active call, or after the holder closed.        *)
LEMMA AnsweredKeeps ==
  ASSUME IInv, Answered
  PROVE  IInv'
<1>1. /\ toPage # <<>> /\ toPage' = Tail(toPage)
      /\ UNCHANGED <<initialized, holder, working>>
  BY DEF Answered, worker
<1>2. toPage' \in Seq([id : Ids, ok : BOOLEAN])
  BY <1>1 DEF IInv, TypeOK
<1>3. CASE closed
  <2>1. UNCHANGED <<sequence, active, closed, promises, toWorker>>
    BY <1>3 DEF Answered, page
  <2> QED BY <1>1, <1>2, <1>3, <2>1
          DEF IInv, TypeOK, OneInFlight, Accounted, PromisesAccounted, AnswersStayTrue
<1>4. CASE ~closed
  <2>1. /\ active # None
        /\ \E good \in BOOLEAN : Replied(active, good) /\ (good => Shown(active.op))
    BY <1>1, <1>4 DEF IInv, OneInFlight, Quiet, Sent, Worked, Replied
  <2>2. PICK good \in BOOLEAN : Replied(active, good) /\ (good => Shown(active.op))
    BY <2>1
  <2>3. Head(toPage) = [id |-> active.id, ok |-> good] /\ toPage' = <<>>
    BY <1>1, <2>2 DEF Replied
  <2>4. /\ Settle(active.id, IF good THEN "resolved" ELSE "rejected")
        /\ active' = None /\ UNCHANGED <<sequence, toWorker>>
        /\ closed' = (active.op = "init" /\ ~good)
    BY <1>4, <2>1, <2>3 DEF Answered
  <2>5. promises' \in [Ids -> Promised] /\ Accounted' /\ AnswersStayTrue'
    BY <1>1, <2>1, <2>2, <2>4, Settled
  <2>6. TypeOK'
    <3>1. closed' \in BOOLEAN /\ active' \in Message \cup {None} /\ TypeOK
      BY <2>4, Zenon DEF IInv
    <3> QED BY <1>1, <1>2, <2>4, <2>5, <3>1, Zenon DEF TypeOK
  <2>7. OneInFlight'
    BY <1>1, <2>2, <2>3, <2>4 DEF OneInFlight, Quiet, Replied
  <2> QED BY <2>5, <2>6, <2>7 DEF IInv
<1> QED BY <1>3, <1>4

-----------------------------------------------------------------------------
(* The Worker's steps.                                                     *)

(* The Worker unlearns nothing that an answer says of it. *)
Keeps ==
    /\ holder = "held" => holder' = "held"
    /\ holder = "requested" => holder' \in {"requested", "held"}

(* It takes the active call's message, and answers or works on it.         *)
LEMMA HandleKeeps ==
  ASSUME IInv, Handle
  PROVE  IInv'
<1>1. /\ ~closed /\ toWorker # <<>> /\ toWorker' = Tail(toWorker)
      /\ UNCHANGED <<sequence, active, closed, promises>>
  BY DEF Handle, page
<1>2. active # None /\ Sent(active)
  BY <1>1 DEF IInv, OneInFlight, Quiet, Sent, Worked, Replied
<1>3. /\ Head(toWorker) = active /\ toWorker' = <<>> /\ working = None /\ toPage = <<>>
      /\ active \in Message
  BY <1>1, <1>2 DEF Sent, IInv, TypeOK
<1>4. /\ UNCHANGED initialized
      /\ holder' \in {"none", "fresh", "requested", "held"} /\ Keeps
      /\ \/ /\ working' = active /\ toPage' = <<>>
            /\ active.op # "request" /\ (active.op = "accept" => holder' = "held")
         \/ /\ working' = None
            /\ \E good \in BOOLEAN :
                 /\ toPage' = <<[id |-> active.id, ok |-> good]>>
                 /\ good => Shown(active.op)'
  <2> USE DEF Answer, worker, Keeps, Shown, IInv, TypeOK
  <2>0. \A good \in BOOLEAN : Answer(active, good) =>
          toPage' = <<[id |-> active.id, ok |-> good]>>
    BY <1>3
  <2>1. CASE Initialize(active)
    BY <1>1, <1>3, <2>0, <2>1 DEF Initialize
  <2>2. CASE Request(active)
    BY <1>1, <1>3, <2>0, <2>2 DEF Request
  <2>3. CASE Accept(active)
    BY <1>1, <1>3, <2>0, <2>3 DEF Accept
  <2>4. CASE Restore(active)
    BY <1>1, <1>3, <2>0, <2>4 DEF Restore
  <2>5. CASE Prove(active)
    BY <1>1, <1>3, <2>0, <2>5 DEF Prove
  <2> QED BY <1>3, <2>1, <2>2, <2>3, <2>4, <2>5 DEF Handle
<1>5. TypeOK'
  <2>1. toPage' \in Seq([id : Ids, ok : BOOLEAN])
    <3>1. \A good \in BOOLEAN : [id |-> active.id, ok |-> good] \in [id : Ids, ok : BOOLEAN]
      BY <1>3, Messages
    <3>2. ASSUME NEW good \in BOOLEAN
          PROVE  <<[id |-> active.id, ok |-> good]>> \in Seq([id : Ids, ok : BOOLEAN])
      BY <3>1
    <3>3. <<>> \in Seq([id : Ids, ok : BOOLEAN])
      OBVIOUS
    <3> QED BY <1>4, <3>2, <3>3, Zenon
  <2>2. working' \in Message \cup {None} /\ toWorker' \in Seq(Message) /\ TypeOK
    BY <1>3, <1>4 DEF IInv
  <2> QED BY <1>1, <1>4, <2>1, <2>2, Zenon DEF TypeOK
<1>6. OneInFlight'
  BY <1>1, <1>2, <1>3, <1>4 DEF OneInFlight, Worked, Replied, Shown
<1>7. Accounted' /\ AnswersStayTrue'
  BY <1>1, <1>4 DEF IInv, Accounted, PromisesAccounted, AnswersStayTrue, Keeps
<1> QED BY <1>5, <1>6, <1>7 DEF IInv

(* What it awaited arrives or fails, and the call is answered. *)
LEMMA FinishKeeps ==
  ASSUME IInv, Finish
  PROVE  IInv'
<1>1. /\ ~closed /\ working # None /\ working' = None
      /\ UNCHANGED <<sequence, active, closed, promises, toWorker>>
  BY DEF Finish, page
<1>2. /\ active # None /\ Worked(active) /\ (active.op = "accept" => holder = "held")
      /\ active \in Message /\ active.op # "request"
  BY <1>1 DEF IInv, OneInFlight, Quiet, Sent, Worked, Replied, TypeOK
<1>3. PICK good \in BOOLEAN :
        /\ Answer(active, good)
        /\ initialized' = (initialized \/ (good /\ active.op = "init"))
        /\ holder' = IF good /\ active.op = "restore" THEN "held" ELSE holder
  BY <1>2 DEF Finish, Worked
<1>4. toPage' = <<[id |-> active.id, ok |-> good]>>
  BY <1>2, <1>3 DEF Answer, Worked
<1>5. Keeps /\ holder' \in {"none", "fresh", "requested", "held"}
  BY <1>3 DEF Keeps, IInv, TypeOK
<1>6. initialized' \in BOOLEAN
  BY <1>3 DEF IInv, TypeOK
<1>7. TypeOK'
  <2>1. toPage' \in Seq([id : Ids, ok : BOOLEAN])
    BY <1>2, <1>4, Messages
  <2> QED BY <1>1, <1>5, <1>6, <2>1 DEF IInv, TypeOK
<1>8. good => Shown(active.op)'
  BY <1>1, <1>2, <1>3, <1>5 DEF Shown, Keeps
<1>9. OneInFlight'
  BY <1>1, <1>2, <1>3, <1>4, <1>8 DEF OneInFlight, Worked, Replied, Shown
<1>10. Accounted' /\ AnswersStayTrue'
  BY <1>1, <1>5 DEF IInv, Accounted, PromisesAccounted, AnswersStayTrue, Keeps
<1> QED BY <1>7, <1>9, <1>10 DEF IInv
-----------------------------------------------------------------------------
(* The theorems.                                                           *)

(* The invariant holds initially and is inductive. *)
LEMMA Invariant == Spec => []IInv
<1>1. Init => IInv
  <2> SUFFICES ASSUME Init PROVE IInv
    OBVIOUS
  <2>1. /\ sequence \in 0 .. MaxCalls
        /\ promises \in [Ids -> Promised]
    BY HolderAssumption DEF Init, Promised, Ops
  <2>2. toWorker \in Seq(Message) /\ toPage \in Seq([id : Ids, ok : BOOLEAN])
    BY DEF Init
  <2>3. TypeOK
    BY <2>1, <2>2, Zenon DEF Init, TypeOK
  <2>4. OneInFlight
    BY DEF Init, OneInFlight, Quiet
  <2>5. Accounted /\ AnswersStayTrue
    BY DEF Init, Accounted, PromisesAccounted, AnswersStayTrue
  <2> QED BY <2>3, <2>4, <2>5 DEF IInv
<1>2. IInv /\ [Next]_holderVars => IInv'
  <2> SUFFICES ASSUME IInv, [Next]_holderVars PROVE IInv'
    OBVIOUS
  <2>1. CASE UNCHANGED holderVars
    BY <2>1
       DEF holderVars, IInv, TypeOK, OneInFlight, Quiet, Sent, Worked, Replied, Shown,
           Accounted, PromisesAccounted, AnswersStayTrue
  <2> QED BY <2>1, CallKeeps, CloseKeeps, AnsweredKeeps, HandleKeeps, FinishKeeps
          DEF Next, Deadline
<1> QED BY <1>1, <1>2, PTL DEF Spec

(***************************************************************************)
(* Page, Worker and messages keep their types.                             *)
(***************************************************************************)
THEOREM HolderTypeCorrect == Spec => []TypeOK
BY Invariant, Implied, PTL

(***************************************************************************)
(* The page waits for the active call and for no other, through answers,   *)
(* deadlines and closings.                                                 *)
(***************************************************************************)
THEOREM PromisesAlwaysAccounted == Spec => []PromisesAccounted
BY Invariant, Implied, PTL

(***************************************************************************)
(* No message is ever on its way to a Worker that awaits something.        *)
(***************************************************************************)
THEOREM WorkerNeverAskedTwice == Spec => []NeverBusy
BY Invariant, Implied, PTL

(***************************************************************************)
(* A request the page was given can still be accepted, and a credential it *)
(* was told of is held, as long as the Worker lives.                       *)
(***************************************************************************)
THEOREM AnswersAlwaysTrue == Spec => []AnswersStayTrue
BY Invariant, Implied, PTL

-----------------------------------------------------------------------------
(* The holder as one object: each step does what AtomicHolder allows.      *)

(* What the Worker awaits, and what it has done already. *)
Underway ==
    working # None =>
        /\ working.op \in {"init", "accept", "restore"}
        /\ working.op = "accept" => initialized /\ holder = "held"
        /\ working.op = "restore" => initialized /\ holder = "none"

LEMMA AlwaysUnderway == Spec => []Underway
<1>1. Init => Underway
  BY DEF Init, Underway
<1>2. Underway /\ [Next]_holderVars => Underway'
  <2> SUFFICES ASSUME Underway, [Next]_holderVars PROVE Underway'
    OBVIOUS
  <2>1. CASE UNCHANGED worker
    BY <2>1 DEF worker, Underway
  <2>2. CASE Handle
    BY <2>1, <2>2
       DEF Handle, Initialize, Request, Accept, Restore, Prove, worker, Underway
  <2>3. CASE Finish
    BY <2>3 DEF Finish, Underway
  <2> QED BY <2>1, <2>2, <2>3, Zenon
          DEF Next, Call, Close, Deadline, Answered, holderVars, worker
<1> QED BY <1>1, <1>2, PTL DEF Spec

(* The pending call is the active one. *)
LEMMA PendingCall ==
  ASSUME IInv
  PROVE  /\ active = None => Outcome = {} /\ \A i \in Ids : ~Promise!Pending(i)
         /\ active # None =>
              /\ active.id \in Ids /\ promises[active.id].op = active.op
              /\ \A i \in Ids : Promise!Pending(i) <=> i = active.id
BY Messages DEF IInv, TypeOK, Accounted, PromisesAccounted, Outcome, Promise!Pending

LEMMA CloseGivesUp ==
  ASSUME IInv, Close
  PROVE  Promise!GiveUp
<1>1. /\ ~closed /\ closed' = TRUE /\ active' = None
      /\ UNCHANGED <<sequence, initialized, holder, working>>
  BY DEF Close, worker
<1>2. Outcome' = {} /\ UNCHANGED Kept
  BY <1>1 DEF Outcome, Kept
<1>3. promises' = [i \in Ids |-> IF Promise!Pending(i)
                                   THEN [promises[i] EXCEPT !.state = "rejected"]
                                   ELSE promises[i]]
  BY PendingCall DEF Close, Settle, IInv, TypeOK
<1> QED BY <1>1, <1>2, <1>3 DEF Promise!GiveUp, Promise!Ids, Ids

LEMMA CallInvokes ==
  ASSUME IInv, NEW op \in Ops, Call(op)
  PROVE  Promise!Invoke(op)
<1>1. /\ ~closed /\ active = None /\ sequence < MaxCalls /\ sequence' = sequence + 1
      /\ IF sequence = 0 THEN op = "init"
                         ELSE op # "init" /\ promises[1].state = "resolved"
      /\ UNCHANGED <<toPage, initialized, holder, working>>
  BY DEF Call, worker
<1>2. PICK state \in {"pending", "rejected"} :
        /\ promises' = [promises EXCEPT ![sequence + 1] = [state |-> state, op |-> op]]
        /\ closed' = (state = "rejected")
  BY <1>1 DEF Call, IInv, TypeOK
<1>3. toPage = <<>>
  BY <1>1 DEF IInv, OneInFlight, Quiet
<1>4. Outcome = {} /\ Outcome' = {} /\ UNCHANGED Kept
  BY <1>1, <1>3 DEF Outcome, Kept
<1>5. \A i \in Ids : ~Promise!Pending(i)
  BY <1>1, PendingCall
<1> QED BY <1>1, <1>2, <1>4, <1>5 DEF Promise!Invoke, Promise!Ids, Ids

(* An answer is the call's return, or comes too late for anyone to see. *)
LEMMA AnsweredReturns ==
  ASSUME IInv, Answered
  PROVE  (\E i \in Ids : Promise!Return(i)) \/ UNCHANGED Promise!atomicVars
<1>1. toPage # <<>> /\ UNCHANGED <<initialized, holder, working>> /\ UNCHANGED Kept
  BY DEF Answered, worker, Kept
<1>2. CASE closed
  <2>1. UNCHANGED <<sequence, active, closed, promises>> /\ active = None
    BY <1>2 DEF Answered, page, IInv, OneInFlight
  <2>2. UNCHANGED Outcome
    BY <2>1 DEF Outcome
  <2> QED BY <1>1, <2>1, <2>2 DEF Promise!atomicVars
<1>3. CASE ~closed
  <2>1. active # None /\ \E good \in BOOLEAN : Replied(active, good)
    BY <1>1, <1>3 DEF IInv, OneInFlight, Quiet, Sent, Worked, Replied
  <2>2. PICK good \in BOOLEAN : Replied(active, good)
    BY <2>1
  <2>3. Head(toPage) = [id |-> active.id, ok |-> good]
    BY <2>2 DEF Replied
  <2>4. /\ promises' = [promises EXCEPT
                          ![active.id].state = IF good THEN "resolved" ELSE "rejected"]
        /\ active' = None /\ UNCHANGED sequence
        /\ closed' = (active.op = "init" /\ ~good)
    BY <1>1, <1>3, <2>1, <2>3 DEF Answered, Settle
  <2>5. Outcome = {good} /\ Outcome' = {}
    BY <1>1, <2>1, <2>3, <2>4 DEF Outcome
  <2>6. active.id \in Ids /\ Promise!Pending(active.id) /\ promises[active.id].op = active.op
    BY <2>1, PendingCall
  <2> QED BY <1>1, <1>3, <2>4, <2>5, <2>6 DEF Promise!Return
<1> QED BY <1>2, <1>3

(* The Worker answers when the call takes effect. *)
LEMMA AnswerPerforms ==
  ASSUME IInv, ~closed, active # None, toPage = <<>>,
         NEW good \in BOOLEAN, toPage' = <<[id |-> active.id, ok |-> good]>>,
         Promise!Effect(active.op, good),
         UNCHANGED <<sequence, active, closed, promises>>
  PROVE  \E i \in Ids : Promise!Perform(i)
<1>1. Outcome = {} /\ Outcome' = {good}
  BY DEF Outcome
<1>2. active.id \in Ids /\ Promise!Pending(active.id) /\ promises[active.id].op = active.op
  BY PendingCall
<1> QED BY <1>1, <1>2 DEF Promise!Perform

LEMMA HandlePerforms ==
  ASSUME IInv, Handle
  PROVE  (\E i \in Ids : Promise!Perform(i)) \/ UNCHANGED Promise!atomicVars
<1>1. ~closed /\ toWorker # <<>> /\ UNCHANGED <<sequence, active, closed, promises>>
  BY DEF Handle, page
<1>2. active # None /\ Sent(active)
  BY <1>1 DEF IInv, OneInFlight, Quiet, Sent, Worked, Replied
<1>3. Head(toWorker) = active /\ working = None /\ toPage = <<>> /\ active \in Message
  BY <1>2 DEF Sent, IInv, TypeOK
<1>4. \A good \in BOOLEAN : Answer(active, good) =>
        toPage' = <<[id |-> active.id, ok |-> good]>>
  BY <1>3 DEF Answer
<1>5. Initialize(active) \/ Request(active) \/ Accept(active) \/ Restore(active)
        \/ Prove(active)
  BY <1>3 DEF Handle
<1>6. \/ working' = active /\ UNCHANGED <<initialized, toPage, Kept>>
      \/ /\ working' = None
         /\ \E good \in BOOLEAN : Answer(active, good) /\ Promise!Effect(active.op, good)
  <2>1. Kept = holder /\ (working' = None => Kept' = holder')
    BY <1>3 DEF Kept
  <2>2. CASE Initialize(active)
    BY <1>3, <2>1, <2>2 DEF Initialize, worker, Kept, Promise!Effect, IInv, TypeOK
  <2>3. CASE Request(active)
    BY <1>3, <2>1, <2>3 DEF Request, worker, Promise!Effect
  <2>4. CASE Accept(active)
    BY <1>2, <1>3, <2>1, <2>4 DEF Accept, worker, Kept, Promise!Effect
  <2>5. CASE Restore(active)
    BY <1>3, <2>1, <2>5 DEF Restore, worker, Kept, Promise!Effect
  <2>6. CASE Prove(active)
    BY <1>3, <2>1, <2>6 DEF Prove, worker, Promise!Effect
  <2> QED BY <1>5, <2>2, <2>3, <2>4, <2>5, <2>6
<1>7. CASE working' = active /\ UNCHANGED <<initialized, toPage, Kept>>
  BY <1>1, <1>7 DEF Promise!atomicVars, Outcome
<1>8. CASE \E good \in BOOLEAN : Answer(active, good) /\ Promise!Effect(active.op, good)
  BY <1>1, <1>2, <1>3, <1>4, <1>8, AnswerPerforms
<1> QED BY <1>6, <1>7, <1>8

LEMMA FinishPerforms ==
  ASSUME IInv, Underway, Finish
  PROVE  \E i \in Ids : Promise!Perform(i)
<1>1. /\ ~closed /\ working # None /\ working' = None
      /\ UNCHANGED <<sequence, active, closed, promises>>
  BY DEF Finish, page
<1>2. active # None /\ working = active /\ toPage = <<>> /\ active \in Message
  BY <1>1 DEF IInv, OneInFlight, Quiet, Sent, Worked, Replied, TypeOK
<1>3. PICK good \in BOOLEAN :
        /\ Answer(active, good)
        /\ initialized' = (initialized \/ (good /\ active.op = "init"))
        /\ holder' = IF good /\ active.op = "restore" THEN "held" ELSE holder
  BY <1>2 DEF Finish
<1>4. toPage' = <<[id |-> active.id, ok |-> good]>>
  BY <1>2, <1>3 DEF Answer
<1>5. /\ Kept = IF active.op = "accept" THEN "requested" ELSE holder
      /\ Kept' = holder'
  BY <1>1, <1>2 DEF Kept
<1>6. Promise!Effect(active.op, good)
  <2>1. CASE active.op = "init"
    BY <1>3, <1>5, <2>1 DEF Promise!Effect
  <2>2. CASE active.op = "accept"
    BY <1>1, <1>2, <1>3, <1>5, <2>2 DEF Promise!Effect, Underway, IInv, TypeOK
  <2>3. CASE active.op = "restore"
    BY <1>1, <1>2, <1>3, <1>5, <2>3 DEF Promise!Effect, Underway, IInv, TypeOK
  <2> QED BY <1>1, <1>2, <2>1, <2>2, <2>3 DEF Underway
<1> QED BY <1>1, <1>2, <1>4, <1>6, AnswerPerforms

(***************************************************************************)
(* To the page, Worker and messages are one object that does one call at a *)
(* time: each takes effect once, before its answer, or not at all, and no  *)
(* closing, deadline or late answer settles another.                       *)
(***************************************************************************)
THEOREM HolderIsAtomic == Spec => ImplementsAtomicHolder
<1>1. Init => Promise!Init
  BY DEF Init, Promise!Init, Promise!Ids, Ids, Outcome, Kept
<1>2. IInv /\ Underway /\ [Next]_holderVars => [Promise!Next]_(Promise!atomicVars)
  <2> SUFFICES ASSUME IInv, Underway, [Next]_holderVars
               PROVE  Promise!Next \/ UNCHANGED Promise!atomicVars
    OBVIOUS
  <2>1. CASE UNCHANGED holderVars
    BY <2>1 DEF holderVars, Promise!atomicVars, Outcome, Kept
  <2>2. ASSUME NEW op \in Ops, Call(op) PROVE Promise!Next
    BY <2>2, CallInvokes DEF Promise!Next, Promise!Ops, Ops
  <2>3. CASE Close \/ Deadline
    BY <2>3, CloseGivesUp DEF Deadline, Promise!Next
  <2>4. CASE Answered
    BY <2>4, AnsweredReturns DEF Promise!Next, Promise!Ids, Ids
  <2>5. CASE Handle
    BY <2>5, HandlePerforms DEF Promise!Next, Promise!Ids, Ids
  <2>6. CASE Finish
    BY <2>6, FinishPerforms DEF Promise!Next, Promise!Ids, Ids
  <2> QED BY <2>1, <2>2, <2>3, <2>4, <2>5, <2>6 DEF Next
<1> QED BY <1>1, <1>2, Invariant, AlwaysUnderway, PTL
        DEF Spec, ImplementsAtomicHolder, Promise!Spec
=============================================================================
