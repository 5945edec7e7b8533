CONSTANTS
  None = None
  MaxCalls = 5
SPECIFICATION FairSpec
CHECK_DEADLOCK FALSE
INVARIANTS NeverBusy AnswersStayTrue
PROPERTIES EveryCallSettles ImplementsAtomicHolder
