SPECIFICATION FairSpec
CONSTANTS
  Worker = {w1, w2, w3}
  Run = {r1, r2}
  User = {u1, u2}
  Agent <- OneAgent
  Thread = {t1}
  MaxRequests = 4
  None = None
INVARIANTS IInv OneStreamPerThread StreamIsRegistered
PROPERTIES OnlyOwnerSignals ImplementsRunLock EveryRequestEnds
