SPECIFICATION FairLockSpec
CONSTANTS
  Mixes <- MCMixes
INVARIANT NoWaitCycle
PROPERTY EveryRequestServed
