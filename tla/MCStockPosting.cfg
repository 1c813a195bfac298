SPECIFICATION FairSpec
CONSTANTS
  Calls = {c1, c2}
  Docs = {d1, d2}
  d1 = d1
  d2 = d2
  NumKeys = 2
  IdemKeys = {i1, i2}
  Movement <- MCMovement
  Opening <- MCOpening
  MaxAttempts = 3
  NoDoc = NoDoc
  NoKey = NoKey
INVARIANTS
    LedgerMatchesBalance
    OneMovementPerDocument
    NumbersAreGapless
    AllOrNothing
    NonNegative
    SuccessIsPosted
PROPERTIES
    PostedIsFinal
    AtomicallyPosted
    EveryCallEnds
CHECK_DEADLOCK FALSE
