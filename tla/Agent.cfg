SPECIFICATION FairSpec
CONSTANTS
  handler = handler
  Users = {handler}
  Connects = 3
INVARIANTS
  SuccessIsOwn
  EffectBound
PROPERTIES
  CallReturns
CHECK_DEADLOCK FALSE
