CONSTANTS
  a1 = a1
  a2 = a2
  Setups = {a1, a2}
  Tried <- AnyAndFew
  MaxLoops = 2
SPECIFICATION SetupSpec
INVARIANTS SetupInv OptionsHonoured CallbacksOnRunningLoop
PROPERTIES RejectedTouchesNothing
CHECK_DEADLOCK FALSE
