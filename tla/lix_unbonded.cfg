SPECIFICATION Spec
CONSTANTS
  e1 = e1  e2 = e2  None = None
  Intents = {i1, i2}
  Experts = {e1, e2}
  BondRequired = {i1}
  Collab = {e2}
  Quote <- Quotes
  Bond = 2
  Locks = {l1, l2, l3}
  ApiAmounts = {1, 2}
INVARIANTS ExecutionBonded
CHECK_DEADLOCK FALSE
