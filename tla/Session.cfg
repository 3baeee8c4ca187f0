SPECIFICATION Spec
CONSTANTS
  None = None
  Texts = {t1, t2, t3}
  Callers = {c1, c2}
  MaxCalls = 3
INVARIANTS
  TypeOK
  LockProtects
  RightInOrder
PROPERTIES
  IsAtomic
  CallsReturn
CHECK_DEADLOCK FALSE
