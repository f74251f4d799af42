SPECIFICATION Spec
CONSTANTS
  Crossing <- MCCrossing
  LocalsOf <- MCLocalsOf
  Coid = {c1, c2}
  NoCoid = NoCoid
  OUTBOX_CAPACITY = 1
  MaxEvents <- MCMaxEvents
  MaxTimeouts = 1
  MaxRestarts = 1
INVARIANTS NoLeak Delivered
PROPERTIES InOrder LinkComesBack
