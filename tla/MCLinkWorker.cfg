SPECIFICATION Spec
CONSTANTS
  Coid = {c1, c2}
  NoCoid = NoCoid
  CommandId <- MCCommandId
  MaxCalls = 3
INVARIANTS NoLeak NeverRunsLater LinkKnown
PROPERTIES KeepsPromise  
