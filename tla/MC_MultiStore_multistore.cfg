CONSTANTS
  Requests = {r1, r2, r3}
  Tasks = {t1, t2}
  None = None
  Primary = Primary
  MaxTokens = 2
  MaxStores = 3
  MaxRestarts = 1
SYMMETRY Names
SPECIFICATION Spec
INVARIANTS
  TypeOK
  OneStore
  
