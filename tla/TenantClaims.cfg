SPECIFICATION FairSpec
CONSTANTS
  a1 = a1
  a2 = a2
  b1 = b1
  A = A
  B = B
  Sessions = {s1, s2}
  Tenants = {A, B}
  Jobs = {a1, a2, b1}
  TenantOf <- TwoAndOne
  None = None
  Cap = 1
  MaxDisruptions = 2
INVARIANTS
  TypeOK
  SlotsWithinCap
PROPERTIES
  EveryJobServed
