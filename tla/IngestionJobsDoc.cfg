SPECIFICATION Spec
CONSTANTS
  Jobs = {j1}
  Tokens = {t1, t2}
  Workers = {w1}
  Orgs = {o1}
  OrgOf <- OneOrg
  None = None
  MaxRetries = 1
  TenantCap = 1
  Concurrency = 1
  MaxDisruptions = 1
INVARIANT
  FailedFinalClosesItem
