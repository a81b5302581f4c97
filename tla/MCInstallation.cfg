SPECIFICATION Spec
CONSTANTS
  None = None
  Admin = Admin
  t1 = t1
  t2 = t2
  k1 = k1
  k2 = k2
  f1 = f1
  Tenants <- MCTenants
  Keys <- MCKeys
  Files <- MCFiles
  MaxAborts = 1
SYMMETRY Interchangeable
INVARIANTS TypeOK ReadyIsComplete
PROPERTIES RecordOnlyGrows CreatesOnce
