SPECIFICATION MCSpec
CONSTANTS
  NoRequest = NoRequest
  r1 = r1
  r2 = r2
  r3 = r3
  alice = alice
  bob = bob
  Requests <- MCRequests
  Employees <- MCEmployees
  EmployeeOf <- MCEmployeeOf
  PoolSize = 4
  None = None
  Admin = Admin
  t1 = t1
  t2 = t2
  k1 = k1
  k2 = k2
  f1 = f1
  MaxAborts = 3
  NoSignIn = NoSignIn
  s1 = s1
  s2 = s2
  h1 = h1
  h2 = h2
  x1 = x1
  a1 = a1
  a2 = a2
  i1 = i1
  i2 = i2
  SpaceFaults = 3
  OnboardingFaults = 3
  SignInFaults = 4
  Processes <- MCProcesses
  Latest = 3
  Build <- MCBuild
  Nobody = Nobody
INVARIANT NeverAllWait
PROPERTIES EveryWaiterHasItsTurn EveryInstallCompletes EmployeeGetsIn EveryRetrySucceeds HistoryInOrder
CHECK_DEADLOCK FALSE
