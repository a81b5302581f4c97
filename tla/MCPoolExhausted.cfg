SPECIFICATION Spec
CONSTANTS
  NoRequest = NoRequest
  r1 = r1
  r2 = r2
  r3 = r3
  alice = alice
  bob = bob
  Requests <- MCRequests
  Employees <- MCEmployees
  EmployeeOf <- MCEmployeeOf
  PoolSize = 3
PROPERTIES EveryRequestReturns
CHECK_DEADLOCK FALSE
