SPECIFICATION MCSpec
CONSTANTS
  NoSignIn = NoSignIn
  s1 = s1
  s2 = s2
  s3 = s3
  h1 = h1
  h2 = h2
  x1 = x1
  x2 = x2
  i1 = i1
  break = break
  SignIns <- MCSignIns
  Callbacks <- MCCallbacks
  Exchanges <- MCExchanges
  Nobody = Nobody
  Requests <- MCCallbacks
  Identities = {i1}
  Users <- MCUsers
  Exempt = {break}
  Remotes <- MCSignIns
  Window = 2
  Limit = 2
  MaxEntries = 2
  MaxTime = 5
  Slots <- MCSignIns
  NoHolder = NoHolder
SYMMETRY Interchangeable
INVARIANTS AllTypesOK OneTokenPerSignIn SuspendedGetsNoCode AccountsAreBound SuspensionReachesRequests LoginsAreLimited OneOutstanding OutstandingIsRecorded
PROPERTIES SignInsMoveForward CompletionFinal
