SPECIFICATION MCSpec
CONSTANTS
  alice = alice
  key = key
  r1 = r1
  r2 = r2
  Actors <- MCActors
  KBs = {k1}
  Sessions = {s1}
  Channels = {c1}
  Requests <- MCRequests
  NoActor = NoActor
  Main = Main
  Questions <- MCRequests
  Askers <- MCActors
  Minute = 1
  Day = 2
  PerMinute = 1
  PerDay = 2
  MaxTime = 5
  NoAsker = NoActor
SYMMETRY Symmetry
INVARIANTS AllTypesOK RevocationReachesHistory BindingCoversHistory OnePrincipalPerSession BudgetsAreKept
PROPERTIES BindingsOnlyGrow
