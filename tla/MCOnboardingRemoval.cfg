SPECIFICATION JoinSpec
CONSTANTS
  NoHolder = NoHolder
  r1 = r1
  r2 = r2
  r3 = r3
  Slots <- MCRequests
SYMMETRY Interchangeable
INVARIANTS RemovedStaysOut
