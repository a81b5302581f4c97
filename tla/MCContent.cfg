SPECIFICATION MCSpec
CONSTANTS
  r1 = r1
  r2 = r2
  i1 = i1
  i2 = i2
  n1 = n1
  n2 = n2
  n3 = n3
  n4 = n4
  c1 = c1
  c2 = c2
  u1 = u1
  u2 = u2
  d1 = d1
  b1 = b1
  b2 = b2
  Nothing = Nothing
  NoContent = NoContent
  NoBase = NoBase
  NoModel = NoModel
  Attempts <- MCRequests
  Ids <- MCIds
  NoteRequests <- MCRequests
  NoteIds <- MCNoteIds
  NoteUsers <- MCUsers
  Owner = u1
  Contents <- MCContents
  SizeOf <- MCSizes
  MaxSize = 2
  MaxCount = 2
  PageSize = 1
  Rank <- MCRank
  MaxBytes = 3
  MaxVersion = 3
  IngestRequests <- MCRequests
  KBs <- MCBases
  Docs <- MCDocs
  IngestUsers <- MCUsers
  Editors <- MCManagers
  BaseOwners <- MCManagers
  MaxChanges = 2
  MaxLost = 1
  MaxExtra = 1
  ModelRequests <- MCRequests
  ModelIds <- MCModelIds
  ModelUsers <- MCUsers
  Managers <- MCManagers
  Endpoints <- MCBases
  MaxOverrides = 1
INVARIANTS AllTypesOK AnswersAreKept HistoryIsKept QuotaExceededByRaceOnly RevisionsAccountForChanges OverridesAreAsAnswered
PROPERTY KeyStandsForOneSpace
SYMMETRY MCSymmetry
