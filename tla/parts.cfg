SPECIFICATION MCSpec
CONSTANTS
  Signatures = {"chat", "run", "get"}
  Kinds <- MCKinds
  MaxMessages = 3
  Rotators = {r1, r2}
  Oldest = 2
  Aged = 3
  MaxSessions = 4
  Procs = {p1, p2, p3}
  Nobody = nobody
  MaxCommits = 2
  MaxExits = 2
  Data = {a, b}
  Nothing = nothing
  FirstPages = 3
  TrunkCapacity = 1
  MostPages = 4
  MaxCalls = 4
  Values = {0, 1}
  Blank = 0
  FirstSize = 2
  CacheSize = 3
  PowerFails = TRUE
  MaxPages = 4
  MaxWrites = 4
  MaxCrashes = 1
SYMMETRY MCSymmetry
INVARIANT ChatTypeOK
INVARIANT FlagMirrorsStack
INVARIANT OwnVerdict
INVARIANT OwnText
INVARIANT RotationTypeOK
INVARIANT NumberedByAge
PROPERTY LossExplained
INVARIANT SharedFileTypeOK
INVARIANT IsolatedOtherwise
INVARIANT RepairableOtherwise
INVARIANT FreePagesTypeOK
INVARIANT IntactOtherwise
INVARIANT ListSoundOtherwise
INVARIANT OneOwnerOtherwise
INVARIANT PagerTypeOK
INVARIANT CleanIsStoredOtherwise
PROPERTY AtomicOtherwise
CHECK_DEADLOCK FALSE
