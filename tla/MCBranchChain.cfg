\* The traces of the branch chain in one batch.
SPECIFICATION SessionsSpec
CONSTANTS
  Records = 3
  PaletteSize = 2
  LibraryReads = 2
  RecordBytes = 4
  WordSize = 6
  Rows = 3
  Columns = 2
  Quantum = 3
  WordLimit = 6
  FadeSteps = 2
  CommandBudget = 3
  StepLimit = 3
  Chunks = 2
  CopyLongs = 3
  ChunkLongs = 2
  Repeats = 2
  NestedPasses = 2
  Planes = 2
  Columns16 = 2
  Lines = 2
  CountLimit = 6
  RunLimit = 2
  ByteLimit = 3
  FadePasses = 2
  Blocks = 3
  Segments = {1, 2}
  Slots = 5
  WordTop = 7
  ByteTop = 1
  MaxRows = 2
  MaxBytes = 5
  Excluded = {2}
  Wanted = 3
  DriverSizes = {1, 2}
  ChildSize = 3
  ArenaBegin = 4
  ArenaEnd = 10
  Observed = {2, 4, 6}
  DrawLimit = 8
  RefreshAt = {2, 4}
INVARIANT BranchChainIsAdmitted
CHECK_DEADLOCK FALSE
