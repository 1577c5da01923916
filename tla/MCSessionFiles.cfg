SPECIFICATION FileSpec
CONSTANTS
  Leaf = {leaf1, leaf2, leaf3}
  MaxReads = 4
  Frames = 2
  Manifests <- MCManifests
  Written <- MCWritten
  TraceManifests <- MCTraceManifests
  Requests <- MCRequests
  TraceWritten = {"rgba_frame"}
  TraceWrites = 2
  Dir = {10, 11, 12}
  File <- MCFile
  Link = {20}
  Root = 10
  Sources = {10, 5, 0}
  ParentOf <- MCParentOf
  NameOf <- MCNameOf
  Content <- MCContent
  Gone = "gone"
  MayHold <- MCMayHold
  SizeOf <- MCSizeOf
  ArchiveOf <- MCArchiveOf
  ParserLeaf = {"exe"}
  DirectSets <- MCDirectSets
  ContainerSets <- MCContainerSets
  MaxChanges = 1
INVARIANTS
  InventoryIsSound
  FilesAreVerified
PROPERTIES
  BorrowAnswersThePresent
  LoansAreStable
  RouteIsOne
  ScanEnds
