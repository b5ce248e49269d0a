CONSTANTS
  t1 = t1
  t2 = t2
  f1 = f1
  PageWords = 6
  NPages = 3
  NI_SYSCALLS = {2, 3, 5}
  ENTRIES_TO_EXPLORE = 6
  NumCalls = 2
  Layouts <- MCLayouts
  Threads = {t1, t2}
  Files = {f1}
  NoFile = NoFile
  OBJECT_MAX_SIZE = 2
  Pieces <- MCPieces
  Lens = {1, 2}
  Offsets <- MCOffsets
  Foreigns = {2}
  MaxLost = 1
SPECIFICATION FairSpec
INVARIANTS
  TypeOK
  ModuleRefExact
  VisitsAreSafe
  NoTreesNoCalls
  PatternWasThere
  KernelKept
  SearchReadsMapped
  NumbersReach
  IInv
  TextFits
  PosInBounds
  NothingSkipped
PROPERTIES
  TableNotMissed
  CleanUnload
  LoadEnds
