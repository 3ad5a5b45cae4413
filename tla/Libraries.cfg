CONSTANTS
  Slots = {0, 1}
  CksumWords = {0, 1, 61050, 65535}
  ExtLens = {0, 1, 31}
  LongChain = 8
  RoomUnits = 34
  MaxBuilt = 3
  UIntMax = 16
  RingSize = 4
  UsecPerSec = 4
  LpmWord = 2
  LpmAddrs <- MCLpmAddrs
  LpmVals = {"v1", "v2"}
  LPM_HASH_STEP = 1
  LpmMax = 3
  CdbKeys = {1, 2, 3}
  CdbHashes <- MCCdbHashes
  CdbMinEntries = 5
  CdbMax = 3
  Byte = 6
  Width = 4
  CHUNK_SIZE = 48
  ExecSizes = {1, 8, 40, 50}
  ExecSlack = 8
  ChunkBases = {192, 240, 288}
  MaxExecOps = 6
  PageSize = 3
  WordBits = 8
  BPF_MEMWORDS = 2
  BpfMenus <- MCBpfMenus
  BpfPackets <- MCBpfPackets
  BpfJunk = {5}
  SeccompCalls = {0, 1, 2, 3, 4}
  SeccompLists <- MCSeccompLists
  RegexPatterns <- MCRegexPatterns
  RegexInvalid <- MCRegexInvalid
  RegexChars = {97, 98, 10}
  RegexMax = 3
  FragmentSize = 2
  StackMax = 5
  EmitWorlds <- MCEmitWorlds
  EmitOp1Menus <- MCEmitOp1Menus
  EmitOp2Menus <- MCEmitOp2Menus
  EmitTargets <- MCEmitTargets
  EmitFloats <- MCEmitFloats
  EmitValues <- MCEmitValues
  EmitLocals = {0, 1, 20}
  BUF_SIZE = 150
  MaxFragments = 3
  CodeLens = {1, 113, 126}
  MaxItems = 4
  IntReach = 300
  Targets = {420, 2000}
SPECIFICATION Spec
INVARIANTS
  PacketsExact
  LpmLongest
  CdbFinds
  ExecMemorySound
  
  RegexExact
  CodegenExact
  
CHECK_DEADLOCK FALSE
