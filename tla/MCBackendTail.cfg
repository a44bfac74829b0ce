SPECIFICATION BackendSpec
CONSTANTS
  Families = {"matmul"}
  MaxContext = 8
  MaxBatch = 4
  PartitionFrom = 4
  LongFrom = 6
  ShortParts = 2
  LongParts = 4
  OnlineParts = 3
  SmallBatch = 2
  MmaFrom = 3
  KeyTile = 2
  WarpsPerBlock = 2
  KeysPerWarp = 2
  Warps = 3
  Tiles = 2
  Fragments = 2
  Kernels = {"gqa_q8", "gqa_q4", "gqa_f16", "gqa_mma"}
  RowSizes = {2, 4, 6, 8}
  BlockSizes = {1, 4, 6, 8}
  Batches = {1, 2, 5, 6}
  Lanes = 2
  RowTile = 4
  HalfFragment = 1
  TokenTile = 4
  Group = 2
  BlocksPerTile = 4
  MmqBatch = 2
  MmaBatch = 3
  GridBlocks = 3
  Elements = 7
  TopValue = 1
  MaxRows = 1
  Threads = 2
  ArgmaxGrid = 2
  TileItems = 3
  TopKMax = 2
  Finalists = 4
  RadixRows = 1
  NoIndex = 1000000
  MaxSize = 2
  Workloads <- MCWorkloads
  Slots = {64}
  MaxFaults = 1
  MaxFailures = 1
  Tokens = {0, 1}
  Argmax <- MCArgmax
  Positions = 4
  SpecMax = 2
  Capacities = {1, 3}
INVARIANT TailsReadTheirColumns
