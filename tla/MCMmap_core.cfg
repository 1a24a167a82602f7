\* All operations without MAP_GROWSUP: the invariants, the placement contract
\* and the refinement of the abstract allocator MmapAlloc.
CONSTANTS
  PGSIZE <- MCPGSIZE
  MMAP_AREA_START <- MCAreaStart
  MMAP_AREA_END <- MCAreaEnd
  MAX_MAPPINGS = 3
  NOFILE = 2
  NO_NEXT_MAPPING <- MCNoNext
  NFRAMES = 3
  OpenFds = {1}
  MaxMmaps = 3
  MmapAddrs <- AllMmapAddrs
  MmapLengths <- AllMmapLengths
  FlagChoices <- BaseFlags
  FdChoices <- MCFdChoices
  OffsetChoices <- MCOffsetChoices
  MunmapAddrs <- MCMunmapAddrs
  MunmapLengths <- MCMunmapLengths
  FaultVAs <- ArenaVAs
SPECIFICATION Spec
INVARIANTS TypeOK AllocatedRegionsDisjoint FramesConserved
PROPERTIES MmapPlacementContract MmapRefinement
