\* Every operation, MAP_GROWSUP, fd 0 and the kernel page included; the
\* only terminal states are kernel panics, where the machine halts.
CONSTANTS
  PGSIZE <- MCPGSIZE
  MMAP_AREA_START <- MCAreaStart
  MMAP_AREA_END <- MCAreaEnd
  MAX_MAPPINGS = 3
  NOFILE = 2
  NO_NEXT_MAPPING <- MCNoNext
  NFRAMES = 3
  OpenFds = {0, 1}
  MaxMmaps = 2
  MmapAddrs <- AllMmapAddrs
  MmapLengths <- AllMmapLengths
  FlagChoices <- GrowFlags
  FdChoices <- MCFdChoices0
  OffsetChoices <- MCOffsetChoices
  MunmapAddrs <- MCMunmapAddrs
  MunmapLengths <- MCMunmapLengths
  FaultVAs <- AllVAs
SPECIFICATION Spec
PROPERTIES MmapPlacementContract
CHECK_DEADLOCK FALSE
