\* munmap of a descriptor other than the first.
CONSTANTS
  PGSIZE <- MCPGSIZE
  MMAP_AREA_START <- MCAreaStart
  MMAP_AREA_END <- MCAreaEnd
  MAX_MAPPINGS = 3
  NOFILE = 2
  NO_NEXT_MAPPING <- MCNoNext
  NFRAMES = 3
  OpenFds = {1}
  MaxMmaps = 3
  MmapAddrs <- MCMmapAddrs
  MmapLengths <- MCMmapLengths
  FlagChoices <- BaseFlags
  FdChoices <- MCFdChoices
  OffsetChoices <- MCOffsetChoices
  MunmapAddrs <- MCMunmapAddrs
  MunmapLengths <- MCMunmapLengths
  FaultVAs <- ArenaVAs
SPECIFICATION Spec
PROPERTIES FailedSyscallLeavesTableUnchanged
