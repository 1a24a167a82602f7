\* frames freed at reap while still mapped: expected violation of NoFreedFrameMapped.
CONSTANTS
  PGSIZE <- MCPGSIZE
  MMAP_AREA_START <- MCAreaStart
  MMAP_AREA_END <- MCAreaEnd
  MAX_MAPPINGS = 32
  NOFILE = 2
  NO_NEXT_MAPPING <- MCNoNext
  NPROC = 3
  Frames = {f1, f2}
  NoFrame = NoFrame
  MaxMmaps = 2
  OpenFds = {1}
  MmapAddrs <- MCMmapAddrs
  MmapLengths <- MCMmapLengths
  FlagChoices <- MCFlags
  FdChoices <- MCFdChoices
  OffsetChoices <- MCOffsetChoices
  MunmapAddrs <- MCMunmapAddrs
  MunmapLengths <- MCMunmapLengths
  FaultVAs <- ArenaVAs
SYMMETRY FrameSymmetry
SPECIFICATION Spec
INVARIANT NoFreedFrameMapped
CHECK_DEADLOCK FALSE
