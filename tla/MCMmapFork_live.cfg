\* init's wait under weak fairness, with four slots so that a grandchild
\* can be orphaned as a zombie; no mmap calls (MaxMmaps = 0).
CONSTANTS
  PGSIZE <- MCPGSIZE
  MMAP_AREA_START <- MCAreaStart
  MMAP_AREA_END <- MCAreaEnd
  MAX_MAPPINGS = 32
  NOFILE = 2
  NO_NEXT_MAPPING <- MCNoNext
  NPROC = 4
  Frames = {f1}
  NoFrame = NoFrame
  MaxMmaps = 0
  OpenFds = {1}
  MmapAddrs <- MCMmapAddrs
  MmapLengths <- MCMmapLengths
  FlagChoices <- MCFlags
  FdChoices <- MCFdChoices
  OffsetChoices <- MCOffsetChoices
  MunmapAddrs <- MCMunmapAddrs
  MunmapLengths <- MCMunmapLengths
  FaultVAs <- ArenaVAs
SPECIFICATION FairSpec

PROPERTIES InitReapsZombies
