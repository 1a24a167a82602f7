----------------------------- MODULE MCMmapFork -----------------------------
(***************************************************************************)
(* Small instances of MmapFork for TLC.  Pages of 2 bytes; the arena holds *)
(* the two pages 2 and 4 (KERNBASE at 6).  Frames are model values and    *)
(* interchangeable, so the frame set is symmetric.  Lengths 1 and 4 give  *)
(* a part page and a two-page mapping; a MAP_FIXED hint at page 2 can     *)
(* overlap an allocator placement.                                         *)
(***************************************************************************)
EXTENDS MmapFork, TLC

MCPGSIZE == 2
MCAreaStart == 2
MCAreaEnd == 6
MCNoNext == 15

MCMmapAddrs == {0, 2}
MCMmapLengths == {1, 4}
MCFdChoices == {-1, 1}
MCOffsetChoices == {0}
MCMunmapAddrs == {2}
MCMunmapLengths == {2}

(* A private anonymous mapping, a fixed one, and a shared file mapping.   *)
MCFlags == { {MAP_PRIVATE, MAP_ANONYMOUS}, {MAP_PRIVATE, MAP_ANONYMOUS, MAP_FIXED},
             {MAP_SHARED} }

ArenaVAs == ArenaPages
FrameSymmetry == Permutations(Frames)
=============================================================================
