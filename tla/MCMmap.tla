------------------------------- MODULE MCMmap -------------------------------
(***************************************************************************)
(* Small instances of Mmap for TLC.  Pages of 2 bytes; the arena holds the *)
(* three pages 2, 4 and 6; page 8 is the kernel page (KERNBASE).  Lengths  *)
(* 1..3 cover a length below, equal to and above a page, so the raw and    *)
(* rounded ends the code mixes differ.  fd 1 is an open file, fd 2 is past *)
(* NOFILE, fd -1 is the anonymous fd; fd 0 (the console) is open only in   *)
(* the run over every operation (MCFdChoices0).                            *)
(***************************************************************************)
EXTENDS Mmap

MCPGSIZE == 2
MCAreaStart == 2
MCAreaEnd == 8
MCNoNext == 17

MCMmapAddrs == {0, 3, 6, 8}
MCMmapLengths == {0, 1, 2, 3}
MCFdChoices == {-1, 1, 2}
MCFdChoices0 == {-1, 0, 1}
MCOffsetChoices == {0, 1}
MCMunmapAddrs == {2, 4}
MCMunmapLengths == {1, 2}

(* Flag sets: the accepted placement classes, a rejected one (neither      *)
(* shared nor private), fixed placement; with and without MAP_GROWSUP.     *)
BaseFlags ==
  { {MAP_PRIVATE, MAP_ANONYMOUS}, {MAP_SHARED}, {MAP_ANONYMOUS},
    {MAP_PRIVATE, MAP_ANONYMOUS, MAP_FIXED}, {MAP_SHARED, MAP_FIXED} }
GrowFlags == BaseFlags \cup { {MAP_PRIVATE, MAP_ANONYMOUS, MAP_GROWSUP} }

(* Smaller input sets for the run over every operation. *)
AllMmapAddrs == {0, 3, 6}
AllMmapLengths == {0, 1, 3}

ArenaVAs == ArenaPages
AllVAs == ArenaPages \cup {MMAP_AREA_END}
=============================================================================
