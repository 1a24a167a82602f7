------------------------------ MODULE MmapOps ------------------------------
(***************************************************************************)
(* Constants and pure operators of the xv6 mmap extension                 *)
(* (src/xv6-public/sysproc.c): page rounding, the argument checks of      *)
(* sys_mmap, the first-fit search of find_available_address, the mapping  *)
(* lookup and the MAP_GROWSUP room test of page_fault_handler.  Every     *)
(* operator takes the mapping table as an argument, so that the           *)
(* one-address-space model (Mmap) and the multi-process model share them. *)
(*                                                                         *)
(* Addresses and lengths are byte counts, scaled down: PGSIZE bytes per   *)
(* page, the arena [MMAP_AREA_START, MMAP_AREA_END).  MMAP_AREA_END is    *)
(* also KERNBASE in xv6, so the page at MMAP_AREA_END is a kernel page,   *)
(* present in every page directory and not accessible to user mode.       *)
(***************************************************************************)
EXTENDS Integers, Sequences, FiniteSets

CONSTANTS
  PGSIZE,           \* bytes per page
  MMAP_AREA_START,  \* 0x60000000 in the code
  MMAP_AREA_END,    \* 0x80000000 in the code (= KERNBASE)
  MAX_MAPPINGS,     \* size of proc->memoryMappings (32)
  NOFILE,           \* size of proc->ofile
  NO_NEXT_MAPPING   \* the 0xFFFFFFFF sentinel of the GROWSUP scan

ASSUME PageSizeAssumption == PGSIZE \in Nat \ {0}
ASSUME ArenaAssumption ==
  /\ MMAP_AREA_START \in Nat \ {0}
  /\ MMAP_AREA_END \in Nat
  /\ MMAP_AREA_START % PGSIZE = 0
  /\ MMAP_AREA_END % PGSIZE = 0
  /\ MMAP_AREA_START < MMAP_AREA_END
ASSUME TableAssumption == MAX_MAPPINGS \in Nat \ {0}
ASSUME NofileAssumption == NOFILE \in Nat \ {0}
ASSUME SentinelAssumption == NO_NEXT_MAPPING \in Nat /\ NO_NEXT_MAPPING > MMAP_AREA_END + 4 * PGSIZE

(* The flag bits of mmap.h; a bitset is modelled as the set of its bits. *)
MAP_SHARED == "MAP_SHARED"
MAP_PRIVATE == "MAP_PRIVATE"
MAP_ANONYMOUS == "MAP_ANONYMOUS"
MAP_FIXED == "MAP_FIXED"
MAP_GROWSUP == "MAP_GROWSUP"
MapFlags == {MAP_SHARED, MAP_PRIVATE, MAP_ANONYMOUS, MAP_FIXED, MAP_GROWSUP}

PGROUNDUP(sz) == ((sz + PGSIZE - 1) \div PGSIZE) * PGSIZE

(* The page-aligned addresses of the arena: the user pages a mapping can  *)
(* materialise, and the candidates of the first-fit search.               *)
ArenaPages == {a \in MMAP_AREA_START .. (MMAP_AREA_END - 1) : a % PGSIZE = 0}

(* struct mem_mapping as sys_mmap fills it: addr, length, flags, fd.      *)
(* prot, offset and allocated are never stored or never read by the      *)
(* code; originalLength is stored and never read.  id is a ghost name for *)
(* the mmap call that created the descriptor.                             *)
Mapping == [addr : Nat, length : Nat, flags : SUBSET MapFlags, fd : Int, id : Nat]

(* The end of a descriptor's region as the allocator and the fault        *)
(* handler compute it: the start plus the length rounded up to a page.    *)
RegionEnd(m) == m.addr + PGROUNDUP(m.length)

(* Two descriptors' regions, rounded up to pages, do not overlap. *)
Disjoint(m, n) == RegionEnd(m) <= n.addr \/ RegionEnd(n) <= m.addr

(* Mutant of MmapArgsValid: page alignment of the hint never checked. *)
MmapArgsValidNoAlign(addr, length, flags, fd, offset, OpenFds) ==
  /\ length > 0
  /\ addr # 0 => addr >= MMAP_AREA_START /\ addr <= MMAP_AREA_END - PGSIZE
  /\ MAP_SHARED \in flags \/ MAP_PRIVATE \in flags
  /\ MAP_ANONYMOUS \in flags => fd = -1 /\ offset = 0
  /\ MAP_FIXED \in flags => addr # 0
  /\ MAP_ANONYMOUS \notin flags => fd >= 0 /\ fd < NOFILE /\ fd \in OpenFds

(***************************************************************************)
(* sys_mmap's argument validation, lines 145-181: TRUE iff none of the     *)
(* early returns of -1 is taken.  OpenFds is the set of fds with           *)
(* ofile[fd] # 0.                                                          *)
(***************************************************************************)
MmapArgsValid(addr, length, flags, fd, offset, OpenFds) ==
  /\ length > 0
  /\ addr # 0 => /\ addr >= MMAP_AREA_START
                 /\ addr <= MMAP_AREA_END - PGSIZE
                 /\ addr % PGSIZE = 0
  /\ MAP_SHARED \in flags \/ MAP_PRIVATE \in flags
  /\ MAP_ANONYMOUS \in flags => fd = -1 /\ offset = 0
  /\ MAP_FIXED \in flags => addr # 0 /\ addr % PGSIZE = 0
  /\ MAP_ANONYMOUS \notin flags => fd >= 0 /\ fd < NOFILE /\ fd \in OpenFds

(* Mutants of CandidateFree: the overlap test without the candidate's     *)
(* length, and the loop bound tested on the start only.                    *)
CandidateFreeStartOnly(maps, length, a) ==
  /\ a + length <= MMAP_AREA_END
  /\ \A i \in 1 .. Len(maps) :
       ~ (maps[i].addr < a /\ RegionEnd(maps[i]) > a)

CandidateFreeStartBound(maps, length, a) ==
  /\ a < MMAP_AREA_END
  /\ \A i \in 1 .. Len(maps) :
       ~ (maps[i].addr < a + length /\ RegionEnd(maps[i]) > a)

(***************************************************************************)
(* find_available_address, lines 97-126.  Candidate a is free when          *)
(* a + length <= MMAP_AREA_END and, for every descriptor,                  *)
(* ~(existing_start < a + length /\ existing_end > a), the incumbent's end *)
(* rounded up and the candidate's end raw.  The loop ascends from          *)
(* MMAP_AREA_START by PGSIZE and returns the first free candidate, or 0.   *)
(***************************************************************************)
CandidateFree(maps, length, a) ==
  /\ a + length <= MMAP_AREA_END
  /\ \A i \in 1 .. Len(maps) :
       ~ (maps[i].addr < a + length /\ RegionEnd(maps[i]) > a)

IsFirstFit(maps, length, a) ==
  /\ a \in ArenaPages
  /\ CandidateFree(maps, length, a)
  /\ \A b \in ArenaPages : b < a => ~ CandidateFree(maps, length, b)

NoFreeCandidate(maps, length) ==
  \A a \in ArenaPages : ~ CandidateFree(maps, length, a)

(***************************************************************************)
(* page_fault_handler's lookup, lines 968-975: descriptor i contains va    *)
(* when addr <= va < PGROUNDUP(addr + length); the scan takes the first.   *)
(***************************************************************************)
Contains(m, va) == va >= m.addr /\ va < PGROUNDUP(m.addr + m.length)

IsFirstContaining(maps, va, i) ==
  /\ i \in 1 .. Len(maps)
  /\ Contains(maps[i], va)
  /\ \A j \in 1 .. (i - 1) : ~ Contains(maps[j], va)

NoneContains(maps, va) == \A i \in 1 .. Len(maps) : ~ Contains(maps[i], va)

(***************************************************************************)
(* The MAP_GROWSUP room test, lines 1001-1018.  end_of_mapping is one page *)
(* past the rounded end; next_mapping_start is the start of the FIRST      *)
(* descriptor in table order (the scan breaks) that starts at or beyond    *)
(* end_of_mapping, or the sentinel.  The descriptor may grow by one page   *)
(* unless PGSIZE >= next_mapping_start - end_of_mapping.                   *)
(***************************************************************************)
GrowEnd(m) == PGROUNDUP(m.addr + m.length) + PGSIZE

NextMappingStart(maps, i) ==
  LET J == {j \in 1 .. Len(maps) : /\ maps[j].addr >= GrowEnd(maps[i])
                                   /\ maps[j].addr < NO_NEXT_MAPPING}
  IN  IF J = {} THEN NO_NEXT_MAPPING
      ELSE maps[CHOOSE j \in J : \A k \in J : j <= k].addr

GrowRoom(maps, i) == PGSIZE < NextMappingStart(maps, i) - GrowEnd(maps[i])

=============================================================================
