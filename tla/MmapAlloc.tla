------------------------------ MODULE MmapAlloc ------------------------------
(***************************************************************************)
(* What the mmap allocator of one address space promises (spec 4.2), as   *)
(* an abstract specification: a set of regions [lo, hi), each with the id  *)
(* of the call that created it.  A region placed by the allocator is       *)
(* page-aligned, inside the arena and apart from every region present; a   *)
(* MAP_FIXED region starts at an aligned arena page and may overlap        *)
(* anything.  Regions never change while present; one is released at a    *)
(* time (munmap) or all at once (exit).  Mmap implements it without        *)
(* MAP_GROWSUP (MmapRefinement in Mmap).                                    *)
(***************************************************************************)
EXTENDS MmapOps

VARIABLE regions

Aligned(x) == x % PGSIZE = 0

Apart(r, s) == r.hi <= s.lo \/ s.hi <= r.lo

(* A new region: a fresh id and a non-empty page-aligned extent. *)
WellFormed(r) ==
  /\ r.id \notin {s.id : s \in regions}
  /\ Aligned(r.lo) /\ Aligned(r.hi) /\ r.lo < r.hi

AllocOK(r) ==
  /\ ~ r.fixed
  /\ MMAP_AREA_START <= r.lo /\ r.hi <= MMAP_AREA_END
  /\ \A s \in regions : Apart(r, s)

FixedOK(r) == r.fixed /\ r.lo \in ArenaPages

AllocInit == regions = {}

Add ==
  \E r \in regions' :
    /\ regions' = regions \cup {r}
    /\ WellFormed(r)
    /\ AllocOK(r) \/ FixedOK(r)

Release == \E r \in regions : regions' = regions \ {r}

ReleaseAll == regions' = {}

AllocNext == Add \/ Release \/ ReleaseAll

AllocSpec == AllocInit /\ [][AllocNext]_regions

(* The regions the allocator placed are pairwise disjoint. *)
AllocatedApart ==
  \A r, s \in regions : (r # s /\ ~ r.fixed /\ ~ s.fixed) => Apart(r, s)

=============================================================================
