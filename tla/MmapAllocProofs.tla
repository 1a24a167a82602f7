--------------------------- MODULE MmapAllocProofs ---------------------------
(***************************************************************************)
(* Proofs that, for programs that never pass MAP_GROWSUP, Mmap implements  *)
(* the abstract allocator MmapAlloc and the regions the allocator placed   *)
(* never overlap, for every value of the constants.                        *)
(*                                                                         *)
(* find_available_address compares the candidate's RAW end with the       *)
(* descriptors' starts, while the handler uses the ROUNDED end.  The two   *)
(* agree because every descriptor starts on a page boundary: a page-       *)
(* aligned start at or beyond a + length is at or beyond                   *)
(* a + PGROUNDUP(length) (RoundUpBelowAligned).  The inductive invariant   *)
(* therefore adds aligned starts, and fresh, distinct ids so that the      *)
(* table read as a set of regions gains and loses exactly one region per   *)
(* mmap and munmap.                                                        *)
(***************************************************************************)
EXTENDS MmapProofs, MmapOpsProofs

USE PageSizeAssumption, ArenaAssumption, FramesAssumption, BoundAssumption,
    InputsAssumption

-----------------------------------------------------------------------------
(* The table read as a set of regions. *)

AddrsAligned == \A i \in 1 .. Len(mappings) : mappings[i].addr % PGSIZE = 0

IdsFresh == \A i \in 1 .. Len(mappings) : mappings[i].id <= nmmap

IdsDistinct ==
  \A i, j \in 1 .. Len(mappings) : i # j => mappings[i].id # mappings[j].id

RInv ==
  /\ IInv /\ NoGrowsupInTable /\ AddrsAligned /\ IdsFresh /\ IdsDistinct
  /\ AllocatedRegionsDisjoint

LEMMA AbsAppend ==
  ASSUME mappings \in Seq(Mapping), NEW m, mappings' = Append(mappings, m)
  PROVE  AbsRegions' = AbsRegions \cup {RegionOf(m)}
<1>1. Len(mappings') = Len(mappings) + 1 /\ mappings'[Len(mappings) + 1] = m
      /\ \A i \in 1 .. Len(mappings) : mappings'[i] = mappings[i]
  OBVIOUS
<1>. QED  BY <1>1 DEF AbsRegions

LEMMA AbsTail ==
  ASSUME mappings \in Seq(Mapping), mappings # <<>>, IdsDistinct,
         mappings' = Tail(mappings)
  PROVE  AbsRegions' = AbsRegions \ {RegionOf(mappings[1])}
<1>1. Len(mappings') = Len(mappings) - 1
      /\ \A i \in 1 .. Len(mappings') : mappings'[i] = mappings[i + 1]
  OBVIOUS
<1>2. \A i \in 2 .. Len(mappings) : RegionOf(mappings[i]) # RegionOf(mappings[1])
  BY DEF IdsDistinct, RegionOf
<1>3. AbsRegions' = {RegionOf(mappings[i]) : i \in 2 .. Len(mappings)}
  <2>1. ASSUME NEW r \in AbsRegions' PROVE \E i \in 2 .. Len(mappings) : r = RegionOf(mappings[i])
    <3>1. PICK j \in 1 .. Len(mappings') : r = RegionOf(mappings'[j])
      BY DEF AbsRegions
    <3>2. j + 1 \in 2 .. Len(mappings) /\ mappings'[j] = mappings[j + 1]
      BY <1>1
    <3>. QED  BY <3>1, <3>2
  <2>2. ASSUME NEW i \in 2 .. Len(mappings) PROVE RegionOf(mappings[i]) \in AbsRegions'
    <3>1. i - 1 \in 1 .. Len(mappings') /\ mappings'[i - 1] = mappings[i]
      BY <1>1
    <3>. QED  BY <3>1 DEF AbsRegions
  <2>. QED  BY <2>1, <2>2
<1>4. AbsRegions = {RegionOf(mappings[1])} \cup {RegionOf(mappings[i]) : i \in 2 .. Len(mappings)}
  <2>1. 1 .. Len(mappings) = {1} \cup 2 .. Len(mappings)
    OBVIOUS
  <2>. QED  BY <2>1 DEF AbsRegions
<1>. QED  BY <1>2, <1>3, <1>4

LEMMA AbsEmpty ==
  ASSUME mappings' = <<>>
  PROVE  AbsRegions' = {}
BY DEF AbsRegions

(* The region of a descriptor the allocator places at a free candidate is  *)
(* apart from every region in the table.                                   *)
LEMMA FitApart ==
  ASSUME IInv, AddrsAligned, NEW a \in ArenaPages, NEW length \in Nat,
         CandidateFree(mappings, length, a), NEW i \in 1 .. Len(mappings)
  PROVE  /\ RegionEnd(mappings[i]) <= a \/ a + PGROUNDUP(length) <= mappings[i].addr
         /\ a + PGROUNDUP(length) <= MMAP_AREA_END
<1>. DEFINE n == mappings[i]
<1>1. n \in Mapping /\ n.addr % PGSIZE = 0 /\ a \in Nat /\ a % PGSIZE = 0
  BY DEF IInv, TypeOK, AddrsAligned, ArenaPages
<1>2. n.addr \in Nat /\ n.length \in Nat
  BY <1>1 DEF Mapping
<1>3. ~ (n.addr < a + length /\ RegionEnd(n) > a)
  BY DEF CandidateFree
<1>4. PGROUNDUP(n.length) \in Nat /\ PGROUNDUP(length) \in Nat
  BY <1>2, RoundUpFacts
<1>5. RegionEnd(n) <= a \/ a + PGROUNDUP(length) <= n.addr
  <2>1. CASE n.addr >= a + length
    BY <1>1, <1>2, <2>1, RoundUpBelowAligned
  <2>2. CASE RegionEnd(n) <= a
    BY <2>2
  <2>3. n.addr >= a + length \/ RegionEnd(n) <= a
    BY <1>1, <1>2, <1>3, <1>4 DEF RegionEnd
  <2>. QED  BY <2>1, <2>2, <2>3
<1>6. a + PGROUNDUP(length) <= MMAP_AREA_END
  <2>1. a + length <= MMAP_AREA_END
    BY DEF CandidateFree
  <2>. QED  BY <1>1, <2>1, RoundUpBelowAligned
<1>. QED  BY <1>5, <1>6

-----------------------------------------------------------------------------
(* sys_mmap appends one descriptor. *)

NewDesc(a, length, flags, fd) ==
  [addr |-> a, length |-> length, flags |-> flags, fd |-> fd, id |-> nmmap + 1]

(* The region of the new descriptor is well formed and its id is fresh. *)
LEMMA NewRegionWellFormed ==
  ASSUME RInv, NEW a \in Nat, a % PGSIZE = 0, NEW length \in Nat, length > 0,
         NEW flags, NEW fd
  PROVE  Abstract!WellFormed(RegionOf(NewDesc(a, length, flags, fd)))
<1>. DEFINE r == RegionOf(NewDesc(a, length, flags, fd))
<1>1. nmmap \in Nat
  BY DEF RInv, IInv, TypeOK
<1>2. r.id \notin {s.id : s \in AbsRegions}
  <2>1. \A i \in 1 .. Len(mappings) : RegionOf(mappings[i]).id <= nmmap
    BY DEF RInv, IdsFresh, RegionOf
  <2>. QED  BY <1>1, <2>1 DEF AbsRegions, RegionOf, NewDesc
<1>3. PGROUNDUP(length) \in Nat /\ PGROUNDUP(length) % PGSIZE = 0
      /\ PGROUNDUP(length) >= PGSIZE
  BY RoundUpFacts
<1>4. r.lo = a /\ r.hi = a + PGROUNDUP(length)
  BY DEF RegionOf, NewDesc, RegionEnd
<1>5. r.hi % PGSIZE = 0
  BY <1>3, <1>4, AlignedSum
<1>6. r.lo < r.hi
  BY <1>3, <1>4
<1>. QED  BY <1>2, <1>4, <1>5, <1>6 DEF Abstract!WellFormed, Abstract!Aligned

LEMMA PlaceRInv ==
  ASSUME NoGrowsupChoices, RInv, NEW a \in Nat, a % PGSIZE = 0, NEW length \in Nat,
         NEW flags \in FlagChoices, NEW fd \in Int, Place(a, length, flags, fd),
         MAP_FIXED \notin flags =>
           \A i \in 1 .. Len(mappings) : Disjoint(mappings[i], NewDesc(a, length, flags, fd))
  PROVE  /\ RInv'
         /\ AbsRegions' = AbsRegions \cup {RegionOf(NewDesc(a, length, flags, fd))}
<1>. DEFINE m == NewDesc(a, length, flags, fd)
<1>1. /\ mappings' = Append(mappings, m) /\ nmmap' = nmmap + 1
      /\ mappings \in Seq(Mapping) /\ nmmap \in Nat
  BY DEF Place, NewDesc, RInv, IInv, TypeOK
<1>2. /\ Len(mappings') = Len(mappings) + 1 /\ mappings'[Len(mappings) + 1] = m
      /\ \A i \in 1 .. Len(mappings) : mappings'[i] = mappings[i]
  BY <1>1
<1>3. IInv'
  BY PlaceIInv DEF RInv
<1>4. NoGrowsupInTable'
  BY <1>2 DEF RInv, NoGrowsupInTable, NoGrowsupChoices, NewDesc
<1>5. AddrsAligned'
  BY <1>2 DEF RInv, AddrsAligned, NewDesc
<1>6. IdsFresh' /\ IdsDistinct'
  <2>1. \A i \in 1 .. Len(mappings) : mappings[i].id \in 1 .. nmmap
    BY DEF RInv, IInv, IdsBounded, IdsFresh
  <2>2. m.id = nmmap + 1
    BY DEF NewDesc
  <2>3. IdsFresh'
    BY <1>1, <1>2, <2>1, <2>2 DEF IdsFresh
  <2>4. \A i \in 1 .. Len(mappings) : mappings'[i].id # m.id
    BY <1>1, <1>2, <2>1, <2>2
  <2>5. IdsDistinct'
    <3>. SUFFICES ASSUME NEW i \in 1 .. Len(mappings'), NEW j \in 1 .. Len(mappings'), i # j
                  PROVE  mappings'[i].id # mappings'[j].id
      BY DEF IdsDistinct
    <3>1. CASE i <= Len(mappings) /\ j <= Len(mappings)
      BY <1>1, <1>2, <3>1 DEF RInv, IdsDistinct
    <3>2. CASE i = Len(mappings) + 1
      BY <1>1, <1>2, <2>4, <3>2
    <3>3. CASE j = Len(mappings) + 1
      BY <1>1, <1>2, <2>4, <3>3
    <3>. QED  BY <1>1, <1>2, <3>1, <3>2, <3>3
  <2>. QED  BY <2>3, <2>5
<1>7. AllocatedRegionsDisjoint'
  <2>1. m.flags = flags
    BY DEF NewDesc
  <2>. QED  BY <1>2, <2>1 DEF RInv, AllocatedRegionsDisjoint, Disjoint
<1>8. AbsRegions' = AbsRegions \cup {RegionOf(m)}
  BY <1>1, AbsAppend
<1>. QED  BY <1>3, <1>4, <1>5, <1>6, <1>7, <1>8 DEF RInv

LEMMA MmapRefines ==
  ASSUME NoGrowsupChoices, RInv, NEW addr \in MmapAddrs, NEW length \in MmapLengths,
         NEW flags \in FlagChoices, NEW fd \in FdChoices, NEW offset \in OffsetChoices,
         Mmap(addr, length, flags, fd, offset)
  PROVE  RInv' /\ [Abstract!AllocNext]_AbsRegions
<1>1. CASE MmapFails
  <2>1. UNCHANGED <<mappings, nmmap>>
    BY <1>1 DEF MmapFails
  <2>2. IInv'
    BY MmapIInv DEF RInv
  <2>. QED  BY <2>1, <2>2 DEF RInv, NoGrowsupInTable, AddrsAligned, IdsFresh, IdsDistinct,
                           AllocatedRegionsDisjoint, AbsRegions
<1>2. CASE /\ MmapArgsValid(addr, length, flags, fd, offset, OpenFds)
           /\ MAP_FIXED \in flags
           /\ Place(addr, length, flags, fd)
  <2>1. addr \in ArenaPages /\ length \in Nat /\ length > 0 /\ fd \in Int
    BY <1>2, InputsAssumption DEF MmapArgsValid, ArenaPages
  <2>2. addr \in Nat /\ addr % PGSIZE = 0
    BY <2>1 DEF ArenaPages
  <2>3. RInv' /\ AbsRegions' = AbsRegions \cup {RegionOf(NewDesc(addr, length, flags, fd))}
    BY <1>2, <2>1, <2>2, PlaceRInv
  <2>4. Abstract!FixedOK(RegionOf(NewDesc(addr, length, flags, fd)))
    BY <1>2, <2>1 DEF Abstract!FixedOK, Abstract!ArenaPages, ArenaPages, RegionOf, NewDesc
  <2>5. Abstract!WellFormed(RegionOf(NewDesc(addr, length, flags, fd)))
    BY <2>1, <2>2, NewRegionWellFormed
  <2>. QED  BY <2>3, <2>4, <2>5 DEF Abstract!AllocNext, Abstract!Add
<1>3. CASE /\ MmapArgsValid(addr, length, flags, fd, offset, OpenFds)
           /\ MAP_FIXED \notin flags
           /\ \E a \in ArenaPages : IsFirstFit(mappings, length, a) /\ Place(a, length, flags, fd)
  <2>1. PICK a \in ArenaPages : IsFirstFit(mappings, length, a) /\ Place(a, length, flags, fd)
    BY <1>3
  <2>2. a \in Nat /\ a % PGSIZE = 0 /\ MMAP_AREA_START <= a
    BY DEF ArenaPages
  <2>3. length \in Nat /\ length > 0 /\ fd \in Int
    BY <1>3, InputsAssumption DEF MmapArgsValid
  <2>. DEFINE m == NewDesc(a, length, flags, fd)
  <2>4. CandidateFree(mappings, length, a)
    BY <2>1 DEF IsFirstFit
  <2>5. \A i \in 1 .. Len(mappings) :
          RegionEnd(mappings[i]) <= a \/ a + PGROUNDUP(length) <= mappings[i].addr
    BY <2>3, <2>4, FitApart DEF RInv
  <2>6. a + PGROUNDUP(length) <= MMAP_AREA_END
    <3>1. Len(mappings) \in Nat
      BY DEF RInv, IInv, TypeOK
    <3>2. a + length <= MMAP_AREA_END
      BY <2>4 DEF CandidateFree
    <3>. QED  BY <2>2, <2>3, <3>2, RoundUpBelowAligned
  <2>7. RegionEnd(m) = a + PGROUNDUP(length) /\ m.addr = a
    BY DEF RegionEnd, NewDesc
  <2>8. \A i \in 1 .. Len(mappings) : Disjoint(mappings[i], m)
    BY <2>5, <2>7 DEF Disjoint
  <2>9. RInv' /\ AbsRegions' = AbsRegions \cup {RegionOf(m)}
    BY <1>3, <2>1, <2>2, <2>3, <2>8, PlaceRInv
  <2>10. Abstract!AllocOK(RegionOf(m))
    <3>1. \A s \in AbsRegions : Abstract!Apart(RegionOf(m), s)
      BY <2>5, <2>7 DEF AbsRegions, RegionOf, Abstract!Apart
    <3>. QED  BY <1>3, <2>2, <2>6, <2>7, <3>1 DEF Abstract!AllocOK, RegionOf, NewDesc
  <2>11. Abstract!WellFormed(RegionOf(m))
    BY <2>2, <2>3, NewRegionWellFormed
  <2>. QED  BY <2>9, <2>10, <2>11 DEF Abstract!AllocNext, Abstract!Add
<1>. QED  BY <1>1, <1>2, <1>3 DEF Mmap

-----------------------------------------------------------------------------
(* The other actions remove one region, all of them, or none. *)

(* A step that leaves the table alone keeps RInv once IInv is known. *)
LEMMA TableUnchangedRInv ==
  ASSUME RInv, IInv', UNCHANGED <<mappings, nmmap>>
  PROVE  RInv' /\ UNCHANGED AbsRegions
BY DEF RInv, NoGrowsupInTable, AddrsAligned, IdsFresh, IdsDistinct,
       AllocatedRegionsDisjoint, AbsRegions

(* A step that empties the table keeps RInv once IInv is known. *)
LEMMA TableEmptiedRInv ==
  ASSUME RInv, IInv', mappings' = <<>>
  PROVE  RInv' /\ [Abstract!AllocNext]_AbsRegions
<1>1. 1 .. Len(mappings') = {}
  OBVIOUS
<1>2. (NoGrowsupInTable /\ AddrsAligned /\ IdsFresh /\ IdsDistinct)'
  BY <1>1 DEF NoGrowsupInTable, AddrsAligned, IdsFresh, IdsDistinct
<1>3. AllocatedRegionsDisjoint'
  BY <1>1 DEF AllocatedRegionsDisjoint
<1>4. RInv'
  BY <1>2, <1>3 DEF RInv
<1>. QED  BY <1>4, AbsEmpty DEF Abstract!AllocNext, Abstract!ReleaseAll

LEMMA MunmapRefines ==
  ASSUME RInv, NEW addr \in MunmapAddrs, NEW length \in MunmapLengths,
         Munmap(addr, length)
  PROVE  RInv' /\ [Abstract!AllocNext]_AbsRegions
<1>1. IInv'
  BY MunmapIInv DEF RInv
<1>2. CASE UNCHANGED <<mappings, nmmap>>
  BY <1>1, <1>2, TableUnchangedRInv
<1>3. CASE mappings # <<>> /\ mappings' = Tail(mappings) /\ UNCHANGED nmmap
  <2>1. mappings \in Seq(Mapping)
    BY DEF RInv, IInv, TypeOK
  <2>2. Len(mappings') = Len(mappings) - 1
        /\ \A i \in 1 .. Len(mappings') : mappings'[i] = mappings[i + 1]
    BY <1>3, <2>1
  <2>3. RInv'
    BY <1>1, <1>3, <2>2 DEF RInv, NoGrowsupInTable, AddrsAligned, IdsFresh, IdsDistinct,
                             AllocatedRegionsDisjoint
  <2>4. AbsRegions' = AbsRegions \ {RegionOf(mappings[1])}
    BY <1>3, <2>1, AbsTail DEF RInv
  <2>5. RegionOf(mappings[1]) \in AbsRegions
    BY <1>3, <2>1 DEF AbsRegions
  <2>. QED  BY <2>3, <2>4, <2>5 DEF Abstract!AllocNext, Abstract!Release
<1>. QED  BY <1>2, <1>3 DEF Munmap

LEMMA PageFaultRefines ==
  ASSUME RInv, NEW va \in FaultVAs, PageFault(va)
  PROVE  RInv' /\ [Abstract!AllocNext]_AbsRegions
<1>1. IInv'
  BY PageFaultIInv DEF RInv
<1>2. CASE NoneContains(mappings, va) /\ ExitHook
  BY <1>1, <1>2, TableEmptiedRInv DEF ExitHook
<1>3. CASE \E i \in 1 .. Len(mappings) :
             \/ nfree = 0 /\ Halt("mapping_failed_2")
             \/ nfree > 0 /\ FaultNoRoom(i)
             \/ nfree > 0 /\ FaultFill(va, i)
  <2>1. PICK i \in 1 .. Len(mappings) :
             \/ nfree = 0 /\ Halt("mapping_failed_2")
             \/ nfree > 0 /\ FaultNoRoom(i)
             \/ nfree > 0 /\ FaultFill(va, i)
    BY <1>3
  <2>2. MAP_GROWSUP \notin mappings[i].flags
    BY DEF RInv, NoGrowsupInTable
  <2>3. Grown(i) = mappings
    BY <2>2 DEF Grown
  <2>4. ~ FaultNoRoom(i)
    BY <2>2 DEF FaultNoRoom
  <2>5. UNCHANGED <<mappings, nmmap>>
    BY <2>1, <2>3, <2>4 DEF Halt, FaultFill, FaultInstall, FaultMappagesFails
  <2>. QED  BY <1>1, <2>5, TableUnchangedRInv
<1>. QED  BY <1>2, <1>3 DEF PageFault

LEMMA OtherRefines ==
  ASSUME RInv, Exit \/ Reap \/ Spawn \/ UNCHANGED vars
  PROVE  RInv' /\ [Abstract!AllocNext]_AbsRegions
<1>1. CASE Exit
  BY <1>1, ExitIInv, TableEmptiedRInv DEF Exit, ExitHook, RInv
<1>2. CASE Reap
  BY <1>2, ReapIInv, TableUnchangedRInv DEF Reap, RInv
<1>3. CASE Spawn
  BY <1>3, SpawnIInv, TableEmptiedRInv DEF Spawn, RInv
<1>4. CASE UNCHANGED vars
  BY <1>4, StutterIInv, TableUnchangedRInv DEF vars, RInv
<1>. QED  BY <1>1, <1>2, <1>3, <1>4

LEMMA InitRInv == Init => RInv
<1> SUFFICES ASSUME Init PROVE RInv
  OBVIOUS
<1>. QED  BY InitIInv DEF Init, RInv, NoGrowsupInTable, AddrsAligned, IdsFresh, IdsDistinct,
                          AllocatedRegionsDisjoint

LEMMA NextRefines ==
  ASSUME NoGrowsupChoices, RInv, [Next]_vars
  PROVE  RInv' /\ [Abstract!AllocNext]_AbsRegions
<1>1. CASE \E addr \in MmapAddrs, length \in MmapLengths, flags \in FlagChoices,
              fd \in FdChoices, offset \in OffsetChoices :
                Mmap(addr, length, flags, fd, offset)
  BY <1>1, MmapRefines
<1>2. CASE \E addr \in MunmapAddrs, length \in MunmapLengths : Munmap(addr, length)
  BY <1>2, MunmapRefines
<1>3. CASE \E va \in FaultVAs : PageFault(va)
  BY <1>3, PageFaultRefines
<1>4. CASE Exit \/ Reap \/ Spawn \/ UNCHANGED vars
  BY <1>4, OtherRefines
<1>. QED  BY <1>1, <1>2, <1>3, <1>4 DEF Next

-----------------------------------------------------------------------------
(***************************************************************************)
(* For programs that never pass MAP_GROWSUP, the regions of the            *)
(* descriptors find_available_address placed never overlap, rounded up to  *)
(* pages, through any sequence of mmap, munmap, faults, exit, reaping and  *)
(* reuse of the slot, whatever the constants.                              *)
(***************************************************************************)
THEOREM AllocatedRegionsDisjointWithoutGrowsup ==
  ASSUME NoGrowsupChoices
  PROVE  Spec => []AllocatedRegionsDisjoint
<1>1. Init => RInv
  BY InitRInv
<1>2. RInv /\ [Next]_vars => RInv'
  BY NextRefines
<1>3. RInv => AllocatedRegionsDisjoint
  BY DEF RInv
<1>. QED  BY <1>1, <1>2, <1>3, PTL DEF Spec

(***************************************************************************)
(* For programs that never pass MAP_GROWSUP, sys_mmap, sys_munmap, the    *)
(* fault handler and exit implement the abstract allocator MmapAlloc: the  *)
(* table starts empty, and every step adds one well-formed region (placed  *)
(* apart from all others in the arena, or MAP_FIXED at an arena page),     *)
(* removes one, removes all, or leaves the regions alone.                  *)
(***************************************************************************)
THEOREM RefinesAllocator ==
  ASSUME NoGrowsupChoices
  PROVE  Spec => MmapRefinement
<1>1. Init => Abstract!AllocInit
  BY DEF Init, AbsRegions, Abstract!AllocInit
<1>2. RInv /\ [Next]_vars => RInv' /\ [Abstract!AllocNext]_AbsRegions
  BY NextRefines
<1>3. Init => RInv
  BY InitRInv
<1>. QED  BY <1>1, <1>2, <1>3, PTL DEF Spec, MmapRefinement, Abstract!AllocSpec


-----------------------------------------------------------------------------
(***************************************************************************)
(* The placement contract, with MAP_GROWSUP allowed.  Growth changes only  *)
(* a length, so every descriptor still starts on a page boundary: a fixed  *)
(* hint passed the alignment check and an allocator candidate is an arena  *)
(* page.  PInv is IInv with aligned starts; with it, FitApart places the   *)
(* new region apart from every region of the table.  Every other step      *)
(* keeps, shortens or empties the table, so it never appends.              *)
(***************************************************************************)
PInv == IInv /\ AddrsAligned

PlacementStep ==
  (Len(mappings') = Len(mappings) + 1 /\ MAP_FIXED \notin mappings'[Len(mappings')].flags)
    => LET n == mappings'[Len(mappings')] IN
       /\ n.addr % PGSIZE = 0
       /\ MMAP_AREA_START <= n.addr /\ RegionEnd(n) <= MMAP_AREA_END
       /\ \A i \in 1 .. Len(mappings) : Disjoint(mappings[i], n)

(* A step whose table does not gain one entry meets the contract. *)
LEMMA NoAppendPlacement ==
  ASSUME Len(mappings') # Len(mappings) + 1
  PROVE  PlacementStep
BY DEF PlacementStep

(* Growing a descriptor keeps every start. *)
LEMMA GrownAddrs ==
  ASSUME IInv, NEW i \in 1 .. Len(mappings)
  PROVE  \A j \in 1 .. Len(mappings) : Grown(i)[j].addr = mappings[j].addr
<1>1. mappings[i] \in Mapping /\ mappings \in Seq(Mapping)
  BY DEF IInv, TypeOK
<1>2. [mappings[i] EXCEPT !.length = @ + PGSIZE].addr = mappings[i].addr
  BY <1>1 DEF Mapping
<1>. QED  BY <1>1, <1>2 DEF Grown

(* A step that leaves the table alone keeps PInv and the contract. *)
LEMMA TableUnchangedPInv ==
  ASSUME PInv, IInv', UNCHANGED mappings
  PROVE  PInv' /\ PlacementStep
<1>1. Len(mappings) \in Nat
  BY DEF PInv, IInv, TypeOK
<1>. QED  BY <1>1, NoAppendPlacement DEF PInv, AddrsAligned

(* A step that empties the table keeps PInv and the contract. *)
LEMMA TableEmptiedPInv ==
  ASSUME PInv, IInv', mappings' = <<>>
  PROVE  PInv' /\ PlacementStep
<1>1. Len(mappings) \in Nat
  BY DEF PInv, IInv, TypeOK
<1>. QED  BY <1>1, NoAppendPlacement DEF PInv, AddrsAligned

LEMMA MmapPInv ==
  ASSUME PInv, NEW addr \in MmapAddrs, NEW length \in MmapLengths,
         NEW flags \in FlagChoices, NEW fd \in FdChoices, NEW offset \in OffsetChoices,
         Mmap(addr, length, flags, fd, offset)
  PROVE  PInv' /\ PlacementStep
<1>1. IInv'
  BY MmapIInv DEF PInv
<1>2. mappings \in Seq(Mapping)
  BY DEF PInv, IInv, TypeOK
<1>3. CASE MmapFails
  BY <1>1, <1>3, TableUnchangedPInv DEF MmapFails
<1>4. CASE /\ MmapArgsValid(addr, length, flags, fd, offset, OpenFds)
           /\ MAP_FIXED \in flags
           /\ Place(addr, length, flags, fd)
  <2>1. addr % PGSIZE = 0
    BY <1>4 DEF MmapArgsValid
  <2>2. /\ mappings' = Append(mappings, NewDesc(addr, length, flags, fd))
        /\ Len(mappings') = Len(mappings) + 1
        /\ mappings'[Len(mappings')] = NewDesc(addr, length, flags, fd)
        /\ \A i \in 1 .. Len(mappings) : mappings'[i] = mappings[i]
    BY <1>2, <1>4 DEF Place, NewDesc
  <2>3. AddrsAligned'
    BY <2>1, <2>2 DEF PInv, AddrsAligned, NewDesc
  <2>4. PlacementStep
    BY <1>4, <2>2 DEF PlacementStep, NewDesc
  <2>. QED  BY <1>1, <2>3, <2>4 DEF PInv
<1>5. CASE /\ MmapArgsValid(addr, length, flags, fd, offset, OpenFds)
           /\ MAP_FIXED \notin flags
           /\ \E a \in ArenaPages : IsFirstFit(mappings, length, a) /\ Place(a, length, flags, fd)
  <2>1. PICK a \in ArenaPages : IsFirstFit(mappings, length, a) /\ Place(a, length, flags, fd)
    BY <1>5
  <2>2. a \in Nat /\ a % PGSIZE = 0 /\ MMAP_AREA_START <= a
    BY DEF ArenaPages
  <2>3. length \in Nat
    BY <1>5, InputsAssumption DEF MmapArgsValid
  <2>. DEFINE m == NewDesc(a, length, flags, fd)
  <2>4. /\ Len(mappings') = Len(mappings) + 1
        /\ mappings'[Len(mappings')] = m
        /\ \A i \in 1 .. Len(mappings) : mappings'[i] = mappings[i]
    BY <1>2, <2>1 DEF Place, NewDesc
  <2>5. CandidateFree(mappings, length, a)
    BY <2>1 DEF IsFirstFit
  <2>6. \A i \in 1 .. Len(mappings) :
          RegionEnd(mappings[i]) <= a \/ a + PGROUNDUP(length) <= mappings[i].addr
    BY <2>3, <2>5, FitApart DEF PInv
  <2>7. a + PGROUNDUP(length) <= MMAP_AREA_END
    <3>1. a + length <= MMAP_AREA_END
      BY <2>5 DEF CandidateFree
    <3>. QED  BY <2>2, <2>3, <3>1, RoundUpBelowAligned
  <2>8. RegionEnd(m) = a + PGROUNDUP(length) /\ m.addr = a
    BY DEF RegionEnd, NewDesc
  <2>9. \A i \in 1 .. Len(mappings) : Disjoint(mappings[i], m)
    BY <2>6, <2>8 DEF Disjoint
  <2>10. PlacementStep
    BY <2>2, <2>4, <2>7, <2>8, <2>9 DEF PlacementStep
  <2>11. AddrsAligned'
    BY <2>2, <2>4, <2>8 DEF PInv, AddrsAligned
  <2>. QED  BY <1>1, <2>10, <2>11 DEF PInv
<1>. QED  BY <1>3, <1>4, <1>5 DEF Mmap

LEMMA MunmapPInv ==
  ASSUME PInv, NEW addr \in MunmapAddrs, NEW length \in MunmapLengths,
         Munmap(addr, length)
  PROVE  PInv' /\ PlacementStep
<1>1. IInv'
  BY MunmapIInv DEF PInv
<1>2. CASE UNCHANGED mappings
  BY <1>1, <1>2, TableUnchangedPInv
<1>3. CASE mappings # <<>> /\ mappings' = Tail(mappings)
  <2>1. mappings \in Seq(Mapping)
    BY DEF PInv, IInv, TypeOK
  <2>2. Len(mappings') = Len(mappings) - 1
        /\ \A i \in 1 .. Len(mappings') : mappings'[i] = mappings[i + 1]
    BY <1>3, <2>1
  <2>3. AddrsAligned'
    BY <2>2 DEF PInv, AddrsAligned
  <2>. QED  BY <1>1, <2>2, <2>3, NoAppendPlacement DEF PInv
<1>. QED  BY <1>2, <1>3 DEF Munmap

(* A fault keeps the table or grows one descriptor in place, or exits. *)
LEMMA PageFaultPInv ==
  ASSUME PInv, NEW va \in FaultVAs, PageFault(va)
  PROVE  PInv' /\ PlacementStep
<1>1. IInv'
  BY PageFaultIInv DEF PInv
<1>2. CASE NoneContains(mappings, va) /\ ExitHook
  BY <1>1, <1>2, TableEmptiedPInv DEF ExitHook
<1>3. CASE \E i \in 1 .. Len(mappings) :
             \/ nfree = 0 /\ Halt("mapping_failed_2")
             \/ nfree > 0 /\ FaultNoRoom(i)
             \/ nfree > 0 /\ FaultFill(va, i)
  <2>1. PICK i \in 1 .. Len(mappings) :
             \/ nfree = 0 /\ Halt("mapping_failed_2")
             \/ nfree > 0 /\ FaultNoRoom(i)
             \/ nfree > 0 /\ FaultFill(va, i)
    BY <1>3
  <2>2. CASE UNCHANGED mappings
    BY <1>1, <2>2, TableUnchangedPInv
  <2>3. CASE mappings' = <<>>
    BY <1>1, <2>3, TableEmptiedPInv
  <2>4. CASE mappings' = Grown(i)
    <3>1. Len(mappings') = Len(mappings)
          /\ \A j \in 1 .. Len(mappings) : mappings'[j].addr = mappings[j].addr
      BY <2>4, GrownType, GrownAddrs DEF PInv
    <3>2. Len(mappings) \in Nat
      BY DEF PInv, IInv, TypeOK
    <3>3. AddrsAligned'
      BY <3>1 DEF PInv, AddrsAligned
    <3>. QED  BY <1>1, <3>1, <3>2, <3>3, NoAppendPlacement DEF PInv
  <2>. QED  BY <2>1, <2>2, <2>3, <2>4
            DEF Halt, FaultNoRoom, ExitHook, FaultFill, FaultInstall, FaultMappagesFails
<1>. QED  BY <1>2, <1>3 DEF PageFault

LEMMA OtherPInv ==
  ASSUME PInv, Exit \/ Reap \/ Spawn \/ UNCHANGED vars
  PROVE  PInv' /\ PlacementStep
<1>1. CASE Exit
  BY <1>1, ExitIInv, TableEmptiedPInv DEF Exit, ExitHook, PInv
<1>2. CASE Reap
  BY <1>2, ReapIInv, TableUnchangedPInv DEF Reap, PInv
<1>3. CASE Spawn
  BY <1>3, SpawnIInv, TableEmptiedPInv DEF Spawn, PInv
<1>4. CASE UNCHANGED vars
  BY <1>4, StutterIInv, TableUnchangedPInv DEF vars, PInv
<1>. QED  BY <1>1, <1>2, <1>3, <1>4

LEMMA NextPInv ==
  ASSUME PInv, [Next]_vars
  PROVE  PInv' /\ PlacementStep
<1>1. CASE \E addr \in MmapAddrs, length \in MmapLengths, flags \in FlagChoices,
              fd \in FdChoices, offset \in OffsetChoices :
                Mmap(addr, length, flags, fd, offset)
  BY <1>1, MmapPInv
<1>2. CASE \E addr \in MunmapAddrs, length \in MunmapLengths : Munmap(addr, length)
  BY <1>2, MunmapPInv
<1>3. CASE \E va \in FaultVAs : PageFault(va)
  BY <1>3, PageFaultPInv
<1>4. CASE Exit \/ Reap \/ Spawn \/ UNCHANGED vars
  BY <1>4, OtherPInv
<1>. QED  BY <1>1, <1>2, <1>3, <1>4 DEF Next

(***************************************************************************)
(* Every descriptor sys_mmap places without MAP_FIXED starts on a page     *)
(* boundary inside the arena, ends (rounded up) at or below                *)
(* MMAP_AREA_END, and is apart from every descriptor already in the table, *)
(* through any sequence of mmap, munmap, faults that grow MAP_GROWSUP      *)
(* descriptors, exit, reaping and reuse of the slot, whatever the          *)
(* constants.                                                              *)
(***************************************************************************)
THEOREM PlacementContractHolds == Spec => MmapPlacementContract
<1>1. Init => PInv
  BY InitIInv DEF Init, PInv, AddrsAligned
<1>2. PInv /\ [Next]_vars => PInv' /\ [PlacementStep]_vars
  BY NextPInv
<1>. QED  BY <1>1, <1>2, PTL DEF Spec, MmapPlacementContract, PlacementStep

=============================================================================
