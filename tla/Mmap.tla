-------------------------------- MODULE Mmap --------------------------------
(***************************************************************************)
(* One xv6 process slot and its address space, under the mmap extension   *)
(* of src/xv6-public/sysproc.c: sys_mmap, sys_munmap, page_fault_handler   *)
(* (lazy fill and MAP_GROWSUP), the exit hook, the reaping of the slot by  *)
(* wait (freevm) and its reuse by a later fork.  The frame pool of kalloc  *)
(* outlives the processes that use the slot.                               *)
(*                                                                         *)
(* A page table entry of the arena is pte[a]: 0 when not present, else the *)
(* id of the mapping whose fault installed it (all such PTEs are W|U).    *)
(* The kernel page at MMAP_AREA_END is present and not user-accessible.   *)
(***************************************************************************)
EXTENDS MmapOps

CONSTANTS
  NFRAMES,        \* frames of the kalloc pool
  OpenFds,        \* the fds d with ofile[d] # 0 (close is not modelled)
  MaxMmaps,       \* bound: successful mmap calls of one process
  MmapAddrs, MmapLengths, FlagChoices, FdChoices, OffsetChoices,
  MunmapAddrs, MunmapLengths,
  FaultVAs        \* page-aligned addresses user code may touch

ASSUME FramesAssumption == NFRAMES \in Nat
ASSUME BoundAssumption == MaxMmaps \in Nat
ASSUME InputsAssumption ==
  /\ OpenFds \subseteq 0 .. (NOFILE - 1)
  /\ MmapAddrs \subseteq Nat /\ MmapLengths \subseteq Int
  /\ FlagChoices \subseteq SUBSET MapFlags
  /\ FdChoices \subseteq Int /\ OffsetChoices \subseteq Int
  /\ MunmapAddrs \subseteq Nat /\ MunmapLengths \subseteq Nat
  /\ FaultVAs \subseteq ArenaPages \cup {MMAP_AREA_END}

VARIABLES
  mappings,   \* memoryMappings[0 .. num_mappings-1]
  pte,        \* arena PTEs: 0 or the id of the mapping that filled it
  nfree,      \* free frames in the kalloc pool
  nmmap,      \* ghost: successful mmap calls of this process (ids)
  ret,        \* what the system call of this step returned, or NoRet
  phase,      \* state of the process slot
  panicked    \* "none", or the panic message that halted the kernel

vars == <<mappings, pte, nfree, nmmap, ret, phase, panicked>>

NoRet == -2     \* the step was not a system call
NoPanic == "none"
Phases == {"RUNNING", "ZOMBIE", "UNUSED"}

Resident == {a \in ArenaPages : pte[a] # 0}

(* The hardware raises a page fault on a user access to a page that is    *)
(* not present, or to the kernel page (present without PTE_U).            *)
Faults(va) == (va \in ArenaPages /\ pte[va] = 0) \/ va >= MMAP_AREA_END

(* The slot's first user process, as fork (lines 495-512) leaves a child  *)
(* of a parent without mappings: num_mappings copied as 0, a fresh page    *)
(* directory, no arena page present; it may exit and be reaped like any   *)
(* other process of the slot.                                             *)
Init ==
  /\ mappings = <<>>
  /\ pte = [a \in ArenaPages |-> 0]
  /\ nfree = NFRAMES
  /\ nmmap = 0
  /\ ret = NoRet
  /\ phase = "RUNNING"
  /\ panicked = NoPanic

Running == phase = "RUNNING" /\ panicked = NoPanic

(***************************************************************************)
(* sys_mmap, lines 130-212.  A rejected call returns -1; a MAP_FIXED call  *)
(* takes the hint verbatim (no overlap or end check); otherwise the first  *)
(* fit is taken, or -1 returned.  The descriptor is written at index       *)
(* num_mappings with no check against MAX_MAPPINGS.                        *)
(***************************************************************************)
Place(a, length, flags, fd) ==
  /\ nmmap < MaxMmaps
  /\ mappings' = Append(mappings, [addr |-> a, length |-> length,
                                   flags |-> flags, fd |-> fd, id |-> nmmap + 1])
  /\ nmmap' = nmmap + 1
  /\ ret' = a
  /\ UNCHANGED <<pte, nfree, phase, panicked>>

MmapFails ==
  /\ ret' = -1
  /\ UNCHANGED <<mappings, pte, nfree, nmmap, phase, panicked>>

Mmap(addr, length, flags, fd, offset) ==
  /\ Running
  /\ \/ /\ ~ MmapArgsValid(addr, length, flags, fd, offset, OpenFds)
        /\ MmapFails
     \/ /\ MmapArgsValid(addr, length, flags, fd, offset, OpenFds)
        /\ MAP_FIXED \in flags
        /\ Place(addr, length, flags, fd)
     \/ /\ MmapArgsValid(addr, length, flags, fd, offset, OpenFds)
        /\ MAP_FIXED \notin flags
        /\ \E a \in ArenaPages : /\ IsFirstFit(mappings, length, a)
                                 /\ Place(a, length, flags, fd)
     \/ /\ MmapArgsValid(addr, length, flags, fd, offset, OpenFds)
        /\ MAP_FIXED \notin flags
        /\ NoFreeCandidate(mappings, length)
        /\ MmapFails

(***************************************************************************)
(* sys_munmap, lines 215-300.  The loop body runs for i = 0 only: whether  *)
(* or not descriptor 0 contains [addr, addr+length) (raw length), the      *)
(* shift and the decrement after the if-block remove descriptor 0 and the  *)
(* loop breaks.  For a shared file mapping each present page of the range  *)
(* is written back with writei, which fails (offset past the file size)    *)
(* on a state the model does not hold: the call then returns -1 before    *)
(* the shift.  No PTE is cleared and no frame is freed.                    *)
(***************************************************************************)
UnmapFound(m, addr, length) ==
  addr >= m.addr /\ addr + length <= m.addr + m.length

WritebackPages(addr, length) ==
  {a \in ArenaPages \cup {MMAP_AREA_END} :
     /\ a >= addr /\ a < addr + length
     /\ (a \in Resident \/ a >= MMAP_AREA_END)}

MayFailWriteback(m, addr, length) ==
  /\ MAP_SHARED \in m.flags /\ MAP_ANONYMOUS \notin m.flags
  /\ WritebackPages(addr, length) # {}

Munmap(addr, length) ==
  /\ Running
  /\ \/ /\ mappings = <<>>
        /\ ret' = -1
        /\ UNCHANGED <<mappings, pte, nfree, nmmap, phase, panicked>>
     \/ /\ mappings # <<>>
        /\ ~ UnmapFound(Head(mappings), addr, length)
        /\ mappings' = Tail(mappings)
        /\ ret' = -1
        /\ UNCHANGED <<pte, nfree, nmmap, phase, panicked>>
     \/ /\ mappings # <<>>
        /\ UnmapFound(Head(mappings), addr, length)
        /\ MayFailWriteback(Head(mappings), addr, length)
        /\ ret' = -1
        /\ UNCHANGED <<mappings, pte, nfree, nmmap, phase, panicked>>
     \/ /\ mappings # <<>>
        /\ UnmapFound(Head(mappings), addr, length)
        /\ mappings' = Tail(mappings)
        /\ ret' = 0
        /\ UNCHANGED <<pte, nfree, nmmap, phase, panicked>>

(***************************************************************************)
(* The exit hook, lines 632-637: the table is zeroed and the process       *)
(* becomes a zombie.  A fault the handler does not resolve (-1) kills the  *)
(* process, which then runs the same exit path.                            *)
(***************************************************************************)
ExitHook ==
  /\ mappings' = <<>>
  /\ phase' = "ZOMBIE"
  /\ ret' = NoRet

Exit ==
  /\ Running
  /\ ExitHook
  /\ UNCHANGED <<pte, nfree, nmmap, panicked>>

(***************************************************************************)
(* page_fault_handler, lines 930-1072, minus the COW branch (no PTE here   *)
(* carries PTE_COW).  Lookup of the first containing descriptor; kalloc    *)
(* (panic when the pool is empty); the MAP_GROWSUP test, whose failure     *)
(* breaks out of the scan with the frame still allocated and ends in       *)
(* "Segmentation Fault"; the fill, which for a file mapping with fd <= 0   *)
(* reads through the null inode (ilock panics); mappages, which panics on  *)
(* the present kernel PTE and fails, after the frame is taken, only when   *)
(* no frame is left for a page-table page (the frame is then freed and     *)
(* the handler still returns 1).                                           *)
(***************************************************************************)
Grown(i) ==
  IF MAP_GROWSUP \in mappings[i].flags
  THEN [mappings EXCEPT ![i].length = @ + PGSIZE]
  ELSE mappings

(* The kernel halts in panic: kalloc failing at 995, ilock of the null    *)
(* inode of fd 0 after 979, mappages' remap panic for the kernel page.     *)
Halt(msg) ==
  /\ panicked' = msg
  /\ ret' = NoRet
  /\ UNCHANGED <<mappings, pte, nfree, nmmap, phase>>

(* Handled: the frame is filled and mapped at va. *)
FaultInstall(va, i) ==
  /\ mappings' = Grown(i)
  /\ pte' = [pte EXCEPT ![va] = mappings[i].id]
  /\ nfree' = nfree - 1
  /\ ret' = NoRet
  /\ UNCHANGED <<nmmap, phase, panicked>>

(* Mutant of FaultMappagesFails: the frame is not returned with kfree. *)
FaultMappagesFailsNoKfree(va, i) ==
  /\ nfree = 1
  /\ mappings' = Grown(i)
  /\ nfree' = nfree - 1
  /\ ret' = NoRet
  /\ UNCHANGED <<pte, nmmap, phase, panicked>>

(* mappages fails (walkpgdir finds no frame for a page-table page): kfree *)
(* returns the frame, the grown length stays, and the handler returns 1.  *)
FaultMappagesFails(va, i) ==
  /\ nfree = 1
  /\ mappings' = Grown(i)
  /\ ret' = NoRet
  /\ UNCHANGED <<pte, nfree, nmmap, phase, panicked>>

(* MAP_GROWSUP without room: break, "Segmentation Fault", the frame lost. *)
FaultNoRoom(i) ==
  /\ MAP_GROWSUP \in mappings[i].flags
  /\ ~ GrowRoom(mappings, i)
  /\ nfree' = nfree - 1
  /\ ExitHook
  /\ UNCHANGED <<pte, nmmap, panicked>>

(* A file mapping needs an inode; only fd > 0 sets ip (line 979). *)
HasInode(m) == MAP_ANONYMOUS \in m.flags \/ m.fd > 0

FaultFill(va, i) ==
  /\ MAP_GROWSUP \in mappings[i].flags => GrowRoom(mappings, i)
  /\ \/ ~ HasInode(mappings[i]) /\ Halt("ilock")
     \/ HasInode(mappings[i]) /\ va >= MMAP_AREA_END /\ Halt("remap")
     \/ HasInode(mappings[i]) /\ va \in ArenaPages /\ FaultInstall(va, i)
     \/ HasInode(mappings[i]) /\ va \in ArenaPages /\ FaultMappagesFails(va, i)

PageFault(va) ==
  /\ Running
  /\ Faults(va)
  /\ \/ /\ NoneContains(mappings, va)
        /\ ExitHook
        /\ UNCHANGED <<pte, nfree, nmmap, panicked>>
     \/ \E i \in 1 .. Len(mappings) :
          /\ IsFirstContaining(mappings, va, i)
          /\ \/ nfree = 0 /\ Halt("mapping_failed_2")
             \/ nfree > 0 /\ FaultNoRoom(i)
             \/ nfree > 0 /\ FaultFill(va, i)

(***************************************************************************)
(* wait() reaping the zombie, lines 660-671: freevm frees every present    *)
(* user page of the directory, the arena pages included.  A later fork     *)
(* (allocproc and fork, lines 495-512) reuses the slot for a child of a    *)
(* parent without mappings: num_mappings is copied as 0 and the page       *)
(* directory is fresh.                                                     *)
(***************************************************************************)
(* Mutant of Reap: frames are freed but the page directory is kept. *)
ReapKeepsPtes ==
  /\ panicked = NoPanic
  /\ phase = "ZOMBIE"
  /\ phase' = "UNUSED"
  /\ nfree' = nfree + Cardinality(Resident)
  /\ ret' = NoRet
  /\ UNCHANGED <<mappings, pte, nmmap, panicked>>

Reap ==
  /\ panicked = NoPanic
  /\ phase = "ZOMBIE"
  /\ phase' = "UNUSED"
  /\ nfree' = nfree + Cardinality(Resident)
  /\ pte' = [a \in ArenaPages |-> 0]
  /\ ret' = NoRet
  /\ UNCHANGED <<mappings, nmmap, panicked>>

Spawn ==
  /\ panicked = NoPanic
  /\ phase = "UNUSED"
  /\ phase' = "RUNNING"
  /\ mappings' = <<>>
  /\ nmmap' = 0
  /\ ret' = NoRet
  /\ UNCHANGED <<pte, nfree, panicked>>

Next ==
  \/ \E addr \in MmapAddrs, length \in MmapLengths, flags \in FlagChoices,
        fd \in FdChoices, offset \in OffsetChoices :
          Mmap(addr, length, flags, fd, offset)
  \/ \E addr \in MunmapAddrs, length \in MunmapLengths : Munmap(addr, length)
  \/ \E va \in FaultVAs : PageFault(va)
  \/ Exit
  \/ Reap
  \/ Spawn

Spec == Init /\ [][Next]_vars

-----------------------------------------------------------------------------
(* Type invariant. *)
TypeOK ==
  /\ mappings \in Seq(Mapping)
  /\ pte \in [ArenaPages -> 0 .. MaxMmaps]
  /\ nfree \in 0 .. NFRAMES
  /\ nmmap \in 0 .. MaxMmaps
  /\ ret \in Int
  /\ phase \in Phases
  /\ panicked \in {NoPanic, "mapping_failed_2", "ilock", "remap"}

(***************************************************************************)
(* Spec I1/P1 for the descriptors the allocator placed (not MAP_FIXED):    *)
(* no two of them overlap over [addr, addr + PGROUNDUP(length)).  Breaks   *)
(* if find_available_address compares against a stale or unrounded end,   *)
(* or if a fault grows a descriptor into its neighbour.                    *)
(***************************************************************************)
AllocatedRegionsDisjoint ==
  \A i, j \in 1 .. Len(mappings) :
    (i # j /\ MAP_FIXED \notin mappings[i].flags /\ MAP_FIXED \notin mappings[j].flags)
      => Disjoint(mappings[i], mappings[j])

(***************************************************************************)
(* The allocator contract of spec 4.2, stated on the region as the fault   *)
(* handler will use it: a successful non-fixed mmap returns a page-aligned *)
(* base whose ROUNDED region lies in the arena and is disjoint from every  *)
(* descriptor present before the call (the code checks only the raw        *)
(* candidate end; the rounded one is safe only because every base in the  *)
(* table is page-aligned).                                                 *)
(***************************************************************************)
MmapPlacementContract ==
  [][ (Len(mappings') = Len(mappings) + 1 /\ MAP_FIXED \notin mappings'[Len(mappings')].flags)
        => LET n == mappings'[Len(mappings')] IN
           /\ n.addr % PGSIZE = 0
           /\ MMAP_AREA_START <= n.addr /\ RegionEnd(n) <= MMAP_AREA_END
           /\ \A i \in 1 .. Len(mappings) : Disjoint(mappings[i], n)
    ]_vars

(***************************************************************************)
(* Frames are neither lost nor invented: every frame is free or backs a    *)
(* present arena PTE of the slot, across faults, exits, reaping and reuse. *)
(***************************************************************************)
FramesConserved == nfree + Cardinality(Resident) = NFRAMES

(***************************************************************************)
(* Spec 4.3 and 5: a system call that returns -1 has not changed the       *)
(* mapping table.                                                          *)
(***************************************************************************)
FailedSyscallLeavesTableUnchanged ==
  [][ret' = -1 => mappings' = mappings]_vars

(***************************************************************************)
(* Lazy paging hands a mapping only pages its own faults filled: a present *)
(* page that the handler's lookup attributes to descriptor i was installed *)
(* by a fault on descriptor i (spec 8, scenario 1: a fresh anonymous page  *)
(* reads zero).                                                            *)
(***************************************************************************)
FreshPagesOnly ==
  \A a \in Resident, i \in 1 .. Len(mappings) :
    IsFirstContaining(mappings, a, i) => pte[a] = mappings[i].id

(***************************************************************************)
(* Refinement: the table, read as the set of regions                       *)
(* [addr, addr + PGROUNDUP(length)) with their ids, behaves as MmapAlloc   *)
(* allows: sys_mmap adds one region that the allocator placed apart from   *)
(* all others or that MAP_FIXED placed at an arena page, munmap removes    *)
(* one, exit removes all, and nothing else changes a region.               *)
(***************************************************************************)
RegionOf(m) ==
  [id |-> m.id, lo |-> m.addr, hi |-> RegionEnd(m), fixed |-> MAP_FIXED \in m.flags]

AbsRegions == {RegionOf(mappings[i]) : i \in 1 .. Len(mappings)}

Abstract == INSTANCE MmapAlloc WITH regions <- AbsRegions

MmapRefinement == Abstract!AllocSpec

(* Spec I5: the table never holds more than MAX_MAPPINGS descriptors. *)
TableWithinCapacity == Len(mappings) <= MAX_MAPPINGS

(* No sequence of system calls and user accesses panics the kernel. *)
NoKernelPanic == panicked = NoPanic

=============================================================================
