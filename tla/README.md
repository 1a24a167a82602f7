# TLA+ models of the xv6 mmap extension

This directory holds a formal model of the memory-mapping extension in
`src/xv6-public/sysproc.c`. That file is xv6's `sysproc.c` (lines 1-300)
followed by its `proc.c` (after line 300). The project has TLC runs that check
the model on small instances, and TLAPS proofs for every value of the
constants. The proofs cover type correctness and frame conservation, region
disjointness, the refinement of an abstract allocator, and the process-table
invariants of fork, exit and wait.

## 1. The system

Each process has a table `proc->memoryMappings[0 .. num_mappings)` of
`struct mem_mapping` descriptors. Each descriptor holds addr, length, flags
and fd. The parts that act on it:

| Part | Code (sysproc.c lines) | State it changes |
|---|---|---|
| `find_available_address` | 97-126 | none (pure first-fit search) |
| `sys_mmap` | 130-212 | appends a descriptor at index `num_mappings` |
| `sys_munmap` | 215-300 | removes a descriptor; writes shared file pages back with `writei` |
| `page_fault_handler` | 930-1072 | `kalloc`s a frame, fills it (zero, or `readi` from the file), `mappages` it; MAP_GROWSUP grows the descriptor; a COW branch copies shared frames |
| fork hook (inside `fork`) | 523-568 | copies descriptors and marks writable pages COW |
| exit hook | 593-640 | zeroes the table |
| `wait` / `freevm` | 655-673 | frees every present user page, arena pages included |
| `allocproc`, `fork` | 380-428, 495-512 | reuse of a process slot |
| `sleep`, `wakeup1` | 790-839 | a waiter's state, SLEEPING and back to RUNNABLE |
| scheduler, yield, kill, procdump | rest of proc.c | process-table state, untouched by mappings |

How the parts interact:

- User code touches an arena address. The trap path calls the handler. The
  handler looks up the first descriptor that contains the address.
- A frame comes from the `kalloc` pool. That pool outlives the processes, so
  a frame lost in one process's handler is lost for good.
- Exit zeroes the descriptor table but leaves the page directory in place.
  The parent's `wait` later frees the frames behind every present PTE.

The arena is `[MMAP_AREA_START, MMAP_AREA_END)`, that is
`[0x60000000, KERNBASE)`. The page at `MMAP_AREA_END` is a kernel page. It is
present in every page directory and user mode cannot access it.

Hard behaviours, and whether this code has them:

- **Within one process: only a sequential protocol.** Each syscall and each
  fault runs to completion under one process, and the mapping state is
  private to that process. The hard cases are long sequences of legal calls,
  early returns, and failure paths in the middle of a handler.
- **Across processes: shared frames and the process table.** Fork shares
  frames copy-on-write, and nothing counts references to them. Exit, wait,
  sleep and wakeup1 hand zombies from child to parent to init under the
  ptable lock. Each of those functions runs atomically with respect to the
  others, because it holds the lock (or, for the mapping hooks, touches only
  state of the running process). So the model interleaves whole calls.
  `MmapFork` models this part.

## 2. Modules

### MmapOps: pure operators

`MmapOps` holds the constants and pure operators, translated from the code:

- `PGROUNDUP`, and `ArenaPages` (the page-aligned arena addresses).
- `Mapping`, the descriptor record.
- `MmapArgsValid`: the argument checks of `sys_mmap`. It is TRUE when none of
  the early returns of -1 is taken.
- `CandidateFree`, `IsFirstFit` and `NoFreeCandidate`: the first-fit loop of
  `find_available_address`. The incumbent's end is rounded up to a page; the
  candidate's end is raw, as in the code.
- `Contains`, `IsFirstContaining` and `NoneContains`: the handler's lookup.
- `GrowEnd`, `NextMappingStart` and `GrowRoom`: the MAP_GROWSUP room test.

First-fit is stated as a predicate: the candidate is free and no smaller one
is. It is not written as a minimum, so the proofs need no induction.

### Mmap: one process slot

`Mmap` models one process slot and its address space. The kalloc pool is
shared with everything else.

State:

| Variable | What it models |
|---|---|
| `mappings` | the descriptor table, as a sequence |
| `pte` | the arena PTEs: 0, or the ghost id of the mapping whose fault filled the page |
| `nfree` | the kalloc free count |
| `nmmap` | ghost: ids handed out so far |
| `ret` | what this step's syscall returned |
| `phase` | RUNNING, ZOMBIE or UNUSED |
| `panicked` | NoPanic, or the panic message that halted the kernel |

Actions:

- **`Mmap`** is all of `sys_mmap`. It has four disjuncts:
  1. some validation fails: -1;
  2. MAP_FIXED: the hint is placed verbatim;
  3. first fit succeeds: the descriptor goes at the fit;
  4. no candidate is free: -1.

  `Place` appends at index `num_mappings`. Like the code, it does not check
  against MAX_MAPPINGS.
- **`Munmap`** is all of `sys_munmap`. The loop body only ever runs for i = 0.
  - Whether or not entry 0 matches, the shift after the `if` removes entry 0.
  - For a SHARED file mapping with present pages in the range, `writei` may
    fail: -1 with nothing changed. The model does not hold file sizes, so this
    outcome is a nondeterministic choice.
  - No PTE is cleared and no frame is freed, as in the code.
- **`PageFault`** covers every branch of `page_fault_handler` except COW:
  - no containing descriptor: killed through the exit path;
  - an empty pool: the "mapping failed 2" panic;
  - MAP_GROWSUP with no room (`FaultNoRoom`): break, kill, and the frame is
    not freed;
  - a file mapping on fd 0: the null inode reaches `ilock` and panics;
  - `mappages` on the kernel PTE: the "remap" panic;
  - success (`FaultInstall`);
  - `mappages` out of page-table frames (`FaultMappagesFails`): `kfree`, and
    the handler still returns 1.

  Every branch that returns to the process first applies `Grown`, the
  GROWSUP growth of the length by one page. The panic branches (`Halt`) do
  not: the machine has stopped.
- **`Exit`** is the exit hook.
- **`Reap`** is `wait`'s `freevm`: frames back to the pool, and a fresh
  directory.
- **`Spawn`** is the slot's reuse by `allocproc`/`fork` for a child whose
  parent has no mappings. `Init` is the same state for the slot's first
  process: an empty table, no arena page present, every frame free. That
  process is an ordinary one: it may exit and be reaped.

The collaborators that are not under `src/` (kalloc, walkpgdir/mappages,
readi/writei, the trap path) are reduced to what they do to this state. They
are marked `spec_modelled` in PROJECT.json.

### MCMmap and the cfgs

`MCMmap` scales the arena down to pages of 2 "bytes" and the arena to
[2, 8), which is 3 pages, with the kernel page at 8. It defines small input
sets: hints inside, misaligned, at the top page and at KERNBASE; lengths 0 to
3; the flag combinations; fds -1, 0, 1 and 2; offsets 0 and 1.

### MmapFork: processes, COW fork, exit and wait

`MmapFork` puts NPROC process slots over one pool of frame identities. It
reuses `MmapOps` for the descriptor records, the argument checks, first fit
and the lookup.

| Variable | What it models |
|---|---|
| `maps[p]` | p's descriptor table |
| `pt[p][a]` | p's PTE for arena page a: a frame (or `NoFrame`), PTE_W, PTE_COW |
| `free` | the kalloc free list, as a set of frames |
| `phase[p]` | RUNNING, SLEEPING (in wait), WAKING (woken in wait), ZOMBIE, UNUSED |
| `parent[p]` | `p->parent`; `NoProc` for a freed slot |
| `nextId` | ghost: successful mmap calls (descriptor ids) |
| `panicked` | NoPanic or the panic that halted the kernel |

Slot 1 is init. Init starts asleep in its wait loop, and slot 2 is a running
user process.

Actions, each a whole call:

- **`Mmap`** and **`Munmap`** are `sys_mmap` and `sys_munmap` on p's table.
  The failing returns change no state in this model. `Munmap` removes
  descriptor 0 on every call to a non-empty table, as the shift at line 285
  does whether the head matched or not, and whether pages were written back
  or not. A `writei` failure (-1 at line 273) leaves every variable of this
  model alone, so it is a stutter here.
- **`PageFault`** has two branches:
  - `CowFault`: a PTE_COW, non-writable PTE gets a fresh frame with W set and
    COW cleared. The old frame is neither freed nor counted. An empty pool
    panics.
  - `LazyFault`: with no containing descriptor the process is killed through
    the exit steps. An empty pool panics. Otherwise a frame is mapped
    writable.
- **`Fork`** takes the first UNUSED slot (`IsFirstOf`, allocproc's scan).
  - `CowPages` are the present pages of MAP_PRIVATE descriptors. They lose W,
    gain COW and are copied to the child (`ForkPgdirs`).
  - MAP_SHARED pages are not copied, and the descriptors are.
  - With COW pages to copy and an empty pool, walkpgdir's allocation fails
    and the kernel panics.
- **`Exit`** (and the kill in the handler) runs `ExitSteps`:
  - `wakeup1` to the parent, and to init if a child handed over is already a
    zombie (`WokenBy`, `ExitPhases`);
  - the children are given to init;
  - the table is zeroed and the caller becomes a zombie.
- **`Wait`** reaps the first zombie child in slot order (`Reap`: the frames
  behind every present PTE go back to the pool, and the slot becomes UNUSED
  with no parent). With children but no zombie, the caller `Sleep`s.

Abstractions:

- Page-table pages are not in the pool. A failed `mappages` kfrees the frame
  and returns, which is a stutter here.
- Page contents are not modelled: a frame identity stands for them.

### MmapAlloc: what the allocator promises

`MmapAlloc` is an abstract specification written from spec section 4.2.
Its state is a set of regions `[lo, hi)` with ids.

- `Add` adds one region. The region is page-aligned, non-empty and has a
  fresh id. It is either inside the arena and apart from every non-fixed
  region, or MAP_FIXED with a base in the arena.
- `Release` removes one region.
- `ReleaseAll` empties the set (exit and reap).

`Mmap` defines the mapping `AbsRegions`. Each descriptor maps to the region
from its base to its rounded end. `MmapRefinement` is `MmapAlloc`'s
specification under that mapping (`INSTANCE MmapAlloc WITH regions <-
AbsRegions`).

### ProcLifecycle: what fork, exit and wait promise

`ProcLifecycle` is an abstract specification of the process slots. Each
slot is free, alive or a zombie, and a live or zombie slot names a parent.

- `Spawn(p, c)`: a live p fills a free slot c with its child.
- `Die(p)`: a live p other than init becomes a zombie and hands its
  children to init.
- `Collect(p, c)`: a live p frees its zombie child c and clears its parent.

`MmapFork` maps `phase` to `life` with `LifeOf`: RUNNING, SLEEPING and
WAKING are all alive. `LifecycleRefinement` is `ProcLifecycle`'s
specification under that mapping (`INSTANCE ProcLifecycle WITH life <-
LifeOf`). So sleep, wakeup, the faults and the mapping calls are stutters
of the lifecycle.

### MmapOpsProofs, MmapProofs, MmapAllocProofs, MmapForkProofs

These four modules hold the TLAPS proofs (section 4). `MmapOpsProofs` holds
the page-rounding lemmas about `MmapOps` (`RoundUpFacts`,
`RoundUpBelowAligned`, `AlignedSum`) that `MmapAllocProofs` uses.

## 3. Runs

| Run | Expect | What it checks and shows |
|---|---|---|
| core | pass | `TypeOK`, `AllocatedRegionsDisjoint`, `FramesConserved`, `MmapPlacementContract` and `MmapRefinement`, with every operation but MAP_GROWSUP and fd 0; hints 0 (allocator), 3 (misaligned) and 6 (top page), lengths 0, 1 and 3: about 11,000 states in about 70 s. |
| all_ops | pass | `MmapPlacementContract` with GROWSUP, fd 0 and the kernel page, so that every action and disjunct fires, the panics included. |
| munmap_second_entry | violation | `FailedSyscallLeavesTableUnchanged`: munmap of descriptor 1 returns -1 and deletes descriptor 0. |
| growsup_overlap | violation | `AllocatedRegionsDisjoint`: a GROWSUP mapping grows over a neighbour that starts at its rounded end. |
| stale_pages | violation | `FreshPagesOnly`: after munmap, a new mapping at the same address sees the old pages. |
| table_overflow | violation | `TableWithinCapacity` (MAX_MAPPINGS = 2): mmap writes past the table. |
| fixed_past_arena_panic | violation | `NoKernelPanic`: a MAP_FIXED mapping at the top page, of length past KERNBASE, panics on "remap". fd 0 stays closed in this run; the fd-0 `ilock` panic (line 979) is reached in all_ops, which checks no panic property. |
| fork_core | pass | `TypeOK`, `ParentsAlive`, `NoLostWakeup`, `NoStrandedWaiter`, `ForkContract`, `CowFaultContract` and `LifecycleRefinement` on 3 slots and 2 frames, with private, fixed and shared mappings: about 300,000 states in about 75 s. |
| fork_liveness | pass | `InitReapsZombies` under `FairSpec`, on 4 slots: zombies handed to init are reaped infinitely often. |
| shared_unshared_after_fork | violation | `SharedStaysShared`: the child of a fork faults a fresh frame for a present MAP_SHARED page. |
| cow_leak | violation | `FramesAccounted`: parent and child both write a COW page; the original frame is lost. |
| reap_use_after_free | violation | `NoFreedFrameMapped`: reaping the child frees a frame the parent still maps. |

Each violation is a finding in PROJECT.json, with the line it comes from.

Why these bounds are enough:

- Three arena pages with three frames let two mappings be placed side by
  side, and let first fit be refused both for length and for overlap.
- A FIXED hint can sit on another mapping or at the top page.
- A fault can exhaust the pool, which reaches both the panic and the
  mappages-failure path.
- The slot can be reaped and reused with frames still in the pool.

One divergence has no run of its own. The handler grows a GROWSUP mapping
on every fault inside it (line 1020), while spec 4.4 b1 says that growth
happens only at or beyond the end. Its consequences that matter have runs:
growsup_overlap, and the frame leak at line 1017.

Every violation above needs between 2 and 5 steps, so the instances are not
vacuous. The GROWSUP sentinel is set to the smallest value its assumption
allows, which keeps growth through repeated faults finite.

The MmapFork instances:

- fork_core has 3 slots and 2 frames. That is enough for a fork with a COW
  page, faults by both sides, an exit that hands a child (even a zombie) to
  init, a reap, and reuse of the freed slot. The mapping inputs (hint 0 or 2,
  lengths 1 and 4, private, fixed and shared flags) put private and shared
  pages on both sides of a fork.
- The violations need 5 to 7 steps.
- `FrameSymmetry` permutes the frames. The frames are model values that no
  definition tells apart, so the symmetry is sound.
- fork_liveness uses 4 slots, one frame and no mmap calls, so that chains of
  forks and exits produce orphans and zombies for init.

Deadlock is checked in core. The runs that include panics set
`CHECK_DEADLOCK FALSE`, because a kernel panic halts the machine.

### Fairness and liveness

Within one process nothing waits on anything else: every handler terminates
in one step of the model. Across processes, wait sleeps until exit wakes it.

`FairSpec` adds weak fairness of init's `Wait` and nothing else. Two things
justify it:

- init's program calls `wait` in an endless loop;
- the round-robin scheduler runs every RUNNABLE process.

User processes are under no obligation to fault, fork, exit or wait, so no
fairness is assumed for them.

Under `FairSpec`, `InitReapsZombies` holds: if init has a zombie child
infinitely often, it reaps infinitely often. A stronger claim, that each
zombie is eventually reaped, fails. wait reaps the first zombie in slot order,
so while lower slots keep producing zombies a higher one can starve. The code
makes no promise here, so this is listed as a hazard and not as a finding.

## 4. Proofs (MmapProofs)

**`TypeCorrect: Spec => []TypeOK`.** `TypeOK` is not inductive by itself, for
two reasons:

- A fault copies a descriptor's id into a PTE, so the ids in the table must be
  bounded by MaxMmaps (`IdsBounded`).
- `Reap` adds the number of present pages to `nfree`, so `nfree <= NFRAMES`
  is kept only because free and present frames together never exceed NFRAMES
  (`FrameBound`).

So the proof goes through the strengthening
`IInv == TypeOK /\ IdsBounded /\ FrameBound`. It has three parts:

- `InitIInv`: Init implies IInv.
- One lemma per action shows that the action preserves IInv. The lemmas are
  `MmapIInv`, `MunmapIInv` (through `TailIInv`), `PageFaultIInv` (one case per
  handler branch), `ExitIInv`, `ReapIInv`, `SpawnIInv` and `StutterIInv`.
- The temporal step, by PTL.

The proof rests on lemmas about the operators:

- `ResidentFinite`: the present pages are a finite subset of an interval,
  by `FS_Interval` and `FS_Subset`.
- `InstallResident`: a fault adds exactly one page, by `FS_AddElement`.
- `GrownType`: growing a descriptor keeps it a `Mapping` and keeps its id.
- `PlacedMapping`.

**`FramesConservedWithoutGrowsup`** assumes no flag choice contains
MAP_GROWSUP, and proves `Spec => []FramesConserved`, where FramesConserved is
`nfree + |present pages| = NFRAMES`. The inductive invariant is
`CInv == IInv /\ NoGrowsupInTable /\ FramesConserved`. Because no descriptor
carries GROWSUP:

- `FaultNoRoom` is disabled;
- `Grown` is the identity;
- the other branches either map the frame they took or `kfree` it.

The hypothesis is needed: with GROWSUP, TLC finds the no-room break
leaking the frame in four steps (hazard at line 1017).

Both strengthenings were checked with TLC before they were proved: IInv on
the all_ops instance and CInv on the scaled arena without GROWSUP.

`AllocatedRegionsDisjoint` and `MmapPlacementContract` are proved in
MmapAllocProofs (below).

**`AllocatedRegionsDisjointWithoutGrowsup`** (MmapAllocProofs) proves that
allocator-placed regions never overlap when no flag choice has GROWSUP. The
inductive invariant `RInv` adds four facts to `IInv`:

- no GROWSUP descriptor is in the table;
- non-fixed bases are page-aligned;
- ids are fresh (below `nmmap`) and distinct;
- the regions are disjoint.

The steps are these:

- `FitApart`: a first-fit candidate is apart from every incumbent. This is
  the alignment arithmetic: an aligned candidate that clears the rounded end
  of an incumbent also clears its raw end.
- `PlaceRInv`: appending keeps the invariant.
- Munmap's `Tail` and exit's emptying only remove regions.

**`PlacementContractHolds`** (MmapAllocProofs) proves
`Spec => MmapPlacementContract` with no hypothesis on the inputs, so
MAP_GROWSUP is included. The inductive invariant is small:
`PInv == IInv /\ AddrsAligned` (every descriptor starts on a page
boundary). It holds because:

- a MAP_FIXED hint passed the alignment check of `MmapArgsValid`;
- an allocator candidate is an arena page;
- growth changes only a length.

`NextPInv` shows that every step keeps PInv and meets the contract.

- The non-fixed branch of `Mmap` meets it through `FitApart`. That lemma
  needs only IInv and aligned starts, so growth does not disturb it.
- The fixed branch appends a MAP_FIXED descriptor, which the contract
  exempts.
- Every other step keeps, shortens (`Tail`) or empties the table, or grows
  one descriptor in place (`GrownAddrs`). So it never appends
  (`NoAppendPlacement`).

PInv was checked with TLC on the all_ops instance first. So an
allocator-placed descriptor is always disjoint from the table at the moment
it is placed, even when later growth makes tables overlap (growsup_overlap).

**`RefinesAllocator`** proves `Spec => MmapRefinement` under the same
hypothesis, from `RInv`:

- `Init` maps to `AllocInit`.
- A placement maps to `Add`: the new region is well-formed and either
  allocator-placed and apart from the rest, or fixed in the arena.
- Munmap maps to `Release` of the head region.
- Exit, the kill in the handler, and the reuse of the slot by `Spawn` map
  to `ReleaseAll`. When the table is already empty, they map to a stutter.
- Reap, the other faults and the failing calls leave the table alone, so
  they are stutters.

`MmapAlloc` extends `MmapOps`, so the instance shares its constants and the arena
facts carry over.

**`ForkTypeCorrect`, `ParentsAliveHolds`, `NoLostWakeupHolds`**
(MmapForkProofs) prove `TypeOK`, `ParentsAlive` and `NoLostWakeup` for every
NPROC >= 2 and every finite frame pool. The inductive invariant is
`FInv == TypeOK /\ InitAlive /\ NoSelfParent /\ ParentsAlive /\
NoLostWakeup`:

- `InitAlive`: init never becomes a zombie or unused, and has no parent.
  Without it, exit could hand children to a dead init.
- `NoSelfParent`: no process is its own parent. Without it, a process
  sleeping in wait could be its own zombie child.

The proof has one lemma per action. The central one is `ExitStepsFInv`: the
exit steps (shared by Exit and the kill in the fault handler) preserve FInv.

- `ExitPhasesValue` gives the new phases.
- The parent is woken, so it cannot sleep past its new zombie.
- If an orphan handed to init is a zombie, init is woken too.
- A reaped slot was a zombie, so by `ParentsAlive` no live process names it
  as parent.

Fork's and wait's choice of "the first slot" is written as a guard
`IsFirstOf(c, S)` on an existential, not as CHOOSE of a minimum. The proof
then needs no well-ordering argument, which the provers here cannot
instantiate.

**`ForkContractHolds`, `CowFaultContractHolds`** (MmapForkProofs) prove the
two action properties of fork_core for every NPROC and frame pool. Each
property is `[][Step]_vars`, and `NextSteps` shows that every step of `Next`
satisfies `ForkStep` and `CowStep`. That needs one more invariant,
`CowNotWritable`: no PTE is both PTE_COW and writable. Fork sets COW only
while it clears W, a fault that sets W clears COW, and reap installs empty
PTEs. Without this invariant, a step that leaves a PTE alone could appear
to make a COW page writable.

- Fork is the only step that turns an UNUSED slot RUNNING. Exit only wakes
  sleepers, and wait only resumes its caller.
- The only steps that set W are the faults, through `MapFresh`, which takes a
  free frame and clears COW.

**`NoStrandedWaiterHolds`** (MmapForkProofs) proves
`Spec => []NoStrandedWaiter`: a process asleep in wait has a child that is
running, sleeping or woken, so that child's exit will wake it.

The invariant is not inductive by itself, because wait's scan counts every
slot whose parent field names the caller, free slots included. The
strengthening `WInv` adds `UnusedOrphan`: a free slot names no parent.

- Wait's `p->parent = 0` (line 668) keeps `UnusedOrphan` when a slot is
  freed.
- Exit hands over to init only slots whose parent is the exiting process,
  never a free slot.
- Given `UnusedOrphan`, the child that made wait sleep is live.
- The only step that ends a child's life is exit, and exit wakes that
  child's parent (`ExitStepsWInv`).

With the reset dropped (the mutant `ReapKeepsParent`), TLC finds a waiter
stranded on a freed slot.

**`RefinesLifecycle`** (MmapForkProofs) proves `Spec => LifecycleRefinement`,
step by step:

- `InitLife`: the initial state maps to `LifeInit`.
- `ForkLife`: fork is `Spawn`. Its panic is a stutter.
- `ExitStepsLife`: exit, and the kill in the fault handler, is `Die`. The
  sleepers exit wakes stay alive, so only the exiting slot changes life.
- `WaitLife`: the reap is `Collect`, using `NoSelfParent` from FInv. Sleep
  is a stutter (`LifeKept`).
- Every other step leaves `phase` and `parent` alone.

FInv and WInv were checked with TLC on the fork_core instance before
they were proved.
RInv was checked on the core instance.

Every safety property of a passing run now has a theorem. Only TLC checks
the rest, for these reasons:

- `InitReapsZombies` is a liveness property under weak fairness of init's
  wait. Proving it needs ENABLED and fairness reasoning, which is out of
  the provers' reach.
- The properties of the violation runs are false of the code, so there is
  nothing to prove. TLC's counterexamples are the result.
- `MmapRefinement` and `AllocatedRegionsDisjoint` with MAP_GROWSUP are
  false (growsup_overlap). They are proved for programs without it.
- Facts about what a recursive definition computes for all inputs are out
  of reach too. No such definition is used here: first fit and the slot
  scans are written as guards (`IsFirstFit`, `IsFirstOf`).

## 5. Not modelled, and the plan

Not modelled:

- **The scheduler, yield, kill and procdump.** The scheduler enters only
  as the fairness of init's wait. kill sets a flag that `wait` and the trap
  path read; the flag does not change the mapping or parent state the
  properties are about.
- **File contents and offsets.** The offset argument is ignored by the code
  (a hazard at line 1032). Page contents are a frame identity in
  `MmapFork`, and the id of the filling mapping in `Mmap`.
- **`sbrk` moving `sz` into the arena.** This is listed as a hazard.
- **copyuvm, file duplication and the trap frame in fork.** They act below
  the arena or outside mapping state.

Plan for later sittings:

1. Frame conservation in `MmapFork` with a reference-counted variant of the
   COW fault and of freevm, shown to refine the pool accounting of `Mmap`.
2. File offsets: a PTE that records the file page it was filled from, and a
   property that a file mapping at offset o reads page o + (va - addr).
