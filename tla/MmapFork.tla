------------------------------- MODULE MmapFork -------------------------------
(***************************************************************************)
(* The mmap extension across processes (src/xv6-public/sysproc.c): every   *)
(* process has its own descriptor table and arena page table; frames come  *)
(* from one kalloc pool.  fork's hook shares MAP_PRIVATE pages copy-on-    *)
(* write, page_fault_handler resolves COW write faults before its lazy     *)
(* fill, exit zeroes the table and hands children to init, and wait's      *)
(* freevm returns every present page of a reaped child to the pool.        *)
(*                                                                         *)
(* Processes are the slots 1 .. NPROC of ptable in table order; slot 1 is  *)
(* init, whose program only waits and forks.  A PTE is a frame (or NoFrame *)
(* when not present) with the PTE_W and PTE_COW bits.  MAP_GROWSUP and     *)
(* file mappings on fd 0 are process-local and modelled in Mmap; the      *)
(* inputs here exclude them (ForkInputsAssumption).                        *)
(***************************************************************************)
EXTENDS MmapOps

CONSTANTS
  NPROC,          \* slots of ptable
  Frames,         \* the frames of the kalloc pool that can back arena pages
  NoFrame,        \* a non-present PTE
  MaxMmaps,       \* bound: successful mmap calls, all processes together
  OpenFds,
  MmapAddrs, MmapLengths, FlagChoices, FdChoices, OffsetChoices,
  MunmapAddrs, MunmapLengths,
  FaultVAs

ASSUME ProcAssumption == NPROC \in Nat /\ NPROC >= 2
ASSUME FrameAssumption == IsFiniteSet(Frames) /\ NoFrame \notin Frames
ASSUME ForkInputsAssumption ==
  /\ MaxMmaps \in Nat
  /\ OpenFds \subseteq 1 .. (NOFILE - 1)
  /\ MmapAddrs \subseteq Nat /\ MmapLengths \subseteq Int
  /\ FlagChoices \subseteq SUBSET (MapFlags \ {MAP_GROWSUP})
  /\ FdChoices \subseteq Int \ {0} /\ OffsetChoices \subseteq Int
  /\ MunmapAddrs \subseteq Nat /\ MunmapLengths \subseteq Nat
  /\ FaultVAs \subseteq ArenaPages
  /\ \A a \in MmapAddrs \ {0}, l \in MmapLengths : a + l <= MMAP_AREA_END

Procs == 1 .. NPROC
InitProc == 1
NoProc == 0

VARIABLES
  maps,       \* maps[p]: memoryMappings[0 .. num_mappings-1] of slot p
  pt,         \* pt[p][a]: the PTE of arena page a in p's page directory
  free,       \* the kalloc free list, as a set of frames
  phase,      \* slot state; SLEEPING and WAKING are inside wait()
  parent,     \* p->parent, NoProc for an unused slot
  nextId,     \* ghost: successful mmap calls so far (descriptor ids)
  panicked

vars == <<maps, pt, free, phase, parent, nextId, panicked>>

NoPanic == "none"
PTE == [frame : Frames \cup {NoFrame}, w : BOOLEAN, cow : BOOLEAN]
NoPTE == [frame |-> NoFrame, w |-> FALSE, cow |-> FALSE]
EmptyPgdir == [a \in ArenaPages |-> NoPTE]

Present(p, a) == pt[p][a].frame # NoFrame
Live(p) == phase[p] \notin {"UNUSED"}
(* The frames p's page directory maps in the arena. *)
MappedFrames(p) == {pt[p][a].frame : a \in {b \in ArenaPages : Present(p, b)}}
(* ptable is scanned from slot 1 up: c is the first slot of S in that order. *)
IsFirstOf(c, S) == c \in S /\ \A d \in S : c <= d

Init ==
  /\ maps = [p \in Procs |-> <<>>]
  /\ pt = [p \in Procs |-> EmptyPgdir]
  /\ free = Frames
  /\ phase = [p \in Procs |-> CASE p = InitProc -> "SLEEPING"
                                [] p = 2        -> "RUNNING"
                                [] OTHER        -> "UNUSED"]
  /\ parent = [p \in Procs |-> IF p = 2 THEN InitProc ELSE NoProc]
  /\ nextId = 0
  /\ panicked = NoPanic

UserRunning(p) == p # InitProc /\ phase[p] = "RUNNING" /\ panicked = NoPanic

Halt(msg) ==
  /\ panicked' = msg
  /\ UNCHANGED <<maps, pt, free, phase, parent, nextId>>

(***************************************************************************)
(* sys_mmap, lines 130-212, on p's table: the successful placements (a    *)
(* failing call changes no state of this model).                           *)
(***************************************************************************)
Place(p, a, length, flags, fd) ==
  /\ nextId < MaxMmaps
  /\ maps' = [maps EXCEPT ![p] = Append(@, [addr |-> a, length |-> length,
                                          flags |-> flags, fd |-> fd, id |-> nextId + 1])]
  /\ nextId' = nextId + 1
  /\ UNCHANGED <<pt, free, phase, parent, panicked>>

Mmap(p, addr, length, flags, fd, offset) ==
  /\ UserRunning(p)
  /\ MmapArgsValid(addr, length, flags, fd, offset, OpenFds)
  /\ \/ MAP_FIXED \in flags /\ Place(p, addr, length, flags, fd)
     \/ /\ MAP_FIXED \notin flags
        /\ \E a \in ArenaPages : IsFirstFit(maps[p], length, a) /\ Place(p, a, length, flags, fd)

(***************************************************************************)
(* sys_munmap, lines 215-300, on p's table: the loop body runs for i = 0  *)
(* only and its shift (285) removes descriptor 0 whether or not it matched *)
(* and whether or not pages were written back.  The one other outcome, a  *)
(* writei failure on a present shared file page (return -1 at 273), and a *)
(* call on an empty table change no variable of this model (PTEs, frames  *)
(* and the file are kept either way), so they are stutters.               *)
(***************************************************************************)
Munmap(p, addr, length) ==
  /\ UserRunning(p)
  /\ maps[p] # <<>>
  /\ maps' = [maps EXCEPT ![p] = Tail(@)]
  /\ UNCHANGED <<pt, free, phase, parent, nextId, panicked>>

(***************************************************************************)
(* exit, lines 593-640, and the kill of a process whose fault the handler  *)
(* did not resolve: wake the parent, give the children to init (waking     *)
(* init if one of them is a zombie), zero the table, become a zombie.      *)
(* The page directory stays until the parent's wait.                       *)
(***************************************************************************)
(* The processes exit wakes: wakeup1(curproc->parent), and wakeup1(initproc) *)
(* when a child it hands to init is already a zombie.                      *)
OrphanZombie(p) == \E c \in Procs : parent[c] = p /\ phase[c] = "ZOMBIE"

(* Mutants of WokenBy: no wakeup of the parent; no wakeup of init. *)
WokenByNoParent(p) == IF OrphanZombie(p) THEN {InitProc} ELSE {}

WokenByNoOrphan(p) == {parent[p]}

WokenBy(p) == IF OrphanZombie(p) THEN {parent[p], InitProc} ELSE {parent[p]}

(* wakeup1 makes the SLEEPING processes of those channels RUNNABLE. *)
ExitPhases(p) ==
  [q \in Procs |->
     IF q = p THEN "ZOMBIE"
     ELSE IF phase[q] = "SLEEPING" /\ q \in WokenBy(p) THEN "WAKING"
     ELSE phase[q]]

(* Mutant of ExitSteps: the children are not passed to init. *)
ExitStepsNoReparent(p) ==
  /\ phase' = ExitPhases(p)
  /\ parent' = parent
  /\ maps' = [maps EXCEPT ![p] = <<>>]

ExitSteps(p) ==
  /\ phase' = ExitPhases(p)
  /\ parent' = [q \in Procs |-> IF parent[q] = p THEN InitProc ELSE parent[q]]
  /\ maps' = [maps EXCEPT ![p] = <<>>]

Exit(p) ==
  /\ UserRunning(p)
  /\ ExitSteps(p)
  /\ UNCHANGED <<pt, free, nextId, panicked>>

(***************************************************************************)
(* page_fault_handler, lines 930-1072.  The trap path calls it for an      *)
(* access to a page that is not present or, on a write, not writable.      *)
(* COW branch (lines 940-961): a PTE with PTE_COW and without PTE_W gets   *)
(* a fresh frame with W set and COW cleared; the old frame is neither      *)
(* freed nor counted (kalloc failure panics).  Otherwise the lookup:       *)
(* no descriptor kills the process, an empty pool panics, else the page    *)
(* is filled and mapped writable.  A mappages failure kfrees the frame     *)
(* and returns 1, which changes no state here.                             *)
(***************************************************************************)
Faults(p, va) == ~ Present(p, va) \/ ~ pt[p][va].w

IsCow(p, va) == pt[p][va].cow /\ ~ pt[p][va].w

(* Map frame f writable at va in p's directory, taking it from the pool. *)
MapFresh(p, va, f) ==
  /\ pt' = [pt EXCEPT ![p][va] = [frame |-> f, w |-> TRUE, cow |-> FALSE]]
  /\ free' = free \ {f}
  /\ UNCHANGED <<maps, phase, parent, nextId, panicked>>

(* Mutant of CowFault: the page is made writable in place, in the shared  *)
(* frame, without a copy.                                                  *)
CowFaultInPlace(p, va) ==
  \/ free = {} /\ Halt("cow_oom")
  \/ /\ free # {}
     /\ pt' = [pt EXCEPT ![p][va].w = TRUE, ![p][va].cow = FALSE]
     /\ UNCHANGED <<maps, free, phase, parent, nextId, panicked>>

CowFault(p, va) ==
  \/ free = {} /\ Halt("cow_oom")
  \/ \E f \in free : MapFresh(p, va, f)

LazyFault(p, va) ==
  \/ /\ NoneContains(maps[p], va)
     /\ ExitSteps(p)
     /\ UNCHANGED <<pt, free, nextId, panicked>>
  \/ /\ ~ NoneContains(maps[p], va)
     /\ \/ free = {} /\ Halt("mapping_failed_2")
        \/ \E f \in free : MapFresh(p, va, f)

PageFault(p, va) ==
  /\ UserRunning(p)
  /\ Faults(p, va)
  /\ \/ IsCow(p, va) /\ CowFault(p, va)
     \/ ~ IsCow(p, va) /\ LazyFault(p, va)

(***************************************************************************)
(* fork, lines 495-588.  allocproc takes the first UNUSED slot (no slot:   *)
(* -1, nothing changes); copyuvm copies only [0, sz), below the arena.     *)
(* The hook, lines 523-561: for every MAP_PRIVATE descriptor, each         *)
(* present page in [addr, addr + length) loses PTE_W and gains PTE_COW in  *)
(* the parent and is copied into the child, whose page-table page comes    *)
(* from kalloc (an empty pool panics); every descriptor is copied.         *)
(* MAP_SHARED pages are not copied.  The child becomes RUNNABLE.           *)
(***************************************************************************)
CowPages(p) ==
  {a \in ArenaPages :
     /\ Present(p, a)
     /\ \E i \in 1 .. Len(maps[p]) :
          /\ MAP_PRIVATE \in maps[p][i].flags
          /\ a >= maps[p][i].addr /\ a < maps[p][i].addr + maps[p][i].length}

(* Mutants of ForkPgdirs: PTE_W left set in the parent; the child's       *)
(* directory holding entries only for the copied pages.                    *)
ForkPgdirsKeepW(p, c) ==
  LET cowed == [a \in ArenaPages |->
                  IF a \in CowPages(p) THEN [pt[p][a] EXCEPT !.cow = TRUE] ELSE pt[p][a]]
  IN  [pt EXCEPT ![p] = cowed,
                 ![c] = [a \in ArenaPages |-> IF a \in CowPages(p) THEN cowed[a] ELSE NoPTE]]

ForkPgdirsCowOnly(p, c) ==
  LET cowed == [a \in ArenaPages |->
                  IF a \in CowPages(p) THEN [pt[p][a] EXCEPT !.w = FALSE, !.cow = TRUE]
                  ELSE pt[p][a]]
  IN  [pt EXCEPT ![p] = cowed, ![c] = [a \in CowPages(p) |-> cowed[a]]]

ForkPgdirs(p, c) ==
  LET cowed == [a \in ArenaPages |->
                  IF a \in CowPages(p) THEN [pt[p][a] EXCEPT !.w = FALSE, !.cow = TRUE]
                  ELSE pt[p][a]]
  IN  [pt EXCEPT ![p] = cowed,
                 ![c] = [a \in ArenaPages |-> IF a \in CowPages(p) THEN cowed[a] ELSE NoPTE]]

Fork(p) ==
  /\ phase[p] = "RUNNING" /\ panicked = NoPanic
  /\ \E c \in Procs :
     /\ IsFirstOf(c, {d \in Procs : phase[d] = "UNUSED"})
     /\ \/ /\ CowPages(p) # {} /\ free = {}
           /\ Halt("fork_pte")
        \/ /\ CowPages(p) = {} \/ free # {}
           /\ pt' = ForkPgdirs(p, c)
           /\ maps' = [maps EXCEPT ![c] = maps[p]]
           /\ parent' = [parent EXCEPT ![c] = p]
           /\ phase' = [phase EXCEPT ![c] = "RUNNING"]
           /\ UNCHANGED <<free, nextId, panicked>>

(***************************************************************************)
(* wait, lines 644-695, of a process that is running or has been woken.   *)
(* The scan finds the first ZOMBIE child in slot order and reaps it:       *)
(* freevm kfrees the frame behind every present PTE, shared or not, and    *)
(* the slot becomes UNUSED.  With children but no zombie the caller        *)
(* sleeps on itself (sleep, lines 790-828).  Without children wait returns *)
(* -1, which changes no state here (a woken process always has a zombie).  *)
(***************************************************************************)
Kids(p) == {c \in Procs : parent[c] = p}

Zombies(p) == {c \in Kids(p) : phase[c] = "ZOMBIE"}

(* Mutant of Reap: the freed slot keeps its parent (no p->parent = 0). *)
ReapKeepsParent(p, c) ==
  /\ free' = free \cup MappedFrames(c)
  /\ pt' = [pt EXCEPT ![c] = EmptyPgdir]
  /\ phase' = [phase EXCEPT ![c] = "UNUSED", ![p] = "RUNNING"]
  /\ UNCHANGED <<maps, parent, nextId, panicked>>

Reap(p, c) ==
  /\ free' = free \cup MappedFrames(c)
  /\ pt' = [pt EXCEPT ![c] = EmptyPgdir]
  /\ phase' = [phase EXCEPT ![c] = "UNUSED", ![p] = "RUNNING"]
  /\ parent' = [parent EXCEPT ![c] = NoProc]
  /\ UNCHANGED <<maps, nextId, panicked>>

(* sleep(curproc, &ptable.lock): the caller's state becomes SLEEPING on    *)
(* its own channel; wakeup1 makes it runnable again (WAKING).              *)
Sleep(p) ==
  /\ phase' = [phase EXCEPT ![p] = "SLEEPING"]
  /\ UNCHANGED <<maps, pt, free, parent, nextId, panicked>>

Wait(p) ==
  /\ phase[p] \in {"RUNNING", "WAKING"} /\ panicked = NoPanic
  /\ \/ \E c \in Procs : IsFirstOf(c, Zombies(p)) /\ Reap(p, c)
     \/ Kids(p) # {} /\ Zombies(p) = {} /\ Sleep(p)

Next ==
  \/ \E p \in Procs, addr \in MmapAddrs, length \in MmapLengths, flags \in FlagChoices,
        fd \in FdChoices, offset \in OffsetChoices :
          Mmap(p, addr, length, flags, fd, offset)
  \/ \E p \in Procs, addr \in MunmapAddrs, length \in MunmapLengths : Munmap(p, addr, length)
  \/ \E p \in Procs, va \in FaultVAs : PageFault(p, va)
  \/ \E p \in Procs : Fork(p) \/ Exit(p) \/ Wait(p)

Spec == Init /\ [][Next]_vars

(* init's program (init.c) calls wait in a loop, and the round-robin       *)
(* scheduler runs every RUNNABLE process: init's wait is weakly fair.      *)
(* User processes are under no obligation to fault, fork, exit or wait.    *)
FairSpec == Spec /\ WF_vars(Wait(InitProc))

(* The refinement mapping: a slot in wait (asleep or woken) is as alive  *)
(* as a running one; the parent field maps to itself.                     *)
LifeOf ==
  [p \in Procs |-> CASE phase[p] = "UNUSED" -> "free"
                    [] phase[p] = "ZOMBIE" -> "zombie"
                    [] OTHER              -> "alive"]

Life == INSTANCE ProcLifecycle WITH life <- LifeOf

-----------------------------------------------------------------------------
(* Type invariant. *)
TypeOK ==
  /\ maps \in [Procs -> Seq(Mapping)]
  /\ pt \in [Procs -> [ArenaPages -> PTE]]
  /\ free \subseteq Frames
  /\ phase \in [Procs -> {"RUNNING", "SLEEPING", "WAKING", "ZOMBIE", "UNUSED"}]
  /\ parent \in [Procs -> Procs \cup {NoProc}]
  /\ nextId \in 0 .. MaxMmaps
  /\ panicked \in {NoPanic, "cow_oom", "mapping_failed_2", "fork_pte"}

(* exit hands every child to init before the caller becomes a zombie, and  *)
(* wait clears the parent of the slot it frees: the parent of every live   *)
(* process other than init is a process that has not exited.               *)
ParentsAlive ==
  \A p \in Procs \ {InitProc} :
    Live(p) => parent[p] \in Procs /\ phase[parent[p]] \notin {"ZOMBIE", "UNUSED"}

(* No lost wakeup: exit's wakeup1 calls (to the parent, and to init for a  *)
(* zombie it inherits) leave no process asleep in wait while it has a      *)
(* zombie child it could reap.                                             *)
NoLostWakeup ==
  \A p \in Procs : phase[p] = "SLEEPING" => Zombies(p) = {}

(* wait sleeps only while the scan found a child, and exit wakes the      *)
(* parent: a process asleep in wait always has a child that has not        *)
(* exited, whose exit will wake it.  The scan counts every slot whose     *)
(* parent field names the caller, so this rests on wait clearing the      *)
(* parent of the slot it frees.                                           *)
NoStrandedWaiter ==
  \A p \in Procs :
    phase[p] = "SLEEPING" => \E c \in Kids(p) : phase[c] \in {"RUNNING", "SLEEPING", "WAKING"}

(* Spec 8 P3, the fork hook: the child gets the parent's descriptors, and  *)
(* every present page of a MAP_PRIVATE descriptor ends up in both page     *)
(* directories at the same frame, read-only and marked PTE_COW.            *)
ForkContract ==
  [][\A p, c \in Procs :
       (phase[c] = "UNUSED" /\ phase'[c] = "RUNNING" /\ parent'[c] = p)
         => /\ maps'[c] = maps[p]
            /\ \A a \in CowPages(p) :
                 /\ pt'[c][a] = pt'[p][a]
                 /\ pt'[p][a].frame = pt[p][a].frame
                 /\ pt'[p][a].cow /\ ~ pt'[p][a].w
  ]_vars

(* Spec 8 P4, the COW fault: when a PTE_COW page becomes writable, its new *)
(* frame is one taken from the free pool, the COW bit is gone, and no      *)
(* other process's page directory changes.                                 *)
CowFaultContract ==
  [][\A p \in Procs, a \in ArenaPages :
       (pt[p][a].cow /\ pt'[p][a].w)
         => /\ pt'[p][a].frame \in free
            /\ free' = free \ {pt'[p][a].frame}
            /\ ~ pt'[p][a].cow
            /\ \A q \in Procs \ {p} : pt'[q] = pt[q]
  ]_vars

(* fork, exit (and the kill in the fault handler) and wait implement the  *)
(* slot lifecycle of ProcLifecycle: allocproc fills only a free slot for a *)
(* running parent, exit hands every child to init before the caller       *)
(* becomes a zombie, and wait frees only a zombie child of the caller and *)
(* clears its parent; sleep, wakeup, faults and the mapping calls change  *)
(* no slot's life.                                                         *)
LifecycleRefinement == Life!LifeSpec

(* If init has a zombie child (its own, or one inherited from an exiting  *)
(* process) infinitely often, init reaps one infinitely often: exit's      *)
(* wakeup1 calls end its sleep and init keeps calling wait (FairSpec).     *)
(* Which zombie is reaped is the first in slot order, so one zombie may    *)
(* wait for ever while lower slots keep producing new ones.                *)
InitReapsZombies ==
  []<>(Zombies(InitProc) # {})
    => []<><<Wait(InitProc) /\ Zombies(InitProc) # {}>>_vars

(* Spec 4.6 and 9.2: a MAP_SHARED descriptor inherited at fork stays       *)
(* shared: where parent and child both have the page present, they map     *)
(* the same frame.                                                         *)
SharedStaysShared ==
  \A p, q \in Procs, a \in ArenaPages :
    (/\ \E i \in 1 .. Len(maps[p]), j \in 1 .. Len(maps[q]) :
          /\ maps[p][i].id = maps[q][j].id
          /\ MAP_SHARED \in maps[p][i].flags
          /\ Contains(maps[p][i], a)
     /\ Present(p, a) /\ Present(q, a))
      => pt[p][a].frame = pt[q][a].frame

(* No frame is lost: every frame is in the free pool or mapped by a        *)
(* process whose page directory wait has not yet freed.                    *)
FramesAccounted ==
  Frames = free \cup UNION {MappedFrames(p) : p \in {q \in Procs : Live(q)}}

(* No frame is both on the free list and mapped by a live process (freed  *)
(* memory is never still reachable from user space).                       *)
NoFreedFrameMapped ==
  \A p \in Procs : Live(p) => MappedFrames(p) \cap free = {}

=============================================================================
