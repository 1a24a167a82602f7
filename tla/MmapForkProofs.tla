---------------------------- MODULE MmapForkProofs ----------------------------
(***************************************************************************)
(* Proofs about MmapFork for every number of process slots and frames.    *)
(*                                                                         *)
(* NoLostWakeup and ParentsAlive are not inductive alone.  exit's first    *)
(* wakeup1 goes to curproc->parent, so a process that were its own parent  *)
(* would be handed to init as a zombie without waking it; and init must    *)
(* never exit or be reaped, for the children handed to it to keep a live   *)
(* parent.  FInv adds both facts: no slot is its own parent, and init is   *)
(* alive with no parent.                                                   *)
(***************************************************************************)
EXTENDS MmapFork, FiniteSetTheorems, TLAPS

NoSelfParent == \A p \in Procs : parent[p] # p

InitAlive ==
  /\ phase[InitProc] \in {"RUNNING", "SLEEPING", "WAKING"}
  /\ parent[InitProc] = NoProc

FInv == TypeOK /\ InitAlive /\ NoSelfParent /\ ParentsAlive /\ NoLostWakeup

USE PageSizeAssumption, ArenaAssumption, ProcAssumption, FrameAssumption,
    ForkInputsAssumption

-----------------------------------------------------------------------------
(* exit, and the kill of a process whose fault is not resolved. *)

LEMMA ExitPhasesValue ==
  ASSUME NEW p \in Procs, NEW q \in Procs
  PROVE  ExitPhases(p)[q] =
           IF q = p THEN "ZOMBIE"
           ELSE IF phase[q] = "SLEEPING" /\ q \in WokenBy(p) THEN "WAKING"
           ELSE phase[q]
BY DEF ExitPhases

LEMMA ExitStepsFInv ==
  ASSUME FInv, NEW p \in Procs \ {InitProc}, phase[p] = "RUNNING", ExitSteps(p),
         UNCHANGED <<pt, free, nextId, panicked>>
  PROVE  FInv'
<1>1. \A q \in Procs : phase'[q] = ExitPhases(p)[q]
  BY DEF ExitSteps
<1>2. \A q \in Procs : parent'[q] = IF parent[q] = p THEN InitProc ELSE parent[q]
  BY DEF ExitSteps
<1>3. TypeOK'
  <2>1. phase' \in [Procs -> {"RUNNING", "SLEEPING", "WAKING", "ZOMBIE", "UNUSED"}]
    BY <1>1, ExitPhasesValue DEF ExitSteps, ExitPhases, FInv, TypeOK
  <2>2. parent' \in [Procs -> Procs \cup {NoProc}]
    BY DEF ExitSteps, FInv, TypeOK, Procs, InitProc
  <2>3. maps' \in [Procs -> Seq(Mapping)]
    BY DEF ExitSteps, FInv, TypeOK
  <2>. QED  BY <2>1, <2>2, <2>3 DEF FInv, TypeOK
<1>4. InitAlive'
  <2>1. phase'[InitProc] \in {"RUNNING", "SLEEPING", "WAKING"}
    BY <1>1, ExitPhasesValue DEF FInv, InitAlive, Procs, InitProc
  <2>2. parent'[InitProc] = NoProc
    BY <1>2 DEF FInv, InitAlive, Procs, InitProc, NoProc
  <2>. QED  BY <2>1, <2>2 DEF InitAlive
<1>5. NoSelfParent'
  BY <1>2 DEF FInv, NoSelfParent, InitAlive, Procs, InitProc, NoProc
<1>6. ParentsAlive'
  <2> SUFFICES ASSUME NEW q \in Procs \ {InitProc}, phase'[q] # "UNUSED"
               PROVE  parent'[q] \in Procs /\ phase'[parent'[q]] \notin {"ZOMBIE", "UNUSED"}
    BY DEF ParentsAlive, Live
  <2>1. phase[q] # "UNUSED"
    BY <1>1, ExitPhasesValue DEF FInv
  <2>2. parent[q] \in Procs /\ phase[parent[q]] \notin {"ZOMBIE", "UNUSED"}
    BY <2>1 DEF FInv, ParentsAlive, Live
  <2>3. CASE parent[q] = p
    <3>1. parent'[q] = InitProc
      BY <1>2, <2>3
    <3>. QED  BY <3>1, <1>4 DEF InitAlive, Procs, InitProc
  <2>4. CASE parent[q] # p
    <3>1. parent'[q] = parent[q] /\ parent[q] # p
      BY <1>2, <2>4
    <3>2. phase'[parent[q]] \in {phase[parent[q]], "WAKING"}
      BY <2>2, <3>1, <1>1, ExitPhasesValue DEF FInv
    <3>. QED  BY <2>2, <3>1, <3>2
  <2>. QED  BY <2>3, <2>4
<1>7. NoLostWakeup'
  <2> SUFFICES ASSUME NEW q \in Procs, phase'[q] = "SLEEPING", NEW c \in Procs,
                      parent'[c] = q, phase'[c] = "ZOMBIE"
               PROVE  FALSE
    BY DEF NoLostWakeup, Zombies, Kids
  <2>1. q # p /\ phase[q] = "SLEEPING" /\ q # parent[p]
        /\ ~ (q = InitProc /\ \E d \in Procs : parent[d] = p /\ phase[d] = "ZOMBIE")
    BY <1>1, ExitPhasesValue DEF FInv, WokenBy, OrphanZombie
  <2>2. CASE c = p
    <3>1. parent[p] # p
      BY DEF FInv, NoSelfParent
    <3>. QED  BY <1>2, <2>1, <2>2, <3>1
  <2>3. CASE c # p
    <3>1. phase[c] = "ZOMBIE"
      BY <1>1, <2>3, ExitPhasesValue DEF FInv
    <3>2. CASE parent[c] = p
      BY <1>2, <2>1, <3>1, <3>2
    <3>3. CASE parent[c] # p
      <4>1. parent[c] = q
        BY <1>2, <3>3
      <4>. QED  BY <2>1, <3>1, <4>1 DEF FInv, NoLostWakeup, Zombies, Kids
    <3>. QED  BY <3>2, <3>3
  <2>. QED  BY <2>2, <2>3
<1>. QED  BY <1>3, <1>4, <1>5, <1>6, <1>7 DEF FInv

-----------------------------------------------------------------------------
(* Steps that leave the process table alone. *)

LEMMA ProcTableUnchanged ==
  ASSUME FInv, UNCHANGED <<phase, parent>>
  PROVE  (InitAlive /\ NoSelfParent /\ ParentsAlive /\ NoLostWakeup)'
BY DEF FInv, InitAlive, NoSelfParent, ParentsAlive, Live, NoLostWakeup, Zombies, Kids

LEMMA HaltFInv ==
  ASSUME FInv, NEW msg \in {"cow_oom", "mapping_failed_2", "fork_pte"}, Halt(msg)
  PROVE  FInv'
BY ProcTableUnchanged DEF Halt, FInv, TypeOK

LEMMA MmapFInv ==
  ASSUME FInv, NEW p \in Procs, NEW addr \in MmapAddrs, NEW length \in MmapLengths,
         NEW flags \in FlagChoices, NEW fd \in FdChoices, NEW offset \in OffsetChoices,
         Mmap(p, addr, length, flags, fd, offset)
  PROVE  FInv'
<1>1. PICK a \in Nat : Place(p, a, length, flags, fd)
  BY DEF Mmap, ArenaPages
<1>2. length \in Nat /\ flags \subseteq MapFlags /\ fd \in Int /\ nextId \in 0 .. MaxMmaps
  BY DEF Mmap, MmapArgsValid, FInv, TypeOK
<1>3. [addr |-> a, length |-> length, flags |-> flags, fd |-> fd, id |-> nextId + 1]
        \in Mapping
  BY <1>2 DEF Mapping
<1>4. TypeOK'
  BY <1>1, <1>2, <1>3 DEF Place, FInv, TypeOK
<1>. QED  BY <1>1, <1>4, ProcTableUnchanged DEF Place, FInv

LEMMA MunmapFInv ==
  ASSUME FInv, NEW p \in Procs, NEW addr \in MunmapAddrs, NEW length \in MunmapLengths,
         Munmap(p, addr, length)
  PROVE  FInv'
<1>1. maps[p] \in Seq(Mapping) /\ maps[p] # <<>> /\ maps' = [maps EXCEPT ![p] = Tail(maps[p])]
  BY DEF Munmap, FInv, TypeOK
<1>2. Tail(maps[p]) \in Seq(Mapping)
  BY <1>1
<1>3. TypeOK'
  BY <1>1, <1>2 DEF Munmap, FInv, TypeOK
<1>. QED  BY <1>3, ProcTableUnchanged DEF Munmap, FInv

LEMMA MapFreshFInv ==
  ASSUME FInv, NEW p \in Procs, NEW va \in ArenaPages, NEW f \in free, MapFresh(p, va, f)
  PROVE  FInv'
<1>1. [frame |-> f, w |-> TRUE, cow |-> FALSE] \in PTE
  BY DEF FInv, TypeOK, PTE
<1>2. TypeOK'
  BY <1>1 DEF MapFresh, FInv, TypeOK
<1>. QED  BY <1>2, ProcTableUnchanged DEF MapFresh, FInv

LEMMA PageFaultFInv ==
  ASSUME FInv, NEW p \in Procs, NEW va \in FaultVAs, PageFault(p, va)
  PROVE  FInv'
<1>1. va \in ArenaPages /\ p # InitProc /\ phase[p] = "RUNNING"
  BY DEF PageFault, UserRunning
<1>2. CASE Halt("cow_oom") \/ Halt("mapping_failed_2")
  BY <1>2, HaltFInv
<1>3. CASE \E f \in free : MapFresh(p, va, f)
  BY <1>1, <1>3, MapFreshFInv
<1>4. CASE ExitSteps(p) /\ UNCHANGED <<pt, free, nextId, panicked>>
  BY <1>1, <1>4, ExitStepsFInv
<1>. QED  BY <1>2, <1>3, <1>4 DEF PageFault, CowFault, LazyFault

LEMMA ExitFInv ==
  ASSUME FInv, NEW p \in Procs, Exit(p)
  PROVE  FInv'
BY ExitStepsFInv DEF Exit, UserRunning

LEMMA ForkPgdirsType ==
  ASSUME TypeOK, NEW p \in Procs, NEW c \in Procs
  PROVE  ForkPgdirs(p, c) \in [Procs -> [ArenaPages -> PTE]]
<1>. DEFINE cowed == [a \in ArenaPages |->
                        IF a \in CowPages(p) THEN [pt[p][a] EXCEPT !.w = FALSE, !.cow = TRUE]
                        ELSE pt[p][a]]
<1>1. cowed \in [ArenaPages -> PTE]
  <2>1. \A a \in ArenaPages : pt[p][a] \in PTE
    BY DEF TypeOK
  <2>2. \A r \in PTE : [r EXCEPT !.w = FALSE, !.cow = TRUE] \in PTE
    BY DEF PTE
  <2>. QED  BY <2>1, <2>2
<1>2. NoPTE \in PTE
  BY DEF NoPTE, PTE
<1>3. [a \in ArenaPages |-> IF a \in CowPages(p) THEN cowed[a] ELSE NoPTE]
        \in [ArenaPages -> PTE]
  BY <1>1, <1>2
<1>. QED  BY <1>1, <1>3 DEF ForkPgdirs, TypeOK

LEMMA ForkFInv ==
  ASSUME FInv, NEW p \in Procs, Fork(p)
  PROVE  FInv'
<1>1. PICK c \in Procs :
        /\ IsFirstOf(c, {d \in Procs : phase[d] = "UNUSED"})
        /\ \/ CowPages(p) # {} /\ free = {} /\ Halt("fork_pte")
           \/ /\ pt' = ForkPgdirs(p, c)
              /\ maps' = [maps EXCEPT ![c] = maps[p]]
              /\ parent' = [parent EXCEPT ![c] = p]
              /\ phase' = [phase EXCEPT ![c] = "RUNNING"]
              /\ UNCHANGED <<free, nextId, panicked>>
  BY DEF Fork
<1>2. CASE Halt("fork_pte")
  BY <1>2, HaltFInv
<1>3. CASE /\ pt' = ForkPgdirs(p, c)
           /\ maps' = [maps EXCEPT ![c] = maps[p]]
           /\ parent' = [parent EXCEPT ![c] = p]
           /\ phase' = [phase EXCEPT ![c] = "RUNNING"]
           /\ UNCHANGED <<free, nextId, panicked>>
  <2>1. phase[c] = "UNUSED" /\ phase[p] = "RUNNING" /\ c # p /\ c # InitProc
    BY <1>1 DEF IsFirstOf, Fork, FInv, InitAlive
  <2>2. TypeOK'
    BY <1>3, <2>1, ForkPgdirsType DEF FInv, TypeOK
  <2>3. InitAlive'
    BY <1>3, <2>1 DEF FInv, InitAlive, TypeOK
  <2>4. NoSelfParent'
    BY <1>3, <2>1 DEF FInv, NoSelfParent, TypeOK
  <2>5. ParentsAlive'
    BY <1>3, <2>1 DEF FInv, ParentsAlive, Live, TypeOK
  <2>6. NoLostWakeup'
    BY <1>3, <2>1 DEF FInv, NoLostWakeup, Zombies, Kids, TypeOK
  <2>. QED  BY <2>2, <2>3, <2>4, <2>5, <2>6 DEF FInv
<1>. QED  BY <1>1, <1>2, <1>3

LEMMA WaitFInv ==
  ASSUME FInv, NEW p \in Procs, Wait(p)
  PROVE  FInv'
<1>1. phase[p] \in {"RUNNING", "WAKING"}
  BY DEF Wait
<1>2. CASE \E c \in Procs : IsFirstOf(c, Zombies(p)) /\ Reap(p, c)
  <2>1. PICK c \in Procs : IsFirstOf(c, Zombies(p)) /\ Reap(p, c)
    BY <1>2
  <2>2. parent[c] = p /\ phase[c] = "ZOMBIE" /\ c # p /\ c # InitProc
    BY <1>1, <2>1 DEF IsFirstOf, Zombies, Kids, FInv, InitAlive
  <2>3. MappedFrames(c) \subseteq Frames
    BY DEF MappedFrames, Present, FInv, TypeOK, PTE
  <2>4. EmptyPgdir \in [ArenaPages -> PTE]
    BY DEF EmptyPgdir, NoPTE, PTE
  <2>5. TypeOK'
    BY <2>1, <2>3, <2>4 DEF Reap, FInv, TypeOK
  <2>6. InitAlive'
    BY <2>1, <2>2 DEF Reap, FInv, InitAlive, TypeOK, InitProc, Procs
  <2>7. NoSelfParent'
    BY <2>1, <2>2 DEF Reap, FInv, NoSelfParent, TypeOK, NoProc, Procs
  <2>8. ParentsAlive'
    BY <2>1, <2>2 DEF Reap, FInv, ParentsAlive, Live, TypeOK
  <2>9. NoLostWakeup'
    BY <2>1, <2>2 DEF Reap, FInv, NoLostWakeup, Zombies, Kids, TypeOK
  <2>. QED  BY <2>5, <2>6, <2>7, <2>8, <2>9 DEF FInv
<1>3. CASE Kids(p) # {} /\ Zombies(p) = {} /\ Sleep(p)
  <2>1. TypeOK'
    BY <1>3 DEF Sleep, FInv, TypeOK
  <2>2. InitAlive' /\ NoSelfParent'
    BY <1>3 DEF Sleep, FInv, InitAlive, NoSelfParent, TypeOK
  <2>3. ParentsAlive'
    BY <1>1, <1>3 DEF Sleep, FInv, ParentsAlive, Live, TypeOK
  <2>4. NoLostWakeup'
    BY <1>3 DEF Sleep, FInv, NoLostWakeup, Zombies, Kids, NoSelfParent, TypeOK
  <2>. QED  BY <2>1, <2>2, <2>3, <2>4 DEF FInv
<1>. QED  BY <1>2, <1>3 DEF Wait

LEMMA InitFInv == Init => FInv
<1>. SUFFICES ASSUME Init PROVE FInv
  OBVIOUS
<1>1. EmptyPgdir \in [ArenaPages -> PTE]
  BY DEF EmptyPgdir, NoPTE, PTE
<1>2. TypeOK
  BY <1>1 DEF Init, TypeOK, Procs, InitProc, NoProc
<1>3. InitAlive /\ NoSelfParent
  BY DEF Init, InitAlive, NoSelfParent, Procs, InitProc, NoProc
<1>4. ParentsAlive
  BY DEF Init, ParentsAlive, Live, Procs, InitProc, NoProc
<1>5. NoLostWakeup
  BY DEF Init, NoLostWakeup, Zombies, Kids, Procs, InitProc
<1>. QED  BY <1>2, <1>3, <1>4, <1>5 DEF FInv

LEMMA NextFInv == FInv /\ [Next]_vars => FInv'
<1>. SUFFICES ASSUME FInv, [Next]_vars PROVE FInv'
  OBVIOUS
<1>1. CASE \E p \in Procs, addr \in MmapAddrs, length \in MmapLengths, flags \in FlagChoices,
              fd \in FdChoices, offset \in OffsetChoices :
             Mmap(p, addr, length, flags, fd, offset)
  BY <1>1, MmapFInv
<1>2. CASE \E p \in Procs, addr \in MunmapAddrs, length \in MunmapLengths : Munmap(p, addr, length)
  BY <1>2, MunmapFInv
<1>3. CASE \E p \in Procs, va \in FaultVAs : PageFault(p, va)
  BY <1>3, PageFaultFInv
<1>4. CASE \E p \in Procs : Fork(p) \/ Exit(p) \/ Wait(p)
  BY <1>4, ForkFInv, ExitFInv, WaitFInv
<1>5. CASE UNCHANGED vars
  BY <1>5 DEF vars, FInv, TypeOK, InitAlive, NoSelfParent, ParentsAlive, Live,
              NoLostWakeup, Zombies, Kids
<1>. QED  BY <1>1, <1>2, <1>3, <1>4, <1>5 DEF Next

-----------------------------------------------------------------------------
(* The process table and the mapping state keep their types in every      *)
(* reachable state of fork, exit, wait and the fault handler, for every    *)
(* NPROC, frame pool and input set.                                        *)
THEOREM ForkTypeCorrect == Spec => []TypeOK
<1>1. Spec => []FInv
  BY InitFInv, NextFInv, PTL DEF Spec
<1>. QED  BY <1>1, PTL DEF FInv

(* exit's reparenting to init and wait's clearing of the freed slot's     *)
(* parent keep every live process's parent alive, for every NPROC.         *)
THEOREM ParentsAliveHolds == Spec => []ParentsAlive
<1>1. Spec => []FInv
  BY InitFInv, NextFInv, PTL DEF Spec
<1>. QED  BY <1>1, PTL DEF FInv

(* exit's two wakeup1 calls leave no process asleep in wait with a zombie  *)
(* child, for every NPROC.                                                 *)
THEOREM NoLostWakeupHolds == Spec => []NoLostWakeup
<1>1. Spec => []FInv
  BY InitFInv, NextFInv, PTL DEF Spec
<1>. QED  BY <1>1, PTL DEF FInv

-----------------------------------------------------------------------------
(* The action properties of fork and of the COW fault.  Both rest on the   *)
(* fact that no PTE is ever both PTE_COW and writable: fork sets COW only  *)
(* while clearing W, and every fault that sets W clears COW.               *)

CowNotWritable == \A p \in Procs, a \in ArenaPages : pt[p][a].cow => ~ pt[p][a].w

(* The step predicates of the two action properties. *)
ForkStep ==
  \A p, c \in Procs :
    (phase[c] = "UNUSED" /\ phase'[c] = "RUNNING" /\ parent'[c] = p)
      => /\ maps'[c] = maps[p]
         /\ \A a \in CowPages(p) :
              /\ pt'[c][a] = pt'[p][a]
              /\ pt'[p][a].frame = pt[p][a].frame
              /\ pt'[p][a].cow /\ ~ pt'[p][a].w

CowStep ==
  \A p \in Procs, a \in ArenaPages :
    (pt[p][a].cow /\ pt'[p][a].w)
      => /\ pt'[p][a].frame \in free
         /\ free' = free \ {pt'[p][a].frame}
         /\ ~ pt'[p][a].cow
         /\ \A q \in Procs \ {p} : pt'[q] = pt[q]

(* A step that keeps every PTE and every slot state satisfies both. *)
LEMMA PtPhaseUnchanged ==
  ASSUME CowNotWritable, UNCHANGED <<pt, phase>>
  PROVE  CowNotWritable' /\ ForkStep /\ CowStep
BY DEF CowNotWritable, ForkStep, CowStep

(* The exit steps change no PTE and make no UNUSED slot RUNNING. *)
LEMMA ExitStepsSteps ==
  ASSUME TypeOK, CowNotWritable, NEW p \in Procs, ExitSteps(p), UNCHANGED pt
  PROVE  CowNotWritable' /\ ForkStep /\ CowStep
<1>1. \A c \in Procs : phase[c] = "UNUSED" => phase'[c] # "RUNNING"
  BY ExitPhasesValue DEF ExitSteps
<1>. QED  BY <1>1 DEF CowNotWritable, ForkStep, CowStep

LEMMA MapFreshSteps ==
  ASSUME TypeOK, CowNotWritable, NEW p \in Procs, NEW va \in ArenaPages, NEW f \in free,
         MapFresh(p, va, f)
  PROVE  CowNotWritable' /\ ForkStep /\ CowStep
<1>1. pt'[p][va] = [frame |-> f, w |-> TRUE, cow |-> FALSE]
      /\ \A q \in Procs, a \in ArenaPages : <<q, a>> # <<p, va>> => pt'[q][a] = pt[q][a]
      /\ \A r \in Procs \ {p} : pt'[r] = pt[r]
  BY DEF MapFresh, TypeOK
<1>2. CowNotWritable'
  BY <1>1 DEF CowNotWritable
<1>3. ForkStep
  BY DEF MapFresh, ForkStep
<1>4. CowStep
  BY <1>1 DEF MapFresh, CowStep, CowNotWritable
<1>. QED  BY <1>2, <1>3, <1>4

(* Fork's marking of a present PTE: W cleared, COW set, same frame. *)
LEMMA CowMarked ==
  ASSUME NEW r \in PTE
  PROVE  /\ [r EXCEPT !.w = FALSE, !.cow = TRUE].cow = TRUE
         /\ [r EXCEPT !.w = FALSE, !.cow = TRUE].w = FALSE
         /\ [r EXCEPT !.w = FALSE, !.cow = TRUE].frame = r.frame
BY DEF PTE

LEMMA ForkSteps ==
  ASSUME FInv, CowNotWritable, NEW p \in Procs, Fork(p)
  PROVE  CowNotWritable' /\ ForkStep /\ CowStep
<1>1. PICK c \in Procs :
        /\ IsFirstOf(c, {d \in Procs : phase[d] = "UNUSED"})
        /\ \/ CowPages(p) # {} /\ free = {} /\ Halt("fork_pte")
           \/ /\ pt' = ForkPgdirs(p, c)
              /\ maps' = [maps EXCEPT ![c] = maps[p]]
              /\ parent' = [parent EXCEPT ![c] = p]
              /\ phase' = [phase EXCEPT ![c] = "RUNNING"]
              /\ UNCHANGED <<free, nextId, panicked>>
  BY DEF Fork
<1>2. CASE Halt("fork_pte")
  BY <1>2, PtPhaseUnchanged DEF Halt
<1>3. CASE /\ pt' = ForkPgdirs(p, c)
           /\ maps' = [maps EXCEPT ![c] = maps[p]]
           /\ parent' = [parent EXCEPT ![c] = p]
           /\ phase' = [phase EXCEPT ![c] = "RUNNING"]
           /\ UNCHANGED <<free, nextId, panicked>>
  <2>1. phase[c] = "UNUSED" /\ phase[p] = "RUNNING" /\ c # p
    BY <1>1 DEF IsFirstOf, Fork
  <2>2. /\ \A a \in ArenaPages :
             pt'[p][a] = IF a \in CowPages(p)
                         THEN [pt[p][a] EXCEPT !.w = FALSE, !.cow = TRUE] ELSE pt[p][a]
        /\ \A a \in ArenaPages :
             pt'[c][a] = IF a \in CowPages(p) THEN pt'[p][a] ELSE NoPTE
        /\ \A q \in Procs \ {p, c} : pt'[q] = pt[q]
    BY <1>3, <2>1 DEF ForkPgdirs, FInv, TypeOK
  <2>3. \A a \in ArenaPages : pt[p][a] \in PTE
    BY DEF FInv, TypeOK
  <2>4. \A a \in ArenaPages :
          a \in CowPages(p) => pt'[p][a].cow /\ ~ pt'[p][a].w /\ pt'[p][a].frame = pt[p][a].frame
    <3>. SUFFICES ASSUME NEW a \in ArenaPages, a \in CowPages(p)
                  PROVE  pt'[p][a].cow /\ ~ pt'[p][a].w /\ pt'[p][a].frame = pt[p][a].frame
      OBVIOUS
    <3>1. pt'[p][a] = [pt[p][a] EXCEPT !.w = FALSE, !.cow = TRUE]
      BY <2>2
    <3>2. pt[p][a] \in PTE
      BY <2>3
    <3>. QED  BY <3>1, <3>2, CowMarked
  <2>5. \A q \in Procs, a \in ArenaPages : pt'[q][a].w =>
          /\ q # c /\ pt'[q][a] = pt[q][a]
    <3>. SUFFICES ASSUME NEW q \in Procs, NEW a \in ArenaPages, pt'[q][a].w
                  PROVE  q # c /\ pt'[q][a] = pt[q][a]
      OBVIOUS
    <3>1. q # c
      <4>1. CASE a \in CowPages(p)
        BY <2>2, <2>4, <4>1
      <4>2. CASE a \notin CowPages(p)
        <5>1. pt'[c][a] = NoPTE
          BY <2>2, <4>2
        <5>2. ~ pt'[c][a].w
          BY <5>1 DEF NoPTE
        <5>. QED  BY <5>2
      <4>. QED  BY <4>1, <4>2
    <3>2. CASE q = p
      <4>1. a \notin CowPages(p)
        BY <2>4, <3>2
      <4>. QED  BY <2>2, <3>1, <3>2, <4>1
    <3>3. CASE q # p
      <4>1. q \in Procs \ {p, c}
        BY <3>1, <3>3
      <4>. QED  BY <2>2, <3>1, <4>1
    <3>. QED  BY <3>1, <3>2, <3>3
  <2>6. CowNotWritable'
    BY <2>5 DEF CowNotWritable
  <2>7. ForkStep
    <3>. SUFFICES ASSUME NEW p2 \in Procs, NEW c2 \in Procs,
                         phase[c2] = "UNUSED", phase'[c2] = "RUNNING", parent'[c2] = p2
                  PROVE  /\ maps'[c2] = maps[p2]
                         /\ \A a \in CowPages(p2) :
                              /\ pt'[c2][a] = pt'[p2][a]
                              /\ pt'[p2][a].frame = pt[p2][a].frame
                              /\ pt'[p2][a].cow /\ ~ pt'[p2][a].w
      BY DEF ForkStep
    <3>1. c2 = c /\ p2 = p
      BY <1>3, <2>1 DEF FInv, TypeOK
    <3>2. CowPages(p) \subseteq ArenaPages
      BY DEF CowPages
    <3>3. maps'[c] = maps[p]
      BY <1>3 DEF FInv, TypeOK
    <3>. QED  BY <2>2, <2>4, <3>1, <3>2, <3>3
  <2>8. CowStep
    BY <2>5 DEF CowStep, CowNotWritable
  <2>. QED  BY <2>6, <2>7, <2>8
<1>. QED  BY <1>1, <1>2, <1>3

LEMMA WaitSteps ==
  ASSUME FInv, CowNotWritable, NEW p \in Procs, Wait(p)
  PROVE  CowNotWritable' /\ ForkStep /\ CowStep
<1>1. phase[p] \in {"RUNNING", "WAKING"}
  BY DEF Wait
<1>2. CASE \E c \in Procs : IsFirstOf(c, Zombies(p)) /\ Reap(p, c)
  <2>1. PICK c \in Procs : IsFirstOf(c, Zombies(p)) /\ Reap(p, c)
    BY <1>2
  <2>2. \A q \in Procs \ {c} : pt'[q] = pt[q]
    BY <2>1 DEF Reap, FInv, TypeOK
  <2>3. \A a \in ArenaPages : pt'[c][a] = NoPTE
    BY <2>1 DEF Reap, EmptyPgdir, FInv, TypeOK
  <2>4. \A d \in Procs : phase'[d] = "RUNNING" => d = p \/ phase[d] = "RUNNING"
    BY <2>1 DEF Reap, FInv, TypeOK
  <2>5. \A q \in Procs, a \in ArenaPages : pt'[q][a].w => pt'[q][a] = pt[q][a]
    <3>. SUFFICES ASSUME NEW q \in Procs, NEW a \in ArenaPages, pt'[q][a].w
                  PROVE  pt'[q][a] = pt[q][a]
      OBVIOUS
    <3>1. q # c
      BY <2>3 DEF NoPTE
    <3>. QED  BY <2>2, <3>1
  <2>6. CowNotWritable'
    <3>. SUFFICES ASSUME NEW q \in Procs, NEW a \in ArenaPages, pt'[q][a].cow
                  PROVE  ~ pt'[q][a].w
      BY DEF CowNotWritable
    <3>. QED  BY <2>5 DEF CowNotWritable
  <2>7. ForkStep
    BY <1>1, <2>4 DEF ForkStep
  <2>8. CowStep
    BY <2>5 DEF CowStep, CowNotWritable
  <2>. QED  BY <2>6, <2>7, <2>8
<1>3. CASE Kids(p) # {} /\ Zombies(p) = {} /\ Sleep(p)
  <2>1. \A d \in Procs : phase'[d] = "RUNNING" => phase[d] = "RUNNING"
    BY <1>3 DEF Sleep, FInv, TypeOK
  <2>. QED  BY <1>3, <2>1 DEF Sleep, CowNotWritable, ForkStep, CowStep
<1>. QED  BY <1>2, <1>3 DEF Wait

LEMMA PageFaultSteps ==
  ASSUME FInv, CowNotWritable, NEW p \in Procs, NEW va \in FaultVAs, PageFault(p, va)
  PROVE  CowNotWritable' /\ ForkStep /\ CowStep
<1>1. va \in ArenaPages
  BY DEF PageFault
<1>2. CASE Halt("cow_oom") \/ Halt("mapping_failed_2")
  BY <1>2, PtPhaseUnchanged DEF Halt
<1>3. CASE \E f \in free : MapFresh(p, va, f)
  BY <1>1, <1>3, MapFreshSteps DEF FInv
<1>4. CASE ExitSteps(p) /\ UNCHANGED <<pt, free, nextId, panicked>>
  BY <1>4, ExitStepsSteps DEF FInv
<1>. QED  BY <1>2, <1>3, <1>4 DEF PageFault, CowFault, LazyFault

LEMMA NextSteps ==
  ASSUME FInv, CowNotWritable, [Next]_vars
  PROVE  CowNotWritable' /\ ForkStep /\ CowStep
<1>1. CASE \E p \in Procs, addr \in MmapAddrs, length \in MmapLengths, flags \in FlagChoices,
              fd \in FdChoices, offset \in OffsetChoices :
             Mmap(p, addr, length, flags, fd, offset)
  <2>1. UNCHANGED <<pt, phase>>
    <3>1. PICK p \in Procs, addr \in MmapAddrs, length \in MmapLengths, flags \in FlagChoices,
               fd \in FdChoices, offset \in OffsetChoices :
                 Mmap(p, addr, length, flags, fd, offset)
      BY <1>1
    <3>2. \E a \in Nat : Place(p, a, length, flags, fd)
      BY <3>1 DEF Mmap, ArenaPages
    <3>. QED  BY <3>2 DEF Place
  <2>. QED  BY <2>1, PtPhaseUnchanged
<1>2. CASE \E p \in Procs, addr \in MunmapAddrs, length \in MunmapLengths : Munmap(p, addr, length)
  BY <1>2, PtPhaseUnchanged DEF Munmap
<1>3. CASE \E p \in Procs, va \in FaultVAs : PageFault(p, va)
  BY <1>3, PageFaultSteps
<1>4. CASE \E p \in Procs : Fork(p)
  BY <1>4, ForkSteps
<1>5. CASE \E p \in Procs : Exit(p)
  BY <1>5, ExitStepsSteps DEF Exit, FInv
<1>6. CASE \E p \in Procs : Wait(p)
  BY <1>6, WaitSteps
<1>7. CASE UNCHANGED vars
  BY <1>7, PtPhaseUnchanged DEF vars
<1>. QED  BY <1>1, <1>2, <1>3, <1>4, <1>5, <1>6, <1>7 DEF Next

LEMMA InitCowNotWritable == Init => CowNotWritable
BY DEF Init, CowNotWritable, EmptyPgdir, NoPTE

(* Spec 8 P3, the fork hook: whenever a free slot becomes a running child  *)
(* of p, it holds p's descriptors and shares every present page of p's     *)
(* MAP_PRIVATE descriptors at the same frame, read-only and PTE_COW in     *)
(* both directories; for every NPROC and frame pool.                       *)
THEOREM ForkContractHolds == Spec => ForkContract
<1>1. Spec => [](FInv /\ CowNotWritable)
  <2>1. Init => FInv /\ CowNotWritable
    BY InitFInv, InitCowNotWritable
  <2>2. FInv /\ CowNotWritable /\ [Next]_vars => (FInv /\ CowNotWritable)'
    BY NextFInv, NextSteps
  <2>. QED  BY <2>1, <2>2, PTL DEF Spec
<1>2. FInv /\ CowNotWritable /\ [Next]_vars => [ForkStep]_vars
  BY NextSteps
<1>. QED  BY <1>1, <1>2, PTL DEF Spec, ForkContract, ForkStep

(* Spec 8 P4, the COW fault: a PTE_COW page only becomes writable with a   *)
(* fresh frame taken from the pool, its COW bit cleared and every other    *)
(* directory unchanged; for every NPROC and frame pool.                    *)
THEOREM CowFaultContractHolds == Spec => CowFaultContract
<1>1. Spec => [](FInv /\ CowNotWritable)
  <2>1. Init => FInv /\ CowNotWritable
    BY InitFInv, InitCowNotWritable
  <2>2. FInv /\ CowNotWritable /\ [Next]_vars => (FInv /\ CowNotWritable)'
    BY NextFInv, NextSteps
  <2>. QED  BY <2>1, <2>2, PTL DEF Spec
<1>2. FInv /\ CowNotWritable /\ [Next]_vars => [CowStep]_vars
  BY NextSteps
<1>. QED  BY <1>1, <1>2, PTL DEF Spec, CowFaultContract, CowStep


-----------------------------------------------------------------------------
(***************************************************************************)
(* No stranded waiter.  wait's scan counts every slot whose parent field   *)
(* names the caller, free slots included, so a sleeper is safe only if    *)
(* free slots name no parent: wait clears the field when it frees a slot,  *)
(* and exit's hand-over to init never touches a free slot.  With that,     *)
(* the child wait found when it went to sleep is a live one, and the only  *)
(* way it stops being live, exit, wakes its parent.                        *)
(***************************************************************************)
UnusedOrphan == \A p \in Procs : phase[p] = "UNUSED" => parent[p] = NoProc

WInv == UnusedOrphan /\ NoStrandedWaiter

LEMMA ProcTableUnchangedWInv ==
  ASSUME WInv, UNCHANGED <<phase, parent>>
  PROVE  WInv'
BY DEF WInv, UnusedOrphan, NoStrandedWaiter, Kids

LEMMA ExitStepsWInv ==
  ASSUME FInv, WInv, NEW p \in Procs \ {InitProc}, phase[p] = "RUNNING", ExitSteps(p)
  PROVE  WInv'
<1>1. \A q \in Procs : phase'[q] = ExitPhases(p)[q]
  BY DEF ExitSteps
<1>2. \A q \in Procs : parent'[q] = IF parent[q] = p THEN InitProc ELSE parent[q]
  BY DEF ExitSteps
<1>3. UnusedOrphan'
  <2> SUFFICES ASSUME NEW q \in Procs, phase'[q] = "UNUSED" PROVE parent'[q] = NoProc
    BY DEF UnusedOrphan
  <2>1. phase[q] = "UNUSED"
    BY <1>1, ExitPhasesValue
  <2>2. parent[q] = NoProc /\ NoProc # p
    BY <2>1 DEF WInv, UnusedOrphan, NoProc, Procs
  <2>. QED  BY <1>2, <2>2
<1>4. NoStrandedWaiter'
  <2> SUFFICES ASSUME NEW q \in Procs, phase'[q] = "SLEEPING"
               PROVE  \E c \in Kids(q)' : phase'[c] \in {"RUNNING", "SLEEPING", "WAKING"}
    BY DEF NoStrandedWaiter
  <2>1. q # p /\ phase[q] = "SLEEPING" /\ q # parent[p]
    BY <1>1, ExitPhasesValue DEF WokenBy
  <2>2. PICK c \in Kids(q) : phase[c] \in {"RUNNING", "SLEEPING", "WAKING"}
    BY <2>1 DEF WInv, NoStrandedWaiter
  <2>3. c \in Procs /\ c # p /\ parent[c] = q
    BY <2>1, <2>2 DEF Kids
  <2>4. parent'[c] = q
    BY <1>2, <2>1, <2>3
  <2>5. ExitPhases(p)[c] = IF phase[c] = "SLEEPING" /\ c \in WokenBy(p) THEN "WAKING"
                           ELSE phase[c]
    BY <2>3, ExitPhasesValue
  <2>6. phase'[c] \in {"RUNNING", "SLEEPING", "WAKING"}
    BY <1>1, <2>2, <2>3, <2>5
  <2>. QED  BY <2>3, <2>4, <2>6 DEF Kids
<1>. QED  BY <1>3, <1>4 DEF WInv

LEMMA ForkWInv ==
  ASSUME FInv, WInv, NEW p \in Procs, Fork(p)
  PROVE  WInv'
<1>1. PICK c \in Procs :
        /\ IsFirstOf(c, {d \in Procs : phase[d] = "UNUSED"})
        /\ \/ CowPages(p) # {} /\ free = {} /\ Halt("fork_pte")
           \/ /\ parent' = [parent EXCEPT ![c] = p]
              /\ phase' = [phase EXCEPT ![c] = "RUNNING"]
  BY DEF Fork
<1>2. CASE Halt("fork_pte")
  BY <1>2, ProcTableUnchangedWInv DEF Halt
<1>3. CASE parent' = [parent EXCEPT ![c] = p] /\ phase' = [phase EXCEPT ![c] = "RUNNING"]
  <2>1. phase[c] = "UNUSED"
    BY <1>1 DEF IsFirstOf
  <2>2. UnusedOrphan'
    BY <1>3 DEF WInv, UnusedOrphan, FInv, TypeOK
  <2>3. NoStrandedWaiter'
    <3> SUFFICES ASSUME NEW q \in Procs, phase'[q] = "SLEEPING"
                 PROVE  \E k \in Kids(q)' : phase'[k] \in {"RUNNING", "SLEEPING", "WAKING"}
      BY DEF NoStrandedWaiter
    <3>1. q # c /\ phase[q] = "SLEEPING"
      BY <1>3 DEF FInv, TypeOK
    <3>2. PICK k \in Kids(q) : phase[k] \in {"RUNNING", "SLEEPING", "WAKING"}
      BY <3>1 DEF WInv, NoStrandedWaiter
    <3>3. k # c
      BY <2>1, <3>2
    <3>. QED  BY <1>3, <3>2, <3>3 DEF Kids, FInv, TypeOK
  <2>. QED  BY <2>2, <2>3 DEF WInv
<1>. QED  BY <1>1, <1>2, <1>3

LEMMA WaitWInv ==
  ASSUME FInv, WInv, NEW p \in Procs, Wait(p)
  PROVE  WInv'
<1>1. CASE \E c \in Procs : IsFirstOf(c, Zombies(p)) /\ Reap(p, c)
  <2>1. PICK c \in Procs : IsFirstOf(c, Zombies(p)) /\ Reap(p, c)
    BY <1>1
  <2>2. phase[c] = "ZOMBIE" /\ c # p
    BY <2>1 DEF IsFirstOf, Zombies, Kids, FInv, NoSelfParent
  <2>3. UnusedOrphan'
    BY <2>1 DEF Reap, WInv, UnusedOrphan, FInv, TypeOK
  <2>4. NoStrandedWaiter'
    <3> SUFFICES ASSUME NEW q \in Procs, phase'[q] = "SLEEPING"
                 PROVE  \E k \in Kids(q)' : phase'[k] \in {"RUNNING", "SLEEPING", "WAKING"}
      BY DEF NoStrandedWaiter
    <3>1. q # c /\ q # p /\ phase[q] = "SLEEPING"
      BY <2>1, <2>2 DEF Reap, FInv, TypeOK
    <3>2. PICK k \in Kids(q) : phase[k] \in {"RUNNING", "SLEEPING", "WAKING"}
      BY <3>1 DEF WInv, NoStrandedWaiter
    <3>3. k \in Procs /\ parent[k] = q /\ k # c
      BY <2>2, <3>2 DEF Kids
    <3>5. parent'[k] = q
      BY <2>1, <3>3 DEF Reap, FInv, TypeOK
    <3>4. phase'[k] \in {"RUNNING", "SLEEPING", "WAKING"}
      BY <2>1, <3>2, <3>3 DEF Reap, FInv, TypeOK
    <3>. QED  BY <3>3, <3>4, <3>5 DEF Kids
  <2>. QED  BY <2>3, <2>4 DEF WInv
<1>2. CASE Kids(p) # {} /\ Zombies(p) = {} /\ Sleep(p)
  <2>1. PICK k \in Kids(p) : TRUE
    BY <1>2
  <2>2. k \in Procs /\ parent[k] = p /\ k # p /\ phase[k] # "ZOMBIE"
    BY <1>2, <2>1 DEF Kids, Zombies, FInv, NoSelfParent
  <2>3. phase[k] # "UNUSED"
    BY <2>2 DEF WInv, UnusedOrphan, NoProc, Procs
  <2>4. phase[k] \in {"RUNNING", "SLEEPING", "WAKING"}
    BY <2>2, <2>3 DEF FInv, TypeOK
  <2>5. UnusedOrphan'
    BY <1>2 DEF Sleep, WInv, UnusedOrphan, FInv, TypeOK
  <2>6. NoStrandedWaiter'
    <3> SUFFICES ASSUME NEW q \in Procs, phase'[q] = "SLEEPING"
                 PROVE  \E j \in Kids(q)' : phase'[j] \in {"RUNNING", "SLEEPING", "WAKING"}
      BY DEF NoStrandedWaiter
    <3>1. CASE q = p
      BY <1>2, <2>2, <2>4, <3>1 DEF Sleep, Kids, FInv, TypeOK
    <3>2. CASE q # p
      <4>1. phase[q] = "SLEEPING"
        BY <1>2, <3>2 DEF Sleep, FInv, TypeOK
      <4>2. PICK j \in Kids(q) : phase[j] \in {"RUNNING", "SLEEPING", "WAKING"}
        BY <4>1 DEF WInv, NoStrandedWaiter
      <4>. QED  BY <1>2, <4>2 DEF Sleep, Kids, FInv, TypeOK
    <3>. QED  BY <3>1, <3>2
  <2>. QED  BY <2>5, <2>6 DEF WInv
<1>. QED  BY <1>1, <1>2 DEF Wait

LEMMA PageFaultWInv ==
  ASSUME FInv, WInv, NEW p \in Procs, NEW va \in FaultVAs, PageFault(p, va)
  PROVE  WInv'
<1>1. p # InitProc /\ phase[p] = "RUNNING"
  BY DEF PageFault, UserRunning
<1>2. CASE ExitSteps(p)
  BY <1>1, <1>2, ExitStepsWInv
<1>3. CASE UNCHANGED <<phase, parent>>
  BY <1>3, ProcTableUnchangedWInv
<1>. QED  BY <1>2, <1>3 DEF PageFault, CowFault, LazyFault, Halt, MapFresh

LEMMA NextWInv ==
  ASSUME FInv, WInv, [Next]_vars
  PROVE  WInv'
<1>1. CASE \E p \in Procs, addr \in MmapAddrs, length \in MmapLengths, flags \in FlagChoices,
              fd \in FdChoices, offset \in OffsetChoices :
             Mmap(p, addr, length, flags, fd, offset)
  <2>1. UNCHANGED <<phase, parent>>
    <3>1. PICK p \in Procs, addr \in MmapAddrs, length \in MmapLengths, flags \in FlagChoices,
               fd \in FdChoices, offset \in OffsetChoices :
                 Mmap(p, addr, length, flags, fd, offset)
      BY <1>1
    <3>2. \E a \in Nat : Place(p, a, length, flags, fd)
      BY <3>1 DEF Mmap, ArenaPages
    <3>. QED  BY <3>2 DEF Place
  <2>. QED  BY <2>1, ProcTableUnchangedWInv
<1>2. CASE \E p \in Procs, addr \in MunmapAddrs, length \in MunmapLengths : Munmap(p, addr, length)
  BY <1>2, ProcTableUnchangedWInv DEF Munmap
<1>3. CASE \E p \in Procs, va \in FaultVAs : PageFault(p, va)
  BY <1>3, PageFaultWInv
<1>4. CASE \E p \in Procs : Fork(p)
  BY <1>4, ForkWInv
<1>5. CASE \E p \in Procs : Exit(p)
  BY <1>5, ExitStepsWInv DEF Exit, UserRunning
<1>6. CASE \E p \in Procs : Wait(p)
  BY <1>6, WaitWInv
<1>7. CASE UNCHANGED vars
  BY <1>7, ProcTableUnchangedWInv DEF vars
<1>. QED  BY <1>1, <1>2, <1>3, <1>4, <1>5, <1>6, <1>7 DEF Next

LEMMA InitWInv == Init => WInv
<1>. SUFFICES ASSUME Init PROVE WInv
  OBVIOUS
<1>1. UnusedOrphan
  BY DEF Init, UnusedOrphan, Procs, InitProc, NoProc
<1>2. 2 \in Kids(InitProc) /\ phase[2] = "RUNNING"
  BY DEF Init, Kids, Procs, InitProc
<1>3. \A q \in Procs : phase[q] = "SLEEPING" => q = InitProc
  BY DEF Init, Procs, InitProc
<1>. QED  BY <1>1, <1>2, <1>3 DEF WInv, NoStrandedWaiter

(* A process asleep in wait always has a child that has not exited, so    *)
(* the exit of that child will wake it: wait never sleeps on a slot it     *)
(* freed itself; for every NPROC and frame pool.                           *)
THEOREM NoStrandedWaiterHolds == Spec => []NoStrandedWaiter
<1>1. Init => FInv /\ WInv
  BY InitFInv, InitWInv
<1>2. FInv /\ WInv /\ [Next]_vars => (FInv /\ WInv)'
  BY NextFInv, NextWInv
<1>3. FInv /\ WInv => NoStrandedWaiter
  BY DEF WInv
<1>. QED  BY <1>1, <1>2, <1>3, PTL DEF Spec


-----------------------------------------------------------------------------
(***************************************************************************)
(* The slot lifecycle.  Under LifeOf, RUNNING, SLEEPING and WAKING are all *)
(* "alive", so sleep and wakeup are stutters; exit is Die, fork is Spawn   *)
(* and wait's reap is Collect.  FInv supplies what the abstract guards     *)
(* need: a reaped child is not its own parent, and init never exits.       *)
(***************************************************************************)

(* A step that keeps every slot's UNUSED and ZOMBIE status keeps LifeOf. *)
LEMMA LifeKept ==
  ASSUME \A q \in Procs : /\ phase'[q] = "UNUSED" <=> phase[q] = "UNUSED"
                          /\ phase'[q] = "ZOMBIE" <=> phase[q] = "ZOMBIE"
  PROVE  LifeOf' = LifeOf
BY DEF LifeOf

LEMMA ProcTableUnchangedLife ==
  ASSUME UNCHANGED <<phase, parent>>
  PROVE  UNCHANGED Life!lvars
BY DEF Life!lvars, LifeOf

LEMMA ExitStepsLife ==
  ASSUME NEW p \in Procs \ {InitProc}, phase[p] = "RUNNING", ExitSteps(p)
  PROVE  Life!Die(p)
<1>1. LifeOf[p] = "alive"
  BY DEF LifeOf
<1>2. \A q \in Procs \ {p} : /\ phase'[q] = "UNUSED" <=> phase[q] = "UNUSED"
                             /\ phase'[q] = "ZOMBIE" <=> phase[q] = "ZOMBIE"
  BY ExitPhasesValue DEF ExitSteps
<1>3. phase'[p] = "ZOMBIE"
  BY ExitPhasesValue DEF ExitSteps
<1>4. LifeOf' = [LifeOf EXCEPT ![p] = "zombie"]
  BY <1>2, <1>3 DEF LifeOf
<1>5. parent' = [q \in Procs |-> IF parent[q] = p THEN InitProc ELSE parent[q]]
  BY DEF ExitSteps
<1>. QED  BY <1>1, <1>4, <1>5 DEF Life!Die

LEMMA ForkLife ==
  ASSUME FInv, NEW p \in Procs, Fork(p)
  PROVE  [Life!LifeNext]_Life!lvars
<1>1. PICK c \in Procs :
        /\ IsFirstOf(c, {d \in Procs : phase[d] = "UNUSED"})
        /\ \/ CowPages(p) # {} /\ free = {} /\ Halt("fork_pte")
           \/ /\ parent' = [parent EXCEPT ![c] = p]
              /\ phase' = [phase EXCEPT ![c] = "RUNNING"]
  BY DEF Fork
<1>2. CASE Halt("fork_pte")
  BY <1>2, ProcTableUnchangedLife DEF Halt
<1>3. CASE parent' = [parent EXCEPT ![c] = p] /\ phase' = [phase EXCEPT ![c] = "RUNNING"]
  <2>1. phase[c] = "UNUSED" /\ phase[p] = "RUNNING"
    BY <1>1 DEF IsFirstOf, Fork
  <2>2. LifeOf[p] = "alive" /\ LifeOf[c] = "free"
    BY <2>1 DEF LifeOf
  <2>3. LifeOf' = [LifeOf EXCEPT ![c] = "alive"]
    BY <1>3 DEF LifeOf, FInv, TypeOK
  <2>4. Life!Spawn(p, c)
    BY <1>3, <2>2, <2>3 DEF Life!Spawn
  <2>. QED  BY <2>4 DEF Life!LifeNext
<1>. QED  BY <1>1, <1>2, <1>3

LEMMA WaitLife ==
  ASSUME FInv, NEW p \in Procs, Wait(p)
  PROVE  [Life!LifeNext]_Life!lvars
<1>1. phase[p] \in {"RUNNING", "WAKING"}
  BY DEF Wait
<1>2. CASE \E c \in Procs : IsFirstOf(c, Zombies(p)) /\ Reap(p, c)
  <2>1. PICK c \in Procs : IsFirstOf(c, Zombies(p)) /\ Reap(p, c)
    BY <1>2
  <2>2. parent[c] = p /\ phase[c] = "ZOMBIE" /\ c # p
    BY <2>1 DEF IsFirstOf, Zombies, Kids, FInv, NoSelfParent
  <2>3. LifeOf[p] = "alive" /\ LifeOf[c] = "zombie"
    BY <1>1, <2>2 DEF LifeOf
  <2>4. LifeOf' = [LifeOf EXCEPT ![c] = "free"]
    BY <1>1, <2>1, <2>2 DEF Reap, LifeOf, FInv, TypeOK
  <2>5. parent' = [parent EXCEPT ![c] = NoProc]
    BY <2>1 DEF Reap
  <2>6. Life!Collect(p, c)
    BY <2>2, <2>3, <2>4, <2>5 DEF Life!Collect
  <2>. QED  BY <2>6 DEF Life!LifeNext
<1>3. CASE Kids(p) # {} /\ Zombies(p) = {} /\ Sleep(p)
  <2>1. LifeOf' = LifeOf
    BY <1>1, <1>3, LifeKept DEF Sleep, FInv, TypeOK
  <2>. QED  BY <1>3, <2>1 DEF Sleep, Life!lvars
<1>. QED  BY <1>2, <1>3 DEF Wait

LEMMA NextLife ==
  ASSUME FInv, [Next]_vars
  PROVE  [Life!LifeNext]_Life!lvars
<1>1. CASE \E p \in Procs, addr \in MmapAddrs, length \in MmapLengths, flags \in FlagChoices,
              fd \in FdChoices, offset \in OffsetChoices :
             Mmap(p, addr, length, flags, fd, offset)
  <2>1. UNCHANGED <<phase, parent>>
    <3>1. PICK p \in Procs, addr \in MmapAddrs, length \in MmapLengths, flags \in FlagChoices,
               fd \in FdChoices, offset \in OffsetChoices :
                 Mmap(p, addr, length, flags, fd, offset)
      BY <1>1
    <3>2. \E a \in Nat : Place(p, a, length, flags, fd)
      BY <3>1 DEF Mmap, ArenaPages
    <3>. QED  BY <3>2 DEF Place
  <2>. QED  BY <2>1, ProcTableUnchangedLife
<1>2. CASE \E p \in Procs, addr \in MunmapAddrs, length \in MunmapLengths : Munmap(p, addr, length)
  BY <1>2, ProcTableUnchangedLife DEF Munmap
<1>3. CASE \E p \in Procs, va \in FaultVAs : PageFault(p, va)
  <2>1. PICK p \in Procs, va \in FaultVAs : PageFault(p, va)
    BY <1>3
  <2>2. p # InitProc /\ phase[p] = "RUNNING"
    BY <2>1 DEF PageFault, UserRunning
  <2>3. CASE ExitSteps(p)
    BY <2>2, <2>3, ExitStepsLife DEF Life!LifeNext
  <2>4. CASE UNCHANGED <<phase, parent>>
    BY <2>4, ProcTableUnchangedLife
  <2>. QED  BY <2>1, <2>3, <2>4 DEF PageFault, CowFault, LazyFault, Halt, MapFresh
<1>4. CASE \E p \in Procs : Fork(p)
  BY <1>4, ForkLife
<1>5. CASE \E p \in Procs : Exit(p)
  BY <1>5, ExitStepsLife DEF Exit, UserRunning, Life!LifeNext
<1>6. CASE \E p \in Procs : Wait(p)
  BY <1>6, WaitLife
<1>7. CASE UNCHANGED vars
  BY <1>7, ProcTableUnchangedLife DEF vars
<1>. QED  BY <1>1, <1>2, <1>3, <1>4, <1>5, <1>6, <1>7 DEF Next

LEMMA InitLife == Init => Life!LifeInit
<1>. SUFFICES ASSUME Init PROVE Life!LifeInit
  OBVIOUS
<1>. QED  BY DEF Init, Life!LifeInit, LifeOf, Procs, InitProc, NoProc

(* fork, exit, the kill in the fault handler and wait implement the slot   *)
(* lifecycle of ProcLifecycle for every NPROC and frame pool: a child only *)
(* enters a free slot, only a live process other than init dies and hands  *)
(* its children to init, and only a live parent frees a zombie child.      *)
THEOREM RefinesLifecycle == Spec => LifecycleRefinement
<1>1. Spec => []FInv
  BY InitFInv, NextFInv, PTL DEF Spec
<1>2. FInv /\ [Next]_vars => [Life!LifeNext]_Life!lvars
  BY NextLife
<1>3. Init => Life!LifeInit
  BY InitLife
<1>. QED  BY <1>1, <1>2, <1>3, PTL DEF Spec, LifecycleRefinement, Life!LifeSpec

=============================================================================
