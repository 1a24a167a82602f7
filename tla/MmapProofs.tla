----------------------------- MODULE MmapProofs -----------------------------
(***************************************************************************)
(* Proofs about Mmap for every value of the constants.                    *)
(*                                                                         *)
(* TypeOK alone is not inductive: the handler copies a descriptor's id    *)
(* into a PTE, so the ids in the table must be bounded, and wait's freevm *)
(* adds the present pages back to the pool, so nfree stays in range only  *)
(* because free and present frames together never exceed NFRAMES.  IInv   *)
(* adds those two facts.                                                   *)
(***************************************************************************)
EXTENDS Mmap, FiniteSetTheorems, TLAPS

IdsBounded == \A i \in 1 .. Len(mappings) : mappings[i].id \in 1 .. MaxMmaps

FrameBound == nfree + Cardinality(Resident) <= NFRAMES

IInv == TypeOK /\ IdsBounded /\ FrameBound

USE PageSizeAssumption, ArenaAssumption, FramesAssumption, BoundAssumption,
    InputsAssumption

-----------------------------------------------------------------------------
(* Facts about the operators the model is built from. *)

LEMMA ArenaPagesNat == ArenaPages \subseteq Nat
BY DEF ArenaPages

LEMMA ResidentFinite ==
  ASSUME TypeOK
  PROVE  IsFiniteSet(Resident) /\ Cardinality(Resident) \in Nat
<1>1. IsFiniteSet(MMAP_AREA_START .. (MMAP_AREA_END - 1))
  BY FS_Interval
<1>2. Resident \subseteq MMAP_AREA_START .. (MMAP_AREA_END - 1)
  BY DEF Resident, ArenaPages
<1>3. IsFiniteSet(Resident)
  BY <1>1, <1>2, FS_Subset
<1>. QED  BY <1>3, FS_CardinalityType

(* Installing a page at a non-present arena address adds it to Resident. *)
LEMMA InstallResident ==
  ASSUME TypeOK, NEW va \in ArenaPages, pte[va] = 0,
         NEW id \in 1 .. MaxMmaps
  PROVE  LET R2 == {a \in ArenaPages : [pte EXCEPT ![va] = id][a] # 0}
         IN  /\ R2 = Resident \cup {va}
             /\ va \notin Resident
             /\ Cardinality(R2) = Cardinality(Resident) + 1
<1>1. {a \in ArenaPages : [pte EXCEPT ![va] = id][a] # 0} = Resident \cup {va}
  BY DEF TypeOK, Resident
<1>2. va \notin Resident
  BY DEF Resident
<1>. QED  BY <1>1, <1>2, ResidentFinite, FS_AddElement

(* The descriptor a successful mmap appends is a Mapping. *)
LEMMA PlacedMapping ==
  ASSUME NEW a \in Nat, NEW length \in Nat, NEW flags \in SUBSET MapFlags,
         NEW fd \in Int, NEW id \in Nat
  PROVE  [addr |-> a, length |-> length, flags |-> flags, fd |-> fd, id |-> id]
           \in Mapping
BY DEF Mapping

-----------------------------------------------------------------------------
(* Init and each action preserve IInv. *)

LEMMA InitIInv == Init => IInv
<1> SUFFICES ASSUME Init PROVE IInv
  OBVIOUS
<1>1. TypeOK
  BY DEF Init, TypeOK, NoRet, NoPanic, Phases
<1>2. Resident = {}
  BY DEF Init, Resident
<1>. QED  BY <1>1, <1>2, FS_EmptySet DEF IInv, IdsBounded, FrameBound, Init

LEMMA PlaceIInv ==
  ASSUME IInv, NEW a \in Nat, NEW length \in Nat, NEW flags \in SUBSET MapFlags,
         NEW fd \in Int, Place(a, length, flags, fd)
  PROVE  IInv'
<1>1. nmmap + 1 \in 1 .. MaxMmaps
  BY DEF Place, IInv, TypeOK
<1>2. mappings' \in Seq(Mapping)
  <2>1. [addr |-> a, length |-> length, flags |-> flags, fd |-> fd, id |-> nmmap + 1]
          \in Mapping
    BY <1>1, PlacedMapping
  <2>. QED  BY <2>1 DEF Place, IInv, TypeOK
<1>3. TypeOK'
  BY <1>1, <1>2 DEF Place, IInv, TypeOK
<1>4. IdsBounded'
  BY <1>1 DEF Place, IInv, IdsBounded, TypeOK
<1>5. FrameBound'
  BY DEF Place, IInv, FrameBound, Resident
<1>. QED  BY <1>3, <1>4, <1>5 DEF IInv

LEMMA MmapIInv ==
  ASSUME IInv, NEW addr \in MmapAddrs, NEW length \in MmapLengths,
         NEW flags \in FlagChoices, NEW fd \in FdChoices, NEW offset \in OffsetChoices,
         Mmap(addr, length, flags, fd, offset)
  PROVE  IInv'
<1>1. CASE MmapFails
  BY <1>1 DEF MmapFails, IInv, TypeOK, IdsBounded, FrameBound, Resident
<1>2. CASE /\ MmapArgsValid(addr, length, flags, fd, offset, OpenFds)
           /\ MAP_FIXED \in flags
           /\ Place(addr, length, flags, fd)
  <2>1. length \in Nat
    BY <1>2 DEF MmapArgsValid
  <2>. QED  BY <1>2, <2>1, PlaceIInv
<1>3. CASE /\ MmapArgsValid(addr, length, flags, fd, offset, OpenFds)
           /\ \E a \in ArenaPages : Place(a, length, flags, fd)
  <2>1. PICK a \in ArenaPages : Place(a, length, flags, fd)
    BY <1>3
  <2>2. length \in Nat
    BY <1>3 DEF MmapArgsValid
  <2>. QED  BY <2>1, <2>2, ArenaPagesNat, PlaceIInv
<1>. QED  BY <1>1, <1>2, <1>3 DEF Mmap

LEMMA TailIInv ==
  ASSUME IInv, mappings # <<>>, mappings' = Tail(mappings),
         ret' \in Int, UNCHANGED <<pte, nfree, nmmap, phase, panicked>>
  PROVE  IInv'
<1>1. mappings' \in Seq(Mapping) /\ Len(mappings') = Len(mappings) - 1
  BY DEF IInv, TypeOK
<1>2. \A i \in 1 .. Len(mappings') : mappings'[i] = mappings[i + 1]
  BY DEF IInv, TypeOK
<1>3. IdsBounded'
  BY <1>1, <1>2 DEF IInv, IdsBounded, TypeOK
<1>. QED  BY <1>1, <1>3 DEF IInv, TypeOK, FrameBound, Resident

LEMMA MunmapIInv ==
  ASSUME IInv, NEW addr \in MunmapAddrs, NEW length \in MunmapLengths,
         Munmap(addr, length)
  PROVE  IInv'
<1>1. CASE UNCHANGED <<mappings, pte, nfree, nmmap, phase, panicked>> /\ ret' = -1
  BY <1>1 DEF IInv, TypeOK, IdsBounded, FrameBound, Resident
<1>2. CASE /\ mappings # <<>>
           /\ mappings' = Tail(mappings)
           /\ ret' \in {-1, 0}
           /\ UNCHANGED <<pte, nfree, nmmap, phase, panicked>>
  BY <1>2, TailIInv
<1>. QED  BY <1>1, <1>2 DEF Munmap

LEMMA ExitIInv ==
  ASSUME IInv, Exit
  PROVE  IInv'
BY DEF Exit, ExitHook, IInv, TypeOK, IdsBounded, FrameBound, Resident, Phases, NoRet

(* Growing a descriptor by a page keeps the table well typed and its ids. *)
LEMMA GrownType ==
  ASSUME IInv, NEW i \in 1 .. Len(mappings)
  PROVE  /\ Grown(i) \in Seq(Mapping)
         /\ Len(Grown(i)) = Len(mappings)
         /\ \A j \in 1 .. Len(mappings) : Grown(i)[j].id = mappings[j].id
<1>1. mappings[i] \in Mapping
  BY DEF IInv, TypeOK
<1>2. [mappings[i] EXCEPT !.length = @ + PGSIZE] \in Mapping
  <2>. DEFINE m == mappings[i]
  <2>1. m.length + PGSIZE \in Nat
    BY <1>1 DEF Mapping
  <2>2. m = [addr |-> m.addr, length |-> m.length, flags |-> m.flags,
             fd |-> m.fd, id |-> m.id]
    BY <1>1, Zenon DEF Mapping
  <2>3. [m EXCEPT !.length = m.length + PGSIZE]
          = [addr |-> m.addr, length |-> m.length + PGSIZE, flags |-> m.flags,
             fd |-> m.fd, id |-> m.id]
    BY <2>2
  <2>. QED  BY <1>1, <2>1, <2>3 DEF Mapping
<1>. QED  BY <1>2 DEF Grown, IInv, TypeOK

LEMMA HaltIInv ==
  ASSUME IInv, NEW msg \in {"mapping_failed_2", "ilock", "remap"}, Halt(msg)
  PROVE  IInv'
BY DEF Halt, IInv, TypeOK, IdsBounded, FrameBound, Resident, NoRet

LEMMA PageFaultIInv ==
  ASSUME IInv, NEW va \in FaultVAs, PageFault(va)
  PROVE  IInv'
<1>1. CASE NoneContains(mappings, va) /\ ExitHook
           /\ UNCHANGED <<pte, nfree, nmmap, panicked>>
  BY <1>1 DEF ExitHook, IInv, TypeOK, IdsBounded, FrameBound, Resident, Phases, NoRet
<1>2. CASE \E i \in 1 .. Len(mappings) :
             \/ nfree = 0 /\ Halt("mapping_failed_2")
             \/ nfree > 0 /\ FaultNoRoom(i)
             \/ nfree > 0 /\ FaultFill(va, i)
  <2>1. PICK i \in 1 .. Len(mappings) :
             \/ nfree = 0 /\ Halt("mapping_failed_2")
             \/ nfree > 0 /\ FaultNoRoom(i)
             \/ nfree > 0 /\ FaultFill(va, i)
    BY <1>2
  <2>2. CASE Halt("mapping_failed_2")
    BY <2>2, HaltIInv
  <2>3. CASE nfree > 0 /\ FaultNoRoom(i)
    <3>1. Resident' = Resident /\ nfree' = nfree - 1
      BY <2>3 DEF FaultNoRoom, Resident
    <3>2. TypeOK'
      BY <2>3 DEF FaultNoRoom, ExitHook, IInv, TypeOK, Phases, NoRet
    <3>3. IdsBounded'
      BY <2>3 DEF FaultNoRoom, ExitHook, IdsBounded
    <3>4. FrameBound'
      BY <2>3, <3>1, ResidentFinite DEF IInv, TypeOK, FrameBound
    <3>. QED  BY <3>2, <3>3, <3>4 DEF IInv
  <2>4. CASE nfree > 0 /\ FaultFill(va, i)
    <3>1. CASE Halt("ilock") \/ Halt("remap")
      BY <3>1, HaltIInv
    <3>2. CASE va \in ArenaPages /\ FaultInstall(va, i)
      <4>1. pte[va] = 0
        BY <3>2 DEF PageFault, Faults, ArenaPages
      <4>2. mappings[i].id \in 1 .. MaxMmaps
        BY DEF IInv, IdsBounded
      <4>3. Cardinality(Resident') = Cardinality(Resident) + 1
        BY <3>2, <4>1, <4>2, InstallResident DEF FaultInstall, IInv, Resident
      <4>4. TypeOK'
        <5>1. mappings' \in Seq(Mapping)
          BY <3>2, GrownType DEF FaultInstall
        <5>2. pte' \in [ArenaPages -> 0 .. MaxMmaps]
          BY <3>2, <4>2 DEF FaultInstall, IInv, TypeOK
        <5>3. nfree' \in 0 .. NFRAMES
          BY <2>4, <3>2 DEF FaultInstall, IInv, TypeOK
        <5>. QED  BY <3>2, <5>1, <5>2, <5>3 DEF FaultInstall, IInv, TypeOK, NoRet
      <4>5. IdsBounded'
        BY <3>2, GrownType DEF FaultInstall, IInv, IdsBounded
      <4>6. FrameBound'
        BY <2>4, <3>2, <4>3, ResidentFinite DEF FaultInstall, IInv, TypeOK, FrameBound
      <4>. QED  BY <4>4, <4>5, <4>6 DEF IInv
    <3>3. CASE FaultMappagesFails(va, i)
      <4>1. mappings' = Grown(i) /\ UNCHANGED <<pte, nfree, nmmap, phase, panicked>>
            /\ ret' = NoRet
        BY <3>3 DEF FaultMappagesFails
      <4>2. TypeOK'
        BY <4>1, GrownType DEF IInv, TypeOK, NoRet
      <4>3. IdsBounded'
        BY <4>1, GrownType DEF IInv, IdsBounded
      <4>4. FrameBound'
        BY <4>1 DEF IInv, FrameBound, Resident
      <4>. QED  BY <4>2, <4>3, <4>4 DEF IInv
    <3>. QED  BY <2>4, <3>1, <3>2, <3>3 DEF FaultFill
  <2>. QED  BY <2>1, <2>2, <2>3, <2>4
<1>. QED  BY <1>1, <1>2 DEF PageFault

LEMMA ReapIInv ==
  ASSUME IInv, Reap
  PROVE  IInv'
<1>1. Resident' = {}
  BY DEF Reap, Resident
<1>2. Cardinality(Resident) \in Nat
  BY ResidentFinite DEF IInv
<1>. QED  BY <1>1, <1>2, FS_EmptySet DEF Reap, IInv, TypeOK, IdsBounded, FrameBound,
                                         Phases, NoRet

LEMMA SpawnIInv ==
  ASSUME IInv, Spawn
  PROVE  IInv'
BY DEF Spawn, IInv, TypeOK, IdsBounded, FrameBound, Resident, Phases, NoRet

LEMMA StutterIInv ==
  ASSUME IInv, UNCHANGED vars
  PROVE  IInv'
BY DEF vars, IInv, TypeOK, IdsBounded, FrameBound, Resident

-----------------------------------------------------------------------------
(***************************************************************************)
(* Type correctness of the whole model: the table holds well-formed        *)
(* descriptors, every arena PTE is 0 or a descriptor id, and the kalloc    *)
(* free count stays within 0..NFRAMES across sys_mmap, sys_munmap, every   *)
(* branch of page_fault_handler, exit, wait's freevm and the reuse of the  *)
(* slot, whatever the constants.                                           *)
(***************************************************************************)
THEOREM TypeCorrect == Spec => []TypeOK
<1>1. Init => IInv
  BY InitIInv
<1>2. IInv /\ [Next]_vars => IInv'
  <2> SUFFICES ASSUME IInv, [Next]_vars PROVE IInv'
    OBVIOUS
  <2>1. CASE \E addr \in MmapAddrs, length \in MmapLengths, flags \in FlagChoices,
                fd \in FdChoices, offset \in OffsetChoices :
                  Mmap(addr, length, flags, fd, offset)
    BY <2>1, MmapIInv
  <2>2. CASE \E addr \in MunmapAddrs, length \in MunmapLengths : Munmap(addr, length)
    BY <2>2, MunmapIInv
  <2>3. CASE \E va \in FaultVAs : PageFault(va)
    BY <2>3, PageFaultIInv
  <2>4. CASE Exit
    BY <2>4, ExitIInv
  <2>5. CASE Reap
    BY <2>5, ReapIInv
  <2>6. CASE Spawn
    BY <2>6, SpawnIInv
  <2>7. CASE UNCHANGED vars
    BY <2>7, StutterIInv
  <2>. QED  BY <2>1, <2>2, <2>3, <2>4, <2>5, <2>6, <2>7 DEF Next
<1>3. IInv => TypeOK
  BY DEF IInv
<1>. QED  BY <1>1, <1>2, <1>3, PTL DEF Spec

-----------------------------------------------------------------------------
(***************************************************************************)
(* Frame conservation.  It fails with MAP_GROWSUP (FaultNoRoom takes a     *)
(* frame with kalloc and exits without kfree), so it is proved for the     *)
(* programs that never pass that flag.  No descriptor then carries it, the *)
(* room test never fires and Grown is the identity; every other branch of  *)
(* the handler either maps the frame it took or returns it.                *)
(***************************************************************************)
NoGrowsupChoices == \A f \in FlagChoices : MAP_GROWSUP \notin f

NoGrowsupInTable == \A i \in 1 .. Len(mappings) : MAP_GROWSUP \notin mappings[i].flags

CInv == IInv /\ NoGrowsupInTable /\ FramesConserved

LEMMA InitCInv == Init => CInv
<1> SUFFICES ASSUME Init PROVE CInv
  OBVIOUS
<1>1. Resident = {}
  BY DEF Init, Resident
<1>. QED  BY <1>1, InitIInv, FS_EmptySet DEF CInv, NoGrowsupInTable, FramesConserved, Init

LEMMA MmapCInv ==
  ASSUME NoGrowsupChoices, CInv, NEW addr \in MmapAddrs, NEW length \in MmapLengths,
         NEW flags \in FlagChoices, NEW fd \in FdChoices, NEW offset \in OffsetChoices,
         Mmap(addr, length, flags, fd, offset)
  PROVE  CInv'
<1>1. IInv'
  BY MmapIInv DEF CInv
<1>2. UNCHANGED <<pte, nfree>>
  BY DEF Mmap, Place, MmapFails
<1>3. NoGrowsupInTable'
  <2>1. CASE UNCHANGED mappings
    BY <2>1 DEF CInv, NoGrowsupInTable
  <2>2. CASE \E a \in Nat : Place(a, length, flags, fd)
    BY <2>2 DEF Place, CInv, IInv, TypeOK, NoGrowsupInTable, NoGrowsupChoices
  <2>. QED  BY <2>1, <2>2, ArenaPagesNat, InputsAssumption DEF Mmap, MmapFails
<1>4. FramesConserved'
  BY <1>2 DEF CInv, FramesConserved, Resident
<1>. QED  BY <1>1, <1>3, <1>4 DEF CInv

LEMMA MunmapCInv ==
  ASSUME CInv, NEW addr \in MunmapAddrs, NEW length \in MunmapLengths,
         Munmap(addr, length)
  PROVE  CInv'
<1>1. IInv'
  BY MunmapIInv DEF CInv
<1>2. UNCHANGED <<pte, nfree>>
  BY DEF Munmap
<1>3. NoGrowsupInTable'
  <2>1. CASE UNCHANGED mappings
    BY <2>1 DEF CInv, NoGrowsupInTable
  <2>2. CASE mappings # <<>> /\ mappings' = Tail(mappings)
    BY <2>2 DEF CInv, IInv, TypeOK, NoGrowsupInTable
  <2>. QED  BY <2>1, <2>2 DEF Munmap
<1>4. FramesConserved'
  BY <1>2 DEF CInv, FramesConserved, Resident
<1>. QED  BY <1>1, <1>3, <1>4 DEF CInv

LEMMA PageFaultCInv ==
  ASSUME CInv, NEW va \in FaultVAs, PageFault(va)
  PROVE  CInv'
<1>1. IInv'
  BY PageFaultIInv DEF CInv
<1>2. CASE NoneContains(mappings, va) /\ ExitHook
           /\ UNCHANGED <<pte, nfree, nmmap, panicked>>
  BY <1>1, <1>2 DEF ExitHook, CInv, NoGrowsupInTable, FramesConserved, Resident
<1>3. CASE \E i \in 1 .. Len(mappings) :
             \/ nfree = 0 /\ Halt("mapping_failed_2")
             \/ nfree > 0 /\ FaultNoRoom(i)
             \/ nfree > 0 /\ FaultFill(va, i)
  <2>1. PICK i \in 1 .. Len(mappings) :
             \/ nfree = 0 /\ Halt("mapping_failed_2")
             \/ nfree > 0 /\ FaultNoRoom(i)
             \/ nfree > 0 /\ FaultFill(va, i)
    BY <1>3
  <2>2. MAP_GROWSUP \notin mappings[i].flags
    BY DEF CInv, NoGrowsupInTable
  <2>3. Grown(i) = mappings
    BY <2>2 DEF Grown
  <2>4. CASE Halt("mapping_failed_2") \/ Halt("ilock") \/ Halt("remap")
    BY <1>1, <2>4 DEF Halt, CInv, NoGrowsupInTable, FramesConserved, Resident
  <2>5. CASE FaultNoRoom(i)
    BY <2>2, <2>5 DEF FaultNoRoom
  <2>6. CASE va \in ArenaPages /\ FaultInstall(va, i)
    <3>1. pte[va] = 0
      BY <2>6 DEF PageFault, Faults, ArenaPages
    <3>2. mappings[i].id \in 1 .. MaxMmaps
      BY DEF CInv, IInv, IdsBounded
    <3>3. Cardinality(Resident') = Cardinality(Resident) + 1
      BY <2>6, <3>1, <3>2, InstallResident DEF FaultInstall, CInv, IInv, Resident
    <3>4. FramesConserved'
      <4>1. Cardinality(Resident) \in Nat /\ nfree \in Nat
        BY ResidentFinite DEF CInv, IInv, TypeOK
      <4>2. nfree' = nfree - 1
        BY <2>6 DEF FaultInstall
      <4>. QED  BY <3>3, <4>1, <4>2 DEF CInv, FramesConserved
    <3>. QED  BY <1>1, <2>3, <2>6, <3>4 DEF FaultInstall, CInv, NoGrowsupInTable
  <2>7. CASE FaultMappagesFails(va, i)
    BY <1>1, <2>3, <2>7 DEF FaultMappagesFails, CInv, NoGrowsupInTable,
                             FramesConserved, Resident
  <2>. QED  BY <2>1, <2>4, <2>5, <2>6, <2>7 DEF FaultFill
<1>. QED  BY <1>2, <1>3 DEF PageFault

LEMMA ReapCInv ==
  ASSUME CInv, Reap
  PROVE  CInv'
<1>1. Resident' = {}
  BY DEF Reap, Resident
<1>2. Cardinality(Resident) \in Nat
  BY ResidentFinite DEF CInv, IInv
<1>. QED  BY <1>1, <1>2, ReapIInv, FS_EmptySet
          DEF Reap, CInv, NoGrowsupInTable, FramesConserved

(***************************************************************************)
(* For programs that never pass MAP_GROWSUP, no frame of the kalloc pool   *)
(* is lost or double counted: page_fault_handler's kalloc is matched by a  *)
(* mapped PTE or a kfree, and wait's freevm returns exactly the present    *)
(* arena pages, through any number of exits and reuses of the slot.        *)
(***************************************************************************)
THEOREM FramesConservedWithoutGrowsup ==
  ASSUME NoGrowsupChoices
  PROVE  Spec => []FramesConserved
<1>1. Init => CInv
  BY InitCInv
<1>2. CInv /\ [Next]_vars => CInv'
  <2> SUFFICES ASSUME CInv, [Next]_vars PROVE CInv'
    OBVIOUS
  <2>1. CASE \E addr \in MmapAddrs, length \in MmapLengths, flags \in FlagChoices,
                fd \in FdChoices, offset \in OffsetChoices :
                  Mmap(addr, length, flags, fd, offset)
    BY <2>1, MmapCInv
  <2>2. CASE \E addr \in MunmapAddrs, length \in MunmapLengths : Munmap(addr, length)
    BY <2>2, MunmapCInv
  <2>3. CASE \E va \in FaultVAs : PageFault(va)
    BY <2>3, PageFaultCInv
  <2>4. CASE Exit
    BY <2>4, ExitIInv DEF Exit, ExitHook, CInv, NoGrowsupInTable, FramesConserved, Resident
  <2>5. CASE Reap
    BY <2>5, ReapCInv
  <2>6. CASE Spawn
    BY <2>6, SpawnIInv DEF Spawn, CInv, NoGrowsupInTable, FramesConserved, Resident
  <2>7. CASE UNCHANGED vars
    BY <2>7, StutterIInv DEF vars, CInv, NoGrowsupInTable, FramesConserved, Resident
  <2>. QED  BY <2>1, <2>2, <2>3, <2>4, <2>5, <2>6, <2>7 DEF Next
<1>3. CInv => FramesConserved
  BY DEF CInv
<1>. QED  BY <1>1, <1>2, <1>3, PTL DEF Spec

=============================================================================
