---------------------------- MODULE ProcLifecycle ----------------------------
(***************************************************************************)
(* What fork, exit and wait promise about process slots, as an abstract    *)
(* specification: a slot is free, alive or a zombie, and alive or zombie   *)
(* slots name a parent.  A live process spawns a child into a free slot;  *)
(* a live process other than init dies, handing its children to init; a   *)
(* live process collects a zombie child, freeing the slot.  Sleeping,      *)
(* waking, faults and the mapping calls are not visible here.  MmapFork    *)
(* implements it (LifecycleRefinement in MmapFork).                         *)
(***************************************************************************)
CONSTANTS Procs, InitProc, NoProc

VARIABLES life, parent

lvars == <<life, parent>>

LifeInit ==
  /\ life \in [Procs -> {"free", "alive", "zombie"}]
  /\ parent \in [Procs -> Procs \cup {NoProc}]
  /\ life[InitProc] = "alive" /\ parent[InitProc] = NoProc
  /\ \A p \in Procs \ {InitProc} :
       \/ life[p] = "free" /\ parent[p] = NoProc
       \/ life[p] = "alive" /\ parent[p] = InitProc

Spawn(p, c) ==
  /\ life[p] = "alive" /\ life[c] = "free"
  /\ life' = [life EXCEPT ![c] = "alive"]
  /\ parent' = [parent EXCEPT ![c] = p]

Die(p) ==
  /\ p # InitProc /\ life[p] = "alive"
  /\ life' = [life EXCEPT ![p] = "zombie"]
  /\ parent' = [q \in Procs |-> IF parent[q] = p THEN InitProc ELSE parent[q]]

Collect(p, c) ==
  /\ life[p] = "alive" /\ life[c] = "zombie" /\ parent[c] = p
  /\ life' = [life EXCEPT ![c] = "free"]
  /\ parent' = [parent EXCEPT ![c] = NoProc]

LifeNext == \E p, c \in Procs : Spawn(p, c) \/ Die(p) \/ Collect(p, c)

LifeSpec == LifeInit /\ [][LifeNext]_lvars

=============================================================================
