---------------------------- MODULE MmapOpsProofs ----------------------------
(***************************************************************************)
(* Facts about the page rounding of MmapOps that the placement proofs of  *)
(* MmapAllocProofs rest on: PGROUNDUP bounds, and that an aligned bound at *)
(* or beyond a + length is at or beyond a + PGROUNDUP(length), which is    *)
(* why find_available_address may compare a candidate's RAW end with the  *)
(* aligned starts of the table.                                            *)
(***************************************************************************)
EXTENDS MmapOps, TLAPS

USE PageSizeAssumption, ArenaAssumption

(* Page rounding. *)

LEMMA RoundUpFacts ==
  ASSUME NEW len \in Nat
  PROVE  /\ PGROUNDUP(len) \in Nat
         /\ PGROUNDUP(len) % PGSIZE = 0
         /\ len <= PGROUNDUP(len)
         /\ len > 0 => PGROUNDUP(len) >= PGSIZE
<1>. DEFINE q == (len + PGSIZE - 1) \div PGSIZE
<1>1. q \in Nat /\ q * PGSIZE <= len + PGSIZE - 1 /\ len + PGSIZE - 1 < (q + 1) * PGSIZE
  BY SMT
<1>2. PGROUNDUP(len) = q * PGSIZE
  BY DEF PGROUNDUP
<1>3. (q * PGSIZE) % PGSIZE = 0
  BY <1>1, SMT
<1>4. len <= q * PGSIZE
  BY <1>1, SMT
<1>5. len > 0 => q >= 1
  BY <1>1, SMT
<1>6. len > 0 => q * PGSIZE >= PGSIZE
  BY <1>1, <1>5, SMT
<1>. QED  BY <1>1, <1>2, <1>3, <1>4, <1>6

(* An aligned bound at or beyond a + len, with a aligned, is at or beyond  *)
(* a + PGROUNDUP(len).                                                     *)
LEMMA RoundUpBelowAligned ==
  ASSUME NEW a \in Nat, NEW b \in Nat, NEW len \in Nat,
         a % PGSIZE = 0, b % PGSIZE = 0, a + len <= b
  PROVE  a + PGROUNDUP(len) <= b
<1>. DEFINE q == (len + PGSIZE - 1) \div PGSIZE
<1>1. q \in Nat /\ len + PGSIZE - 1 < (q + 1) * PGSIZE
  BY SMT
<1>2. PICK d \in Nat : b - a = d * PGSIZE
  BY SMT
<1>3. len <= d * PGSIZE
  BY <1>2, SMT
<1>4. q <= d
  <2> SUFFICES ASSUME q > d PROVE FALSE
    BY <1>1, SMT
  <2>1. q >= d + 1
    BY <1>1, SMT
  <2>2. q * PGSIZE >= d * PGSIZE + PGSIZE
    BY <1>1, <2>1, SMT
  <2>3. q * PGSIZE <= len + PGSIZE - 1
    BY SMT
  <2>. QED  BY <1>3, <2>2, <2>3, SMT
<1>5. q * PGSIZE <= d * PGSIZE
  BY <1>1, <1>4, SMT
<1>. QED  BY <1>2, <1>5, SMT DEF PGROUNDUP

LEMMA AlignedSum ==
  ASSUME NEW a \in Nat, NEW b \in Nat, a % PGSIZE = 0, b % PGSIZE = 0
  PROVE  (a + b) % PGSIZE = 0
<1>. DEFINE k == a \div PGSIZE
            l == b \div PGSIZE
<1>1. k \in Nat /\ a = k * PGSIZE
  BY SMT
<1>2. l \in Nat /\ b = l * PGSIZE
  BY SMT
<1>3. a + b = (k + l) * PGSIZE /\ k + l \in Nat
  BY <1>1, <1>2, SMT
<1>4. \A j \in Nat : (j * PGSIZE) % PGSIZE = 0
  BY SMT
<1>. QED  BY <1>3, <1>4

=============================================================================
