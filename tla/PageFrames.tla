----------------------------- MODULE PageFrames -----------------------------
(***************************************************************************)
(* The physical page allocators: pmm.c, which learns from the firmware's   *)
(* E820 map what is RAM, and arch/arm/arm_pmm.c, which learns it from the  *)
(* ATAGS.  Both start with every bit of the bitmap set, clear the pages of *)
(* RAM, set again the pages that something lies in, and then hand out the  *)
(* lowest clear one.                                                       *)
(*                                                                         *)
(* Addresses are small: a page has FrameBytes bytes.                        *)
(***************************************************************************)
EXTENDS Integers, FiniteSets, FiniteSetsExt

CONSTANTS
  FrameBytes,               \* PMM_PAGE_SIZE
  MaxPages,                \* PMM_MAX_PAGES
  E820Map,                 \* firmware maps: sets of [from, to, usable]
  Holes,                   \* sets of [from, to]: low memory, kernel, boot information, modules
  ArmSize,                 \* sizes of RAM that ATAG_MEM tells
  ArmRanges                \* what arm_kernel_main and arm_fb_init reserve: sets of [from, size]

FramesAssumption == FrameBytes \in Nat \ {0} /\ MaxPages \in Nat \ {0}
ASSUME FramesAssumption

(* The map has finitely many entries, and pmm_init reserves low memory     *)
(* first.  What the ARM reserves begins at a page: the constants of        *)
(* arm_kernel_main do, and arm_fb_init refuses another framebuffer.        *)
BootAssumption ==
  /\ \A map \in E820Map : IsFiniteSet(map) /\ \A r \in map : r.from \in Nat /\ r.to \in Nat
  /\ \A holes \in Holes : /\ \A h \in holes : h.from \in Nat /\ h.to \in Nat
                          /\ \E h \in holes : h.from = 0 /\ h.to > 0
  /\ ArmSize \subseteq Nat
  /\ \A ranges \in ArmRanges : \A r \in ranges :
       r.from \in Nat /\ r.size \in Nat /\ r.from % FrameBytes = 0
ASSUME BootAssumption

VARIABLES
  machine,                 \* what the boot found: [arm, ram, holes, pages]
  clear,                   \* the pages whose bit is 0
  given,                   \* the pages that were handed out and not given back
  available,               \* total_available_pages, or what pmm_free_pages began with
  used_pages,              \* allocs less frees
  lastPage                 \* what the last allocation returned, 0 if nothing

fvars == <<machine, clear, given, available, used_pages, lastPage>>

RoundUp(a) == (a + FrameBytes - 1) \div FrameBytes
RoundDown(a) == a \div FrameBytes
Below(n) == 0 .. n - 1

Outward(r, limit) ==                           \* fault: part of a page is freed as a page
  {p \in Below(limit) : RoundDown(r.from) <= p /\ p < RoundUp(r.to)}
pmm_free_region(r, limit) ==
  {p \in Below(limit) : RoundUp(r.from) <= p /\ p < RoundDown(r.to)}
pmm_reserve_region(r, limit) ==
  IF r.to <= r.from THEN {}
  ELSE {p \in Below(limit) : RoundDown(r.from) <= p /\ p < RoundUp(r.to)}

(* pmm_init: pmm_max_page ends with the highest usable byte.               *)
pmm_init(map, holes) ==
  LET ram == {r \in map : r.usable}
      top == Max({0} \cup {RoundDown(r.to) : r \in ram})
      limit == Min({top, MaxPages})
      freed == UNION {pmm_free_region(r, limit) : r \in ram}
      taken == UNION {pmm_reserve_region(h, limit) : h \in holes}
  IN /\ machine = [arm |-> FALSE, ram |-> ram, holes |-> holes, pages |-> limit]
     /\ clear = freed \ taken /\ available = Cardinality(freed \ taken)

(* arm_pmm_init and arm_pmm_reserve_range.  A range is rounded down to its *)
(* first page and its size, not its end, rounded up.                       *)
arm_pmm_init(size, lowest, ranges) ==
  LET limit == Min({RoundDown(size), MaxPages})
      Taken(r) == {p \in Below(limit) :
                     /\ RoundDown(r.from) <= p
                     /\ p < RoundDown(RoundDown(r.from) * FrameBytes + RoundUp(r.size) * FrameBytes)}
  IN /\ machine = [arm |-> TRUE, ram |-> {[from |-> 0, to |-> size]},
                   holes |-> {[from |-> 0, to |-> lowest * FrameBytes]}
                               \cup {[from |-> r.from, to |-> r.from + r.size] : r \in ranges},
                   pages |-> limit]
     /\ clear = (lowest .. limit - 1) \ UNION {Taken(r) : r \in ranges}
     /\ available = Cardinality(clear)

ArmLowest == 1                                 \* RAM from 1 MiB on is freed

FramesInit ==
  /\ given = {} /\ used_pages = 0 /\ lastPage = 0
  /\ \/ \E map \in E820Map, holes \in Holes : pmm_init(map, holes)
     \/ \E size \in ArmSize, ranges \in ArmRanges : arm_pmm_init(size, ArmLowest, ranges)

(* The scan of both finds the lowest clear bit; page 0 never is, so that 0 *)
(* tells failure.                                                          *)
AllocPage ==
  /\ IF clear = {}
     THEN lastPage' = 0 /\ UNCHANGED <<clear, given, used_pages>>
     ELSE LET p == Min(clear)
          IN /\ lastPage' = p /\ clear' = clear \ {p} /\ given' = given \cup {p}
             /\ used_pages' = used_pages + 1
  /\ UNCHANGED <<machine, available>>

BitIsSet(p) == p \notin clear

(* A page is given back by who has it; giving back a free one is refused,  *)
(* as is one beyond the end.                                               *)
FreePage(p) ==
  /\ p \in given \cup clear \cup {machine.pages}
  /\ IF p < machine.pages /\ BitIsSet(p)
     THEN clear' = clear \cup {p} /\ used_pages' = used_pages - 1
     ELSE UNCHANGED <<clear, used_pages>>
  /\ given' = given \ {p} /\ UNCHANGED <<machine, available, lastPage>>

FramesNext == AllocPage \/ \E p \in 0 .. MaxPages : FreePage(p)
FramesSpec == FramesInit /\ [][FramesNext]_fvars

-----------------------------------------------------------------------------
(* Every page that is or can be handed out lies wholly in RAM, and no byte *)
(* of it is the kernel's or the boot's (pmm.c:82: a region of RAM shrinks  *)
(* to pages, a reserved one grows).                                        *)
PagesAreUsable ==
  \A p \in clear \cup given :
    LET bytes == p * FrameBytes .. (p + 1) * FrameBytes - 1
    IN /\ p # 0
       /\ \E r \in machine.ram : bytes \subseteq r.from .. r.to - 1
       /\ \A h \in machine.holes : bytes \cap (h.from .. h.to - 1) = {}

(* A page has one owner, and the counters tell what is free: sys_brk's and *)
(* mmap's guard against exhaustion relies on pmm_get_free_pages.           *)
FramesAreCounted ==
  /\ clear \cap given = {}
  /\ used_pages = Cardinality(given) /\ available - used_pages = Cardinality(clear)

(* The bitmap of pmm.c and of arm_pmm.c hands out each usable page to one  *)
(* owner, no other page to anyone, and counts right.                       *)
FramesAreSound == PagesAreUsable /\ FramesAreCounted
=============================================================================
