------------------------------- MODULE Memory --------------------------------
(***************************************************************************)
(* The memory manager: arch/ia32/memory.c and the part of setup() in       *)
(* init.c that prepares it.  Addresses are page numbers.  A "linear" page  *)
(* is physical; a region is the range of pages one page table describes.   *)
(* Every operation holds kmemory_spinlock with interrupts off, or runs in  *)
(* the page fault gate: each is one action.  read_elf holds no lock, but   *)
(* while init() calls it there is no other thread that asks for memory.    *)
(* Of the contents of pages only the page tables are followed: what two    *)
(* users of one page (FramesDisjoint) overwrite for each other is not.     *)
(*                                                                         *)
(* The operators below take and return mem, the record of all tables.      *)
(***************************************************************************)
EXTENDS Integers, Sequences, SequencesExt

CONSTANTS T,          \* pages per page table (1024)
          MemPages,   \* mem_upper
          LowEnd,     \* the pages below 0x00100000
          DmaEnd,     \* the pages below 0x01000000
          KernelMax,  \* kernel_max: end of kernel image and boot data
          VBase,      \* first virtual_address (0x10000000)
          VLast,      \* bound: last virtual page followed
          BlockSlots, \* VM_BLOCK_PAGES_COUNT
          Counts,     \* page counts asked for
          Devices,    \* <<first page, count>> passed to kmemory_linear_page_map
          Segments    \* <<first virtual page, count>> of ELF segments to load

ASSUME LayoutAssumption ==
  /\ T \in Nat \ {0} /\ MemPages \in Nat /\ LowEnd \in 1..T - 1
  /\ DmaEnd \in Nat /\ DmaEnd % T = 0 /\ DmaEnd > 0
  /\ KernelMax \in LowEnd + 1..MemPages
  /\ VBase \in Nat /\ VBase % T = 0 /\ VLast \in Nat /\ VLast > VBase
  /\ BlockSlots \in Nat \ {0}
  /\ Counts \subseteq Nat \ {0}
  /\ \A d \in Devices : d[1] \in Nat \ {0} /\ d[2] \in Nat \ {0} /\ d[1] + d[2] <= VBase

VARIABLES
  mem,      \* the linear and the virtual page tables, see MemType
  free,     \* virtual_block->free: a list of blocks
  used,     \* virtual_block->used
  slots,    \* virtual_block->pages_index
  virtual_address,
  linears,  \* history: the runs kmemory_linear_page_allocate returned
  arrays,   \* history: the pages that hold further vm_page records
  toLoad    \* the ELF segments init() has still to load

vars == <<mem, free, used, slots, virtual_address, linears, arrays, toLoad>>

NORMAL == 0
DMA == 1
KERNEL == 2

(* A virtual page table entry: a linear page, or one of                    *)
None == -1       \* 0
Assigned == -2   \* VIRTUAL_ASSIGNED: a page on first use (VIRTUAL_ZERO: a cleared one)

Region(p) == p \div T
MemEnd == Region(MemPages)
LinearPages == 0..(MemEnd + 1) * T - 1
VirtualPages == 0..VLast
Regions == 0..Region(VLast)

MemType ==
  [available : SUBSET LinearPages,   \* linear entries marked LINEAR_AVAILABLE
   allocated : SUBSET LinearPages,   \* linear entries marked LINEAR_ALLOCATED
   next : [{NORMAL, DMA, KERNEL} -> Nat],       \* zones[].next
   table : [Regions -> LinearPages],  \* virtual_page_table_directory, 0: none
   entry : [VirtualPages -> {None, Assigned} \cup VirtualPages],
   got : LinearPages,                \* result of the last get_free_pages
   paging : BOOLEAN,                 \* after _start has set bit 31 of cr0
   hung : {"no", "exhausted", "fault", "device"},
   wanted : Nat]                     \* history: the pages that were not to be had

-----------------------------------------------------------------------------
From(a, count) == [i \in 1..count |-> a + i - 1]

(* for(i = 0; i < count; i++) with F as its body: m is the state, a + i    *)
(* the address.                                                            *)
Loop(F(_, _), m, a, count) ==
  LET x[i \in 0..count] == IF i = 0 THEN m ELSE F(x[i - 1], a + i - 1)
  IN  x[count]

ZoneStart(z) == CASE z = NORMAL -> DmaEnd [] z = DMA -> LowEnd [] z = KERNEL -> 1

ZoneEnd(z) ==
  CASE z = NORMAL -> MemPages
    [] z = DMA    -> IF DmaEnd < MemPages THEN DmaEnd ELSE MemPages
    [] z = KERNEL -> LowEnd

(* The pages get_free_pages looks at in a zone: from next to the end of    *)
(* the region that holds the zone's end, then from the start of the zone   *)
(* to the end of the region that holds next.  Regions without a linear     *)
(* page table are passed over.                                             *)
RegionEnd(r) == IF r <= MemEnd THEN (r + 1) * T ELSE (MemEnd + 1) * T

Visits(m, z) ==
  LET upTo(a, r) == From(a, IF a < RegionEnd(r) THEN RegionEnd(r) - a ELSE 0)
  IN  upTo(m.next[z], Region(ZoneEnd(z))) \o upTo(ZoneStart(z), Region(m.next[z]))

(* The places in the visit where the last count pages were all available;  *)
(* the count of free pages is not reset between the two passes.            *)
Ends(m, z, count) ==
  LET visits == Visits(m, z)
  IN  {k \in count..Len(visits) :
         \A j \in k - count + 1..k : visits[j] \in m.available}

(* Faulty variants of a definition stand before it, for mutation testing.  *)
ZonesWithRun_NoOther(m, count, zone) ==
  {z \in zone..zone : m.next[z] # 0 /\ Ends(m, z, count) # {}}

(* Zones are tried in the order of their numbers; NORMAL may not exist.    *)
ZonesWithRun(m, count, zone) ==
  {z \in zone..KERNEL : m.next[z] # 0 /\ Ends(m, z, count) # {}}

(* The first run is taken; only its last page is marked as allocated.      *)
TakeRun(m, z, count) ==
  LET k == Min(Ends(m, z, count))
      last == Visits(m, z)[k]
      address == Visits(m, z)[k - count + 1]
  IN  [m EXCEPT !.available = @ \ {last}, !.allocated = @ \cup {last},
                !.next[z] = address + count, !.got = address]

(* get_free_pages; when there is no run it loops for ever.                 *)
GetFreePages(m, count, zone) ==
  CASE m.hung # "no" -> m
    [] m.hung = "no" /\ ZonesWithRun(m, count, zone) = {} -> [m EXCEPT !.hung = "exhausted", !.wanted = count]
    [] OTHER -> TakeRun(m, Min(ZonesWithRun(m, count, zone)), count)

(* set_linear_entry(vaddr, laddr, LINEAR_ALLOCATED), linear_block.  Behind *)
(* the memory there is no linear page table: the store is to page 0, which *)
(* is not mapped, and handle_page_fault spins on kmemory_spinlock.         *)
SetLinear(m, laddr) ==
  IF m.hung # "no" THEN m
  ELSE IF laddr \in LinearPages
       THEN [m EXCEPT !.allocated = @ \cup {laddr}, !.available = @ \ {laddr}]
       ELSE [m EXCEPT !.hung = "device"]

(* A store into the page table of a region.  Page tables are accessed at   *)
(* the virtual address equal to their linear one: once paging is on, a     *)
(* table that is not mapped there faults, and handle_page_fault spins on   *)
(* kmemory_spinlock.                                                       *)
Put(m, vaddr, e) ==
  IF m.hung # "no" THEN m
  ELSE LET table == m.table[Region(vaddr)]
       IN  IF m.paging /\ m.entry[table] # table
           THEN [m EXCEPT !.hung = "fault"]
           ELSE [m EXCEPT !.entry[vaddr] = e]

(* clear_pages on the page table of region r.                              *)
ClearTable(m, r) ==
  [m EXCEPT !.entry = [v \in VirtualPages |-> IF Region(v) = r THEN None ELSE @[v]]]

(* set_virtual_entry.  A missing page table (the page g.got) is entered in *)
(* the directory first, then mapped, which may miss another one, then      *)
(* cleared.                                                                *)
NewTable(mapped, r, got) ==
  IF mapped.hung # "no" THEN mapped ELSE ClearTable(SetLinear(mapped, got), r)
SetVirtualEntry[c \in MemType \X VirtualPages \X VirtualPages] ==
  LET m == c[1]
      r == Region(c[2])
      g == GetFreePages(m, 1, NORMAL)
      mapped == IF g.hung # "no" THEN g
                ELSE SetVirtualEntry[<<[g EXCEPT !.table[r] = g.got], g.got, g.got>>]
  IN  Put(IF m.table[r] # 0 THEN m ELSE NewTable(mapped, r, g.got), c[2], c[3])
SetVirtual(m, vaddr, laddr) == IF m.hung # "no" THEN m ELSE SetVirtualEntry[<<m, vaddr, laddr>>]

Identity_NotMarked(m, p) == SetVirtual(m, p, p)

(* The pair of calls that maps a linear page at its own address.           *)
Identity(m, p) == SetLinear(SetVirtual(m, p, p), p)

-----------------------------------------------------------------------------
FirstAvailable_NoBreak == LinearPages

(* kmemory_linear_setup: in every region the first page is marked          *)
(* available before the end of memory is tested.                           *)
FirstAvailable == {p \in LinearPages : p < MemPages \/ p % T = 0}

(* The linear page tables, one per region, follow their directory, which   *)
(* follows the kernel.                                                     *)
LinearTable(r) == KernelMax + 1 + r
SetupEnd == LinearTable(MemEnd) + 1

(* The kernel and its tables fit, and memory ends below the addresses      *)
(* module.elf is linked for (0x08048000), which are below those for        *)
(* virtual pages.                                                          *)
ASSUME MachineAssumption ==
  /\ SetupEnd <= MemPages
  /\ (MemEnd + 1) * T <= VBase
  /\ \A s \in Segments : /\ s[1] \in Nat /\ s[2] \in Nat \ {0}
                         /\ (MemEnd + 1) * T <= s[1] /\ s[1] + s[2] <= VBase

AtReset ==
  [available |-> FirstAvailable \ (KernelMax..SetupEnd - 1),
   allocated |-> KernelMax..SetupEnd - 1,
   next |-> [z \in {NORMAL, DMA, KERNEL} |->
               CASE z = NORMAL /\ MemPages <= DmaEnd -> 0
                 [] z = NORMAL /\ MemPages > DmaEnd ->
                      IF SetupEnd > DmaEnd THEN SetupEnd ELSE DmaEnd
                 [] z = DMA    -> IF SetupEnd < DmaEnd THEN SetupEnd ELSE LowEnd
                 [] z = KERNEL -> 1],
   table |-> [r \in Regions |-> 0],
   entry |-> [v \in VirtualPages |-> None],
   got |-> 0, paging |-> FALSE, hung |-> "no", wanted |-> 0]

(* The virtual page directory and the two pages of virtual_block, then     *)
(* the kernel image and what the boot loader left.                         *)
AfterLinearSetup ==
  LET directory == GetFreePages(AtReset, 1, DMA)
      block == GetFreePages(directory, 2, DMA)
  IN  Loop(SetLinear, Loop(SetLinear, block, block.got, 2), LowEnd, KernelMax - LowEnd)

(* kmemory_virtual_setup maps every allocated page at its own address, in  *)
(* a sweep that also meets the pages it takes for page tables on the way.  *)
SweepPage(m, p) == IF p \in m.allocated THEN Identity(m, p) ELSE m
Sweep(m, p) ==
  SweepPage(IF p % T = 0 THEN Identity(m, LinearTable(Region(p))) ELSE m, p)

AfterVirtualSetup == Loop(Sweep, AfterLinearSetup, 0, (MemEnd + 1) * T)

(* kthread_setup takes a page for the first thread; _start turns on paging.*)
MapResult(g) == Identity(g, g.got)
AfterSetup == [MapResult(GetFreePages(AfterVirtualSetup, 1, DMA)) EXCEPT !.paging = TRUE]

(* The regions whose page table is not mapped at its own address.          *)
Unmapped(m) == {r \in Regions : m.table[r] # 0 /\ m.entry[m.table[r]] # m.table[r]}

(* None of their tables can be mapped any more: that takes a store into    *)
(* one of them.                                                            *)
Settled(m) == \A r \in Unmapped(m) : Region(m.table[r]) \in Unmapped(m)

(* The tables that setup() takes are mapped when the sweep comes to them,  *)
(* or are lost: memory is not so short that they lie behind the sweep.     *)
ASSUME BootAssumption == AfterSetup.hung = "no" => Settled(AfterSetup)

Init ==
  /\ mem = AfterSetup
  /\ free = <<>> /\ used = <<>> /\ slots = 0
  /\ virtual_address = VBase
  /\ linears = <<[page |-> mem.got, count |-> 1]>>
  /\ arrays = {}
  /\ toLoad = Segments

-----------------------------------------------------------------------------
(* init() maps the screen's memory, allocates pages for its buffer and for *)
(* the first thread it creates, loads the modules, and only then creates   *)
(* the threads that call the other operations.                             *)
Ready == mem.hung = "no"

Running == Ready /\ toLoad = {}

(* kmemory_linear_page_allocate.                                           *)
LinearAllocate(count, dma) ==
  /\ Running
  /\ LET g == GetFreePages(mem, count, IF dma THEN DMA ELSE NORMAL)
     IN  /\ mem' = Loop(Identity, g, g.got, count)
         /\ linears' = Append(linears, [page |-> g.got, count |-> count])
  /\ UNCHANGED <<free, used, slots, virtual_address, arrays, toLoad>>

(* kmemory_linear_page_map.                                                *)
LinearMap(d) ==
  /\ IF d[1] < LowEnd THEN Ready ELSE Running
  /\ mem' = Loop(Identity, mem, d[1], d[2])
  /\ UNCHANGED <<free, used, slots, virtual_address, linears, arrays, toLoad>>

(* One page of kmemory_virtual_page_allocate: a missing page table is      *)
(* mapped and cleared before it is entered in the directory.               *)
EnterTable(mapped, r, got) ==
  IF mapped.hung # "no" THEN mapped
  ELSE [ClearTable(mapped, r) EXCEPT !.table[r] = got]
Assign_AlwaysTakes(m, v) ==
  LET g == GetFreePages(m, 1, NORMAL)
  IN  Put(IF m.hung # "no" THEN m ELSE EnterTable(MapResult(g), Region(v), g.got), v, Assigned)

Assign(m, v) ==
  LET g == GetFreePages(m, 1, NORMAL)
  IN  Put(IF m.hung # "no" \/ m.table[Region(v)] # 0 THEN m
          ELSE EnterTable(MapResult(g), Region(v), g.got), v, Assigned)

AssignAll(m, page, count) == Loop(Assign, m, page, count)

Fitting_Any(count) == 1..Len(free)

(* The first free block that is large enough is taken whole.               *)
Fitting(count) == {i \in 1..Len(free) : free[i].count >= count}

VirtualReuse(count) ==
  /\ Ready
  /\ \E i \in Fitting(count) :
       /\ \A j \in Fitting(count) : i <= j
       /\ mem' = AssignAll(mem, free[i].page, count)
       /\ used' = <<free[i]>> \o used
       /\ free' = RemoveAt(free, i)
  /\ UNCHANGED <<slots, virtual_address, linears, arrays, toLoad>>

(* The addresses a new block takes: one page more than it has.             *)
Span_NoGap(count) == count

Span(count) == count + 1

(* pages_index after a record is taken; a full array is replaced.          *)
Full == slots >= BlockSlots

NextSlot == IF Full THEN 1 ELSE slots + 1

VirtualNew_TakesFirst(count) ==
  /\ Ready
  /\ Fitting(count) = {}
  /\ virtual_address + count <= VLast
  /\ LET g == GetFreePages(mem, 1, NORMAL)
     IN  /\ mem' = AssignAll(IF Full THEN MapResult(g) ELSE g,
                             virtual_address, count)
         /\ slots' = NextSlot
         /\ arrays' = IF Full THEN arrays \cup {g.got} ELSE arrays
  /\ used' = <<[page |-> virtual_address, count |-> count]>> \o used
  /\ virtual_address' = virtual_address + Span(count)
  /\ UNCHANGED <<free, linears, toLoad>>

(* No free block fits: a new record, in a new array when the last is full, *)
(* and new addresses.                                                      *)
VirtualNew(count) ==
  /\ Ready
  /\ Fitting(count) = {}
  /\ virtual_address + count <= VLast
  /\ LET g == GetFreePages(mem, 1, NORMAL)
     IN  /\ mem' = AssignAll(IF Full THEN MapResult(g) ELSE mem,
                             virtual_address, count)
         /\ slots' = NextSlot
         /\ arrays' = IF Full THEN arrays \cup {g.got} ELSE arrays
  /\ used' = <<[page |-> virtual_address, count |-> count]>> \o used
  /\ virtual_address' = virtual_address + Span(count)
  /\ UNCHANGED <<free, linears, toLoad>>

(* handle_page_fault for a page the processor finds not present.  The bit  *)
(* it tests, VIRTUAL_ASSIGNED, is VIRTUAL_LINEAR too: every entry of a     *)
(* block has it.  Without it the thread is killed.                         *)
PageFault(v) ==
  /\ Ready
  /\ mem.entry[v] \in {None, Assigned}
  /\ LET g == GetFreePages(mem, 1, NORMAL)
     IN  mem' = IF mem.entry[v] = None THEN mem
                ELSE IF g.hung # "no" THEN g
                ELSE SetLinear([g EXCEPT !.entry[v] = g.got], g.got)
  /\ UNCHANGED <<free, used, slots, virtual_address, linears, arrays, toLoad>>

(* set_linear_entry(page, 0, LINEAR_AVAILABLE): the arguments name linear  *)
(* page 0 as the one to free.                                              *)
Unallocated(m, e) ==
  IF e >= 0 THEN [m EXCEPT !.available = @ \cup {0}, !.allocated = @ \ {0}] ELSE m

Release(m, v) == Put(Unallocated(m, m.entry[v]), v, None)

(* kmemory_virtual_page_unallocate: all entries of the block are cleared.  *)
VirtualUnallocate(i) ==
  /\ Running
  /\ mem' = Loop(Release, mem, used[i].page, used[i].count)
  /\ free' = <<used[i]>> \o free
  /\ used' = RemoveAt(used, i)
  /\ UNCHANGED <<slots, virtual_address, linears, arrays, toLoad>>

(* read_elf, for one segment: a run of pages mapped at the addresses the   *)
(* segment asks for.                                                       *)
PlaceSegment(m, s, got) ==
  LET place(x, i) == SetLinear(SetVirtual(x, s[1] + i, got + i), got + i)
  IN  Loop(place, m, 0, s[2])

LoadSegment(s) ==
  /\ Ready
  /\ s \in toLoad /\ used # <<>>
  /\ toLoad' = toLoad \ {s}
  /\ LET g == GetFreePages(mem, s[2], NORMAL)
     IN  mem' = PlaceSegment(g, s, g.got)
  /\ UNCHANGED <<free, used, slots, virtual_address, linears, arrays>>

(* A stuck processor stays stuck.                                          *)
Stuck == mem.hung # "no" /\ UNCHANGED vars

Next ==
  \/ \E s \in Segments : LoadSegment(s)
  \/ \E count \in Counts, dma \in BOOLEAN : LinearAllocate(count, dma)
  \/ \E d \in Devices : LinearMap(d)
  \/ \E count \in Counts : VirtualReuse(count)
  \/ \E count \in Counts : VirtualNew(count)
  \/ \E v \in VBase..VLast : PageFault(v)
  \/ \E i \in 1..Len(used) : VirtualUnallocate(i)
  \/ Stuck

Spec == Init /\ [][Next]_vars

-----------------------------------------------------------------------------
Blocks == [page : VBase..VLast, count : Nat \ {0}]

LastPage == IF MemPages % T = 0 THEN MemPages ELSE MemPages - 1

(* The types, and: no page beyond the end of memory is ever free to be     *)
(* given out, but for the one at the end when memory ends with a region,   *)
(* since the end is tested after a page is marked (kmemory_linear_setup).  *)
TypeOK ==
  /\ mem \in MemType
  /\ mem.available \subseteq 0..LastPage
  /\ free \in Seq(Blocks) /\ used \in Seq(Blocks)
  /\ slots \in 0..BlockSlots
  /\ virtual_address \in VBase..VLast + 1
  /\ linears \in Seq([page : LinearPages, count : Counts \cup {1}])
  /\ toLoad \subseteq Segments

Pages(b) == b.page..b.page + b.count - 1

(* The virtual pages that are not mapped at their own address.             *)
Mapped == {v \in VirtualPages : mem.entry[v] >= 0 /\ mem.entry[v] # v}

(* A linear page has at most one user: a page table, a page demanded or    *)
(* loaded, a run given to a caller, the records of the allocator or the    *)
(* kernel itself.  Only page tables may be among the pages in shared.      *)
Disjoint(shared) ==
  LET tables == {r \in Regions : mem.table[r] # 0}
      given == UNION {Pages(linears[i]) : i \in 1..Len(linears)}
      kernel == LowEnd..SetupEnd - 1
      places == {mem.entry[v] : v \in Mapped}
      tabled == {mem.table[r] : r \in tables}
  IN  /\ \A v, w \in Mapped : mem.entry[v] = mem.entry[w] => v = w
      /\ \A r, s \in tables : mem.table[r] = mem.table[s] => r = s
      /\ \A i, j \in 1..Len(linears) : i # j => Pages(linears[i]) \cap Pages(linears[j]) = {}
      /\ places \cap (given \cup arrays \cup kernel) = {}
      /\ tabled \cap (arrays \cup kernel) = {}
      /\ tabled \cap (places \cup given) \subseteq shared
      /\ given \cap (arrays \cup kernel) = {}
      /\ arrays \cap kernel = {}
      /\ mem.available \cap (places \cup tabled \cup given \cup arrays \cup kernel) = {}

(* No linear page ever has two users, which is what the FIXME in           *)
(* get_free_pages asks for: a run is marked as a whole when it is taken.   *)
FramesDisjoint == mem.hung = "no" => Disjoint({})

(* The pages of the runs taken for callers and segments, but for the last  *)
(* page of each.                                                           *)
Unmarked ==
  UNION {{p \in Pages(linears[i]) : p + 1 \in Pages(linears[i])} : i \in 1..Len(linears)}
    \cup {mem.entry[v] : v \in UNION {s[1]..s[1] + s[2] - 2 : s \in Segments}}

(* get_free_pages marks only the end of a run.  The pages before it may be *)
(* taken for the page tables that mapping the run requires; no other page  *)
(* ever gets two users, although page tables are taken in the middle of    *)
(* the other operations.                                                   *)
SharedOnlyUnmarked == mem.hung = "no" => Disjoint(Unmarked)

(* The blocks of virtual addresses, used and free, never touch: a page     *)
(* that belongs to none lies between any two, so that running over the end *)
(* of one faults.                                                          *)
BlocksApart ==
  LET all == used \o free
  IN  \A i, j \in 1..Len(all) :
        i # j => \/ all[i].page + all[i].count < all[j].page
                 \/ all[j].page + all[j].count < all[i].page

(* An address from kmemory_virtual_page_allocate is usable until it is     *)
(* given back, and no entry survives that: a later touch of it faults.     *)
OnlyUsedMapped ==
  mem.hung = "no" =>
    /\ \A v \in VBase..VLast : mem.entry[v] # None =>
         \E i \in 1..Len(used) : v \in Pages(used[i])
    /\ \A i \in 1..Len(used) : mem.entry[used[i].page] # None

(* The kernel stops inside the allocator for three reasons only.  The entry*)
(* of a page table that is missing is written through the new table's own  *)
(* address: that faults, for ever, if the page taken for the table lies in *)
(* the region the table is for, or in one that waits for its own table     *)
(* (NewTable); then every table not mapped lies in a region whose table is *)
(* not mapped.  A page behind the memory was given to                      *)
(* kmemory_linear_page_map, which has entered it in the virtual tables.    *)
(* And get_free_pages loops for ever when memory is used up:               *)
(* nowhere in the two zones that every caller may fall back on, and in the *)
(* regions they end in, are as many pages together as were asked for.      *)
StopsForCause ==
  /\ mem.hung = "fault" => Unmapped(mem) # {} /\ Settled(mem)
  /\ mem.hung = "device" => \E v \in VirtualPages \ LinearPages : mem.entry[v] = v
  /\ mem.hung = "exhausted" =>
       \A z \in {DMA, KERNEL} :
         \A p \in ZoneStart(z)..(Region(ZoneEnd(z)) + 1) * T - mem.wanted :
           ~(p..p + mem.wanted - 1 \subseteq mem.available)

(* Linear pages marked as allocated that serve nobody.                     *)
Leaked ==
  mem.allocated \ ({mem.table[r] : r \in Regions} \cup {mem.entry[v] : v \in Mapped}
                     \cup UNION {Pages(linears[i]) : i \in 1..Len(linears)} \cup arrays
                     \cup UNION {d[1]..d[1] + d[2] - 1 : d \in Devices})

(* Pages are lost in one way only: those behind a block when it is given   *)
(* back (kmemory_virtual_page_unallocate frees page 0 in their place), and *)
(* never on the way of any other operation.                                *)
LostOnlyWithBlock ==
  [][mem'.hung = "no" =>
       Leaked' \ Leaked \subseteq
         {mem.entry[v] : v \in UNION {Pages(used[i]) : i \in {i \in 1..Len(used) : used' = RemoveAt(used, i)}}}]_vars

(* What a thread stored in a page stays there: no operation on other       *)
(* blocks replaces the linear page behind an address in use.               *)
ContentsKept ==
  [][\A v \in VBase..VLast :
       (mem.entry[v] >= 0 /\ mem'.entry[v] # mem.entry[v]) =>
         \A i \in 1..Len(used') : v \notin Pages(used'[i])]_vars
=============================================================================
