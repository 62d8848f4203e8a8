-------------------------------- MODULE Heap --------------------------------
(***************************************************************************)
(* The heap of blog_os (allocator.rs, memory.rs) and its three allocators, *)
(* allocator/bump.rs, linked_list.rs and fixed_size_block.rs, of which the *)
(* last is the one in use.  All three are behind one lock, so a call is a  *)
(* step.  Addresses are numbers and Word is the size of a pointer; a size  *)
(* plus an address stays far below 2^64.                                   *)
(***************************************************************************)
EXTENDS Naturals, Sequences, SequencesExt, FiniteSets

CONSTANTS HEAP_START, HEAP_SIZE,
          PageSize,
          Word,              \* size and alignment of a pointer
          BLOCK_SIZES,       \* set of powers of two
          Layouts,           \* requests: [size, align], align a power of two
          MemoryMaps,        \* memory maps: sequences of [usable, first, end] in frames
          Tables             \* frames that map_to takes for page tables, with the first page

heap_end == HEAP_START + HEAP_SIZE
Addresses == HEAP_START..heap_end - 1

(* An alignment is a power of two: of two the smaller divides the larger.  *)
Alignments == BLOCK_SIZES \union {Word} \union {l.align : l \in Layouts}

ASSUME HeapAssumption ==
  /\ HEAP_START \in Nat /\ HEAP_SIZE \in Nat /\ PageSize \in Nat \ {0} /\ Word \in Nat \ {0}
  /\ HEAP_START % PageSize = 0 /\ HEAP_START % Word = 0 /\ HEAP_SIZE % Word = 0
  /\ HEAP_SIZE >= 2 * Word                            \* add_free_region's assertion
  /\ BLOCK_SIZES \subseteq Nat /\ \A b \in BLOCK_SIZES : b >= Word
  /\ Layouts \subseteq [size : Nat \ {0}, align : Nat \ {0}]
  /\ \A a, b \in Alignments : a <= b => b % a = 0
  /\ Tables \in Nat /\ \A m \in MemoryMaps :              \* left to init's caller, who is to
       /\ m \in Seq([usable : BOOLEAN, first : Nat, end : Nat])      \* pass a valid map
       /\ \A i, j \in 1..Len(m) : (i # j /\ m[i].usable /\ m[j].usable) =>
                                   (m[i].end <= m[j].first \/ m[j].end <= m[i].first)

VARIABLES kind,                     \* the allocator that is the global one
          map, next_frame, pages,   \* BootInfoFrameAllocator; the frame of each heap page
          status,                   \* "mapping", "up", or "failed": init_heap returned an error
          allocated,                \* objects given out
          next, allocations,        \* bump
          regions, lost,            \* linked list, from its head; history: bytes alignment skipped
          lists, holes              \* fixed size: free blocks of each size; fallback: its free bytes

bump == <<next, allocations>>
linked == <<regions, lost>>
fixed == <<lists, holes>>
boot == <<kind, map, next_frame, pages, status>>
vars == <<boot, allocated, bump, linked, fixed>>

Init ==
  /\ kind \in {"bump", "linked_list", "fixed_size_block"}
  /\ map \in MemoryMaps /\ next_frame = 0 /\ pages = <<>> /\ status = "mapping"
  /\ allocated = {}
  /\ next = 0 /\ allocations = 0 /\ regions = <<>> /\ lost = {}
  /\ lists = [b \in BLOCK_SIZES |-> <<>>] /\ holes = {}

Max2(a, b) == IF a > b THEN a ELSE b
align_up(addr, align) == ((addr + align - 1) \div align) * align
Bytes(o) == o.start..(o.start + o.size - 1)
-----------------------------------------------------------------------------
frames(r) == [i \in 1..(r.end - r.first) |-> r.first + i - 1]
BugFrames == FlattenSeq([i \in 1..Len(map) |-> frames(map[i])])     \* reserved ones too

usable_frames ==
  FlattenSeq([i \in 1..Len(map) |-> IF map[i].usable THEN frames(map[i]) ELSE <<>>])

(* One turn of init_heap's loop, and the allocator's init after the last.  *)
MapPage ==
  LET taken == IF pages = <<>> THEN 1 + Tables ELSE 1
      page == Len(pages) + 1
  IN  /\ status = "mapping"
      /\ IF next_frame + taken > Len(usable_frames)
         THEN status' = "failed" /\ UNCHANGED <<next_frame, pages, bump, linked, fixed>>
         ELSE /\ next_frame' = next_frame + taken
              /\ pages' = Append(pages, usable_frames[next_frame + 1])
              /\ IF page * PageSize < HEAP_SIZE
                 THEN UNCHANGED <<status, bump, linked, fixed>>
                 ELSE /\ status' = "up"
                      /\ next' = HEAP_START /\ UNCHANGED <<allocations, lost, lists>>
                      /\ regions' = <<[start |-> HEAP_START, size |-> HEAP_SIZE]>>
                      /\ holes' = Addresses
      /\ UNCHANGED <<kind, map, allocated>>

Give(l, s) == allocated' = allocated \union {[start |-> s, size |-> l.size, align |-> l.align]}

(* bump.rs.                                                                *)
BumpAlloc(l) ==
  LET start == align_up(next, l.align)
  IN  /\ kind = "bump"
      /\ IF start + l.size > heap_end THEN UNCHANGED <<bump, allocated>>
         ELSE next' = start + l.size /\ allocations' = allocations + 1 /\ Give(l, start)
      /\ UNCHANGED <<linked, fixed>>

BumpDealloc(o) ==
  /\ kind = "bump"
  /\ allocations' = allocations - 1
  /\ next' = IF allocations' = 0 THEN HEAP_START ELSE next
  /\ UNCHANGED <<linked, fixed>>
-----------------------------------------------------------------------------
(* linked_list.rs.                                                         *)
size_of_ListNode == 2 * Word
Align(l) == Max2(l.align, Word)
Size(l) == Max2(align_up(l.size, Align(l)), size_of_ListNode)     \* size_align

(* Seeded fault: what is left may be too small for a node.                 *)
BugFits(r, l) == align_up(r.start, Align(l)) + Size(l) <= r.start + r.size

alloc_from_region(r, l) ==
  LET end == align_up(r.start, Align(l)) + Size(l)
      excess == (r.start + r.size) - end
  IN  end <= r.start + r.size /\ (excess = 0 \/ excess >= size_of_ListNode)

(* find_region takes the first that fits; what is behind the object goes   *)
(* back to the front of the list, what is before it to nobody.             *)
LinkedListAlloc(l) ==
  /\ kind = "linked_list"
  /\ LET fit == {i \in 1..Len(regions) : alloc_from_region(regions[i], l)}
     IN  IF fit = {} THEN UNCHANGED <<linked, allocated>>
         ELSE LET i == CHOOSE i \in fit : \A j \in fit : i <= j
                  r == regions[i]
                  start == align_up(r.start, Align(l))
                  end == start + Size(l)
                  rest == RemoveAt(regions, i)
              IN  /\ regions' = IF end < r.start + r.size
                                THEN <<[start |-> end, size |-> (r.start + r.size) - end]>> \o rest
                                ELSE rest
                  /\ lost' = lost \union (r.start..start - 1)
                  /\ Give(l, start)
  /\ UNCHANGED <<bump, fixed>>

LinkedListDealloc(o) ==
  /\ kind = "linked_list"
  /\ regions' = <<[start |-> o.start, size |-> Size(o)]>> \o regions
  /\ UNCHANGED <<lost, bump, fixed>>
-----------------------------------------------------------------------------
(* fixed_size_block.rs: the size of block that a layout gets, 0 for none.  *)
(* Seeded fault: the alignment is not asked for.                           *)
block_for(required_block_size) ==
  LET fit == {b \in BLOCK_SIZES : b >= required_block_size}
  IN  IF fit = {} THEN 0 ELSE CHOOSE b \in fit : \A c \in fit : b <= c

BugIndex(l) == block_for(l.size)

list_index(l) == block_for(Max2(l.size, l.align))

(* linked_list_allocator::Heap: any free place that fits, none if there is *)
(* none; sizes are rounded up to those of a hole.                          *)
HoleSize(size) == Max2(align_up(size, Word), 2 * Word)
Places(size, align) ==
  {s \in holes : align_up(s, Max2(align, Word)) = s /\ s..(s + HoleSize(size) - 1) \subseteq holes}

fallback_alloc(l, size, align) ==
  /\ IF Places(size, align) = {} THEN UNCHANGED <<holes, allocated>>
     ELSE \E s \in Places(size, align) :
            holes' = holes \ (s..(s + HoleSize(size) - 1)) /\ Give(l, s)
  /\ UNCHANGED lists

FixedSizeAlloc(l) ==
  /\ kind = "fixed_size_block"
  /\ LET b == list_index(l)
     IN  CASE b = 0 -> fallback_alloc(l, l.size, l.align)
           [] b # 0 /\ lists[b] = <<>> -> fallback_alloc(l, b, b)
           [] OTHER -> /\ lists' = [lists EXCEPT ![b] = Tail(@)]
                       /\ Give(l, Head(lists[b])) /\ UNCHANGED holes
  /\ UNCHANGED <<bump, linked>>

FixedSizeDealloc(o) ==
  /\ kind = "fixed_size_block"
  /\ LET b == list_index(o)
     IN  IF b = 0
         THEN holes' = holes \union (o.start..(o.start + HoleSize(o.size) - 1)) /\ UNCHANGED lists
         ELSE lists' = [lists EXCEPT ![b] = <<o.start>> \o @] /\ UNCHANGED holes
  /\ UNCHANGED <<bump, linked>>
-----------------------------------------------------------------------------
Alloc(l) ==
  status = "up" /\ (BumpAlloc(l) \/ LinkedListAlloc(l) \/ FixedSizeAlloc(l)) /\ UNCHANGED boot

Dealloc(o) ==
  /\ BumpDealloc(o) \/ LinkedListDealloc(o) \/ FixedSizeDealloc(o)
  /\ allocated' = allocated \ {o}
  /\ UNCHANGED boot

(* main panics when init_heap has failed.                                  *)
Panicked == status = "failed" /\ UNCHANGED vars

Next == MapPage \/ Panicked \/ (\E l \in Layouts : Alloc(l)) \/ \E o \in allocated : Dealloc(o)
Spec == Init /\ [][Next]_vars
-----------------------------------------------------------------------------
(* All three are heaps.                                                    *)
Abstract == INSTANCE AbstractHeap WITH Heap <- Addresses
ImplementsHeap == Abstract!Spec

(* What an object occupies, with its rounding.                             *)
Taken(o) ==
  CASE kind = "bump" -> o.size
    [] kind = "linked_list" -> Size(o)
    [] OTHER -> HoleSize(IF list_index(o) = 0 THEN o.size ELSE list_index(o))

Reserved(o) == o.start..(o.start + Taken(o) - 1)
Block(b, i) == lists[b][i]..(lists[b][i] + HoleSize(b) - 1)

FreeRegions ==
  CASE kind = "bump" -> {next..heap_end - 1}
    [] kind = "linked_list" -> {Bytes(regions[i]) : i \in 1..Len(regions)}
    [] OTHER -> {holes} \union UNION {{Block(b, i) : i \in 1..Len(lists[b])} : b \in BLOCK_SIZES}

(* Every byte is in an object, in one free region, or was skipped for an   *)
(* alignment larger than a list node's, and never in two of these; a       *)
(* free region has room for the node that is written into it.  The bump    *)
(* allocator has it all back when the last object is returned.             *)
EveryByteAccounted ==
  status = "up" =>
    LET held == {Reserved(o) : o \in allocated}
        all == held \union FreeRegions
    IN  /\ \A x, y \in all : x # y => x \intersect y = {}
        /\ Cardinality(held) = Cardinality(allocated)
        /\ kind # "bump" => UNION all = Addresses \ lost /\ (UNION all) \intersect lost = {}
        /\ kind = "bump" => allocations = Cardinality(allocated)
                            /\ (allocated = {} => next = HEAP_START)
        /\ \A i \in 1..Len(regions) :
             regions[i].start % Word = 0 /\ regions[i].size >= size_of_ListNode

(* Whoever gets memory finds it mapped: every page has a frame of its own, *)
(* usable by the memory map, also when init_heap fails half way.           *)
FramesAreUsable ==
  \A i \in 1..Len(pages) :
    /\ \E j \in 1..Len(map) : map[j].usable /\ pages[i] \in map[j].first..(map[j].end - 1)
    /\ \A j \in 1..(i - 1) : pages[i] # pages[j]

ObjectsAreMapped ==
  \A o \in allocated : \A a \in Reserved(o) : (a - HEAP_START) \div PageSize < Len(pages)

HeapIsMapped == FramesAreUsable /\ ObjectsAreMapped
=============================================================================
