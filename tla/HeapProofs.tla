----------------------------- MODULE HeapProofs -----------------------------
(***************************************************************************)
(* Proofs about Heap.tla, for a heap and requests of any sizes whose       *)
(* alignments divide one another.                                          *)
(***************************************************************************)
EXTENDS Heap, Integers, FiniteSetTheorems, FunctionTheorems, SequenceTheorems,
        WellFoundedInduction, TLAPS

(* The addresses that can still be given out.                              *)
Free == UNION FreeRegions

(* An object answers a request, begins where it should, and its bytes are  *)
(* of the heap and not free.                                               *)
IsObject(o) ==
  /\ \E l \in Layouts, s \in Nat : o = [start |-> s, size |-> l.size, align |-> l.align]
  /\ o.start % o.align = 0
  /\ Reserved(o) \subseteq Addresses \ (Free \union lost)
  /\ kind = "linked_list" => o.start % Word = 0
  /\ (kind = "fixed_size_block" /\ list_index(o) # 0) => o.start % list_index(o) = 0

Objects ==
  /\ \A o \in allocated : IsObject(o)
  /\ \A o, p \in allocated : o # p => Reserved(o) \intersect Reserved(p) = {}

(* No byte is forgotten, but those that alignment skipped.                 *)
Covered ==
  /\ Free \subseteq Addresses \ lost
  /\ kind # "bump" =>
       \A a \in Addresses \ lost : a \in Free \/ \E o \in allocated : a \in Reserved(o)

(* The bump allocator rewinds only when every object is back.              *)
Bumped ==
  kind = "bump" =>
    /\ next \in HEAP_START..heap_end
    /\ allocations = Cardinality(allocated)
    /\ (allocated = {} => next = HEAP_START) /\ lost = {}

(* Regions of the linked list: each has room for a node, none overlap.     *)
Region == [start : Nat, size : Nat]
Node(r) == r.start % Word = 0 /\ r.size >= size_of_ListNode

Apart(s) ==
  /\ s \in Seq(Region) /\ \A i \in 1..Len(s) : Node(s[i])
  /\ \A i, j \in 1..Len(s) : i # j => Bytes(s[i]) \intersect Bytes(s[j]) = {}

Spanned(s) == UNION {Bytes(s[i]) : i \in 1..Len(s)}

Regions == (\A i \in 1..Len(regions) : Node(regions[i])) /\ (kind = "linked_list" => Apart(regions))

Blocks ==
  kind = "fixed_size_block" =>
    /\ \A b \in BLOCK_SIZES : \A i \in 1..Len(lists[b]) :
         lists[b][i] % b = 0 /\ Block(b, i) \intersect holes = {}
    /\ \A b, c \in BLOCK_SIZES : \A i \in 1..Len(lists[b]), j \in 1..Len(lists[c]) :
         (b # c \/ i # j) => Block(b, i) \intersect Block(c, j) = {}

(* What the allocators hold before and after their init.                   *)
Shape ==
  /\ kind \in {"bump", "linked_list", "fixed_size_block"}
  /\ IsFiniteSet(allocated) /\ lost \subseteq Nat /\ holes \subseteq Nat /\ next \in Nat
  /\ regions \in Seq(Region) /\ lists \in [BLOCK_SIZES -> Seq(Nat)]
  /\ status # "up" => /\ allocated = {} /\ allocations = 0 /\ lost = {} /\ regions = <<>>
                      /\ lists = [b \in BLOCK_SIZES |-> <<>>]

(* The heap comes up when its last page is mapped.                         *)
Mapped ==
  /\ \E S : pages \in Seq(S)
  /\ status = "up" => Len(pages) * PageSize >= HEAP_SIZE

Working == Objects /\ Covered /\ Bumped /\ Regions /\ Blocks
HeapInv == Shape /\ Mapped /\ (status = "up" => Working)
-----------------------------------------------------------------------------
(* Division with remainder.                                                *)
LEMMA Division ==
  ASSUME NEW x \in Nat, NEW a \in Nat \ {0}
  PROVE  x = a * (x \div a) + (x % a) /\ x % a \in 0..(a - 1) /\ x \div a \in Nat
OBVIOUS

LEMMA Multiple ==
  ASSUME NEW n \in Nat, NEW a \in Nat \ {0}
  PROVE  n % a = 0 <=> \E k \in Nat : n = k * a
<1>1. ASSUME n % a = 0
      PROVE  \E k \in Nat : n = k * a
  <2>1. n \div a \in Nat /\ n = (n \div a) * a
    BY <1>1, Division
  <2>2. QED
    BY <2>1
<1>2. \A k \in Nat : (k * a) % a = 0
  OBVIOUS
<1>3. QED
  BY <1>1, <1>2

LEMMA AlignUp ==
  ASSUME NEW x \in Nat, NEW a \in Nat \ {0}
  PROVE  align_up(x, a) \in Nat /\ align_up(x, a) >= x /\ align_up(x, a) % a = 0
<1>1. PICK y \in Nat : y = x + a - 1
  OBVIOUS
<1>2. y = a * (y \div a) + (y % a) /\ y % a \in 0..(a - 1) /\ y \div a \in Nat
  BY Division
<1>3. PICK q \in Nat : q = y \div a
  BY <1>2
<1>4. q * a \in Nat /\ q * a >= x
  BY <1>1, <1>2, <1>3
<1>5. align_up(x, a) = q * a
  BY <1>1, <1>3 DEF align_up
<1>6. QED
  BY <1>4, <1>5, Multiple

(* What divides the divisor divides the number, and sums of multiples.     *)
LEMMA Divides ==
  ASSUME NEW n \in Nat, NEW b \in Nat \ {0}, NEW a \in Nat \ {0}, n % b = 0, b % a = 0
  PROVE  n % a = 0
<1>1. PICK k \in Nat : n = k * b
  BY Multiple
<1>2. PICK m \in Nat : b = m * a
  BY Multiple
<1>3. k * m \in Nat /\ n = (k * m) * a
  BY <1>1, <1>2
<1>4. QED
  BY <1>3, Multiple

LEMMA SumDivides ==
  ASSUME NEW n \in Nat, NEW m \in Nat, NEW a \in Nat \ {0}, n % a = 0, m % a = 0
  PROVE  (n + m) % a = 0
<1>1. PICK k \in Nat : n = k * a
  BY Multiple
<1>2. PICK j \in Nat : m = j * a
  BY Multiple
<1>3. k + j \in Nat /\ n + m \in Nat /\ n + m = (k + j) * a
  BY <1>1, <1>2
<1>4. QED
  BY <1>3, Multiple

(* Any set of numbers has a least one.                                     *)
Before == {w \in Nat \X Nat : w[1] < w[2]}

LEMMA BeforeWellFounded == IsWellFoundedOn(Before, Nat)
<1>1. Before = OpToRel(<, Nat)
  BY DEF Before, OpToRel
<1>2. QED
  BY Zenon, <1>1, NatLessThanWellFounded

LEMMA LeastExists ==
  ASSUME NEW S, S \subseteq Nat, S # {}
  PROVE  \E m \in S : \A x \in S : m <= x
<1>1. PICK m \in S : \A x \in S : ~ <<x, m>> \in Before
  BY BeforeWellFounded, WFMin
<1>2. ASSUME NEW x \in S
      PROVE  m <= x
  <2>1. m \in Nat /\ x \in Nat /\ (<<x, m>> \in Before <=> x < m)
    BY DEF Before
  <2>2. QED
    BY <1>1, <2>1
<1>3. QED
  BY <1>2
-----------------------------------------------------------------------------
LEMMA Constants ==
  /\ HEAP_START \in Nat /\ HEAP_SIZE \in Nat /\ Word \in Nat \ {0} /\ HEAP_SIZE >= 2 * Word
  /\ heap_end \in Nat /\ heap_end = HEAP_START + HEAP_SIZE /\ Addresses = HEAP_START..(heap_end - 1)
  /\ Addresses \subseteq Nat
  /\ HEAP_START % Word = 0 /\ size_of_ListNode = 2 * Word /\ PageSize \in Nat \ {0}
  /\ \A b \in BLOCK_SIZES : b \in Nat \ {0} /\ b >= Word
BY HeapAssumption DEF heap_end, Addresses, size_of_ListNode

(* What is known of a request, and of the object that answers it.          *)
Request(l) == l.size \in Nat \ {0} /\ l.align \in Nat \ {0} /\ l.align \in Alignments

LEMMA Requests ==
  /\ \A l \in Layouts : Request(l)
  /\ \A l \in Layouts, s \in Nat : Request([start |-> s, size |-> l.size, align |-> l.align])
  /\ \A b \in BLOCK_SIZES : b \in Alignments
  /\ Word \in Alignments
BY HeapAssumption DEF Request, Alignments

LEMMA Chain ==
  ASSUME NEW a \in Alignments, NEW b \in Alignments, a <= b
  PROVE  b % a = 0
BY HeapAssumption

LEMMA MaxOf ==
  ASSUME NEW a \in Nat, NEW b \in Nat
  PROVE  Max2(a, b) >= a /\ Max2(a, b) >= b /\ (Max2(a, b) = a \/ Max2(a, b) = b)
BY DEF Max2

(* Sizes of holes and of blocks of the linked list leave room for what was *)
(* asked.                                                                  *)
LEMMA HoleSizes ==
  ASSUME NEW n \in Nat \ {0}
  PROVE  HoleSize(n) \in Nat \ {0} /\ HoleSize(n) >= n
<1>1. align_up(n, Word) \in Nat /\ align_up(n, Word) >= n
  BY AlignUp, Constants
<1>2. 2 * Word \in Nat
  BY Constants
<1>3. HoleSize(n) >= align_up(n, Word) /\ (HoleSize(n) = align_up(n, Word) \/ HoleSize(n) = 2 * Word)
  BY <1>1, <1>2, MaxOf DEF HoleSize
<1>4. QED
  BY <1>1, <1>2, <1>3

LEMMA LinkedSizes ==
  ASSUME NEW l, Request(l)
  PROVE  /\ Align(l) \in Nat \ {0} /\ Align(l) % Word = 0 /\ Align(l) % l.align = 0
         /\ Size(l) \in Nat \ {0} /\ Size(l) >= l.size /\ Size(l) >= 2 * Word /\ Size(l) % Word = 0
<1>1. /\ Align(l) >= l.align /\ Align(l) >= Word /\ (Align(l) = l.align \/ Align(l) = Word)
      /\ l.align \in Nat \ {0} /\ Word \in Nat \ {0} /\ l.size \in Nat \ {0}
  BY MaxOf, Constants DEF Align, Request
<1>2. Align(l) \in Alignments /\ Align(l) \in Nat \ {0}
  BY <1>1, Requests DEF Request
<1>3. Align(l) % Word = 0 /\ Align(l) % l.align = 0
  BY <1>1, <1>2, Chain, Requests DEF Request
<1>4. PICK n \in Nat : n = align_up(l.size, Align(l)) /\ n >= l.size /\ n % Align(l) = 0
  BY <1>1, <1>2, AlignUp
<1>5. n % Word = 0
  BY <1>1, <1>2, <1>3, <1>4, Divides
<1>6. 2 * Word \in Nat /\ (2 * Word) % Word = 0
  BY <1>1, Multiple
<1>7. Size(l) >= n /\ Size(l) >= 2 * Word /\ (Size(l) = n \/ Size(l) = 2 * Word)
  BY <1>4, <1>6, MaxOf DEF Size, size_of_ListNode
<1>8. QED
  BY <1>1, <1>2, <1>3, <1>4, <1>5, <1>6, <1>7

(* The size that a layout gets holds it, and its blocks are aligned.       *)
LEMMA Index ==
  ASSUME NEW l, Request(l)
  PROVE  \/ list_index(l) = 0
         \/ /\ list_index(l) \in BLOCK_SIZES /\ list_index(l) \in Nat \ {0}
            /\ list_index(l) >= l.size /\ list_index(l) % l.align = 0
<1>1. PICK n \in Nat : n = Max2(l.size, l.align) /\ n >= l.size /\ n >= l.align
  BY MaxOf DEF Request, Max2
<1>2. PICK fit : fit = {b \in BLOCK_SIZES : b >= n}
  OBVIOUS
<1>3. list_index(l) = IF fit = {} THEN 0 ELSE CHOOSE b \in fit : \A c \in fit : b <= c
  BY <1>1, <1>2 DEF list_index, block_for
<1>4. ASSUME fit # {}
      PROVE  list_index(l) \in fit
  <2>1. fit \subseteq Nat
    BY <1>2, Constants
  <2>2. \E b \in fit : \A c \in fit : b <= c
    BY <1>4, <2>1, LeastExists
  <2>3. QED
    BY <1>3, <1>4, <2>2
<1>5. CASE list_index(l) \in fit
  <2>1. list_index(l) \in BLOCK_SIZES /\ list_index(l) \in Nat \ {0} /\ list_index(l) >= n
    BY <1>2, <1>5, Constants
  <2>2. list_index(l) >= l.size /\ list_index(l) >= l.align
    BY <1>1, <2>1 DEF Request
  <2>3. QED
    BY <2>1, <2>2, Chain, Requests DEF Request
<1>6. QED
  BY <1>3, <1>4, <1>5

LEMMA TakenSize ==
  ASSUME NEW l, Request(l), kind \in {"bump", "linked_list", "fixed_size_block"}
  PROVE  Taken(l) \in Nat \ {0} /\ Taken(l) >= l.size
<1>1. l.size \in Nat \ {0}
  BY DEF Request
<1>2. CASE kind = "bump"
  BY <1>1, <1>2 DEF Taken
<1>3. CASE kind = "linked_list"
  BY <1>3, LinkedSizes DEF Taken
<1>4. CASE kind = "fixed_size_block"
  <2>1. PICK n \in Nat \ {0} : n = (IF list_index(l) = 0 THEN l.size ELSE list_index(l)) /\ n >= l.size
    BY <1>1, Index
  <2>2. Taken(l) = HoleSize(n)
    BY <1>4, <2>1 DEF Taken
  <2>3. QED
    BY <1>1, <2>1, <2>2, HoleSizes
<1>5. QED
  BY <1>2, <1>3, <1>4
-----------------------------------------------------------------------------
(* What is free, by the allocator.                                         *)
Gathered ==
  \A a : /\ kind = "bump" => (a \in Free <=> a \in next..(heap_end - 1))
         /\ kind = "linked_list" => (a \in Free <=> a \in Spanned(regions))
         /\ kind = "fixed_size_block" =>
              (a \in Free <=> \/ a \in holes
                              \/ \E b \in BLOCK_SIZES : \E i \in 1..Len(lists[b]) : a \in Block(b, i))

LEMMA FreeIs == Gathered /\ Gathered'
<1>1. Gathered
  <2> SUFFICES ASSUME NEW a
               PROVE  /\ kind = "bump" => (a \in Free <=> a \in next..(heap_end - 1))
                      /\ kind = "linked_list" => (a \in Free <=> a \in Spanned(regions))
                      /\ kind = "fixed_size_block" =>
                           (a \in Free <=> \/ a \in holes
                                           \/ \E b \in BLOCK_SIZES : \E i \in 1..Len(lists[b]) :
                                                a \in Block(b, i))
    BY DEF Gathered
  <2>1. CASE kind = "bump"
    <3>1. FreeRegions = {next..(heap_end - 1)}
      BY <2>1 DEF FreeRegions
    <3>2. QED
      BY <2>1, <3>1 DEF Free
  <2>2. CASE kind = "linked_list"
    <3>1. FreeRegions = {Bytes(regions[i]) : i \in 1..Len(regions)}
      BY <2>2 DEF FreeRegions
    <3>2. QED
      BY <2>2, <3>1 DEF Free, Spanned
  <2>3. CASE kind = "fixed_size_block"
    <3>1. FreeRegions = {holes} \union UNION {{Block(b, i) : i \in 1..Len(lists[b])} : b \in BLOCK_SIZES}
      BY <2>3 DEF FreeRegions
    <3>2. QED
      BY <2>3, <3>1 DEF Free
  <2>4. QED
    BY <2>1, <2>2, <2>3
<1>2. QED
  BY <1>1, PTL

(* The size taken depends on the layout and on the allocator only.         *)
LEMMA TakenIs ==
  ASSUME kind' = kind
  PROVE  /\ \A o : Reserved(o)' = Reserved(o)
         /\ \A l, s : LET o == [start |-> s, size |-> l.size, align |-> l.align]
                      IN  /\ Taken(o) = Taken(l) /\ Reserved(o) = s..(s + Taken(l) - 1)
                          /\ list_index(o) = list_index(l) /\ Size(o) = Size(l)
<1>1. \A o : Reserved(o)' = Reserved(o)
  BY DEF Reserved, Taken
<1>2. ASSUME NEW l, NEW s
      PROVE  LET o == [start |-> s, size |-> l.size, align |-> l.align]
             IN  /\ Taken(o) = Taken(l) /\ Reserved(o) = s..(s + Taken(l) - 1)
                 /\ list_index(o) = list_index(l) /\ Size(o) = Size(l)
  <2>1. PICK o : o = [start |-> s, size |-> l.size, align |-> l.align]
    OBVIOUS
  <2>2. o.start = s /\ o.size = l.size /\ o.align = l.align
    BY <2>1
  <2>3. list_index(o) = list_index(l) /\ Size(o) = Size(l)
    BY <2>2 DEF list_index, Size, Align
  <2>4. Taken(o) = Taken(l)
    BY <2>2, <2>3 DEF Taken
  <2>5. QED
    BY <2>1, <2>2, <2>3, <2>4 DEF Reserved
<1>3. QED
  BY <1>1, <1>2

(* Giving out an object whose bytes were free, and are no more.            *)
LEMMA Given ==
  ASSUME Objects, Covered, kind' = kind, kind \in {"bump", "linked_list", "fixed_size_block"},
         NEW l \in Layouts, NEW s \in Nat, Give(l, s),
         s % l.align = 0,
         kind = "linked_list" => s % Word = 0,
         (kind = "fixed_size_block" /\ list_index(l) # 0) => s % list_index(l) = 0,
         s..(s + Taken(l) - 1) \subseteq Free \ (Free' \union lost'),
         Free' \subseteq Free \ lost', lost \subseteq lost', lost' \subseteq lost \union Free,
         kind # "bump" => Free \subseteq Free' \union (s..(s + Taken(l) - 1)) \union lost'
  PROVE  Objects' /\ Covered'
<1>1. PICK o : o = [start |-> s, size |-> l.size, align |-> l.align]
  OBVIOUS
<1>2. o.start = s /\ o.align = l.align /\ allocated' = allocated \union {o}
  BY <1>1 DEF Give
<1>3. \A p : Reserved(p)' = Reserved(p)
  BY TakenIs
<1>4. Reserved(o) = s..(s + Taken(l) - 1) /\ list_index(o) = list_index(l)
  BY <1>1, TakenIs
<1>5. /\ Reserved(o) \subseteq Free \ (Free' \union lost')
      /\ kind # "bump" => Free \subseteq Free' \union Reserved(o) \union lost'
  BY <1>4
<1>6. Free \subseteq Addresses \ lost
  BY DEF Covered
<1>7. IsObject(o)'
  <2>1. Reserved(o)' \subseteq Addresses \ (Free \union lost)'
    BY <1>3, <1>5, <1>6
  <2>2. \E m \in Layouts, t \in Nat : o = [start |-> t, size |-> m.size, align |-> m.align]
    BY <1>1
  <2>3. QED
    BY <1>2, <1>4, <2>1, <2>2 DEF IsObject
<1>8. ASSUME NEW p \in allocated
      PROVE  IsObject(p)' /\ Reserved(p) \intersect Reserved(o) = {}
  <2>1. IsObject(p) /\ Reserved(p) \subseteq Addresses \ (Free \union lost)
    BY DEF Objects, IsObject
  <2>2. Reserved(p)' \subseteq Addresses \ (Free \union lost)'
    BY <1>3, <2>1
  <2>3. IsObject(p)'
    BY <2>1, <2>2 DEF IsObject
  <2>4. QED
    BY <1>5, <2>1, <2>3
<1>9. Objects'
  BY <1>2, <1>3, <1>7, <1>8 DEF Objects
<1>10. Covered'
  <2>1. Free' \subseteq Addresses \ lost'
    BY <1>6
  <2>2. ASSUME kind' # "bump", NEW a \in Addresses \ lost'
        PROVE  a \in Free' \/ \E p \in allocated' : a \in Reserved(p)'
    <3>1. a \in Free \/ \E p \in allocated : a \in Reserved(p)
      BY <2>2 DEF Covered
    <3>2. QED
      BY <1>2, <1>3, <1>5, <2>2, <3>1
  <2>3. QED
    BY <2>1, <2>2 DEF Covered
<1>11. QED
  BY <1>9, <1>10

(* Taking an object back: its bytes are free again, or the bump's are.     *)
LEMMA Returned ==
  ASSUME Objects, Covered, kind' = kind, lost' = lost,
         NEW o \in allocated, allocated' = allocated \ {o},
         Free' \subseteq Addresses \ lost,
         \A p \in allocated' : Free' \intersect Reserved(p) = {},
         kind # "bump" => Free \union Reserved(o) \subseteq Free'
  PROVE  Objects' /\ Covered'
<1>1. \A p : Reserved(p)' = Reserved(p)
  BY TakenIs
<1>2. ASSUME NEW p \in allocated'
      PROVE  IsObject(p)'
  <2>1. IsObject(p) /\ Reserved(p) \subseteq Addresses \ lost
    BY DEF Objects, IsObject
  <2>2. Reserved(p)' \subseteq Addresses \ (Free \union lost)'
    BY <1>1, <2>1
  <2>3. QED
    BY <2>1, <2>2 DEF IsObject
<1>3. Objects'
  BY <1>1, <1>2 DEF Objects
<1>4. Covered'
  <2>1. ASSUME kind' # "bump", NEW a \in Addresses \ lost'
        PROVE  a \in Free' \/ \E p \in allocated' : a \in Reserved(p)'
    <3>1. a \in Free \/ \E p \in allocated : a \in Reserved(p)
      BY <2>1 DEF Covered
    <3>2. QED
      BY <1>1, <2>1, <3>1
  <2>2. QED
    BY <2>1 DEF Covered
<1>5. QED
  BY <1>3, <1>4
-----------------------------------------------------------------------------
LEMMA NothingMoves ==
  ASSUME Shape, Working, UNCHANGED <<kind, status, allocated, bump, linked, fixed>>
  PROVE  Shape' /\ Working'
<1>1. UNCHANGED <<kind, status, allocated, next, allocations, regions, lost, lists, holes>>
  BY DEF bump, linked, fixed
<1>2. Free' = Free /\ \A o : Reserved(o)' = Reserved(o)
  BY <1>1, TakenIs DEF Free, FreeRegions, Block
<1>3. Objects' /\ Covered'
  BY <1>1, <1>2 DEF Working, Objects, Covered, IsObject
<1>4. Bumped' /\ Regions' /\ Blocks'
  BY <1>1 DEF Working, Bumped, Regions, Blocks, Block
<1>5. Shape'
  BY <1>1 DEF Shape
<1>6. QED
  BY <1>3, <1>4, <1>5 DEF Working

(* An object made of free bytes is a new one.                              *)
LEMMA IsNew ==
  ASSUME Shape, Objects, NEW o, Request(o), o.start \in Nat, Reserved(o) \subseteq Free
  PROVE  o \notin allocated
<1>1. Taken(o) \in Nat \ {0}
  BY TakenSize DEF Shape
<1>2. o.start \in Reserved(o)
  BY <1>1 DEF Reserved
<1>3. QED
  BY <1>2 DEF Objects, IsObject

LEMMA BumpAllocKeeps ==
  ASSUME Shape, Working, status = "up", UNCHANGED <<kind, status>>, NEW l \in Layouts, BumpAlloc(l)
  PROVE  Shape' /\ Working'
<1>1. PICK start : start = align_up(next, l.align)
  OBVIOUS
<1>2. kind = "bump" /\ kind' = "bump" /\ UNCHANGED <<regions, lost, lists, holes>>
  BY DEF BumpAlloc, linked, fixed
<1>3. CASE start + l.size > heap_end
  <2>1. UNCHANGED <<bump, allocated>>
    BY <1>1, <1>3 DEF BumpAlloc
  <2>2. QED
    BY <1>2, <2>1, NothingMoves DEF linked, fixed
<1>4. CASE ~(start + l.size > heap_end)
  <2>1. next' = start + l.size /\ allocations' = allocations + 1 /\ Give(l, start)
    BY <1>1, <1>4 DEF BumpAlloc
  <2>2. /\ next \in HEAP_START..heap_end /\ allocations = Cardinality(allocated) /\ lost = {}
        /\ next \in Nat /\ IsFiniteSet(allocated)
    BY <1>2 DEF Working, Bumped, Shape
  <2>3. l.size \in Nat \ {0} /\ l.align \in Nat \ {0} /\ Request(l)
    BY Requests DEF Request
  <2>4. start \in Nat /\ start >= next /\ start % l.align = 0
    BY <1>1, <2>2, <2>3, AlignUp
  <2>5. next' \in HEAP_START..heap_end /\ next' \in Nat
    BY <1>4, <2>1, <2>2, <2>3, <2>4, Constants
  <2>6. \A a : (a \in Free <=> a \in next..(heap_end - 1)) /\ (a \in Free' <=> a \in next'..(heap_end - 1))
    BY <1>2, FreeIs DEF Gathered
  <2>7. Taken(l) = l.size
    BY <1>2 DEF Taken
  <2>8. /\ start..(start + Taken(l) - 1) \subseteq Free \ (Free' \union lost')
        /\ Free' \subseteq Free \ lost' /\ lost' = lost
    BY <1>2, <1>4, <2>1, <2>2, <2>3, <2>4, <2>6, <2>7, Constants
  <2>9. Objects' /\ Covered'
    BY <1>2, <2>1, <2>4, <2>8, Given DEF Working
  <2>10. Cardinality(allocated') = Cardinality(allocated) + 1 /\ IsFiniteSet(allocated') /\ allocated' # {}
    <3>1. PICK o : o = [start |-> start, size |-> l.size, align |-> l.align]
      OBVIOUS
    <3>2. Reserved(o) \subseteq Free /\ Request(o) /\ o.start \in Nat
      BY <1>2, <2>4, <2>8, <3>1, Requests, TakenIs
    <3>3. o \notin allocated
      BY <3>2, IsNew DEF Working
    <3>4. allocated' = allocated \union {o}
      BY <2>1, <3>1 DEF Give
    <3>5. QED
      BY <2>2, <3>3, <3>4, FS_AddElement
  <2>11. Bumped' /\ Regions' /\ Blocks'
    BY <1>2, <2>1, <2>2, <2>5, <2>10 DEF Bumped, Regions, Blocks, Working
  <2>12. Shape'
    BY <1>2, <2>5, <2>10 DEF Shape
  <2>13. QED
    BY <2>9, <2>11, <2>12 DEF Working
<1>5. QED
  BY <1>3, <1>4

LEMMA BumpDeallocKeeps ==
  ASSUME Shape, Working, status = "up", UNCHANGED <<kind, status>>,
         NEW o \in allocated, allocated' = allocated \ {o}, BumpDealloc(o)
  PROVE  Shape' /\ Working'
<1>1. /\ kind = "bump" /\ kind' = "bump" /\ UNCHANGED <<regions, lost, lists, holes>>
      /\ allocations' = allocations - 1
      /\ next' = IF allocations' = 0 THEN HEAP_START ELSE next
  BY DEF BumpDealloc, linked, fixed
<1>2. /\ next \in HEAP_START..heap_end /\ allocations = Cardinality(allocated) /\ lost = {}
      /\ IsFiniteSet(allocated)
  BY <1>1 DEF Working, Bumped, Shape
<1>3. /\ IsFiniteSet(allocated') /\ Cardinality(allocated') = allocations - 1
      /\ Cardinality(allocated') = 0 <=> allocated' = {}
  BY <1>2, FS_RemoveElement, FS_EmptySet
<1>4. \A a : (a \in Free <=> a \in next..(heap_end - 1)) /\ (a \in Free' <=> a \in next'..(heap_end - 1))
  BY <1>1, FreeIs DEF Gathered
<1>5. next' \in HEAP_START..heap_end /\ next' \in Nat
  BY <1>1, <1>2, Constants
<1>6. Free' \subseteq Addresses \ lost
  BY <1>2, <1>4, <1>5, Constants
<1>7. \A p \in allocated' : Free' \intersect Reserved(p) = {}
  <2>1. CASE allocated' = {}
    BY <2>1
  <2>2. CASE allocated' # {}
    <3>1. next' = next
      BY <1>1, <1>3, <2>2
    <3>2. Free' = Free
      BY <1>4, <3>1
    <3>3. QED
      BY <3>2 DEF Working, Objects, IsObject
  <2>3. QED
    BY <2>1, <2>2
<1>8. Objects' /\ Covered'
  BY <1>1, <1>6, <1>7, Returned DEF Working
<1>9. Bumped' /\ Regions' /\ Blocks'
  BY <1>1, <1>2, <1>3, <1>5 DEF Bumped, Regions, Blocks, Working
<1>10. Shape'
  BY <1>1, <1>3, <1>5 DEF Shape
<1>11. QED
  BY <1>8, <1>9, <1>10 DEF Working
-----------------------------------------------------------------------------
(* What taking a region from a list and putting one in front do to it.     *)
LEMMA ApartRemoved ==
  ASSUME NEW s, Apart(s), NEW i \in 1..Len(s)
  PROVE  /\ Apart(RemoveAt(s, i))
         /\ Spanned(RemoveAt(s, i)) = Spanned(s) \ Bytes(s[i]) /\ Bytes(s[i]) \subseteq Spanned(s)
<1>1. PICK q : q = RemoveAt(s, i)
  OBVIOUS
<1>2. s \in Seq(Region) /\ Len(s) \in Nat
  BY DEF Apart
<1>3. /\ q \in Seq(Region) /\ Len(q) = Len(s) - 1
      /\ \A k \in 1..(Len(s) - 1) : q[k] = s[IF k < i THEN k ELSE k + 1]
  <2>1. PICK u \in Seq(Region) :
          u = SubSeq(s, 1, i - 1) /\ Len(u) = i - 1 /\ \A k \in 1..(i - 1) : u[k] = s[k]
    <3>1. /\ SubSeq(s, 1, i - 1) \in Seq(Region) /\ Len(SubSeq(s, 1, i - 1)) = i - 1
          /\ \A k \in 1..(i - 1) : SubSeq(s, 1, i - 1)[k] = s[k]
      BY <1>2
    <3>2. QED
      BY <3>1, Zenon
  <2>2. PICK v \in Seq(Region) :
          /\ v = SubSeq(s, i + 1, Len(s)) /\ Len(v) = Len(s) - i
          /\ \A k \in 1..(Len(s) - i) : v[k] = s[i + k]
    <3>1. /\ SubSeq(s, i + 1, Len(s)) \in Seq(Region) /\ Len(SubSeq(s, i + 1, Len(s))) = Len(s) - i
          /\ \A k \in 1..(Len(s) - i) : SubSeq(s, i + 1, Len(s))[k] = s[i + k]
      BY <1>2
    <3>2. QED
      BY <3>1, Zenon
  <2>3. /\ u \o v \in Seq(Region) /\ Len(u \o v) = Len(u) + Len(v)
        /\ \A k \in 1..(Len(u) + Len(v)) : (u \o v)[k] = IF k <= Len(u) THEN u[k] ELSE v[k - Len(u)]
    BY ConcatProperties
  <2>4. q = u \o v
    BY <1>1, <2>1, <2>2 DEF RemoveAt
  <2>5. Len(u) + Len(v) = Len(s) - 1
    <3>1. Len(u) = i - 1 /\ Len(v) = Len(s) - i
      BY <2>1, <2>2, Zenon
    <3>2. i \in Nat /\ Len(s) \in Nat
      BY <1>2
    <3>3. QED
      BY <3>1, <3>2
  <2>6. ASSUME NEW k \in 1..(Len(s) - 1)
        PROVE  q[k] = s[IF k < i THEN k ELSE k + 1]
    <3>1. CASE k < i
      <4>1. k \in 1..(i - 1) /\ k <= Len(u)
        BY <1>2, <2>1, <3>1
      <4>2. QED
        BY <2>1, <2>3, <2>4, <2>5, <3>1, <4>1
    <3>2. CASE ~(k < i)
      <4>1. ~(k <= Len(u)) /\ k - Len(u) \in 1..(Len(s) - i) /\ i + (k - Len(u)) = k + 1
        BY <1>2, <2>1, <3>2
      <4>2. q[k] = v[k - Len(u)]
        BY <2>3, <2>4, <2>5, <4>1
      <4>3. QED
        BY <2>2, <3>2, <4>1, <4>2
    <3>3. QED
      BY <3>1, <3>2
  <2>7. QED
    BY <2>3, <2>4, <2>5, <2>6
<1>4. ASSUME NEW k \in 1..Len(q)
      PROVE  (IF k < i THEN k ELSE k + 1) \in (1..Len(s)) \ {i}
  BY <1>2, <1>3
<1>5. ASSUME NEW j \in (1..Len(s)) \ {i}
      PROVE  \E k \in 1..Len(q) : q[k] = s[j]
  <2>1. CASE j < i
    BY <1>2, <1>3, <2>1
  <2>2. CASE j > i
    <3>1. j - 1 \in 1..(Len(s) - 1) /\ ~(j - 1 < i) /\ (j - 1) + 1 = j
      BY <1>2, <2>2
    <3>2. q[j - 1] = s[j]
      BY <1>3, <3>1
    <3>3. QED
      BY <1>2, <1>3, <3>1, <3>2
  <2>3. QED
    BY <1>2, <2>1, <2>2
<1>6. Apart(q)
  <2>1. \A k \in 1..Len(q) : Node(q[k])
    BY <1>2, <1>3, <1>4 DEF Apart
  <2>2. ASSUME NEW k \in 1..Len(q), NEW m \in 1..Len(q), k # m
        PROVE  Bytes(q[k]) \intersect Bytes(q[m]) = {}
    <3>1. PICK f : f = IF k < i THEN k ELSE k + 1
      OBVIOUS
    <3>2. PICK g : g = IF m < i THEN m ELSE m + 1
      OBVIOUS
    <3>3. f \in 1..Len(s) /\ g \in 1..Len(s) /\ f # g
      BY <1>2, <1>3, <1>4, <2>2, <3>1, <3>2
    <3>4. q[k] = s[f] /\ q[m] = s[g]
      BY <1>3, <3>1, <3>2
    <3>5. QED
      BY <3>3, <3>4 DEF Apart
  <2>3. QED
    BY <1>3, <2>1, <2>2 DEF Apart
<1>7. \A a : a \in Spanned(q) <=> \E j \in (1..Len(s)) \ {i} : a \in Bytes(s[j])
  <2>1. ASSUME NEW a \in Spanned(q)
        PROVE  \E j \in (1..Len(s)) \ {i} : a \in Bytes(s[j])
    <3>1. PICK k \in 1..Len(q) : a \in Bytes(q[k])
      BY DEF Spanned
    <3>2. q[k] = s[IF k < i THEN k ELSE k + 1]
      BY <1>2, <1>3
    <3>3. QED
      BY <1>4, <3>1, <3>2
  <2>2. QED
    BY <1>5, <2>1 DEF Spanned
<1>8. \A a : a \in Spanned(q) <=> a \in Spanned(s) /\ a \notin Bytes(s[i])
  <2>1. \A j \in (1..Len(s)) \ {i} : Bytes(s[j]) \intersect Bytes(s[i]) = {}
    BY DEF Apart
  <2>2. QED
    BY <1>7, <2>1 DEF Spanned
<1>9. Bytes(s[i]) \subseteq Spanned(s)
  BY DEF Spanned
<1>10. QED
  BY <1>1, <1>6, <1>8, <1>9

LEMMA ApartPrefixed ==
  ASSUME NEW s, Apart(s), NEW r \in Region, Node(r), Bytes(r) \intersect Spanned(s) = {}
  PROVE  Apart(<<r>> \o s) /\ Spanned(<<r>> \o s) = Spanned(s) \union Bytes(r)
<1>1. PICK q : q = <<r>> \o s
  OBVIOUS
<1>2. s \in Seq(Region) /\ Len(s) \in Nat
  BY DEF Apart
<1>3. /\ q \in Seq(Region) /\ Len(q) = Len(s) + 1 /\ q[1] = r
      /\ \A k \in 1..(Len(s) + 1) : k # 1 => k - 1 \in 1..Len(s) /\ q[k] = s[k - 1]
  <2>1. <<r>> \in Seq(Region) /\ Len(<<r>>) = 1 /\ <<r>>[1] = r
    OBVIOUS
  <2>2. /\ q \in Seq(Region) /\ Len(q) = 1 + Len(s)
        /\ \A k \in 1..(1 + Len(s)) : q[k] = IF k <= 1 THEN <<r>>[k] ELSE s[k - 1]
    BY <1>1, <1>2, <2>1, ConcatProperties
  <2>3. QED
    BY <1>2, <2>1, <2>2
<1>4. \A k \in 1..Len(s) : k + 1 \in 1..Len(q) /\ q[k + 1] = s[k]
  <2>1. ASSUME NEW k \in 1..Len(s)
        PROVE  k + 1 \in 1..Len(q) /\ q[k + 1] = s[k]
    <3>1. k + 1 \in 1..(Len(s) + 1) /\ k + 1 # 1 /\ (k + 1) - 1 = k
      BY <1>2
    <3>2. QED
      BY <1>3, <3>1
  <2>2. QED
    BY <2>1
<1>5. \A a : a \in Spanned(q) <=> a \in Bytes(r) \/ a \in Spanned(s)
  <2>1. ASSUME NEW a \in Spanned(q)
        PROVE  a \in Bytes(r) \/ a \in Spanned(s)
    <3>1. PICK k \in 1..(Len(s) + 1) : a \in Bytes(q[k])
      BY <1>3 DEF Spanned
    <3>2. QED
      BY <1>3, <3>1 DEF Spanned
  <2>2. ASSUME NEW a \in Bytes(r)
        PROVE  a \in Spanned(q)
    <3>1. 1 \in 1..Len(q)
      BY <1>2, <1>3
    <3>2. QED
      BY <1>3, <3>1 DEF Spanned
  <2>3. ASSUME NEW a \in Spanned(s)
        PROVE  a \in Spanned(q)
    BY <1>4 DEF Spanned
  <2>4. QED
    BY <2>1, <2>2, <2>3
<1>6. Apart(q)
  <2>1. \A k \in 1..Len(q) : Node(q[k])
    BY <1>3 DEF Apart
  <2>2. ASSUME NEW k \in 1..Len(q), NEW m \in 1..Len(q), k # m
        PROVE  Bytes(q[k]) \intersect Bytes(q[m]) = {}
    <3>1. CASE k = 1
      <4>1. m - 1 \in 1..Len(s) /\ q[m] = s[m - 1] /\ q[k] = r
        BY <1>3, <2>2, <3>1
      <4>2. Bytes(s[m - 1]) \subseteq Spanned(s)
        BY <4>1 DEF Spanned
      <4>3. QED
        BY <4>1, <4>2
    <3>2. CASE m = 1
      <4>1. k - 1 \in 1..Len(s) /\ q[k] = s[k - 1] /\ q[m] = r
        BY <1>3, <2>2, <3>2
      <4>2. Bytes(s[k - 1]) \subseteq Spanned(s)
        BY <4>1 DEF Spanned
      <4>3. QED
        BY <4>1, <4>2
    <3>3. CASE k # 1 /\ m # 1
      <4>1. k - 1 \in 1..Len(s) /\ m - 1 \in 1..Len(s) /\ q[k] = s[k - 1] /\ q[m] = s[m - 1]
        BY <1>3, <3>3
      <4>2. k - 1 # m - 1
        BY <1>2, <1>3, <2>2
      <4>3. QED
        BY <4>1, <4>2 DEF Apart
    <3>4. QED
      BY <3>1, <3>2, <3>3
  <2>3. QED
    BY <1>3, <2>1, <2>2 DEF Apart
<1>7. QED
  BY <1>1, <1>5, <1>6

LEMMA LinkedListAllocKeeps ==
  ASSUME Shape, Working, status = "up", UNCHANGED <<kind, status>>, NEW l \in Layouts, LinkedListAlloc(l)
  PROVE  Shape' /\ Working'
<1>1. kind = "linked_list" /\ kind' = "linked_list" /\ UNCHANGED <<next, allocations, lists, holes>>
  BY DEF LinkedListAlloc, bump, fixed
<1>2. PICK fit : fit = {i \in 1..Len(regions) : alloc_from_region(regions[i], l)}
  OBVIOUS
<1>3. CASE fit = {}
  <2>1. UNCHANGED <<linked, allocated>>
    BY <1>2, <1>3 DEF LinkedListAlloc
  <2>2. QED
    BY <1>1, <2>1, NothingMoves DEF bump, fixed
<1>4. CASE fit # {}
  <2>1. PICK i : i = CHOOSE m \in fit : \A j \in fit : m <= j
    OBVIOUS
  <2>2. i \in fit
    <3>1. fit \subseteq Nat
      BY <1>2
    <3>2. \E m \in fit : \A j \in fit : m <= j
      BY <1>4, <3>1, LeastExists
    <3>3. QED
      BY <2>1, <3>2
  <2>3. PICK r : r = regions[i]
    OBVIOUS
  <2>4. PICK start : start = align_up(r.start, Align(l))
    OBVIOUS
  <2>5. PICK end : end = start + Size(l)
    OBVIOUS
  <2>6. PICK rest : rest = RemoveAt(regions, i)
    OBVIOUS
  <2>7. /\ regions' = IF end < r.start + r.size
                      THEN <<[start |-> end, size |-> (r.start + r.size) - end]>> \o rest
                      ELSE rest
        /\ lost' = lost \union (r.start..(start - 1))
        /\ Give(l, start)
    BY <1>2, <1>4, <2>1, <2>3, <2>4, <2>5, <2>6 DEF LinkedListAlloc
  <2>8. Apart(regions) /\ i \in 1..Len(regions) /\ alloc_from_region(r, l) /\ Request(l)
    BY <1>1, <1>2, <2>2, <2>3, Requests DEF Working, Regions
  <2>9. r.start \in Nat /\ r.size \in Nat /\ r.start % Word = 0
    <3>1. r \in Region /\ Node(r)
      BY <2>3, <2>8, ElementOfSeq DEF Apart
    <3>2. QED
      BY <3>1 DEF Region, Node
  <2>10. /\ Align(l) \in Nat \ {0} /\ Size(l) \in Nat \ {0}
         /\ start \in Nat /\ start >= r.start /\ start % Align(l) = 0
    BY <2>4, <2>8, <2>9, AlignUp, LinkedSizes
  <2>11. start % Word = 0 /\ start % l.align = 0 /\ Size(l) % Word = 0 /\ Word \in Nat \ {0}
    BY <2>8, <2>10, Divides, LinkedSizes, Constants DEF Request
  <2>12. end \in Nat /\ end % Word = 0
    BY <2>5, <2>10, <2>11, SumDivides
  <2>13. end <= r.start + r.size /\ ((r.start + r.size) - end = 0 \/ (r.start + r.size) - end >= size_of_ListNode)
    BY <2>4, <2>5, <2>8 DEF alloc_from_region
  <2>14. Apart(rest) /\ Spanned(rest) = Spanned(regions) \ Bytes(r) /\ Bytes(r) \subseteq Spanned(regions)
    BY <2>3, <2>6, <2>8, ApartRemoved
  <2>15. /\ Apart(regions')
         /\ \A a : a \in Spanned(regions') <=> a \in Spanned(rest) \/ a \in end..((r.start + r.size) - 1)
    <3>1. CASE end < r.start + r.size
      <4>1. PICK e : e = [start |-> end, size |-> (r.start + r.size) - end]
        OBVIOUS
      <4>2. e \in Region /\ Node(e) /\ Bytes(e) = end..((r.start + r.size) - 1)
        BY <2>9, <2>12, <2>13, <3>1, <4>1 DEF Region, Node, Bytes
      <4>3. Bytes(e) \subseteq Bytes(r)
        <5>1. Bytes(r) = r.start..((r.start + r.size) - 1)
          BY <2>9 DEF Bytes
        <5>2. r.start <= end
          BY <2>5, <2>9, <2>10
        <5>3. QED
          BY <2>9, <2>12, <4>2, <5>1, <5>2
      <4>4. regions' = <<e>> \o rest /\ Bytes(e) \intersect Spanned(rest) = {}
        BY <2>7, <2>14, <3>1, <4>1, <4>3
      <4>5. QED
        BY <2>14, <4>2, <4>4, ApartPrefixed
    <3>2. CASE ~(end < r.start + r.size)
      <4>1. regions' = rest /\ end = r.start + r.size
        BY <2>7, <2>9, <2>12, <2>13, <3>2
      <4>2. end..((r.start + r.size) - 1) = {}
        BY <2>12, <4>1
      <4>3. QED
        BY <2>14, <4>1, <4>2
    <3>3. QED
      BY <3>1, <3>2
  <2>16. \A a : (a \in Free <=> a \in Spanned(regions)) /\ (a \in Free' <=> a \in Spanned(regions'))
    BY <1>1, FreeIs DEF Gathered
  <2>17. Taken(l) = Size(l) /\ (start + Taken(l)) - 1 = end - 1
    BY <1>1, <2>5 DEF Taken
  <2>18. /\ Free \intersect lost = {}
         /\ \A a : a \in Bytes(r) <=> \/ a \in r.start..(start - 1) \/ a \in start..(end - 1)
                                      \/ a \in end..((r.start + r.size) - 1)
    BY <2>5, <2>9, <2>10, <2>12, <2>13 DEF Working, Covered, Bytes
  <2>19. /\ start..(start + Taken(l) - 1) = start..(end - 1)
         /\ r.start..(start - 1) \intersect start..(end - 1) = {}
         /\ r.start..(start - 1) \intersect end..((r.start + r.size) - 1) = {}
         /\ start..(end - 1) \intersect end..((r.start + r.size) - 1) = {}
    BY <2>5, <2>9, <2>10, <2>12, <2>17
  <2>20. /\ start..(start + Taken(l) - 1) \subseteq Free \ (Free' \union lost')
         /\ Free' \subseteq Free \ lost' /\ lost \subseteq lost' /\ lost' \subseteq lost \union Free
         /\ Free \subseteq Free' \union (start..(start + Taken(l) - 1)) \union lost'
    BY <2>7, <2>14, <2>15, <2>16, <2>18, <2>19
  <2>21. Objects' /\ Covered'
    BY <1>1, <2>7, <2>10, <2>11, <2>20, Given DEF Working
  <2>22. Bumped' /\ Regions' /\ Blocks'
    BY <1>1, <2>15 DEF Bumped, Regions, Blocks, Apart
  <2>23. Shape'
    <3>1. lost' \subseteq Nat
      <4>1. r.start..(start - 1) \subseteq Nat /\ lost \subseteq Nat
        BY <2>9, <2>10 DEF Shape
      <4>2. QED
        BY <2>7, <4>1
    <3>2. IsFiniteSet(allocated')
      BY <2>7, FS_AddElement DEF Shape, Give
    <3>3. QED
      BY <1>1, <2>15, <3>1, <3>2 DEF Shape, Apart
  <2>24. QED
    BY <2>21, <2>22, <2>23 DEF Working
<1>5. QED
  BY <1>3, <1>4

LEMMA LinkedListDeallocKeeps ==
  ASSUME Shape, Working, status = "up", UNCHANGED <<kind, status>>,
         NEW o \in allocated, allocated' = allocated \ {o}, LinkedListDealloc(o)
  PROVE  Shape' /\ Working'
<1>1. /\ kind = "linked_list" /\ kind' = "linked_list" /\ UNCHANGED <<next, allocations, lost, lists, holes>>
      /\ regions' = <<[start |-> o.start, size |-> Size(o)]>> \o regions
  BY DEF LinkedListDealloc, bump, fixed
<1>2. IsObject(o) /\ Apart(regions)
  BY <1>1 DEF Working, Objects, Regions
<1>3. Request(o) /\ o.start \in Nat /\ o.start % Word = 0
  BY <1>1, <1>2, Requests DEF IsObject
<1>4. PICK r : r = [start |-> o.start, size |-> Size(o)]
  OBVIOUS
<1>5. r \in Region /\ Node(r) /\ Bytes(r) = Reserved(o)
  <2>1. Size(o) \in Nat \ {0} /\ Size(o) >= size_of_ListNode /\ Taken(o) = Size(o)
    BY <1>1, <1>3, LinkedSizes, Constants DEF Taken
  <2>2. QED
    BY <1>3, <1>4, <2>1 DEF Region, Node, Bytes, Reserved
<1>6. \A a : (a \in Free <=> a \in Spanned(regions)) /\ (a \in Free' <=> a \in Spanned(regions'))
  BY <1>1, FreeIs DEF Gathered
<1>7. Reserved(o) \intersect Spanned(regions) = {}
  BY <1>2, <1>6 DEF IsObject
<1>8. Apart(regions') /\ Spanned(regions') = Spanned(regions) \union Reserved(o)
  BY <1>1, <1>2, <1>4, <1>5, <1>7, ApartPrefixed
<1>9. Free' = Free \union Reserved(o)
  BY <1>6, <1>8
<1>10. Free' \subseteq Addresses \ lost /\ \A p \in allocated' : Free' \intersect Reserved(p) = {}
  BY <1>2, <1>9 DEF Working, Covered, Objects, IsObject
<1>11. Objects' /\ Covered'
  BY <1>1, <1>9, <1>10, Returned DEF Working
<1>12. Bumped' /\ Regions' /\ Blocks'
  BY <1>1, <1>8 DEF Bumped, Regions, Blocks, Apart
<1>13. Shape'
  <2>1. IsFiniteSet(allocated')
    BY FS_RemoveElement DEF Shape
  <2>2. QED
    BY <1>1, <1>8, <2>1 DEF Shape, Apart
<1>14. QED
  BY <1>11, <1>12, <1>13 DEF Working
-----------------------------------------------------------------------------
(* The fallback takes an aligned place out of the holes.                   *)
LEMMA FallbackKeeps ==
  ASSUME Shape, Working, status = "up", UNCHANGED <<kind, status, bump, linked>>,
         kind = "fixed_size_block", NEW l \in Layouts, NEW size, NEW align \in Alignments,
         fallback_alloc(l, size, align), Taken(l) = HoleSize(size), align \in Nat \ {0},
         align % l.align = 0, list_index(l) # 0 => align % list_index(l) = 0
  PROVE  Shape' /\ Working'
<1>1. UNCHANGED <<kind, next, allocations, regions, lost, lists>>
  BY DEF fallback_alloc, bump, linked
<1>2. CASE Places(size, align) = {}
  <2>1. UNCHANGED <<holes, allocated>>
    BY <1>2 DEF fallback_alloc
  <2>2. QED
    BY <1>1, <2>1, NothingMoves DEF fixed
<1>3. CASE Places(size, align) # {}
  <2>1. PICK s \in Places(size, align) : holes' = holes \ (s..(s + HoleSize(size) - 1)) /\ Give(l, s)
    BY <1>3 DEF fallback_alloc
  <2>2. /\ s \in Nat /\ s..(s + HoleSize(size) - 1) \subseteq holes
        /\ align_up(s, Max2(align, Word)) = s
    BY DEF Places, Shape
  <2>3. PICK m \in Nat \ {0} : m = Max2(align, Word) /\ m >= align /\ m \in Alignments
    BY MaxOf, Constants, Requests
  <2>4. s % m = 0 /\ m % align = 0
    BY <2>2, <2>3, AlignUp, Chain
  <2>5. s % align = 0
    BY <2>2, <2>3, <2>4, Divides
  <2>6. Request(l) /\ l.align \in Nat \ {0}
    BY Requests DEF Request
  <2>7. s % l.align = 0 /\ (list_index(l) # 0 => s % list_index(l) = 0)
    BY <2>2, <2>5, <2>6, Divides, Index
  <2>8. PICK R : R = s..(s + Taken(l) - 1)
    OBVIOUS
  <2>9. R \subseteq holes /\ holes' = holes \ R
    BY <2>1, <2>2, <2>8
  <2>10. \A b, i : Block(b, i)' = Block(b, i)
    BY <1>1 DEF Block
  <2>11. \A b \in BLOCK_SIZES : \A i \in 1..Len(lists[b]) : Block(b, i) \intersect holes = {}
    BY DEF Working, Blocks
  <2>12. Free' = Free \ R /\ R \subseteq Free
    <3>1. \A a : a \in Free <=> a \in holes \/ \E b \in BLOCK_SIZES : \E i \in 1..Len(lists[b]) : a \in Block(b, i)
      BY FreeIs DEF Gathered
    <3>2. \A a : a \in Free' <=> a \in holes' \/ \E b \in BLOCK_SIZES : \E i \in 1..Len(lists[b]) : a \in Block(b, i)
      BY <1>1, <2>10, FreeIs DEF Gathered
    <3>3. QED
      BY <2>9, <2>11, <3>1, <3>2
  <2>13. /\ s..(s + Taken(l) - 1) \subseteq Free \ (Free' \union lost')
         /\ Free' \subseteq Free \ lost' /\ lost' = lost
         /\ Free \subseteq Free' \union (s..(s + Taken(l) - 1)) \union lost'
    BY <1>1, <2>8, <2>12 DEF Working, Covered
  <2>14. Objects' /\ Covered'
    BY <1>1, <2>1, <2>2, <2>7, <2>13, Given DEF Working, Shape
  <2>15. Blocks'
    BY <1>1, <2>9, <2>10 DEF Working, Blocks
  <2>16. Bumped' /\ Regions'
    BY <1>1 DEF Working, Bumped, Regions
  <2>17. Shape'
    <3>1. IsFiniteSet(allocated')
      BY <2>1, FS_AddElement DEF Shape, Give
    <3>2. QED
      BY <1>1, <2>9, <3>1 DEF Shape
  <2>18. QED
    BY <2>14, <2>15, <2>16, <2>17 DEF Working
<1>4. QED
  BY <1>2, <1>3

(* A block leaves its list for an object of its size.                      *)
LEMMA PopKeeps ==
  ASSUME Shape, Working, status = "up", UNCHANGED <<kind, status, bump, linked, holes>>,
         kind = "fixed_size_block", NEW l \in Layouts, NEW b \in BLOCK_SIZES, b = list_index(l), b # 0,
         lists[b] # <<>>, lists' = [lists EXCEPT ![b] = Tail(@)], Give(l, Head(lists[b]))
  PROVE  Shape' /\ Working'
<1>1. UNCHANGED <<kind, next, allocations, regions, lost, holes>>
  BY DEF bump, linked
<1>2. lists \in [BLOCK_SIZES -> Seq(Nat)] /\ Blocks
  BY DEF Shape, Working
<1>3. /\ Tail(lists[b]) \in Seq(Nat) /\ Len(Tail(lists[b])) = Len(lists[b]) - 1
      /\ \A j \in 1..Len(Tail(lists[b])) : Tail(lists[b])[j] = lists[b][j + 1]
      /\ 1 \in 1..Len(lists[b]) /\ Head(lists[b]) = lists[b][1] /\ lists[b][1] \in Nat
      /\ \A c \in BLOCK_SIZES : Len(lists[c]) \in Nat
  <2>1. lists[b] \in Seq(Nat) /\ Len(lists[b]) \in Nat /\ Len(lists[b]) # 0
    BY <1>2, EmptySeq
  <2>2. QED
    BY <1>2, <2>1, HeadTailProperties
<1>4. lists' \in [BLOCK_SIZES -> Seq(Nat)] /\ lists'[b] = Tail(lists[b])
      /\ \A c \in BLOCK_SIZES : c # b => lists'[c] = lists[c]
  BY <1>2, <1>3
<1>5. ASSUME NEW c \in BLOCK_SIZES, NEW j \in 1..Len(lists'[c])
      PROVE  \E k \in 1..Len(lists[c]) : /\ k = IF c = b THEN j + 1 ELSE j
                                         /\ lists'[c][j] = lists[c][k] /\ Block(c, j)' = Block(c, k)
  <2>1. PICK k : k = IF c = b THEN j + 1 ELSE j
    OBVIOUS
  <2>2. k \in 1..Len(lists[c]) /\ lists'[c][j] = lists[c][k]
    BY <1>3, <1>4, <2>1
  <2>3. QED
    BY <2>1, <2>2 DEF Block
<1>6. ASSUME NEW c \in BLOCK_SIZES, NEW k \in 1..Len(lists[c]), c # b \/ k # 1
      PROVE  \E j \in 1..Len(lists'[c]) : Block(c, j)' = Block(c, k)
  <2>1. PICK j : j = IF c = b THEN k - 1 ELSE k
    OBVIOUS
  <2>2. j \in 1..Len(lists'[c]) /\ lists'[c][j] = lists[c][k]
    <3>1. CASE c = b
      <4>1. j \in 1..Len(Tail(lists[b])) /\ j + 1 = k
        BY <1>3, <1>6, <2>1, <3>1
      <4>2. QED
        BY <1>3, <1>4, <3>1, <4>1
    <3>2. CASE c # b
      BY <1>4, <2>1, <3>2
    <3>3. QED
      BY <3>1, <3>2
  <2>3. QED
    BY <2>2 DEF Block
<1>7. Blocks'
  <2>1. ASSUME NEW c \in BLOCK_SIZES, NEW j \in 1..Len(lists'[c])
        PROVE  lists'[c][j] % c = 0 /\ Block(c, j)' \intersect holes' = {}
    BY <1>1, <1>2, <1>5 DEF Blocks
  <2>2. ASSUME NEW c \in BLOCK_SIZES, NEW d \in BLOCK_SIZES,
               NEW i \in 1..Len(lists'[c]), NEW j \in 1..Len(lists'[d]), c # d \/ i # j
        PROVE  Block(c, i)' \intersect Block(d, j)' = {}
    <3>1. PICK k \in 1..Len(lists[c]) : k = (IF c = b THEN i + 1 ELSE i) /\ Block(c, i)' = Block(c, k)
      BY <1>5
    <3>2. PICK m \in 1..Len(lists[d]) : m = (IF d = b THEN j + 1 ELSE j) /\ Block(d, j)' = Block(d, m)
      BY <1>5
    <3>3. c # d \/ k # m
      BY <1>3, <1>4, <2>2, <3>1, <3>2
    <3>4. QED
      BY <1>2, <3>1, <3>2, <3>3 DEF Blocks
  <2>3. QED
    BY <1>1, <2>1, <2>2 DEF Blocks
<1>8. PICK R : R = Block(b, 1)
  OBVIOUS
<1>9. R = lists[b][1]..(lists[b][1] + Taken(l) - 1)
  BY <1>8 DEF Taken, Block
<1>10. Free' = Free \ R /\ R \subseteq Free
  <2>1. \A a : a \in Free <=> a \in holes \/ \E c \in BLOCK_SIZES : \E k \in 1..Len(lists[c]) : a \in Block(c, k)
    BY FreeIs DEF Gathered
  <2>2. \A a : a \in Free' <=> a \in holes \/ \E c \in BLOCK_SIZES : \E j \in 1..Len(lists'[c]) : a \in Block(c, j)'
    BY <1>1, FreeIs DEF Gathered
  <2>3. R \subseteq Free /\ R \intersect holes = {}
    BY <1>2, <1>3, <1>8, <2>1 DEF Blocks
  <2>4. ASSUME NEW c \in BLOCK_SIZES, NEW j \in 1..Len(lists'[c])
        PROVE  Block(c, j)' \subseteq Free \ R
    <3>1. PICK k \in 1..Len(lists[c]) : k = (IF c = b THEN j + 1 ELSE j) /\ Block(c, j)' = Block(c, k)
      BY <1>5
    <3>2. c # b \/ k # 1
      BY <1>3, <1>4, <3>1
    <3>3. Block(c, k) \intersect R = {}
      BY <1>2, <1>3, <1>8, <3>2 DEF Blocks
    <3>4. QED
      BY <2>1, <3>1, <3>3
  <2>5. ASSUME NEW c \in BLOCK_SIZES, NEW k \in 1..Len(lists[c])
        PROVE  Block(c, k) \subseteq R \union Free'
    BY <1>6, <1>8, <2>2
  <2>6. QED
    BY <2>1, <2>2, <2>3, <2>4, <2>5
<1>11. /\ lists[b][1] % b = 0 /\ b % l.align = 0 /\ b \in Nat \ {0} /\ l.align \in Nat \ {0}
  BY <1>2, <1>3, Index, Requests DEF Blocks, Request
<1>12. lists[b][1] % l.align = 0
  BY <1>3, <1>11, Divides
<1>13. PICK s \in Nat : s = lists[b][1]
  BY <1>3
<1>14. /\ s..(s + Taken(l) - 1) \subseteq Free \ (Free' \union lost')
       /\ Free' \subseteq Free \ lost' /\ lost' = lost /\ Give(l, s)
       /\ Free \subseteq Free' \union (s..(s + Taken(l) - 1)) \union lost'
  BY <1>1, <1>3, <1>9, <1>10, <1>13 DEF Working, Covered
<1>15. Objects' /\ Covered'
  BY <1>1, <1>11, <1>12, <1>13, <1>14, Given DEF Working, Shape
<1>16. Bumped' /\ Regions'
  BY <1>1 DEF Working, Bumped, Regions
<1>17. Shape'
  <2>1. IsFiniteSet(allocated')
    BY FS_AddElement DEF Shape, Give
  <2>2. QED
    BY <1>1, <1>4, <2>1 DEF Shape
<1>18. QED
  BY <1>7, <1>15, <1>16, <1>17 DEF Working

(* An object's block goes to the front of the list of its size.            *)
LEMMA PushKeeps ==
  ASSUME Shape, Working, status = "up", UNCHANGED <<kind, status, bump, linked, holes>>,
         kind = "fixed_size_block", NEW o \in allocated, allocated' = allocated \ {o},
         NEW b \in BLOCK_SIZES, b = list_index(o), b # 0,
         lists' = [lists EXCEPT ![b] = <<o.start>> \o @]
  PROVE  Shape' /\ Working'
<1>1. UNCHANGED <<kind, next, allocations, regions, lost, holes>>
  BY DEF bump, linked
<1>2. lists \in [BLOCK_SIZES -> Seq(Nat)] /\ Blocks /\ IsObject(o)
  BY DEF Shape, Working, Objects
<1>3. o.start \in Nat /\ o.start % b = 0
  BY <1>2 DEF IsObject
<1>4. PICK q : q = <<o.start>> \o lists[b]
  OBVIOUS
<1>5. /\ q \in Seq(Nat) /\ Len(q) = Len(lists[b]) + 1 /\ q[1] = o.start
      /\ \A k \in 1..(Len(lists[b]) + 1) : k # 1 => k - 1 \in 1..Len(lists[b]) /\ q[k] = lists[b][k - 1]
      /\ \A c \in BLOCK_SIZES : Len(lists[c]) \in Nat
  <2>1. <<o.start>> \in Seq(Nat) /\ Len(<<o.start>>) = 1 /\ <<o.start>>[1] = o.start
    BY <1>3
  <2>2. lists[b] \in Seq(Nat) /\ \A c \in BLOCK_SIZES : Len(lists[c]) \in Nat
    BY <1>2
  <2>3. /\ q \in Seq(Nat) /\ Len(q) = 1 + Len(lists[b])
        /\ \A k \in 1..(1 + Len(lists[b])) : q[k] = IF k <= 1 THEN <<o.start>>[k] ELSE lists[b][k - 1]
    BY <1>4, <2>1, <2>2, ConcatProperties
  <2>4. QED
    BY <2>1, <2>2, <2>3
<1>6. lists' \in [BLOCK_SIZES -> Seq(Nat)] /\ lists'[b] = q
      /\ \A c \in BLOCK_SIZES : c # b => lists'[c] = lists[c]
  BY <1>2, <1>4, <1>5
<1>7. PICK R : R = Reserved(o)
  OBVIOUS
<1>8. R = o.start..(o.start + HoleSize(b) - 1)
  BY <1>7 DEF Reserved, Taken
<1>9. 1 \in 1..Len(lists'[b]) /\ Block(b, 1)' = R
  BY <1>5, <1>6, <1>8 DEF Block
<1>10. ASSUME NEW c \in BLOCK_SIZES, NEW j \in 1..Len(lists'[c]), c # b \/ j # 1
       PROVE  \E k \in 1..Len(lists[c]) : /\ k = IF c = b THEN j - 1 ELSE j
                                          /\ lists'[c][j] = lists[c][k] /\ Block(c, j)' = Block(c, k)
  <2>1. PICK k : k = IF c = b THEN j - 1 ELSE j
    OBVIOUS
  <2>2. k \in 1..Len(lists[c]) /\ lists'[c][j] = lists[c][k]
    BY <1>5, <1>6, <1>10, <2>1
  <2>3. QED
    BY <2>1, <2>2 DEF Block
<1>11. ASSUME NEW c \in BLOCK_SIZES, NEW k \in 1..Len(lists[c])
       PROVE  \E j \in 1..Len(lists'[c]) : Block(c, j)' = Block(c, k)
  <2>1. PICK j : j = IF c = b THEN k + 1 ELSE k
    OBVIOUS
  <2>2. j \in 1..Len(lists'[c]) /\ lists'[c][j] = lists[c][k]
    <3>1. CASE c = b
      <4>1. j \in 1..(Len(lists[b]) + 1) /\ j # 1 /\ j - 1 = k
        BY <1>5, <2>1, <3>1
      <4>2. QED
        BY <1>5, <1>6, <3>1, <4>1
    <3>2. CASE c # b
      BY <1>6, <2>1, <3>2
    <3>3. QED
      BY <3>1, <3>2
  <2>3. QED
    BY <2>2 DEF Block
<1>12. \A a : a \in Free <=> a \in holes \/ \E c \in BLOCK_SIZES : \E k \in 1..Len(lists[c]) : a \in Block(c, k)
  BY FreeIs DEF Gathered
<1>13. \A a : a \in Free' <=> a \in holes \/ \E c \in BLOCK_SIZES : \E j \in 1..Len(lists'[c]) : a \in Block(c, j)'
  BY <1>1, FreeIs DEF Gathered
<1>14. R \intersect Free = {}
  BY <1>2, <1>7 DEF IsObject
<1>15. \A c \in BLOCK_SIZES : \A k \in 1..Len(lists[c]) : Block(c, k) \intersect R = {}
  BY <1>12, <1>14
<1>16. Blocks'
  <2>1. ASSUME NEW c \in BLOCK_SIZES, NEW j \in 1..Len(lists'[c])
        PROVE  lists'[c][j] % c = 0 /\ Block(c, j)' \intersect holes' = {}
    <3>1. CASE c = b /\ j = 1
      <4>1. lists'[c][j] = o.start /\ Block(c, j)' = R
        BY <1>5, <1>6, <1>9, <3>1
      <4>2. R \intersect holes = {}
        BY <1>12, <1>14
      <4>3. QED
        BY <1>1, <1>3, <3>1, <4>1, <4>2
    <3>2. CASE c # b \/ j # 1
      BY <1>1, <1>2, <1>10, <3>2 DEF Blocks
    <3>3. QED
      BY <3>1, <3>2
  <2>2. ASSUME NEW c \in BLOCK_SIZES, NEW d \in BLOCK_SIZES,
               NEW i \in 1..Len(lists'[c]), NEW j \in 1..Len(lists'[d]), c # d \/ i # j
        PROVE  Block(c, i)' \intersect Block(d, j)' = {}
    <3>1. CASE c = b /\ i = 1
      <4>1. PICK m \in 1..Len(lists[d]) : Block(d, j)' = Block(d, m)
        BY <1>10, <2>2, <3>1
      <4>2. QED
        BY <1>9, <1>15, <3>1, <4>1
    <3>2. CASE d = b /\ j = 1
      <4>1. PICK m \in 1..Len(lists[c]) : Block(c, i)' = Block(c, m)
        BY <1>10, <2>2, <3>2
      <4>2. QED
        BY <1>9, <1>15, <3>2, <4>1
    <3>3. CASE (c # b \/ i # 1) /\ (d # b \/ j # 1)
      <4>1. PICK k \in 1..Len(lists[c]) : k = (IF c = b THEN i - 1 ELSE i) /\ Block(c, i)' = Block(c, k)
        BY <1>10, <3>3
      <4>2. PICK m \in 1..Len(lists[d]) : m = (IF d = b THEN j - 1 ELSE j) /\ Block(d, j)' = Block(d, m)
        BY <1>10, <3>3
      <4>3. c # d \/ k # m
        BY <1>5, <1>6, <2>2, <4>1, <4>2
      <4>4. Block(c, k) \intersect Block(d, m) = {}
        BY <1>2, <4>1, <4>2, <4>3 DEF Blocks
      <4>5. QED
        BY <4>1, <4>2, <4>4, Zenon
    <3>4. QED
      BY <3>1, <3>2, <3>3
  <2>3. QED
    BY <1>1, <2>1, <2>2 DEF Blocks
<1>17. Free' = Free \union R
  <2>1. ASSUME NEW c \in BLOCK_SIZES, NEW j \in 1..Len(lists'[c])
        PROVE  Block(c, j)' \subseteq Free \union R
    BY <1>9, <1>10, <1>12
  <2>2. ASSUME NEW c \in BLOCK_SIZES, NEW k \in 1..Len(lists[c])
        PROVE  Block(c, k) \subseteq Free'
    BY <1>11, <1>13
  <2>3. R \subseteq Free'
    BY <1>9, <1>13
  <2>4. QED
    BY <1>12, <1>13, <2>1, <2>2, <2>3
<1>18. Free' \subseteq Addresses \ lost /\ \A p \in allocated' : Free' \intersect Reserved(p) = {}
  BY <1>2, <1>7, <1>17 DEF Working, Covered, Objects, IsObject
<1>19. Objects' /\ Covered'
  BY <1>1, <1>7, <1>17, <1>18, Returned DEF Working
<1>20. Bumped' /\ Regions'
  BY <1>1 DEF Working, Bumped, Regions
<1>21. Shape'
  <2>1. IsFiniteSet(allocated')
    BY FS_RemoveElement DEF Shape
  <2>2. QED
    BY <1>1, <1>6, <2>1 DEF Shape
<1>22. QED
  BY <1>16, <1>19, <1>20, <1>21 DEF Working

(* An object larger than every block goes back to the fallback's holes.    *)
LEMMA FillKeeps ==
  ASSUME Shape, Working, status = "up", UNCHANGED <<kind, status, bump, linked, lists>>,
         kind = "fixed_size_block", NEW o \in allocated, allocated' = allocated \ {o},
         list_index(o) = 0, holes' = holes \union (o.start..(o.start + HoleSize(o.size) - 1))
  PROVE  Shape' /\ Working'
<1>1. UNCHANGED <<kind, next, allocations, regions, lost, lists>>
  BY DEF bump, linked
<1>2. IsObject(o) /\ Blocks /\ o.start \in Nat
  BY DEF Working, Objects, IsObject
<1>3. PICK R : R = Reserved(o)
  OBVIOUS
<1>4. holes' = holes \union R
  BY <1>3 DEF Reserved, Taken
<1>5. \A b, i : Block(b, i)' = Block(b, i)
  BY <1>1 DEF Block
<1>6. \A a : a \in Free <=> a \in holes \/ \E c \in BLOCK_SIZES : \E k \in 1..Len(lists[c]) : a \in Block(c, k)
  BY FreeIs DEF Gathered
<1>7. \A a : a \in Free' <=> a \in holes' \/ \E c \in BLOCK_SIZES : \E k \in 1..Len(lists[c]) : a \in Block(c, k)
  BY <1>1, <1>5, FreeIs DEF Gathered
<1>8. Free' = Free \union R /\ R \intersect Free = {} /\ R \subseteq Addresses
  BY <1>2, <1>3, <1>4, <1>6, <1>7 DEF IsObject
<1>9. Blocks'
  <2>1. ASSUME NEW c \in BLOCK_SIZES, NEW k \in 1..Len(lists[c])
        PROVE  Block(c, k) \intersect holes' = {}
    BY <1>2, <1>4, <1>6, <1>8 DEF Blocks
  <2>2. QED
    BY <1>1, <1>2, <1>5, <2>1 DEF Blocks
<1>10. Free' \subseteq Addresses \ lost /\ \A p \in allocated' : Free' \intersect Reserved(p) = {}
  BY <1>2, <1>3, <1>8 DEF Working, Covered, Objects, IsObject
<1>11. Objects' /\ Covered'
  BY <1>1, <1>3, <1>8, <1>10, Returned DEF Working
<1>12. Bumped' /\ Regions'
  BY <1>1 DEF Working, Bumped, Regions
<1>13. Shape'
  <2>1. IsFiniteSet(allocated') /\ holes' \subseteq Nat
    BY <1>4, <1>8, FS_RemoveElement, Constants DEF Shape
  <2>2. QED
    BY <1>1, <2>1 DEF Shape
<1>14. QED
  BY <1>9, <1>11, <1>12, <1>13 DEF Working

LEMMA FixedSizeAllocKeeps ==
  ASSUME Shape, Working, status = "up", UNCHANGED <<kind, status>>, NEW l \in Layouts, FixedSizeAlloc(l)
  PROVE  Shape' /\ Working'
<1>1. kind = "fixed_size_block" /\ UNCHANGED <<bump, linked>> /\ Request(l)
  BY Requests DEF FixedSizeAlloc
<1>2. PICK b : b = list_index(l)
  OBVIOUS
<1>3. CASE b = 0
  <2>1. fallback_alloc(l, l.size, l.align)
    BY <1>2, <1>3 DEF FixedSizeAlloc
  <2>2. Taken(l) = HoleSize(l.size) /\ l.align \in Alignments /\ l.align \in Nat \ {0} /\ l.align % l.align = 0
    BY <1>1, <1>2, <1>3, Chain DEF Taken, Request
  <2>3. QED
    BY <1>1, <1>2, <1>3, <2>1, <2>2, FallbackKeeps
<1>4. CASE b # 0
  <2>1. b \in BLOCK_SIZES /\ b \in Nat \ {0} /\ b % l.align = 0 /\ b \in Alignments
    BY <1>1, <1>2, <1>4, Index, Requests
  <2>2. CASE lists[b] = <<>>
    <3>1. fallback_alloc(l, b, b)
      BY <1>2, <1>4, <2>2 DEF FixedSizeAlloc
    <3>2. Taken(l) = HoleSize(b) /\ b % b = 0
      BY <1>1, <1>2, <1>4, <2>1, Chain DEF Taken
    <3>3. QED
      BY <1>1, <1>2, <2>1, <3>1, <3>2, FallbackKeeps
  <2>3. CASE lists[b] # <<>>
    <3>1. lists' = [lists EXCEPT ![b] = Tail(@)] /\ Give(l, Head(lists[b])) /\ UNCHANGED holes
      BY <1>2, <1>4, <2>3 DEF FixedSizeAlloc
    <3>2. QED
      BY <1>1, <1>2, <1>4, <2>1, <2>3, <3>1, PopKeeps
  <2>4. QED
    BY <2>2, <2>3
<1>5. QED
  BY <1>3, <1>4

LEMMA FixedSizeDeallocKeeps ==
  ASSUME Shape, Working, status = "up", UNCHANGED <<kind, status>>,
         NEW o \in allocated, allocated' = allocated \ {o}, FixedSizeDealloc(o)
  PROVE  Shape' /\ Working'
<1>1. kind = "fixed_size_block" /\ UNCHANGED <<bump, linked>>
  BY DEF FixedSizeDealloc
<1>2. PICK b : b = list_index(o)
  OBVIOUS
<1>3. CASE b = 0
  <2>1. holes' = holes \union (o.start..(o.start + HoleSize(o.size) - 1)) /\ UNCHANGED lists
    BY <1>2, <1>3 DEF FixedSizeDealloc
  <2>2. QED
    BY <1>1, <1>2, <1>3, <2>1, FillKeeps
<1>4. CASE b # 0
  <2>1. lists' = [lists EXCEPT ![b] = <<o.start>> \o @] /\ UNCHANGED holes
    BY <1>2, <1>4 DEF FixedSizeDealloc
  <2>2. Request(o)
    BY Requests DEF Working, Objects, IsObject
  <2>3. b \in BLOCK_SIZES
    BY <1>2, <1>4, <2>2, Index
  <2>4. QED
    BY <1>1, <1>2, <1>4, <2>1, <2>3, PushKeeps
<1>5. QED
  BY <1>3, <1>4
-----------------------------------------------------------------------------
LEMMA HeapInit == Init => HeapInv
<1> SUFFICES ASSUME Init
             PROVE  HeapInv
  OBVIOUS
<1>1. Shape
  <2>1. regions \in Seq(Region) /\ lists \in [BLOCK_SIZES -> Seq(Nat)]
    BY EmptySeq DEF Init
  <2>2. QED
    BY <2>1, FS_EmptySet DEF Init, Shape
<1>2. pages \in Seq(Nat) /\ status # "up"
  BY EmptySeq DEF Init
<1>3. QED
  BY <1>1, <1>2 DEF HeapInv, Mapped

(* After the last page the whole heap is free.                             *)
LEMMA HeapComesUp ==
  ASSUME Shape, status # "up", kind' = kind, allocated' = allocated, next' = HEAP_START,
         UNCHANGED <<allocations, lost, lists>>,
         regions' = <<[start |-> HEAP_START, size |-> HEAP_SIZE]>>, holes' = Addresses, status' = "up"
  PROVE  Shape' /\ Working'
<1>1. /\ allocated' = {} /\ allocations' = 0 /\ lost' = {} /\ lists' = [b \in BLOCK_SIZES |-> <<>>]
      /\ kind' \in {"bump", "linked_list", "fixed_size_block"}
  BY DEF Shape
<1>2. PICK r : r = [start |-> HEAP_START, size |-> HEAP_SIZE]
  OBVIOUS
<1>3. r \in Region /\ Node(r) /\ Bytes(r) = Addresses
  BY <1>2, Constants DEF Region, Node, Bytes
<1>4. regions' = <<r>> /\ Len(regions') = 1 /\ regions'[1] = r /\ regions' \in Seq(Region)
  BY <1>2, <1>3
<1>5. Apart(regions')
  BY <1>3, <1>4 DEF Apart
<1>6. Spanned(regions') = Addresses
  BY <1>3, <1>4 DEF Spanned
<1>7. \A b \in BLOCK_SIZES : lists'[b] = <<>> /\ Len(lists'[b]) = 0
  BY <1>1
<1>8. Free' = Addresses
  <2>1. CASE kind' = "bump"
    <3>1. \A a : a \in Free' <=> a \in next'..(heap_end - 1)
      BY <2>1, FreeIs DEF Gathered
    <3>2. QED
      BY <3>1, Constants
  <2>2. CASE kind' = "linked_list"
    <3>1. \A a : a \in Free' <=> a \in Spanned(regions')
      BY <2>2, FreeIs DEF Gathered
    <3>2. QED
      BY <1>6, <3>1
  <2>3. CASE kind' = "fixed_size_block"
    <3>1. \A a : a \in Free' <=> \/ a \in holes'
                               \/ \E b \in BLOCK_SIZES : \E i \in 1..Len(lists'[b]) : a \in Block(b, i)'
      BY <2>3, FreeIs DEF Gathered
    <3>2. \A a : a \in Free' <=> a \in Addresses
      BY <1>7, <3>1
    <3>3. QED
      BY <3>2
  <2>4. QED
    BY <1>1, <2>1, <2>2, <2>3
<1>9. Objects' /\ Covered'
  BY <1>1, <1>8 DEF Objects, Covered
<1>10. Bumped'
  BY <1>1, FS_EmptySet, Constants DEF Bumped
<1>11. Regions' /\ Blocks'
  BY <1>3, <1>4, <1>5, <1>7 DEF Regions, Blocks
<1>12. Shape'
  <2>1. lists' \in [BLOCK_SIZES -> Seq(Nat)]
    BY <1>1, EmptySeq
  <2>2. QED
    BY <1>1, <1>4, <2>1, FS_EmptySet, Constants DEF Shape
<1>13. QED
  BY <1>9, <1>10, <1>11, <1>12 DEF Working

LEMMA MapPageKeeps ==
  ASSUME HeapInv, MapPage
  PROVE  HeapInv'
<1>1. Shape /\ status = "mapping" /\ UNCHANGED <<kind, allocated>>
  BY DEF HeapInv, MapPage
<1>2. PICK S : pages \in Seq(S)
  BY DEF HeapInv, Mapped
<1>3. CASE pages' = pages /\ status' = "failed" /\ UNCHANGED <<bump, linked, fixed>>
  BY <1>1, <1>2, <1>3 DEF HeapInv, Shape, Mapped, bump, linked, fixed
<1>4. ASSUME NEW x, pages' = Append(pages, x),
             IF (Len(pages) + 1) * PageSize < HEAP_SIZE
             THEN UNCHANGED <<status, bump, linked, fixed>>
             ELSE /\ status' = "up"
                  /\ next' = HEAP_START /\ UNCHANGED <<allocations, lost, lists>>
                  /\ regions' = <<[start |-> HEAP_START, size |-> HEAP_SIZE]>>
                  /\ holes' = Addresses
      PROVE  HeapInv'
  <2>1. pages' \in Seq(S \union {x}) /\ Len(pages') = Len(pages) + 1 /\ Len(pages) \in Nat
    <3>1. pages \in Seq(S \union {x})
      BY <1>2, SeqMonotonic
    <3>2. QED
      BY <1>4, <3>1
  <2>2. CASE (Len(pages) + 1) * PageSize < HEAP_SIZE
    <3>1. UNCHANGED <<status, next, allocations, regions, lost, lists, holes>>
      BY <1>4, <2>2 DEF bump, linked, fixed
    <3>2. QED
      BY <1>1, <2>1, <3>1 DEF HeapInv, Shape, Mapped
  <2>3. CASE ~((Len(pages) + 1) * PageSize < HEAP_SIZE)
    <3>1. /\ status' = "up"
          /\ next' = HEAP_START /\ UNCHANGED <<allocations, lost, lists>>
          /\ regions' = <<[start |-> HEAP_START, size |-> HEAP_SIZE]>>
          /\ holes' = Addresses
      BY <1>4, <2>3
    <3>2. Shape' /\ Working'
      BY <1>1, <3>1, HeapComesUp
    <3>3. Len(pages') * PageSize >= HEAP_SIZE
      <4>1. PICK n \in Nat : n = (Len(pages) + 1) * PageSize
        BY <2>1, Constants
      <4>2. QED
        BY <2>1, <2>3, <4>1, Constants
    <3>4. QED
      BY <2>1, <3>2, <3>3 DEF HeapInv, Mapped
  <2>4. QED
    BY <2>2, <2>3
<1>5. QED
  BY <1>3, <1>4 DEF MapPage

LEMMA AllocKeeps ==
  ASSUME HeapInv, NEW l \in Layouts, Alloc(l)
  PROVE  HeapInv'
<1>1. status = "up" /\ UNCHANGED <<kind, status, pages>> /\ Shape /\ Working /\ Mapped
  BY DEF Alloc, boot, HeapInv
<1>2. Shape' /\ Working'
  BY <1>1, BumpAllocKeeps, LinkedListAllocKeeps, FixedSizeAllocKeeps DEF Alloc
<1>3. QED
  BY <1>1, <1>2 DEF HeapInv, Mapped

LEMMA DeallocKeeps ==
  ASSUME HeapInv, NEW o \in allocated, Dealloc(o)
  PROVE  HeapInv'
<1>1. status = "up" /\ UNCHANGED <<kind, status, pages>> /\ Shape /\ Working /\ Mapped
  BY DEF Dealloc, boot, HeapInv, Shape
<1>2. allocated' = allocated \ {o}
  BY DEF Dealloc
<1>3. Shape' /\ Working'
  BY <1>1, <1>2, BumpDeallocKeeps, LinkedListDeallocKeeps, FixedSizeDeallocKeeps DEF Dealloc
<1>4. QED
  BY <1>1, <1>3 DEF HeapInv, Mapped

(* Each allocator's free memory, its objects and the bytes that it lost    *)
(* make up the heap, and no byte is two of these.                          *)
THEOREM HeapInvariant == Spec => []HeapInv
<1>1. Init => HeapInv
  BY HeapInit
<1>2. ASSUME HeapInv, [Next]_vars
      PROVE  HeapInv'
  <2>1. CASE MapPage
    BY <1>2, <2>1, MapPageKeeps
  <2>2. CASE \E l \in Layouts : Alloc(l)
    BY <1>2, <2>2, AllocKeeps
  <2>3. CASE \E o \in allocated : Dealloc(o)
    BY <1>2, <2>3, DeallocKeeps
  <2>4. CASE UNCHANGED vars
    <3>1. UNCHANGED <<kind, status, pages, allocated, bump, linked, fixed>>
      BY <2>4 DEF vars, boot
    <3>2. CASE status = "up"
      BY <1>2, <3>1, <3>2, NothingMoves DEF HeapInv, Mapped
    <3>3. CASE status # "up"
      <4>1. UNCHANGED <<next, allocations, regions, lost, lists, holes>>
        BY <3>1 DEF bump, linked, fixed
      <4>2. QED
        BY <1>2, <3>1, <3>3, <4>1 DEF HeapInv, Shape, Mapped
    <3>4. QED
      BY <3>2, <3>3
  <2>5. QED
    BY <1>2, <2>1, <2>2, <2>3, <2>4 DEF Next, Panicked
<1>3. QED
  BY <1>1, <1>2, PTL DEF Spec
-----------------------------------------------------------------------------
(* No two free regions share a byte.                                       *)
LEMMA FreeApart ==
  ASSUME Shape, Working
  PROVE  \A x, y \in FreeRegions : x # y => x \intersect y = {}
<1>1. CASE kind = "bump"
  BY <1>1 DEF FreeRegions
<1>2. CASE kind = "linked_list"
  <2>1. FreeRegions = {Bytes(regions[i]) : i \in 1..Len(regions)}
    BY <1>2 DEF FreeRegions
  <2>2. \A i, j \in 1..Len(regions) : i # j => Bytes(regions[i]) \intersect Bytes(regions[j]) = {}
    BY <1>2 DEF Working, Regions, Apart
  <2>3. QED
    BY <2>1, <2>2
<1>3. CASE kind = "fixed_size_block"
  <2>1. FreeRegions = {holes} \union UNION {{Block(b, i) : i \in 1..Len(lists[b])} : b \in BLOCK_SIZES}
    BY <1>3 DEF FreeRegions
  <2>2. \A x \in FreeRegions : x = holes \/ \E b \in BLOCK_SIZES : \E i \in 1..Len(lists[b]) : x = Block(b, i)
    BY <2>1
  <2>3. /\ \A b \in BLOCK_SIZES : \A i \in 1..Len(lists[b]) : Block(b, i) \intersect holes = {}
        /\ \A b, c \in BLOCK_SIZES : \A i \in 1..Len(lists[b]), j \in 1..Len(lists[c]) :
             (b # c \/ i # j) => Block(b, i) \intersect Block(c, j) = {}
    BY <1>3 DEF Working, Blocks
  <2>4. QED
    BY <2>2, <2>3
<1>4. QED
  BY <1>1, <1>2, <1>3 DEF Shape

(* Every object has bytes, so two objects never have the same ones.        *)
LEMMA ObjectsDiffer ==
  ASSUME Shape, Objects
  PROVE  /\ \A o \in allocated : o.start \in Nat /\ Request(o) /\ o.start \in Reserved(o)
                                 /\ Bytes(o) \subseteq Reserved(o)
         /\ \A o, p \in allocated : Reserved(o) = Reserved(p) => o = p
<1>1. ASSUME NEW o \in allocated
      PROVE  o.start \in Nat /\ Request(o) /\ o.start \in Reserved(o) /\ Bytes(o) \subseteq Reserved(o)
  <2>1. o.start \in Nat /\ Request(o)
    BY Requests DEF Objects, IsObject
  <2>2. Taken(o) \in Nat \ {0} /\ Taken(o) >= o.size /\ o.size \in Nat \ {0}
    BY <2>1, TakenSize DEF Shape, Request
  <2>3. QED
    BY <2>1, <2>2 DEF Reserved, Bytes
<1>2. QED
  BY <1>1 DEF Objects

LEMMA HeldAreAsMany ==
  ASSUME Shape, Objects
  PROVE  Cardinality({Reserved(o) : o \in allocated}) = Cardinality(allocated)
<1>1. PICK held : held = {Reserved(o) : o \in allocated}
  OBVIOUS
<1>2. PICK f : f = [o \in allocated |-> Reserved(o)]
  OBVIOUS
<1>3. f \in Bijection(allocated, held)
  <2>1. f \in [allocated -> held]
    BY <1>1, <1>2
  <2>2. \A o, p \in allocated : f[o] = f[p] => o = p
    BY <1>2, ObjectsDiffer
  <2>3. \A x \in held : \E o \in allocated : f[o] = x
    BY <1>1, <1>2
  <2>4. QED
    BY <2>1, <2>2, <2>3, Fun_IsBij
<1>4. Cardinality(allocated) = Cardinality(held)
  BY <1>3, FS_Bijection DEF Shape, ExistsBijection
<1>5. QED
  BY <1>1, <1>4

(* Every byte of the heap is in one object, in one free region, or was     *)
(* skipped for an alignment: none is lost, none has two owners, whatever   *)
(* order alloc and dealloc are called in.                                  *)
THEOREM EveryByteHasOnePlace == Spec => []EveryByteAccounted
<1>1. HeapInv => EveryByteAccounted
  <2> SUFFICES ASSUME HeapInv, status = "up"
               PROVE  EveryByteAccounted
    BY DEF EveryByteAccounted
  <2>1. Shape /\ Working /\ Objects /\ Covered /\ Bumped /\ Regions
    BY DEF HeapInv, Working
  <2>2. PICK held : held = {Reserved(o) : o \in allocated}
    OBVIOUS
  <2>3. \A x, y \in held : x # y => x \intersect y = {}
    BY <2>1, <2>2 DEF Objects
  <2>4. \A x \in held, y \in FreeRegions : x \intersect y = {}
    BY <2>1, <2>2 DEF Objects, IsObject, Free
  <2>5. \A x, y \in held \union FreeRegions : x # y => x \intersect y = {}
    BY <2>1, <2>3, <2>4, FreeApart
  <2>6. Cardinality(held) = Cardinality(allocated)
    BY <2>1, <2>2, HeldAreAsMany
  <2>7. UNION (held \union FreeRegions) \subseteq Addresses \ lost
    BY <2>1, <2>2 DEF Objects, IsObject, Covered, Free
  <2>8. kind # "bump" => Addresses \ lost \subseteq UNION (held \union FreeRegions)
    <3>1. SUFFICES ASSUME kind # "bump", NEW a \in Addresses \ lost
                   PROVE  a \in UNION (held \union FreeRegions)
      OBVIOUS
    <3>2. a \in Free \/ \E o \in allocated : a \in Reserved(o)
      BY <2>1, <3>1 DEF Covered
    <3>3. QED
      BY <2>2, <3>2 DEF Free
  <2>9. kind # "bump" => UNION (held \union FreeRegions) = Addresses \ lost
                         /\ (UNION (held \union FreeRegions)) \intersect lost = {}
    BY <2>7, <2>8
  <2>10. kind = "bump" => allocations = Cardinality(allocated) /\ (allocated = {} => next = HEAP_START)
    BY <2>1 DEF Bumped
  <2>11. \A i \in 1..Len(regions) : regions[i].start % Word = 0 /\ regions[i].size >= size_of_ListNode
    BY <2>1 DEF Regions, Node
  <2>12. QED
    BY <2>2, <2>5, <2>6, <2>9, <2>10, <2>11 DEF EveryByteAccounted
<1>2. QED
  BY <1>1, HeapInvariant, PTL
-----------------------------------------------------------------------------
(* What those who hold objects see.                                        *)
Placed ==
  \A o \in allocated :
    /\ Bytes(o) \subseteq Addresses /\ o.start % o.align = 0
    /\ \A p \in allocated : o # p => Bytes(o) \intersect Bytes(p) = {}

LEMMA ObjectsArePlaced == HeapInv => Placed
<1> SUFFICES ASSUME HeapInv
             PROVE  Placed
  OBVIOUS
<1>1. Shape /\ Objects
  BY DEF HeapInv, Shape, Working, Objects
<1>2. ASSUME NEW o \in allocated
      PROVE  /\ Bytes(o) \subseteq Addresses /\ o.start % o.align = 0
             /\ \A p \in allocated : o # p => Bytes(o) \intersect Bytes(p) = {}
  <2>1. \A p \in allocated : Bytes(p) \subseteq Reserved(p)
    BY <1>1, ObjectsDiffer
  <2>2. /\ Reserved(o) \subseteq Addresses /\ o.start % o.align = 0
        /\ \A p \in allocated : o # p => Reserved(o) \intersect Reserved(p) = {}
    BY <1>1 DEF Objects, IsObject
  <2>3. QED
    BY <2>1, <2>2
<1>3. QED
  BY <1>2 DEF Placed

LEMMA AllocGives ==
  ASSUME NEW l, Alloc(l)
  PROVE  allocated' = allocated \/ \E o : allocated' = allocated \union {o}
<1>1. CASE BumpAlloc(l)
  BY <1>1 DEF BumpAlloc, Give
<1>2. CASE LinkedListAlloc(l)
  BY <1>2 DEF LinkedListAlloc, Give
<1>3. CASE FixedSizeAlloc(l)
  <2>1. \A size, align : fallback_alloc(l, size, align) =>
                           allocated' = allocated \/ \E o : allocated' = allocated \union {o}
    BY DEF fallback_alloc, Give
  <2>2. QED
    BY <1>3, <2>1 DEF FixedSizeAlloc, Give
<1>4. QED
  BY <1>1, <1>2, <1>3 DEF Alloc

(* The three allocators, with their lists, rounding and rewinding, are all *)
(* heaps: an object is aligned, inside the heap and nobody else's.         *)
THEOREM AllocatorsAreHeaps == Spec => ImplementsHeap
<1>1. Init => Abstract!Init
  BY DEF Init, Abstract!Init
<1>2. HeapInv /\ HeapInv' /\ [Next]_vars => [Abstract!Alloc \/ Abstract!Dealloc]_allocated
  <2>1. HeapInv' => Placed'
    BY ObjectsArePlaced, PTL
  <2>2. SUFFICES ASSUME HeapInv', [Next]_vars, allocated' # allocated
                 PROVE  Abstract!Alloc \/ Abstract!Dealloc
    OBVIOUS
  <2>3. Placed'
    BY <2>1, <2>2
  <2>4. CASE MapPage
    BY <2>2, <2>4 DEF MapPage
  <2>5. ASSUME NEW l \in Layouts, Alloc(l)
        PROVE  Abstract!Alloc
    <3>1. PICK o : allocated' = allocated \union {o}
      BY <2>2, <2>5, AllocGives
    <3>2. o \in allocated' \ allocated
      BY <2>2, <3>1
    <3>3. /\ Bytes(o) \subseteq Addresses /\ o.start % o.align = 0
          /\ \A p \in allocated : Bytes(o) \intersect Bytes(p) = {}
      BY <2>3, <3>1, <3>2 DEF Placed
    <3>4. Abstract!MayAlloc(o)
      BY <3>3 DEF Abstract!MayAlloc, Abstract!Bytes, Bytes
    <3>5. QED
      BY <3>1, <3>2, <3>4 DEF Abstract!Alloc
  <2>6. ASSUME NEW o \in allocated, Dealloc(o)
        PROVE  Abstract!Dealloc
    BY <2>6 DEF Dealloc, Abstract!Dealloc
  <2>7. CASE UNCHANGED vars
    BY <2>2, <2>7 DEF vars
  <2>8. QED
    BY <2>2, <2>4, <2>5, <2>6, <2>7 DEF Next, Panicked
<1>3. QED
  BY <1>1, <1>2, HeapInvariant, PTL DEF Spec, ImplementsHeap, Abstract!Spec

(* No object reaches a page that init_heap has not mapped.                 *)
LEMMA ObjectsLieInPages == HeapInv => ObjectsAreMapped
<1> SUFFICES ASSUME HeapInv, NEW o \in allocated, NEW a \in Reserved(o)
             PROVE  (a - HEAP_START) \div PageSize < Len(pages)
  BY DEF ObjectsAreMapped
<1>1. status = "up" /\ Mapped /\ Objects
  BY DEF HeapInv, Shape, Working
<1>2. a \in Addresses
  BY <1>1 DEF Objects, IsObject
<1>3. PICK n \in Nat : n = Len(pages) /\ n * PageSize >= HEAP_SIZE
  BY <1>1 DEF Mapped
<1>4. PICK x \in Nat : x = a - HEAP_START /\ x < HEAP_SIZE
  BY <1>2, Constants
<1>5. PICK q \in Nat : q = x \div PageSize /\ q * PageSize <= x
  <2>1. x = PageSize * (x \div PageSize) + (x % PageSize) /\ x % PageSize \in 0..(PageSize - 1)
        /\ x \div PageSize \in Nat
    BY Constants, Division
  <2>2. QED
    BY <2>1, Constants
<1>6. q < n
  <2>1. SUFFICES ASSUME q >= n
                 PROVE  FALSE
    OBVIOUS
  <2>2. q * PageSize >= n * PageSize
    BY <2>1, Constants
  <2>3. PICK u \in Nat, v \in Nat : u = q * PageSize /\ v = n * PageSize
    BY Constants
  <2>4. QED
    BY <1>3, <1>4, <1>5, <2>2, <2>3, Constants
<1>7. QED
  BY <1>3, <1>4, <1>5, <1>6
-----------------------------------------------------------------------------
(* FlattenSeq is defined by recursion over the sequence: the function it   *)
(* takes exists, and its values hold elements of the parts, each once.     *)
Flattens(f, s, n) == f = [i \in 1..n |-> IF i = 1 THEN s[i] ELSE f[i - 1] \o s[i]]

LEMMA FlattenExists ==
  ASSUME NEW s, NEW n \in Nat
  PROVE  \E f : Flattens(f, s, n)
<1>1. PICK bad : bad = {m \in Nat : ~ \E f : Flattens(f, s, m)}
  OBVIOUS
<1>2. SUFFICES ASSUME bad # {}
               PROVE  FALSE
  BY <1>1
<1>3. PICK m \in bad : \A k \in bad : m <= k
  BY <1>1, <1>2, LeastExists
<1>4. m \in Nat /\ ~ \E f : Flattens(f, s, m)
  BY <1>1, <1>3
<1>5. CASE m = 0
  <2>1. PICK f : f = [i \in 1..0 |-> <<>>]
    OBVIOUS
  <2>2. Flattens(f, s, 0)
    BY <2>1 DEF Flattens
  <2>3. QED
    BY <1>4, <1>5, <2>2
<1>6. CASE m # 0
  <2>1. m - 1 \in Nat /\ m - 1 \notin bad
    BY <1>3, <1>4, <1>6
  <2>2. PICK f : Flattens(f, s, m - 1)
    BY <1>1, <2>1
  <2>3. PICK g : g = [i \in 1..m |-> IF i = 1 THEN s[i] ELSE f[i - 1] \o s[i]]
    OBVIOUS
  <2>4. ASSUME NEW i \in 1..(m - 1)
        PROVE  g[i] = f[i]
    <3>1. i \in 1..m
      BY <1>4
    <3>2. g[i] = IF i = 1 THEN s[i] ELSE f[i - 1] \o s[i]
      BY <2>3, <3>1, Zenon
    <3>3. f[i] = IF i = 1 THEN s[i] ELSE f[i - 1] \o s[i]
      BY <2>2, Zenon DEF Flattens
    <3>4. QED
      BY <3>2, <3>3, Zenon
  <2>5. ASSUME NEW i \in 1..m
        PROVE  g[i] = IF i = 1 THEN s[i] ELSE g[i - 1] \o s[i]
    <3>1. g[i] = IF i = 1 THEN s[i] ELSE f[i - 1] \o s[i]
      BY <2>3, Zenon
    <3>2. i # 1 => g[i - 1] = f[i - 1]
      <4>1. i # 1 => i - 1 \in 1..(m - 1)
        BY <1>4
      <4>2. QED
        BY <2>4, <4>1, Zenon
    <3>3. QED
      BY <3>1, <3>2, Zenon
  <2>6. Flattens(g, s, m)
    BY <2>3, <2>5 DEF Flattens
  <2>7. QED
    BY <1>4, <2>6
<1>7. QED
  BY <1>5, <1>6

Drawn(x, s, n) ==
  /\ \A k \in 1..Len(x) : \E i \in 1..n : \E j \in 1..Len(s[i]) : x[k] = s[i][j]
  /\ \A k, l \in 1..Len(x) : x[k] = x[l] => k = l

Distinct(s) ==
  \A i, k \in 1..Len(s) : \A j \in 1..Len(s[i]), l \in 1..Len(s[k]) :
    s[i][j] = s[k][l] => i = k /\ j = l

LEMMA FlattenDraws ==
  ASSUME NEW S, NEW s \in Seq(Seq(S)), Distinct(s)
  PROVE  FlattenSeq(s) \in Seq(S) /\ Drawn(FlattenSeq(s), s, Len(s))
<1>1. CASE Len(s) = 0
  <2>1. FlattenSeq(s) = s /\ s = <<>>
    BY <1>1 DEF FlattenSeq
  <2>2. QED
    BY <2>1, <1>1 DEF Drawn
<1>2. CASE Len(s) # 0
  <2>1. PICK g : g = CHOOSE f : Flattens(f, s, Len(s))
    OBVIOUS
  <2>2. FlattenSeq(s) = g[Len(s)]
    BY <1>2, <2>1 DEF FlattenSeq, Flattens
  <2>3. Flattens(g, s, Len(s))
    <3>1. Len(s) \in Nat
      OBVIOUS
    <3>2. \E f : Flattens(f, s, Len(s))
      BY <3>1, FlattenExists
    <3>3. QED
      BY <2>1, <3>2, Zenon
  <2>4. PICK bad : bad = {m \in 1..Len(s) : ~ (g[m] \in Seq(S) /\ Drawn(g[m], s, m))}
    OBVIOUS
  <2>5. ASSUME bad # {}
        PROVE  FALSE
    <3>1. PICK m \in bad : \A k \in bad : m <= k
      <4>1. bad \subseteq Nat
        BY <2>4
      <4>2. QED
        BY <2>5, <4>1, LeastExists
    <3>2. m \in 1..Len(s) /\ ~ (g[m] \in Seq(S) /\ Drawn(g[m], s, m)) /\ s[m] \in Seq(S)
      BY <2>4, <3>1
    <3>3. CASE m = 1
      <4>1. g[m] = s[m]
        BY <2>3, <3>2, <3>3 DEF Flattens
      <4>2. \A k \in 1..Len(s[m]) : \E i \in 1..m : \E j \in 1..Len(s[i]) : s[m][k] = s[i][j]
        BY <3>2
      <4>3. \A k, l \in 1..Len(s[m]) : s[m][k] = s[m][l] => k = l
        BY <3>2 DEF Distinct
      <4>4. Drawn(s[m], s, m)
        BY <4>2, <4>3, Zenon DEF Drawn
      <4>5. QED
        BY <3>2, <4>1, <4>4, Zenon
    <3>4. CASE m # 1
      <4>1. m - 1 \in 1..Len(s) /\ m - 1 \notin bad
        BY <3>1, <3>2, <3>4
      <4>2. PICK x : x = g[m - 1]
        OBVIOUS
      <4>3. x \in Seq(S) /\ Drawn(x, s, m - 1)
        BY <2>4, <4>1, <4>2
      <4>4. g[m] = x \o s[m]
        BY <2>3, <3>2, <3>4, <4>2 DEF Flattens
      <4>5. PICK t \in Seq(S) : t = s[m]
        BY <3>2
      <4>6. PICK y \in Seq(S) : y = x \o t
        <5>1. x \o t \in Seq(S)
          BY <4>3, <4>5, ConcatProperties
        <5>2. QED
          BY <5>1, Zenon
      <4>7. /\ Len(y) = Len(x) + Len(t) /\ Len(x) \in Nat /\ Len(t) \in Nat
            /\ \A k \in 1..Len(x) : y[k] = x[k]
            /\ \A k \in 1..Len(y) : k > Len(x) => k - Len(x) \in 1..Len(t) /\ y[k] = t[k - Len(x)]
        BY <4>3, <4>6
      <4>8. ASSUME NEW k \in 1..Len(y)
            PROVE  \E i \in 1..m : \E j \in 1..Len(s[i]) : y[k] = s[i][j]
        <5>1. CASE k <= Len(x)
          <6>1. k \in 1..Len(x)
            BY <4>7, <5>1
          <6>2. PICK i \in 1..m - 1 : \E j \in 1..Len(s[i]) : x[k] = s[i][j]
            BY <4>3, <6>1 DEF Drawn
          <6>3. i \in 1..m /\ y[k] = x[k]
            BY <3>2, <4>7, <6>1
          <6>4. QED
            BY <6>2, <6>3
        <5>2. CASE k > Len(x)
          <6>1. k - Len(x) \in 1..Len(t) /\ y[k] = t[k - Len(x)]
            BY <4>7, <5>2
          <6>2. QED
            BY <3>2, <4>5, <6>1
        <5>3. QED
          BY <4>7, <5>1, <5>2
      <4>9. ASSUME NEW k \in 1..Len(y), NEW l \in 1..Len(y), y[k] = y[l], k < l
            PROVE  FALSE
        <5>1. CASE l <= Len(x)
          <6>1. k \in 1..Len(x) /\ l \in 1..Len(x)
            BY <4>7, <4>9, <5>1
          <6>2. x[k] = x[l]
            BY <4>7, <4>9, <6>1
          <6>3. k = l
            BY <4>3, <6>1, <6>2 DEF Drawn
          <6>4. QED
            BY <4>9, <6>3
        <5>2. CASE k <= Len(x) /\ l > Len(x)
          <6>1. k \in 1..Len(x)
            BY <4>7, <5>2
          <6>2. PICK i \in 1..m - 1 : \E j \in 1..Len(s[i]) : x[k] = s[i][j]
            BY <4>3, <6>1 DEF Drawn
          <6>3. PICK h \in 1..Len(t) : y[l] = t[h]
            BY <4>7, <5>2
          <6>4. PICK j \in 1..Len(s[i]) : x[k] = s[i][j]
            BY <6>2
          <6>5. i \in 1..Len(s) /\ i # m /\ h \in 1..Len(s[m]) /\ s[i][j] = s[m][h]
            BY <3>2, <4>1, <4>5, <4>7, <4>9, <6>1, <6>3, <6>4
          <6>6. QED
            BY <3>2, <6>4, <6>5 DEF Distinct
        <5>3. CASE k > Len(x)
          <6>1. PICK h \in 1..Len(t), e \in 1..Len(t) : h = k - Len(x) /\ e = l - Len(x) /\ t[h] = t[e]
            <7>1. k - Len(x) \in 1..Len(t) /\ y[k] = t[k - Len(x)]
              BY <4>7, <5>3
            <7>2. l > Len(x)
              BY <4>7, <4>9, <5>3
            <7>3. l - Len(x) \in 1..Len(t) /\ y[l] = t[l - Len(x)]
              BY <4>7, <7>2
            <7>4. QED
              BY <4>9, <7>1, <7>3, Zenon
          <6>2. h = e
            BY <3>2, <4>5, <6>1 DEF Distinct
          <6>3. QED
            BY <4>7, <4>9, <6>1, <6>2
        <5>4. QED
          BY <4>7, <5>1, <5>2, <5>3
      <4>10. \A k, l \in 1..Len(y) : y[k] = y[l] => k = l
        <5>1. SUFFICES ASSUME NEW k \in 1..Len(y), NEW l \in 1..Len(y), y[k] = y[l], k # l
                       PROVE  FALSE
          OBVIOUS
        <5>2. k < l \/ l < k
          BY <5>1
        <5>3. QED
          BY <4>9, <5>1, <5>2
      <4>11. Drawn(y, s, m)
        BY <4>8, <4>10 DEF Drawn
      <4>12. QED
        BY <3>2, <4>4, <4>5, <4>6, <4>11
    <3>5. QED
      BY <3>3, <3>4
  <2>6. QED
    BY <1>2, <2>2, <2>4, <2>5
<1>3. QED
  BY <1>1, <1>2

(* The frames the allocator draws from are usable, each there once.        *)
Piece == [usable : BOOLEAN, first : Nat, end : Nat]

LEMMA UsableFrames ==
  ASSUME map \in MemoryMaps
  PROVE  /\ usable_frames \in Seq(Nat)
         /\ \A k \in 1..Len(usable_frames) : \E j \in 1..Len(map) :
              map[j].usable /\ usable_frames[k] \in map[j].first..(map[j].end - 1)
         /\ \A k, l \in 1..Len(usable_frames) : usable_frames[k] = usable_frames[l] => k = l
<1>1. /\ map \in Seq(Piece)
      /\ \A i, j \in 1..Len(map) : (i # j /\ map[i].usable /\ map[j].usable) =>
                                    (map[i].end <= map[j].first \/ map[j].end <= map[i].first)
  BY HeapAssumption DEF Piece
<1>2. PICK s : s = [i \in 1..Len(map) |-> IF map[i].usable THEN frames(map[i]) ELSE <<>>]
  OBVIOUS
<1>3. usable_frames = FlattenSeq(s)
  BY <1>2 DEF usable_frames
<1>4. ASSUME NEW r \in Piece
      PROVE  /\ frames(r) \in Seq(Nat)
             /\ \A j \in 1..Len(frames(r)) : /\ frames(r)[j] = r.first + (j - 1)
                                             /\ frames(r)[j] \in r.first..(r.end - 1)
  <2> r.first \in Nat /\ r.end \in Nat
    BY DEF Piece
  <2>1. CASE r.end <= r.first
    <3>1. frames(r) = <<>>
      BY <2>1 DEF frames
    <3>2. QED
      BY <3>1
  <2>2. CASE r.first < r.end
    <3>1. PICK n \in Nat : n = r.end - r.first
      BY <2>2
    <3>2. frames(r) = [i \in 1..n |-> (r.first + i) - 1]
      BY <3>1 DEF frames
    <3>3. \A i \in 1..n : (r.first + i) - 1 \in Nat
      OBVIOUS
    <3>4. frames(r) \in Seq(Nat) /\ Len(frames(r)) = n
      BY <3>2, <3>3
    <3>5. QED
      BY <3>1, <3>2, <3>4
  <2>3. QED
    BY <2>1, <2>2
<1>5. \A i \in 1..Len(map) : s[i] \in Seq(Nat)
  <2>1. SUFFICES ASSUME NEW i \in 1..Len(map)
                 PROVE  s[i] \in Seq(Nat)
    OBVIOUS
  <2>2. map[i] \in Piece
    BY <1>1
  <2>3. frames(map[i]) \in Seq(Nat) /\ <<>> \in Seq(Nat)
    BY <1>4, <2>2, EmptySeq
  <2>4. s[i] = IF map[i].usable THEN frames(map[i]) ELSE <<>>
    BY <1>2
  <2>5. QED
    BY <2>3, <2>4
<1>6. s \in Seq(Seq(Nat)) /\ Len(s) = Len(map)
  BY <1>1, <1>2, <1>5
<1>7. ASSUME NEW i \in 1..Len(map), NEW j \in 1..Len(s[i])
      PROVE  /\ map[i].usable /\ map[i] \in Piece
             /\ s[i][j] = map[i].first + (j - 1) /\ s[i][j] \in map[i].first..(map[i].end - 1)
  <2>1. map[i] \in Piece
    BY <1>1
  <2>2. map[i].usable
    BY <1>2, <1>7
  <2>3. s[i] = frames(map[i])
    BY <1>2, <2>2
  <2>4. QED
    BY <1>4, <2>1, <2>2, <2>3
<1>8. Distinct(s)
  <2>1. SUFFICES ASSUME NEW i \in 1..Len(map), NEW k \in 1..Len(map),
                        NEW j \in 1..Len(s[i]), NEW l \in 1..Len(s[k]), s[i][j] = s[k][l]
                 PROVE  i = k /\ j = l
    BY <1>6 DEF Distinct
  <2>2. /\ map[i].usable /\ map[i].first \in Nat /\ map[i].end \in Nat
        /\ s[i][j] = map[i].first + (j - 1) /\ s[i][j] \in map[i].first..(map[i].end - 1)
    BY <1>7 DEF Piece
  <2>3. /\ map[k].usable /\ map[k].first \in Nat /\ map[k].end \in Nat
        /\ s[k][l] = map[k].first + (l - 1) /\ s[k][l] \in map[k].first..(map[k].end - 1)
    BY <1>7 DEF Piece
  <2>4. i = k
    <3>1. SUFFICES ASSUME i # k
                   PROVE  FALSE
      OBVIOUS
    <3>2. map[i].end <= map[k].first \/ map[k].end <= map[i].first
      BY <1>1, <2>2, <2>3, <3>1
    <3>3. PICK x : x = s[i][j]
      OBVIOUS
    <3>4. x \in map[i].first..(map[i].end - 1) /\ x \in map[k].first..(map[k].end - 1)
      BY <2>1, <2>2, <2>3, <3>3, Zenon
    <3>5. \A a, b, c, d \in Nat : x \in a..(b - 1) /\ x \in c..(d - 1) => ~(b <= c \/ d <= a)
      OBVIOUS
    <3>6. QED
      BY <2>2, <2>3, <3>2, <3>4, <3>5
  <2>5. j \in Nat /\ l \in Nat
    BY <1>5
  <2>6. map[i].first + (j - 1) = map[i].first + (l - 1)
    BY <2>1, <2>2, <2>3, <2>4
  <2>7. QED
    BY <2>2, <2>4, <2>5, <2>6
<1>9. FlattenSeq(s) \in Seq(Nat) /\ Drawn(FlattenSeq(s), s, Len(s))
  BY <1>6, <1>8, FlattenDraws
<1>10. ASSUME NEW k \in 1..Len(usable_frames)
       PROVE  \E j \in 1..Len(map) :
                map[j].usable /\ usable_frames[k] \in map[j].first..(map[j].end - 1)
  <2>1. PICK i \in 1..Len(map) : \E j \in 1..Len(s[i]) : usable_frames[k] = s[i][j]
    BY <1>3, <1>6, <1>9 DEF Drawn
  <2>2. QED
    BY <1>7, <2>1
<1>11. QED
  BY <1>3, <1>9, <1>10 DEF Drawn

(* The pages' frames were drawn one after the other.                       *)
FramesInv ==
  /\ map \in MemoryMaps /\ next_frame \in Nat /\ pages \in Seq(Nat)
  /\ \A i \in 1..Len(pages) : \E k \in 1..Len(usable_frames) :
       k <= next_frame /\ pages[i] = usable_frames[k]
  /\ \A i \in 1..Len(pages) : \A j \in 1..(i - 1) : pages[i] # pages[j]

LEMMA DrawKeeps ==
  ASSUME FramesInv, MapPage
  PROVE  FramesInv'
<1>1. map' = map /\ usable_frames' = usable_frames
  BY DEF MapPage, usable_frames
<1>2. CASE UNCHANGED <<next_frame, pages>>
  BY <1>1, <1>2 DEF FramesInv
<1>3. ASSUME NEW taken \in Nat \ {0}, next_frame' = next_frame + taken,
             next_frame + taken <= Len(usable_frames),
             pages' = Append(pages, usable_frames[next_frame + 1])
      PROVE  FramesInv'
  <2>1. next_frame \in Nat /\ pages \in Seq(Nat) /\ usable_frames \in Seq(Nat)
    BY UsableFrames DEF FramesInv
  <2>2. PICK m \in 1..Len(usable_frames) : m = next_frame + 1 /\ m <= next_frame'
    BY <1>3, <2>1
  <2>3. PICK x \in Nat : x = usable_frames[m]
    BY <2>1, <2>2
  <2>4. PICK n \in Nat : n = Len(pages)
    BY <2>1
  <2>5. /\ pages' \in Seq(Nat) /\ Len(pages') = n + 1 /\ pages'[n + 1] = x
        /\ \A i \in 1..n : pages'[i] = pages[i]
    BY <1>3, <2>1, <2>2, <2>3, <2>4
  <2>6. next_frame' \in Nat /\ next_frame <= next_frame'
    BY <1>3, <2>1
  <2>7. ASSUME NEW i \in 1..n
        PROVE  pages[i] # x /\ \E k \in 1..Len(usable_frames) : k <= next_frame' /\ pages[i] = usable_frames[k]
    <3>1. PICK k \in 1..Len(usable_frames) : k <= next_frame /\ pages[i] = usable_frames[k]
      BY <2>4 DEF FramesInv
    <3>2. k # m /\ k <= next_frame'
      BY <2>1, <2>2, <2>6, <3>1
    <3>3. pages[i] # x
      BY <2>2, <2>3, <3>1, <3>2, UsableFrames DEF FramesInv
    <3>4. QED
      BY <3>1, <3>2, <3>3
  <2>8. \A i \in 1..(n + 1) : \E k \in 1..Len(usable_frames) : k <= next_frame' /\ pages'[i] = usable_frames[k]
    BY <2>2, <2>3, <2>5, <2>7
  <2>9. \A i \in 1..(n + 1) : \A j \in 1..(i - 1) : pages'[i] # pages'[j]
    <3>1. \A i \in 1..n : \A j \in 1..(i - 1) : pages[i] # pages[j]
      BY <2>4 DEF FramesInv
    <3>2. ASSUME NEW i \in 1..(n + 1), NEW j \in 1..(i - 1)
          PROVE  pages'[i] # pages'[j]
      <4>1. j \in 1..n /\ pages'[j] = pages[j]
        BY <2>5
      <4>2. CASE i = n + 1
        BY <2>5, <2>7, <4>1, <4>2
      <4>3. CASE i # n + 1
        <5>1. i \in 1..n /\ pages'[i] = pages[i]
          BY <2>5, <4>3
        <5>2. QED
          BY <3>1, <4>1, <5>1
      <4>4. QED
        BY <4>2, <4>3
    <3>3. QED
      BY <3>2
  <2>10. QED
    BY <1>1, <2>5, <2>6, <2>8, <2>9 DEF FramesInv
<1>4. \E taken \in Nat \ {0} :
        \/ UNCHANGED <<next_frame, pages>>
        \/ /\ next_frame' = next_frame + taken /\ next_frame + taken <= Len(usable_frames)
           /\ pages' = Append(pages, usable_frames[next_frame + 1])
  <2>1. PICK taken \in Nat \ {0} : taken = IF pages = <<>> THEN 1 + Tables ELSE 1
    BY HeapAssumption
  <2>2. next_frame \in Nat /\ Len(usable_frames) \in Nat
    BY UsableFrames DEF FramesInv
  <2>3. CASE next_frame + taken > Len(usable_frames)
    BY <2>1, <2>3 DEF MapPage
  <2>4. CASE ~(next_frame + taken > Len(usable_frames))
    <3>1. next_frame' = next_frame + taken /\ pages' = Append(pages, usable_frames[next_frame + 1])
      BY <2>1, <2>4 DEF MapPage
    <3>2. QED
      BY <2>2, <2>4, <3>1
  <2>5. QED
    BY <2>3, <2>4
<1>5. QED
  BY <1>2, <1>3, <1>4

LEMMA FramesInvariant == Spec => []FramesInv
<1>1. Init => FramesInv
  <2> SUFFICES ASSUME Init
               PROVE  FramesInv
    OBVIOUS
  <2>1. pages = <<>> /\ pages \in Seq(Nat) /\ Len(pages) = 0 /\ next_frame = 0 /\ map \in MemoryMaps
    BY EmptySeq DEF Init
  <2>2. QED
    BY <2>1 DEF FramesInv
<1>2. ASSUME FramesInv, [Next]_vars
      PROVE  FramesInv'
  <2>1. CASE MapPage
    BY <1>2, <2>1, DrawKeeps
  <2>2. CASE UNCHANGED boot
    BY <1>2, <2>2 DEF boot, FramesInv, usable_frames
  <2>3. QED
    BY <1>2, <2>1, <2>2 DEF Next, Panicked, Alloc, Dealloc, vars
<1>3. QED
  BY <1>1, <1>2, PTL DEF Spec

(* Every page of the heap has a usable frame that no other page has, and   *)
(* no object reaches beyond the pages: init_heap may fail half way, but    *)
(* then nothing is given out.                                              *)
THEOREM PagesHoldObjects == Spec => []HeapIsMapped
<1>1. FramesInv => FramesAreUsable
  <2> SUFFICES ASSUME FramesInv, NEW i \in 1..Len(pages)
               PROVE  /\ \E j \in 1..Len(map) : map[j].usable /\ pages[i] \in map[j].first..(map[j].end - 1)
                      /\ \A j \in 1..(i - 1) : pages[i] # pages[j]
    BY DEF FramesAreUsable
  <2>1. PICK k \in 1..Len(usable_frames) : pages[i] = usable_frames[k]
    BY DEF FramesInv
  <2>2. QED
    BY <2>1, UsableFrames DEF FramesInv
<1>2. QED
  BY <1>1, ObjectsLieInPages, HeapInvariant, FramesInvariant, PTL DEF HeapIsMapped
=============================================================================
