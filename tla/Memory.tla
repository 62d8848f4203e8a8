------------------------------- MODULE Memory -------------------------------
(***************************************************************************)
(* The kernel's memory (kernel/memory.c): 2M pages, handed out in runs     *)
(* from a bitmap with counts per zone, and on top of them kmalloc's size   *)
(* classes, each a ring of slabs that cut a page into equal objects.       *)
(*                                                                         *)
(* A class keeps the map of its slabs inside their pages ("small", up to   *)
(* 512 bytes) or takes the slab structure and its map from small classes   *)
(* ("large"), so that kmalloc and kfree call themselves, once.  Sizes are  *)
(* counted in the units of e820, pages by number, objects by their page    *)
(* and index.                                                              *)
(***************************************************************************)
EXTENDS Integers, Sequences, FiniteSets, SequencesExt

CONSTANTS
  e820,        (* the firmware's map: address, length and type, ascending  *)
  PageSize,    (* PAGE_2M_SIZE                                             *)
  Word,        (* bits of a word of bits_map, 64                           *)
  KernelEnd,   (* the page that holds end_of_struct after slab_init        *)
  Classes,     (* kmalloc_cache_size: whether small, objects in the first  *)
               (* slab and in a created one, class of a created slab's map *)
  SlabClass,   (* the class that sizeof(struct Slab) falls in              *)
  MaxRun       (* bound: pages asked for at once, below Word               *)

VARIABLES
  mm,          (* memory_management_struct and kmalloc_cache_size          *)
  held,        (* the objects kmalloc returned and kfree did not take back *)
  runs,        (* the same for alloc_pages, as <<first page, pages>>       *)
  wild         (* kmalloc_create wrote through a null pointer              *)

vars == <<mm, held, runs, wild>>
-----------------------------------------------------------------------------
(* init_memory: what the firmware's map makes of the pages.                *)
Pages == 0..((e820[Len(e820)].address + e820[Len(e820)].length) \div PageSize - 1)

FirstPage(e) == (e.address + PageSize - 1) \div PageSize
EndPage(e)   == (e.address + e.length) \div PageSize

Zones == SelectSeq(e820, LAMBDA e : e.type = 1 /\ FirstPage(e) < EndPage(e))
ZoneIds == DOMAIN Zones
ZonePages(z) == FirstPage(Zones[z])..(EndPage(Zones[z]) - 1)

(* Page 0 belongs to the first zone, whose pages start after it.           *)
ZoneOf(p) == IF p = 0 THEN 1 ELSE CHOOSE z \in ZoneIds : p \in ZonePages(z)

(* bits_map is padded with ones to whole words.                            *)
Bits == 0..(((Cardinality(Pages) + Word - 1) \div Word) * Word - 1)
Holes == Bits \ UNION {ZonePages(z) : z \in ZoneIds}

KernelPages == 0..KernelEnd
StaticPage(c) == KernelEnd + c

ASSUME MemoryAssumption ==
  /\ PageSize \in Nat \ {0} /\ Word \in Nat \ {0} /\ MaxRun \in 1..(Word - 1) /\ KernelEnd \in Nat
  /\ e820 # <<>> /\ e820 \in Seq([address : Nat, length : Nat, type : Nat])
  /\ Zones # <<>> /\ Zones \in Seq(Range(e820))
  \* No zone is empty, has page 0 or the last page.
  /\ \A z \in ZoneIds : /\ 0 < FirstPage(Zones[z]) /\ FirstPage(Zones[z]) < EndPage(Zones[z])
                        /\ EndPage(Zones[z]) \in Pages
  \* None starts in the word that another ends in.
  /\ \A y, z \in ZoneIds : y < z => EndPage(Zones[y]) \div Word < FirstPage(Zones[z]) \div Word
  \* The kernel and the first slabs fit in the first zone, which has a page
  \* more: page 0 is counted against it, and its count would go below zero.
  /\ (KernelPages \ {0}) \cup {StaticPage(c) : c \in DOMAIN Classes} \subseteq ZonePages(1)
  /\ \E p \in ZonePages(1) : p \notin KernelPages \cup {StaticPage(c) : c \in DOMAIN Classes}
  \* A created slab has two objects at least: the sizes go up to half a page.
  /\ Classes \in Seq([small : BOOLEAN, first : Nat, created : Nat \ {0, 1}, map : Nat])
  /\ \A c \in DOMAIN Classes : /\ Classes[c].map \in DOMAIN Classes
                              /\ (Classes[c].small \/ Classes[Classes[c].map].small)
  /\ SlabClass \in DOMAIN Classes /\ Classes[SlabClass].small

-----------------------------------------------------------------------------
(* alloc_pages: with the zone indexes at 0, DMA and NORMAL mean the first  *)
(* zone and UNMAPED means all.                                             *)
Selected(select) == IF select = "ZONE_UNMAPED" THEN ZoneIds ELSE {1}

HasRoom(m, z, n) == m.free[z] >= n

(* The scan of a zone goes on to the end of the word its end lies in.      *)
Scanned(z) ==
  FirstPage(Zones[z])..((EndPage(Zones[z]) \div Word) * Word + Word - 1)

Runs(m, z, n) == {p \in Scanned(z) : p..(p + n - 1) \cap m.bits_map = {}}

Least(S) == CHOOSE p \in S : \A q \in S : p <= q

(* The zone that serves a request, 0 for none.                             *)
Serves(m, select, n) ==
  LET zones == {z \in Selected(select) : HasRoom(m, z, n) /\ Runs(m, z, n) # {}}
  IN  IF zones = {} THEN 0 ELSE Least(zones)

FoundPage(m, select, n) == Least(Runs(m, Serves(m, select, n), n))

BugTake(m, z, p, n) ==   \* counts a run as one page
  [m EXCEPT !.bits_map = @ \cup p..(p + n - 1), !.using[z] = @ + 1, !.free[z] = @ - 1]

Take(m, z, p, n) ==
  [m EXCEPT !.bits_map = @ \cup p..(p + n - 1), !.using[z] = @ + n, !.free[z] = @ - n]

alloc_pages(m, select, n) ==
  Take(m, Serves(m, select, n), FoundPage(m, select, n), n)

free_pages(m, p, n) ==
  [m EXCEPT !.bits_map = @ \ (p..(p + n - 1)),
            !.using[ZoneOf(p)] = @ - n, !.free[ZoneOf(p)] = @ + n]

(* The reference count of a page in use by the kernel; no page is shared.  *)
page_init(m, p) ==
  IF m.reference_count[p] = 0
  THEN [m EXCEPT !.reference_count[p] = 1, !.total_pages_link[ZoneOf(p)] = @ + 1]
  ELSE m

page_clean(m, p) ==
  [m EXCEPT !.reference_count[p] = @ - 1, !.total_pages_link[ZoneOf(p)] = @ - 1]

KernelPage(m) == page_init(alloc_pages(m, "ZONE_NORMAL", 1), FoundPage(m, "ZONE_NORMAL", 1))
-----------------------------------------------------------------------------
(* A slab: its page, the objects its map shows in use, its counts, and the *)
(* objects that a created slab of a large class has its structure and its  *)
(* map in.                                                                 *)
Slab(p, n, objects) ==
  [page |-> p, used |-> {}, using_count |-> 0, free_count |-> n, color_count |-> n, own |-> objects]

(* kmalloc with a class whose slab s (by position) has a free object.      *)
Object(m, c, s) ==
  LET slab == m.cache[c].pool[s]
  IN  <<slab.page, Least((0..(slab.color_count - 1)) \ slab.used)>>

Mark(m, c, s) ==
  [m EXCEPT !.cache[c].pool[s].used = @ \cup {Object(m, c, s)[2]},
            !.cache[c].pool[s].using_count = @ + 1,
            !.cache[c].pool[s].free_count = @ - 1,
            !.cache[c].total_free = @ - 1,
            !.cache[c].total_using = @ + 1]

(* The first slab in the ring, from cache_pool on, with an object to give. *)
SlabToUse(m, c) == Least({s \in DOMAIN m.cache[c].pool : m.cache[c].pool[s].free_count # 0})

(* A new slab goes before cache_pool, the last of the ring.                *)
AddSlab(m, c, slab) ==
  [m EXCEPT !.cache[c].pool = Append(@, slab), !.cache[c].total_free = @ + slab.color_count]

NeedsSlab(m, c) == m.cache[c].total_free = 0
HasPage(m) == Serves(m, "ZONE_NORMAL", 1) # 0

(* kmalloc_create for a small class.                                       *)
CreateSmall(m, c) ==
  AddSlab(KernelPage(m), c, Slab(FoundPage(m, "ZONE_NORMAL", 1), Classes[c].created, <<>>))

(* kmalloc in two parts: the class made ready, and the object given.       *)
ReadySmall(m, c) == IF NeedsSlab(m, c) THEN CreateSmall(m, c) ELSE m
Refused(m, c) == NeedsSlab(m, c) /\ ~HasPage(m)   \* kmalloc returns NULL
Give(m, c) == [mm |-> Mark(m, c, SlabToUse(m, c)), object |-> Object(m, c, SlabToUse(m, c))]
AllocSmall(m, c) == Give(ReadySmall(m, c), c)

(* kmalloc_create for a large class: the page first, then the structure    *)
(* and the map from small classes.                                         *)
Structure(m) == AllocSmall(KernelPage(m), SlabClass)
Map(m, c) == AllocSmall(Structure(m).mm, Classes[c].map)
CreateLarge(m, c) ==
  AddSlab(Map(m, c).mm, c,
          Slab(FoundPage(m, "ZONE_NORMAL", 1), Classes[c].created,
               <<Structure(m).object, Map(m, c).object>>))

(* It uses what these return without looking: null if there is no page.    *)
LargeFails(m, c) ==
  \/ Refused(KernelPage(m), SlabClass)
  \/ ~Refused(KernelPage(m), SlabClass) /\ Refused(Structure(m).mm, Classes[c].map)

Breaks(m, c) == NeedsSlab(m, c) /\ HasPage(m) /\ ~Classes[c].small /\ LargeFails(m, c)

Ready(m, c) ==
  IF ~NeedsSlab(m, c) THEN m
  ELSE IF Classes[c].small THEN CreateSmall(m, c) ELSE CreateLarge(m, c)
Alloc(m, c) == Give(Ready(m, c), c)
-----------------------------------------------------------------------------
(* kfree finds the slab by the page of the object.                         *)
ClassOf(m, object) ==
  Least({c \in DOMAIN Classes : \E s \in DOMAIN m.cache[c].pool : m.cache[c].pool[s].page = object[1]})
SlabOf(m, c, object) == Least({s \in DOMAIN m.cache[c].pool : m.cache[c].pool[s].page = object[1]})

Unmark(m, c, s, object) ==
  [m EXCEPT !.cache[c].pool[s].used = @ \ {object[2]},
            !.cache[c].pool[s].using_count = @ - 1,
            !.cache[c].pool[s].free_count = @ + 1,
            !.cache[c].total_free = @ + 1,
            !.cache[c].total_using = @ - 1]

BugToRelease(m, c, s) ==   \* releases any empty slab, and the first with them
  /\ m.cache[c].pool[s].using_count = 0
  /\ m.cache[c].total_free >= m.cache[c].pool[s].color_count

(* An empty slab is released when half a slab's objects remain, never the  *)
(* first of its class.                                                     *)
ToRelease(m, c, s) ==
  /\ m.cache[c].pool[s].using_count = 0
  /\ m.cache[c].total_free >= (m.cache[c].pool[s].color_count * 3) \div 2
  /\ s # 1

DropSlab(m, c, s) ==
  [m EXCEPT !.cache[c].pool = RemoveAt(@, s),
            !.cache[c].total_free = @ - m.cache[c].pool[s].color_count]

ReturnPage(m, p) == free_pages(page_clean(m, p), p, 1)

FreeSmall(m, object) ==
  LET c == ClassOf(m, object)
      s == SlabOf(m, c, object)
      marked == Unmark(m, c, s, object)
  IN  IF ToRelease(marked, c, s)
      THEN ReturnPage(DropSlab(marked, c, s), marked.cache[c].pool[s].page)
      ELSE marked

(* kfree of a large slab's map, then of its structure.                     *)
FreeObjects(m, objects) ==
  IF objects = <<>> THEN m ELSE FreeSmall(FreeSmall(m, objects[2]), objects[1])

Free(m, object) ==
  LET c == ClassOf(m, object)
      s == SlabOf(m, c, object)
      marked == Unmark(m, c, s, object)
      slab == marked.cache[c].pool[s]
  IN  IF ToRelease(marked, c, s)
      THEN FreeObjects(ReturnPage(DropSlab(marked, c, s), slab.page), slab.own)
      ELSE marked
-----------------------------------------------------------------------------
(* After init_memory and slab_init.                                        *)
Init ==
  /\ LET taken == KernelPages \cup {StaticPage(c) : c \in DOMAIN Classes}
         inFirst == [z \in ZoneIds |-> IF z = 1 THEN Cardinality(taken) ELSE 0]
     IN  mm = [bits_map |-> Holes \cup taken,
               using |-> inFirst,
               free |-> [z \in ZoneIds |-> Cardinality(ZonePages(z)) - inFirst[z]],
               total_pages_link |-> inFirst,
               reference_count |-> [p \in Pages |-> IF p \in taken THEN 1 ELSE 0],
               cache |-> [c \in DOMAIN Classes |->
                            [pool |-> <<Slab(StaticPage(c), Classes[c].first, <<>>)>>,
                             total_free |-> Classes[c].first,
                             total_using |-> 0]]]
  /\ held = {} /\ runs = {}
  /\ wild = FALSE

Kmalloc(c) ==
  /\ ~wild
  /\ ~Refused(mm, c) /\ ~Breaks(mm, c)
  /\ mm' = Alloc(mm, c).mm
  /\ held' = held \cup {Alloc(mm, c).object}
  /\ UNCHANGED <<runs, wild>>

(* What the kernel does afterwards is undefined: nothing more is modelled. *)
KmallocWild(c) ==
  /\ ~wild /\ Breaks(mm, c)
  /\ wild' = TRUE
  /\ UNCHANGED <<mm, held, runs>>

Kfree(object) ==
  /\ ~wild
  /\ mm' = Free(mm, object)
  /\ held' = held \ {object}
  /\ UNCHANGED <<runs, wild>>

AllocPages(select, n) ==
  /\ ~wild
  /\ Serves(mm, select, n) # 0   \* else it returns NULL
  /\ mm' = alloc_pages(mm, select, n)
  /\ runs' = runs \cup {<<FoundPage(mm, select, n), n>>}
  /\ UNCHANGED <<held, wild>>

FreePages(run) ==
  /\ ~wild
  /\ mm' = free_pages(mm, run[1], run[2])
  /\ runs' = runs \ {run}
  /\ UNCHANGED <<held, wild>>

Next ==
  \/ \E c \in DOMAIN Classes : Kmalloc(c) \/ KmallocWild(c)
  \/ \E object \in held : Kfree(object)
  \/ \E select \in {"ZONE_NORMAL", "ZONE_UNMAPED"}, n \in 1..MaxRun : AllocPages(select, n)
  \/ \E run \in runs : FreePages(run)

Spec == Init /\ [][Next]_vars
-----------------------------------------------------------------------------
Slabs(c) == Range(mm.cache[c].pool)
AllSlabs == UNION {Slabs(c) : c \in DOMAIN Classes}

Sum(numbers) ==
  LET sum[i \in 0..Len(numbers)] == IF i = 0 THEN 0 ELSE sum[i - 1] + numbers[i]
  IN  sum[Len(numbers)]
Total(c, field) == Sum([s \in DOMAIN mm.cache[c].pool |-> mm.cache[c].pool[s][field]])

TypeOK ==
  /\ mm.bits_map \subseteq Bits
  /\ \A z \in ZoneIds : {mm.using[z], mm.free[z], mm.total_pages_link[z]} \subseteq 0..(Cardinality(Pages))
  /\ \A p \in Pages : mm.reference_count[p] \in {0, 1}
  /\ held \subseteq Pages \X Nat
  /\ wild \in BOOLEAN

(* Every page has one owner: the kernel, one slab, one caller of           *)
(* alloc_pages, or the free pages.  No page is given out twice, taken back *)
(* from somebody who uses it, or lost.                                     *)
RunPages(run) == run[1]..(run[1] + run[2] - 1)
PagesOwnedOnce ==
  LET slabPages == {slab.page : slab \in AllSlabs}
      runPages == UNION {RunPages(run) : run \in runs}
  IN  /\ mm.bits_map = Holes \cup KernelPages \cup slabPages \cup runPages
      /\ slabPages \cap runPages = {} /\ KernelPages \cap (slabPages \cup runPages) = {}
      /\ \A a, b \in runs : a # b => RunPages(a) \cap RunPages(b) = {}
      /\ \A c, d \in DOMAIN Classes : \A s \in DOMAIN mm.cache[c].pool, t \in DOMAIN mm.cache[d].pool :
           mm.cache[c].pool[s].page = mm.cache[d].pool[t].page => <<c, s>> = <<d, t>>

(* A zone's counts follow its bits.  Page 0 is counted against the first   *)
(* zone without being one of its pages: it always shows one page too few.  *)
ZoneCounts ==
  \A z \in ZoneIds :
    /\ mm.using[z] + mm.free[z] = Cardinality(ZonePages(z))
    /\ mm.free[z] = Cardinality(ZonePages(z) \ mm.bits_map) - (IF z = 1 THEN 1 ELSE 0)

(* A page is referenced while the kernel, a slab or one of the others has  *)
(* it, and a zone's total_pages_link is the sum over its pages.            *)
LinksCount(others) ==
  /\ \A p \in Pages : mm.reference_count[p] = 1 <=> p \in KernelPages \cup {s.page : s \in AllSlabs} \cup others
  /\ \A z \in ZoneIds :
       mm.total_pages_link[z] = Cardinality({p \in Pages \ (Holes \ {0}) :
                                               ZoneOf(p) = z /\ mm.reference_count[p] = 1})

(* A class's totals are the sums over its slabs and agree with the maps,   *)
(* through recursive creation and release: total_free, which decides       *)
(* whether a slab is searched or created, never misleads.                  *)
SlabCounts ==
  \A c \in DOMAIN Classes :
    /\ mm.cache[c].total_free = Total(c, "free_count")
    /\ mm.cache[c].total_using = Total(c, "using_count")
    /\ \A slab \in Slabs(c) : /\ slab.using_count = Cardinality(slab.used)
                              /\ slab.free_count = slab.color_count - slab.using_count

(* Every object in use has one owner, a caller of kmalloc or the slab      *)
(* whose structure or map it is: none is given out twice, and none leaks   *)
(* when a slab is released.                                                *)
ObjectsOwnedOnce ==
  LET inUse == UNION {{slab.page} \X slab.used : slab \in AllSlabs}
      own == UNION {Range(slab.own) : slab \in AllSlabs}
  IN  /\ inUse = held \cup own /\ held \cap own = {}
      /\ \A s, t \in AllSlabs : s # t => Range(s.own) \cap Range(t.own) = {}

(* A slab is released only if its class can serve the next kmalloc without *)
(* creating it again, and the static slab of slab_init never is.           *)
ReleaseKeepsReserve ==
  [][\A c \in DOMAIN Classes : Len(mm'.cache[c].pool) < Len(mm.cache[c].pool) =>
       mm'.cache[c].total_free > 0 /\ mm'.cache[c].pool[1].page = StaticPage(c)]_vars
=============================================================================
