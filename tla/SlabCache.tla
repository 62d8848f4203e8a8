----------------------------- MODULE SlabCache -----------------------------
(***************************************************************************)
(* Slab caches (slab_create, slab_malloc, slab_free and slab_destroy in    *)
(* memory.c) on the allocators of Memory.  A cache takes a page per slab   *)
(* from alloc_pages, and from kmalloc its own structure and, per slab, a   *)
(* structure and a map; what it has taken counts as held.  Nothing in the  *)
(* kernel calls it at present: its callers are external, one cache at a    *)
(* time, together with the other callers of kmalloc and alloc_pages.       *)
(* Objects are named by their slab's page.  (The address slab_create gives *)
(* the first slab, line 745, is that of the page's structure, not of the   *)
(* page: a wrong one, but no other slab's.)                                *)
(***************************************************************************)
EXTENDS Memory

CONSTANTS
  Count,       (* PAGE_2M_SIZE / size: objects of a slab                     *)
  CacheClass,  (* the class sizeof(struct Slab_cache) falls in               *)
  MapClass     (* the class of a slab's map, a large one for small objects   *)

ASSUME SlabCacheAssumption ==
  /\ Count \in Nat \ {0}
  /\ CacheClass \in DOMAIN Classes /\ Classes[CacheClass].small
  /\ MapClass \in DOMAIN Classes

VARIABLES
  cache,       (* the cache, or NoCache                                      *)
  live,        (* objects given by slab_malloc and not yet freed             *)
  unclean      (* pages that a failed call gave back without page_clean      *)

cacheVars == <<cache, live, unclean>>

NoCache == [own |-> <<>>, pool |-> <<>>, total_using |-> 0, total_free |-> 0]

(* What the cache holds of kmalloc and of alloc_pages.                     *)
Objects(k) == Range(k.own) \cup UNION {Range(s.own) : s \in Range(k.pool)}
PageRuns(k) == {<<s.page, 1>> : s \in Range(k.pool)}

CacheInit == Init /\ cache = NoCache /\ live = {} /\ unclean = {}
-----------------------------------------------------------------------------
(* A slab, as slab_create and slab_malloc both make it: its structure, its *)
(* page, its map.  What was taken is given back when the next is refused,  *)
(* but the page keeps its reference.                                       *)
Result(m, slabs, pages) == [mm |-> m, slabs |-> slabs, unclean |-> pages]

MakeSlab(m) ==
  IF Refused(m, SlabClass) THEN Result(m, <<>>, {})
  ELSE LET structure == AllocSmall(m, SlabClass)
           page == FoundPage(structure.mm, "ZONE_NORMAL", 1)
           taken == KernelPage(structure.mm)
           map == Alloc(taken, MapClass)
       IN  IF ~HasPage(structure.mm) THEN Result(FreeSmall(structure.mm, structure.object), <<>>, {})
           ELSE IF Refused(taken, MapClass)
           THEN Result(FreeSmall(free_pages(taken, page, 1), structure.object), <<>>, {page})
           ELSE Result(map.mm, <<Slab(page, Count, <<structure.object, map.object>>)>>, {})

(* A map of a large class may itself need a slab, whose creation writes    *)
(* through the null pointer: the kernel does not get past that.            *)
SlabBreaks(m) ==
  /\ ~Refused(m, SlabClass) /\ HasPage(AllocSmall(m, SlabClass).mm)
  /\ Breaks(KernelPage(AllocSmall(m, SlabClass).mm), MapClass)

BugGiveBack(m, slab) == Free(ReturnPage(m, slab.page), slab.own[1])   \* without its map

GiveBack(m, slab) == Free(ReturnPage(Free(m, slab.own[2]), slab.page), slab.own[1])

(* The new cache, and what it holds of kmalloc and alloc_pages.            *)
Become(k) ==
  /\ cache' = k
  /\ held' = (held \ Objects(cache)) \cup Objects(k)
  /\ runs' = (runs \ PageRuns(cache)) \cup PageRuns(k)

(* A page left with a reference is in order again once a slab has it.      *)
Leave(pages) ==
  LET slabs == Range(cache'.pool) \cup UNION {Range(mm'.cache[c].pool) : c \in DOMAIN Classes}
  IN  unclean' = (unclean \cup pages) \ {s.page : s \in slabs}

SlabCreate ==
  /\ cache = NoCache /\ ~Refused(mm, CacheClass)   \* else it returns NULL
  /\ LET own == AllocSmall(mm, CacheClass)
         made == MakeSlab(own.mm)
     IN  /\ ~SlabBreaks(own.mm) /\ made.slabs # <<>>
         /\ mm' = made.mm
         /\ Become([own |-> <<own.object>>, pool |-> made.slabs, total_using |-> 0, total_free |-> Count])
  /\ UNCHANGED live /\ Leave({})

SlabCreateFails ==
  /\ cache = NoCache /\ ~Refused(mm, CacheClass)
  /\ LET own == AllocSmall(mm, CacheClass)
         made == MakeSlab(own.mm)
     IN  /\ ~SlabBreaks(own.mm) /\ made.slabs = <<>>
         /\ mm' = FreeSmall(made.mm, own.object)
         /\ UNCHANGED <<held, runs, cache, live>>
         /\ Leave(made.unclean)

SlabCreateWild ==
  /\ cache = NoCache /\ ~Refused(mm, CacheClass)
  /\ SlabBreaks(AllocSmall(mm, CacheClass).mm)

BugGiveObject(k, s) ==   \* the slab does not count it, the totals do
  LET i == Least((0..(Count - 1)) \ k.pool[s].used)
  IN  /\ Become([k EXCEPT !.pool[s].used = @ \cup {i}, !.total_using = @ + 1, !.total_free = @ - 1])
      /\ live' = live \cup {<<k.pool[s].page, i>>}

GiveObject(k, s) ==
  LET i == Least((0..(Count - 1)) \ k.pool[s].used)
  IN  /\ Become([k EXCEPT !.pool[s].used = @ \cup {i}, !.pool[s].using_count = @ + 1,
                          !.pool[s].free_count = @ - 1, !.total_using = @ + 1, !.total_free = @ - 1])
      /\ live' = live \cup {<<k.pool[s].page, i>>}

(* slab_malloc with free objects: from the first slab with a free_count.   *)
(* When there is none, it returns NULL.                                    *)
Roomy == {s \in DOMAIN cache.pool : cache.pool[s].free_count # 0}
SlabMalloc ==
  /\ cache # NoCache /\ cache.total_free # 0 /\ Roomy # {}
  /\ GiveObject(cache, Least(Roomy))
  /\ UNCHANGED mm /\ Leave({})

(* Without: a new slab behind cache_pool, whose using_count begins at the  *)
(* number of its objects.                                                  *)
SlabMallocGrows ==
  /\ cache # NoCache /\ cache.total_free = 0
  /\ LET made == MakeSlab(mm)
         new == [made.slabs[1] EXCEPT !.using_count = Count]
     IN  /\ ~SlabBreaks(mm) /\ made.slabs # <<>>
         /\ mm' = made.mm
         /\ GiveObject([cache EXCEPT !.pool = InsertAt(@, 2, new), !.total_free = @ + Count], 2)
  /\ Leave({})

SlabMallocFails ==
  /\ cache # NoCache /\ cache.total_free = 0
  /\ ~SlabBreaks(mm) /\ MakeSlab(mm).slabs = <<>>
  /\ mm' = MakeSlab(mm).mm
  /\ UNCHANGED <<held, runs, cache, live>>
  /\ Leave(MakeSlab(mm).unclean)

SlabMallocWild == cache # NoCache /\ cache.total_free = 0 /\ SlabBreaks(mm)

(* slab_free clears the bit and counts in the totals, but not in the slab: *)
(* the slab is released by a count that only grows.                        *)
SlabFree(object) ==
  /\ LET s == CHOOSE s \in DOMAIN cache.pool : cache.pool[s].page = object[1]
         marked == [cache EXCEPT !.pool[s].used = @ \ {object[2]},
                                 !.total_using = @ - 1, !.total_free = @ + 1]
         slab == marked.pool[s]
     IN  IF slab.using_count = 0 /\ marked.total_free >= (Count * 3) \div 2
         THEN /\ mm' = GiveBack(mm, slab)
              /\ Become([marked EXCEPT !.pool = RemoveAt(@, s), !.total_free = @ - Count])
         ELSE UNCHANGED mm /\ Become(marked)
  /\ live' = live \ {object}
  /\ Leave({})

(* slab_destroy: map, page and structure of each slab, then the cache.     *)
GiveBackAll(m, slabs) ==
  LET given[i \in 0..Len(slabs)] == IF i = 0 THEN m ELSE GiveBack(given[i - 1], slabs[i])
  IN  given[Len(slabs)]

SlabDestroy ==
  /\ cache # NoCache /\ cache.total_using = 0   \* else it returns 0
  /\ mm' = Free(GiveBackAll(mm, cache.pool), cache.own[1])
  /\ Become(NoCache)
  /\ UNCHANGED live /\ Leave({})

Others ==
  \/ \E c \in DOMAIN Classes : Kmalloc(c) \/ KmallocWild(c)
  \/ \E object \in held \ Objects(cache) : Kfree(object)
  \/ \E select \in {"ZONE_NORMAL", "ZONE_UNMAPED"}, n \in 1..MaxRun : AllocPages(select, n)
  \/ \E run \in runs \ PageRuns(cache) : FreePages(run)

CacheNext ==
  \/ /\ SlabCreate \/ SlabCreateFails \/ SlabMalloc \/ SlabMallocGrows \/ SlabMallocFails
        \/ (\E object \in live : SlabFree(object)) \/ SlabDestroy
     /\ ~wild /\ UNCHANGED wild
  \/ /\ SlabCreateWild \/ SlabMallocWild
     /\ ~wild /\ wild' = TRUE
     /\ UNCHANGED <<mm, held, runs, cacheVars>>
  \/ Others /\ UNCHANGED <<cache, live>> /\ Leave({})

CacheSpec == CacheInit /\ [][CacheNext]_<<vars, cacheVars>>
-----------------------------------------------------------------------------
(* Every page and every object has one owner throughout: what a cache      *)
(* holds is given out by nobody else, all of it returns when the cache is  *)
(* destroyed or a call fails half way, and a released slab leaks nothing.  *)
OwnedOnce == TypeOK /\ PagesOwnedOnce /\ ObjectsOwnedOnce

(* The counts of zones, pages and classes follow what is taken; the one    *)
(* trace a failed creation leaves is the reference of a page that it gave  *)
(* back without page_clean.  A null pointer is written through only when   *)
(* the zone has fewer pages left than a large class's slab and its parts   *)
(* need, 3, or with a cache and its slab before them, 5.                   *)
CountsAgree ==
  /\ ZoneCounts /\ SlabCounts
  /\ LinksCount({s.page : s \in Range(cache.pool)} \cup unclean)
  /\ wild => mm.free[1] < (IF Classes[MapClass].small THEN 3 ELSE 5)

(* A cache gives no object twice and its totals are exact.  A slab counts  *)
(* at most the objects it has, so one that is searched has one; but its    *)
(* count never rises again, and a cache whose slabs have all been counted  *)
(* down refuses although objects are free.                                 *)
CacheExact ==
  /\ live = UNION {{s.page} \X s.used : s \in Range(cache.pool)}
  /\ cache.total_using = Cardinality(live)
  /\ cache.total_using + cache.total_free = Count * Len(cache.pool)
  /\ \A s \in Range(cache.pool) : s.free_count <= Count - Cardinality(s.used)
=============================================================================
