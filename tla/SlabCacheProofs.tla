-------------------------- MODULE SlabCacheProofs --------------------------
(***************************************************************************)
(* Proofs about SlabCache.tla, for caches of any size of objects on any    *)
(* memory: the invariant of the memory with its caches, and the properties *)
(* that follow from it.                                                    *)
(***************************************************************************)
EXTENDS SlabCache, MemoryProofs, FiniteSetTheorems, SequenceTheorems, TLAPS
-----------------------------------------------------------------------------
(* What is given back after a refusal leaves no class with more than it    *)
(* had, so that a slab made on the way is not released.                    *)
Sparing(m, r) ==
  \A c \in DOMAIN Classes : m.cache[c].total_free > 0 => r.cache[c].total_free <= m.cache[c].total_free

Reserve(m, r) ==
  \A c \in DOMAIN Classes : Len(r.cache[c].pool) < Len(m.cache[c].pool) => r.cache[c].total_free > 0

LEMMA ReserveGrows ==
  ASSUME NEW m, NEW a, NEW r, Rings(m), Rings(a), Rings(r), Grows(m, a), Reserve(a, r)
  PROVE  Reserve(m, r)
<1>1. ASSUME NEW c \in DOMAIN Classes, Len(r.cache[c].pool) < Len(m.cache[c].pool)
      PROVE  r.cache[c].total_free > 0
  <2>1. PICK x \in Nat : x = Len(m.cache[c].pool)
    BY DEF Rings
  <2>2. PICK y \in Nat : y = Len(a.cache[c].pool)
    BY DEF Rings
  <2>3. PICK z \in Nat : z = Len(r.cache[c].pool)
    BY DEF Rings
  <2>4. x <= y /\ z < x
    BY <1>1, <2>1, <2>2, <2>3 DEF Grows
  <2>5. z < y
    BY <2>4
  <2>6. QED
    BY <2>2, <2>3, <2>5 DEF Reserve
<1>2. QED
  BY <1>1 DEF Reserve

LEMMA ReserveKept ==
  ASSUME NEW m, NEW a, NEW r, Rings(m), Rings(a), Rings(r), Reserve(m, a), Kept(a, r)
  PROVE  Reserve(m, r)
<1>1. ASSUME NEW c \in DOMAIN Classes, Len(r.cache[c].pool) < Len(m.cache[c].pool)
      PROVE  r.cache[c].total_free > 0
  <2>1. PICK x \in Nat : x = Len(m.cache[c].pool)
    BY DEF Rings
  <2>2. PICK y \in Nat : y = Len(a.cache[c].pool)
    BY DEF Rings
  <2>3. PICK z \in Nat : z = Len(r.cache[c].pool)
    BY DEF Rings
  <2>4. y < x \/ z < y
    BY <1>1, <2>1, <2>2, <2>3
  <2>5. QED
    BY <2>1, <2>2, <2>3, <2>4 DEF Reserve, Kept
<1>2. QED
  BY <1>1 DEF Reserve

LEMMA KeptReserve ==
  ASSUME NEW m, NEW r, Kept(m, r)
  PROVE  Reserve(m, r)
BY DEF Kept, Reserve

LEMMA HeldPage ==
  ASSUME NEW m, NEW O, NEW S, NEW R, NEW L, Mem(m, O, S, R, L), NEW o \in O
  PROVE  o[1] \in SlabPages(m) /\ o \in ObjectNames
<1>1. o \in UsedOf(Content(m.cache))
  BY DEF Mem, CacheSide, Possession
<1>2. o \in ObjectNames /\ \E x \in DOMAIN Content(m.cache) : Content(m.cache)[x].page = o[1]
  BY <1>1 DEF UsedOf
<1>3. o[1] \in Pages
  BY <1>2 DEF ObjectNames
<1>4. QED
  BY <1>2, <1>3 DEF SlabPages, PagesOf

Undone(m, r, O, S, R, L, M, a) ==
  /\ Mem(r, O, S, R, M) /\ L \ {a[1]} = L \ SlabPages(r)
  /\ SlabPages(r) \subseteq SlabPages(m) \cup {a[1]} /\ Homes(m, r) /\ Sparing(m, r) /\ Reserve(m, r)

LEMMA MemUndo ==
  ASSUME NEW m, NEW n, NEW O, NEW S, NEW R, NEW L, Mem(m, O, S, R, L), NEW c \in DOMAIN Classes, NEW a,
         Got(m, n, O, S, R, L, c, a), NEW x, x.cache = n.cache, NEW M, Mem(x, O \cup {a}, S \cup {a}, R, M),
         NEW r, r = FreeSmall(x, a)
  PROVE  Undone(m, r, O, S, R, L, M, a)
<1>1. PICK f : f = m.cache[c].total_free
  OBVIOUS
<1>2. PICK N : N = Classes[c].created
  OBVIOUS
<1>3. /\ a \in ObjectNames /\ a \notin O
      /\ SlabPages(n) = SlabPages(m) \cup {a[1]}
      /\ OtherRings(m, n, c) /\ Homes(m, n) /\ Home(n, c, a[1])
      /\ n.cache[c].total_free = (IF f = 0 THEN N ELSE f) - 1
      /\ (f # 0 => a[1] \in SlabPages(m))
  BY <1>1, <1>2, Zenon DEF Got
<1>4. /\ SlabPages(x) = SlabPages(m) \cup {a[1]}
      /\ OtherRings(m, x, c) /\ Homes(m, x) /\ Home(x, c, a[1])
      /\ x.cache[c].total_free = (IF f = 0 THEN N ELSE f) - 1
  BY <1>3 DEF SlabPages, OtherRings, Homes, Home
<1>5. Back(x, r, O \cup {a}, S \cup {a}, R, M, a)
  <2>1. PICK O1 : O1 = O \cup {a}
    OBVIOUS
  <2>2. PICK S1 : S1 = S \cup {a}
    OBVIOUS
  <2>3. Mem(x, O1, S1, R, M) /\ a \in S1
    BY <2>1, <2>2
  <2>4. Back(x, r, O1, S1, R, M, a)
    BY <2>3, MemFreeSmall
  <2>5. QED
    BY <2>1, <2>2, <2>4
<1>6. /\ Mem(r, (O \cup {a}) \ {a}, (S \cup {a}) \ {a}, R, M)
      /\ Homes(x, r) /\ Kept(x, r)
      /\ SlabPages(r) = SlabPages(x) \/ SlabPages(r) = SlabPages(x) \ {a[1]}
      /\ \E d \in DOMAIN Classes :
           /\ Home(x, d, a[1]) /\ OtherRings(x, r, d) /\ r.cache[d].total_free <= x.cache[d].total_free + 1
           /\ SlabPages(r) # SlabPages(x) => x.cache[d].total_free + 1 > Classes[d].created
  BY <1>5, Zenon DEF Back
<1>7. PICK d \in DOMAIN Classes :
           /\ Home(x, d, a[1]) /\ OtherRings(x, r, d) /\ r.cache[d].total_free <= x.cache[d].total_free + 1
           /\ SlabPages(r) # SlabPages(x) => x.cache[d].total_free + 1 > Classes[d].created
  BY <1>6
<1>8. x \in Mems /\ Apart(Content(x.cache))
  BY DEF Mem, CacheSide
<1>9. d = c
  BY <1>4, <1>7, <1>8, HomeUnique
<1>10. S \subseteq O /\ L \cap SlabPages(m) = {}
  BY DEF Mem, CacheSide, Possession
<1>11. (O \cup {a}) \ {a} = O /\ (S \cup {a}) \ {a} = S
  BY <1>3, <1>10
<1>12. Mem(r, O, S, R, M)
  BY <1>6, <1>11, Zenon
<1>13. Rings(m) /\ Rings(r) /\ Rings(x) /\ Rings(n)
  <2>1. Rings(m) /\ Rings(r) /\ Rings(x)
    BY <1>12, MemRings
  <2>2. QED
    BY <2>1 DEF Rings
<1>14. f \in Nat /\ N \in Nat \ {0, 1} /\ r.cache[c].total_free \in Nat
  BY <1>1, <1>2, <1>13, ClassFacts DEF Rings
<1>15. SlabPages(r) # SlabPages(x) => f # 0
  <2>1. SUFFICES ASSUME SlabPages(r) # SlabPages(x), f = 0
                 PROVE  FALSE
    OBVIOUS
  <2>2. x.cache[c].total_free + 1 > N
    BY <1>2, <1>7, <1>9, <2>1
  <2>3. x.cache[c].total_free = N - 1
    BY <1>4, <2>1
  <2>4. QED
    BY <1>14, <2>2, <2>3
<1>16. L \ {a[1]} = L \ SlabPages(r)
  <2>1. CASE SlabPages(r) = SlabPages(x)
    BY <1>4, <1>10, <2>1
  <2>2. CASE SlabPages(r) # SlabPages(x)
    <3>1. a[1] \in SlabPages(m) /\ SlabPages(r) = SlabPages(x) \ {a[1]}
      BY <1>3, <1>6, <1>15, <2>2
    <3>2. QED
      BY <1>4, <1>10, <3>1
  <2>3. QED
    BY <2>1, <2>2
<1>17. SlabPages(r) \subseteq SlabPages(x) /\ SlabPages(r) \subseteq SlabPages(m) \cup {a[1]}
  BY <1>4, <1>6
<1>18. Homes(m, r)
  BY <1>4, <1>6, <1>17, HomesMore
<1>19. Sparing(m, r)
  <2>1. ASSUME NEW e \in DOMAIN Classes, m.cache[e].total_free > 0
        PROVE  r.cache[e].total_free <= m.cache[e].total_free
    <3>1. CASE e # c
      <4>1. r.cache[e] = m.cache[e] /\ m.cache[e].total_free \in Nat
        BY <1>4, <1>7, <1>9, <1>13, <3>1 DEF OtherRings, Rings
      <4>2. QED
        BY <4>1
    <3>2. CASE e = c
      <4>1. x.cache[c].total_free = f - 1 /\ r.cache[c].total_free <= x.cache[c].total_free + 1
        BY <1>1, <1>4, <1>7, <1>9, <1>14, <2>1, <3>2
      <4>2. QED
        BY <1>1, <1>14, <3>2, <4>1
    <3>3. QED
      BY <3>1, <3>2
  <2>2. QED
    BY <2>1 DEF Sparing
<1>20. Reserve(m, r)
  <2>1. Grows(m, n)
    BY <1>13, GotGrows
  <2>2. Grows(m, x)
    BY <2>1 DEF Grows
  <2>3. Reserve(x, r)
    BY <1>6, KeptReserve
  <2>4. QED
    BY <1>13, <2>2, <2>3, ReserveGrows
<1>21. QED
  BY <1>12, <1>16, <1>17, <1>18, <1>19, <1>20, Zenon DEF Undone
-----------------------------------------------------------------------------
(* MakeSlab: a slab for a cache, or all of it given back but the mark on a *)
(* page.                                                                   *)
Built(m, r, O, S, R, L, a, b, p) ==
  /\ a \in ObjectNames /\ b \in ObjectNames /\ a # b /\ a \notin O /\ b \notin O
  /\ p \in Pages /\ <<p, 1>> \notin R /\ r.slabs = <<Slab(p, Count, <<a, b>>)>>
  /\ Mem(r.mm, O \cup {a, b}, S, R \cup {<<p, 1>>}, (L \cup {p}) \ SlabPages(r.mm))
  /\ Grows(m, r.mm)

Undo(m, f, U, O, S, R, L) ==
  /\ Mem(f, O, S, R, (L \cup U) \ SlabPages(f)) /\ U \cap SlabPages(m) = {}
  /\ Homes(m, f) /\ Sparing(m, f) /\ Reserve(m, f)

LEMMA HomesSame ==
  ASSUME NEW m, Rings(m)
  PROVE  Homes(m, m) /\ Sparing(m, m) /\ Reserve(m, m) /\ Grows(m, m)
BY DEF Homes, Sparing, Reserve, Grows, Rings

LEMMA MemMakeSlab ==
  ASSUME NEW m, NEW O, NEW S, NEW R, NEW L, Mem(m, O, S, R, L), ~SlabBreaks(m), NEW r, r = MakeSlab(m)
  PROVE  /\ (r.slabs # <<>> => \E a, b, p : Built(m, r, O, S, R, L, a, b, p))
         /\ (r.slabs = <<>> => Undo(m, r.mm, r.unclean, O, S, R, L))
<1>0. SlabClass \in DOMAIN Classes /\ Classes[SlabClass].small /\ MapClass \in DOMAIN Classes
  BY MemoryAssumption, SlabCacheAssumption
<1>01. Rings(m) /\ L \cap SlabPages(m) = {} /\ S \subseteq O
  BY MemRings DEF Mem, CacheSide, Possession
<1>1. CASE Refused(m, SlabClass)
  <2>1. r = Result(m, <<>>, {})
    BY <1>1 DEF MakeSlab
  <2>2. r.mm = m /\ r.slabs = <<>> /\ r.unclean = {}
    BY <2>1 DEF Result
  <2>3. (L \cup {}) \ SlabPages(m) = L
    BY <1>01
  <2>4. Mem(m, O, S, R, (L \cup {}) \ SlabPages(m))
    BY <2>3
  <2>5. Undo(m, m, {}, O, S, R, L)
    BY <1>01, <2>4, HomesSame DEF Undo
  <2>6. QED
    BY <2>2, <2>5
<1>2. CASE ~Refused(m, SlabClass)
  <2>1. PICK n : n = AllocSmall(m, SlabClass).mm
    OBVIOUS
  <2>2. PICK a : a = AllocSmall(m, SlabClass).object
    OBVIOUS
  <2>3. Got(m, n, O, S, R, L, SlabClass, a)
    BY <1>0, <1>2, <2>1, <2>2, MemAllocSmall
  <2>4. PICK O1 : O1 = O \cup {a}
    OBVIOUS
  <2>5. PICK S1 : S1 = S \cup {a}
    OBVIOUS
  <2>6. PICK L1 : L1 = L \ {a[1]}
    OBVIOUS
  <2>7. /\ a \in ObjectNames /\ a \notin O /\ Mem(n, O1, S1, R, L1)
        /\ SlabPages(n) = SlabPages(m) \cup {a[1]}
    BY <2>3, <2>4, <2>5, <2>6, Zenon DEF Got
  <2>8. Grows(m, n) /\ Rings(n)
    BY <1>0, <1>01, <2>3, GotGrows
  <2>9. PICK p : p = FoundPage(n, "ZONE_NORMAL", 1)
    OBVIOUS
  <2>10. PICK k : k = KernelPage(n)
    OBVIOUS
  <2>11. r = (IF ~HasPage(n) THEN Result(FreeSmall(n, a), <<>>, {})
              ELSE IF Refused(k, MapClass) THEN Result(FreeSmall(free_pages(k, p, 1), a), <<>>, {p})
              ELSE Result(Alloc(k, MapClass).mm, <<Slab(p, Count, <<a, Alloc(k, MapClass).object>>)>>, {}))
    BY <1>2, <2>1, <2>2, <2>9, <2>10 DEF MakeSlab
  <2>12. CASE ~HasPage(n)
    <3>1. PICK f : f = FreeSmall(n, a)
      OBVIOUS
    <3>2. r.mm = f /\ r.slabs = <<>> /\ r.unclean = {}
      BY <2>11, <2>12, <3>1 DEF Result
    <3>3. Mem(n, O \cup {a}, S \cup {a}, R, L1)
      BY <2>4, <2>5, <2>7
    <3>4. Undone(m, f, O, S, R, L, L1, a)
      BY <1>0, <2>3, <3>1, <3>3, MemUndo
    <3>5. /\ Mem(f, O, S, R, L1) /\ L \ {a[1]} = L \ SlabPages(f)
          /\ Homes(m, f) /\ Sparing(m, f) /\ Reserve(m, f)
      BY <3>4, Zenon DEF Undone
    <3>6. L1 = (L \cup {}) \ SlabPages(f)
      BY <2>6, <3>5
    <3>7. Undo(m, f, {}, O, S, R, L)
      BY <3>5, <3>6 DEF Undo
    <3>8. QED
      BY <3>2, <3>7
  <2>13. CASE HasPage(n)
    <3>1. PICK R1 : R1 = R \cup {<<p, 1>>}
      OBVIOUS
    <3>2. PICK L2 : L2 = L1 \cup {p}
      OBVIOUS
    <3>3. /\ Mem(k, O1, S1, R1, L2) /\ k.cache = n.cache
          /\ p \in Pages /\ p \notin SlabPages(n) /\ <<p, 1>> \notin R
      BY <2>7, <2>9, <2>10, <2>13, <3>1, <3>2, MemKernelPage
    <3>4. CASE Refused(k, MapClass)
      <4>1. PICK x : x = free_pages(k, p, 1)
        OBVIOUS
      <4>2. PICK f : f = FreeSmall(x, a)
        OBVIOUS
      <4>3. r.mm = f /\ r.slabs = <<>> /\ r.unclean = {p}
        BY <2>11, <2>13, <3>4, <4>1, <4>2 DEF Result
      <4>4. <<p, 1>> \in R1 /\ R1 \ {<<p, 1>>} = R
        BY <3>1, <3>3
      <4>5. Mem(x, O1, S1, R1 \ {<<p, 1>>}, L2) /\ x.cache = k.cache
        BY <3>3, <4>1, <4>4, MemGive
      <4>6. Mem(x, O \cup {a}, S \cup {a}, R, L2) /\ x.cache = n.cache
        BY <2>4, <2>5, <3>3, <4>4, <4>5, Zenon
      <4>7. Undone(m, f, O, S, R, L, L2, a)
        BY <1>0, <2>3, <4>2, <4>6, MemUndo
      <4>8. /\ Mem(f, O, S, R, L2) /\ L \ {a[1]} = L \ SlabPages(f)
            /\ SlabPages(f) \subseteq SlabPages(m) \cup {a[1]}
            /\ Homes(m, f) /\ Sparing(m, f) /\ Reserve(m, f)
        BY <4>7, Zenon DEF Undone
      <4>9. L2 = (L \cup {p}) \ SlabPages(f)
        BY <2>6, <2>7, <3>2, <3>3, <4>8
      <4>10. {p} \cap SlabPages(m) = {}
        BY <2>7, <3>3
      <4>11. Undo(m, f, {p}, O, S, R, L)
        BY <4>8, <4>9, <4>10 DEF Undo
      <4>12. QED
        BY <4>3, <4>11
    <3>5. CASE ~Refused(k, MapClass)
      <4>1. PICK t : t = Alloc(k, MapClass).mm
        OBVIOUS
      <4>2. PICK b : b = Alloc(k, MapClass).object
        OBVIOUS
      <4>3. ~Breaks(k, MapClass)
        BY <1>2, <2>1, <2>10, <2>13 DEF SlabBreaks
      <4>4. Obtained(k, t, O1, S1, R1, L2, b)
        BY <1>0, <3>3, <3>5, <4>1, <4>2, <4>3, MemKmalloc
      <4>5. PICK O2 : O2 = O1 \cup {b}
        OBVIOUS
      <4>6. PICK L3 : L3 = L2 \ SlabPages(t)
        OBVIOUS
      <4>7. b \in ObjectNames /\ b \notin O1 /\ Mem(t, O2, S1, R1, L3) /\ Grows(k, t)
        BY <4>4, <4>5, <4>6, Zenon DEF Obtained
      <4>8. r.mm = t /\ r.slabs = <<Slab(p, Count, <<a, b>>)>>
        BY <2>11, <2>13, <3>5, <4>1, <4>2 DEF Result
      <4>9. a \in O2
        BY <2>4, <4>5
      <4>10. a[1] \in SlabPages(t)
        BY <4>7, <4>9, HeldPage
      <4>11. L3 = (L \cup {p}) \ SlabPages(t)
        BY <2>6, <3>2, <4>6, <4>10
      <4>12. O2 = O \cup {a, b} /\ S \subseteq S1
        BY <2>4, <2>5, <4>5
      <4>13. Mem(t, O2, S, R1, L3)
        BY <4>7, <4>12, MemLess
      <4>14. Mem(t, O \cup {a, b}, S, R \cup {<<p, 1>>}, (L \cup {p}) \ SlabPages(t))
        BY <3>1, <4>11, <4>12, <4>13, Zenon
      <4>15. Grows(m, t)
        <5>1. Rings(t)
          BY <4>7, MemRings
        <5>2. Grows(n, t)
          BY <3>3, <4>7 DEF Grows
        <5>3. QED
          BY <1>01, <2>8, <5>1, <5>2, GrowsMore
      <4>16. a # b /\ b \notin O
        BY <2>4, <4>7
      <4>17. Built(m, r, O, S, R, L, a, b, p)
        BY <2>7, <3>3, <4>7, <4>8, <4>14, <4>15, <4>16, Zenon DEF Built
      <4>18. r.slabs # <<>>
        BY <4>8
      <4>19. QED
        BY <4>17, <4>18, Zenon
    <3>6. QED
      BY <3>4, <3>5
  <2>14. QED
    BY <2>12, <2>13
<1>3. QED
  BY <1>1, <1>2
-----------------------------------------------------------------------------
(* GiveBack: the map, the page and the structure of a cache's slab.        *)
Returned(m, r, O, S, R, L, a, b, p) ==
  Mem(r, O \ {a, b}, S \ {a, b}, R \ {<<p, 1>>}, L \ {p}) /\ Kept(m, r)

LEMMA MemGiveBack ==
  ASSUME NEW m, NEW O, NEW S, NEW R, NEW L, Mem(m, O, S, R, L), NEW a \in O, NEW b \in O, a # b,
         NEW p \in L, <<p, 1>> \in R, NEW slab, slab.own[1] = a, slab.own[2] = b, slab.page = p,
         NEW r, r = GiveBack(m, slab)
  PROVE  Returned(m, r, O, S, R, L, a, b, p)
<1>1. PICK n : n = Free(m, b)
  OBVIOUS
<1>2. PICK k : k = ReturnPage(n, p)
  OBVIOUS
<1>3. r = Free(k, a)
  BY <1>1, <1>2 DEF GiveBack
<1>4. PICK O1 : O1 = O \ {b}
  OBVIOUS
<1>5. PICK S1 : S1 = S \ {b}
  OBVIOUS
<1>6. PICK R1 : R1 = R \ {<<p, 1>>}
  OBVIOUS
<1>7. PICK L1 : L1 = L \ {p}
  OBVIOUS
<1>8. Freed(m, n, O, S, R, L, b)
  BY <1>1, MemKfree
<1>9. Mem(n, O1, S1, R, L) /\ Kept(m, n)
  BY <1>4, <1>5, <1>8, Zenon DEF Freed
<1>10. Mem(k, O1, S1, R \ {<<p, 1>>}, L \ {p}) /\ k.cache = n.cache
  BY <1>2, <1>9, MemReturnPage
<1>11. Mem(k, O1, S1, R1, L1)
  BY <1>6, <1>7, <1>10, Zenon
<1>12. a \in O1
  BY <1>4
<1>13. Freed(k, r, O1, S1, R1, L1, a)
  BY <1>3, <1>11, <1>12, MemKfree
<1>14. Mem(r, O1 \ {a}, S1 \ {a}, R1, L1) /\ Kept(k, r)
  BY <1>13, Zenon DEF Freed
<1>15. O1 \ {a} = O \ {a, b} /\ S1 \ {a} = S \ {a, b}
  BY <1>4, <1>5
<1>16. Mem(r, O \ {a, b}, S \ {a, b}, R \ {<<p, 1>>}, L \ {p})
  BY <1>6, <1>7, <1>14, <1>15, Zenon
<1>17. Rings(m) /\ Rings(n) /\ Rings(k) /\ Rings(r)
  BY <1>9, <1>11, <1>16, MemRings
<1>18. Kept(n, r)
  BY <1>10, <1>14 DEF Kept
<1>19. Kept(m, r)
  BY <1>9, <1>17, <1>18, KeptMore DEF Rings
<1>20. QED
  BY <1>16, <1>19 DEF Returned

(* Too few pages for a cache's slab with its map of a large class.         *)
LEMMA MemSlabBreaks ==
  ASSUME NEW m, NEW O, NEW S, NEW R, NEW L, Mem(m, O, S, R, L), SlabBreaks(m)
  PROVE  m.free[1] < 4 /\ ~Classes[MapClass].small
<1>0. SlabClass \in DOMAIN Classes /\ Classes[SlabClass].small /\ MapClass \in DOMAIN Classes
  BY MemoryAssumption, SlabCacheAssumption
<1>1. PICK n : n = AllocSmall(m, SlabClass).mm
  OBVIOUS
<1>2. PICK a : a = AllocSmall(m, SlabClass).object
  OBVIOUS
<1>3. PICK k : k = KernelPage(n)
  OBVIOUS
<1>4. ~Refused(m, SlabClass) /\ HasPage(n) /\ Breaks(k, MapClass)
  BY <1>1, <1>3 DEF SlabBreaks
<1>5. Got(m, n, O, S, R, L, SlabClass, a)
  BY <1>0, <1>1, <1>2, <1>4, MemAllocSmall
<1>6. PICK f : f = m.cache[SlabClass].total_free
  OBVIOUS
<1>7. PICK c : c = Classes[SlabClass].created
  OBVIOUS
<1>8. /\ Mem(n, O \cup {a}, S \cup {a}, R, L \ {a[1]})
      /\ n.cache[SlabClass].total_free = (IF f = 0 THEN c ELSE f) - 1
      /\ n.free[1] = m.free[1] - (IF f = 0 THEN 1 ELSE 0)
  BY <1>5, <1>6, <1>7, Zenon DEF Got
<1>9. PICK p : p = FoundPage(n, "ZONE_NORMAL", 1)
  OBVIOUS
<1>10. /\ Mem(k, O \cup {a}, S \cup {a}, R \cup {<<p, 1>>}, (L \ {a[1]}) \cup {p})
       /\ k.cache = n.cache /\ k.free[1] = n.free[1] - 1
  BY <1>3, <1>4, <1>8, <1>9, MemKernelPage
<1>11. k.free[1] < 2 + Short(k, SlabClass)
  BY <1>0, <1>4, <1>10, MemWild
<1>12. m.free[1] \in Int /\ n.free[1] \in Int /\ k.free[1] \in Int
  BY <1>8, <1>10, MemFree
<1>13. f \in Nat /\ c \in Nat \ {0, 1}
  BY <1>0, <1>6, <1>7, MemRings, ClassFacts DEF Rings
<1>14. f = 0 => Short(k, SlabClass) = 0
  BY <1>8, <1>10, <1>13 DEF Short
<1>15. Short(k, SlabClass) \in {0, 1}
  BY DEF Short
<1>16. m.free[1] < 4
  BY <1>8, <1>10, <1>11, <1>12, <1>13, <1>14, <1>15
<1>17. QED
  BY <1>4, <1>16 DEF Breaks
-----------------------------------------------------------------------------
(* A cache: whole slabs with parts of their own, and its counts, of which  *)
(* using_count only grows.                                                 *)
CacheShapes == [own : Seq(ObjectNames), pool : SlabRings, total_using : Int, total_free : Int]

PartsApart(k) ==
  /\ \A s \in 1..Len(k.pool) : /\ k.pool[s].own = <<k.pool[s].own[1], k.pool[s].own[2]>>
                               /\ k.pool[s].own[1] \in ObjectNames /\ k.pool[s].own[2] \in ObjectNames
                               /\ k.pool[s].own[1] # k.own[1] /\ k.pool[s].own[2] # k.own[1]
  /\ \A s, t \in 1..Len(k.pool) : \A u, v \in {1, 2} : k.pool[s].own[u] = k.pool[t].own[v] => s = t /\ u = v
  /\ \A s, t \in 1..Len(k.pool) : k.pool[s].page = k.pool[t].page => s = t

GoodCache(k) ==
  /\ k \in CacheShapes /\ PartsApart(k)
  /\ k = NoCache \/ (k.pool # <<>> /\ k.own = <<k.own[1]>> /\ k.own[1] \in ObjectNames)

InUse(k) == {o \in ObjectNames : \E s \in 1..Len(k.pool) : k.pool[s].page = o[1] /\ o[2] \in k.pool[s].used}

Filled(b) ==
  /\ b.used \subseteq 0..(Count - 1) /\ b.free_count \in Nat
  /\ b.free_count <= Count - Cardinality(b.used) /\ b.using_count >= Cardinality(b.used)

Exact(k, V) ==
  /\ \A s \in 1..Len(k.pool) : Filled(k.pool[s])
  /\ V = InUse(k) /\ IsFiniteSet(V)
  /\ k.total_using = Cardinality(V)
  /\ k.total_using + k.total_free = Count * Len(k.pool)

CachePages(k) == {p \in Pages : \E s \in 1..Len(k.pool) : k.pool[s].page = p}

Settled(m, k, V, O, R, W) ==
  /\ GoodCache(k) /\ Exact(k, V) /\ PageRuns(k) \subseteq R
  /\ Objects(k) \subseteq O /\ Mem(m, O, {}, R, (CachePages(k) \cup W) \ SlabPages(m))

System(m, k, V, O, R, U) ==
  /\ GoodCache(k) /\ Exact(k, V) /\ PageRuns(k) \subseteq R
  /\ Objects(k) \subseteq O /\ Mem(m, O, {}, R, CachePages(k) \cup U) /\ U \cap CachePages(k) = {}

LEMMA CacheFields ==
  ASSUME NEW k \in CacheShapes
  PROVE  /\ k.own \in Seq(ObjectNames) /\ k.pool \in Seq(SlabRecords) /\ k.total_using \in Int /\ k.total_free \in Int
         /\ Len(k.pool) \in Nat /\ DOMAIN k.pool = 1..Len(k.pool)
         /\ \A s \in 1..Len(k.pool) : k.pool[s] \in SlabRecords /\ k.pool[s].page \in Pages
<1>1. k.own \in Seq(ObjectNames) /\ k.pool \in SlabRings /\ k.total_using \in Int /\ k.total_free \in Int
  BY DEF CacheShapes
<1>2. PICK q \in Seq(SlabRecords) : q = k.pool
  <2>1. k.pool \in Seq(SlabRecords)
    BY <1>1 DEF SlabRings
  <2>2. QED
    BY <2>1, Zenon
<1>3. Len(q) \in Nat /\ DOMAIN q = 1..Len(q)
  BY <1>2
<1>4. \A s \in 1..Len(q) : q[s] \in SlabRecords
  BY <1>2, ElementOfSeq
<1>5. \A s \in 1..Len(q) : q[s].page \in Pages
  BY <1>4, SlabFields
<1>6. QED
  BY <1>1, <1>2, <1>3, <1>4, <1>5

(* The model's sets of a cache, element by element.                        *)
CacheView(k) ==
  /\ \A w : w \in PageRuns(k) <=> \E s \in 1..Len(k.pool) : w = <<k.pool[s].page, 1>>
  /\ \A p \in CachePages(k) : <<p, 1>> \in PageRuns(k)
  /\ CachePages(k) = {s.page : s \in Range(k.pool)}
  /\ k = NoCache => Objects(k) = {}
  /\ k # NoCache => \A o : o \in Objects(k) <=> \/ o = k.own[1]
                              \/ \E s \in 1..Len(k.pool) : o = k.pool[s].own[1] \/ o = k.pool[s].own[2]

LEMMA CacheHas ==
  ASSUME NEW k, GoodCache(k)
  PROVE  CacheView(k)
<1>1. k \in CacheShapes /\ PartsApart(k)
  BY DEF GoodCache
<1>2. DOMAIN k.pool = 1..Len(k.pool) /\ \A s \in 1..Len(k.pool) : k.pool[s].page \in Pages
  BY <1>1, CacheFields
<1>3. \A b : b \in Range(k.pool) <=> \E s \in 1..Len(k.pool) : b = k.pool[s]
  BY <1>2 DEF Range
<1>4. \A w : w \in PageRuns(k) <=> \E s \in 1..Len(k.pool) : w = <<k.pool[s].page, 1>>
  BY <1>3 DEF PageRuns
<1>5. \A p \in CachePages(k) : <<p, 1>> \in PageRuns(k)
  BY <1>4 DEF CachePages
<1>6. CachePages(k) = {s.page : s \in Range(k.pool)}
  BY <1>2, <1>3 DEF CachePages
<1>7. ASSUME k = NoCache
      PROVE  Objects(k) = {}
  <2>1. k.own = <<>> /\ k.pool = <<>>
    BY <1>7 DEF NoCache
  <2>2. Range(k.own) = {} /\ Range(k.pool) = {}
    BY <2>1 DEF Range
  <2>3. QED
    BY <2>2 DEF Objects
<1>8. ASSUME k # NoCache
      PROVE  \A o : o \in Objects(k) <=> \/ o = k.own[1]
                                         \/ \E s \in 1..Len(k.pool) : o = k.pool[s].own[1] \/ o = k.pool[s].own[2]
  <2>1. k.own = <<k.own[1]>>
    BY <1>8 DEF GoodCache
  <2>2. PICK x : x = k.own[1]
    OBVIOUS
  <2>3. Range(k.own) = {x}
    <3>1. k.own = <<x>>
      BY <2>1, <2>2, Zenon
    <3>2. QED
      BY <3>1 DEF Range
  <2>4. ASSUME NEW s \in 1..Len(k.pool)
        PROVE  \A o : o \in Range(k.pool[s].own) <=> o = k.pool[s].own[1] \/ o = k.pool[s].own[2]
    <3>1. PICK y : y = k.pool[s].own[1]
      OBVIOUS
    <3>2. PICK z : z = k.pool[s].own[2]
      OBVIOUS
    <3>3. k.pool[s].own = <<y, z>>
      BY <1>1, <3>1, <3>2, Zenon DEF PartsApart
    <3>4. \A o : o \in Range(<<y, z>>) <=> o = y \/ o = z
      BY DEF Range
    <3>5. QED
      BY <3>1, <3>2, <3>3, <3>4, Zenon
  <2>5. \A o : o \in Objects(k) <=> o \in Range(k.own) \/ \E b \in Range(k.pool) : o \in Range(b.own)
    BY Zenon DEF Objects
  <2>6. \A o : (\E b \in Range(k.pool) : o \in Range(b.own)) <=> \E s \in 1..Len(k.pool) : o \in Range(k.pool[s].own)
    BY <1>3, Zenon
  <2>7. \A o : o \in Range(k.own) <=> o = k.own[1]
    BY <2>2, <2>3
  <2>8. ASSUME NEW o
        PROVE  o \in Objects(k) <=> \/ o = k.own[1]
                                  \/ \E s \in 1..Len(k.pool) : o = k.pool[s].own[1] \/ o = k.pool[s].own[2]
    <3>1. o \in Objects(k) <=> o = k.own[1] \/ \E s \in 1..Len(k.pool) : o \in Range(k.pool[s].own)
      BY <2>5, <2>6, <2>7, Zenon
    <3>2. (\E s \in 1..Len(k.pool) : o \in Range(k.pool[s].own))
            <=> \E s \in 1..Len(k.pool) : o = k.pool[s].own[1] \/ o = k.pool[s].own[2]
      BY <2>4, Zenon
    <3>3. QED
      BY <3>1, <3>2, Zenon
  <2>9. QED
    BY <2>8, Zenon
<1>9. QED
  BY <1>4, <1>5, <1>6, <1>7, <1>8, Zenon DEF CacheView

LEMMA CacheSets ==
  ASSUME NEW m, NEW k, NEW O, NEW S, NEW R, NEW L, GoodCache(k), PageRuns(k) \subseteq R, Mem(m, O, S, R, L)
  PROVE  CachePages(k) \cap SlabPages(m) = {}
<1>1. \A p \in CachePages(k) : <<p, 1>> \in R
  BY CacheHas DEF CacheView
<1>2. QED
  BY <1>1, MemApart

LEMMA Settle ==
  ASSUME NEW m, NEW k, NEW V, NEW O, NEW R, NEW W, Settled(m, k, V, O, R, W),
         NEW U, U = W \ (CachePages(k) \cup SlabPages(m))
  PROVE  System(m, k, V, O, R, U)
<1>1. /\ GoodCache(k) /\ Exact(k, V) /\ PageRuns(k) \subseteq R
      /\ Objects(k) \subseteq O /\ Mem(m, O, {}, R, (CachePages(k) \cup W) \ SlabPages(m))
  BY DEF Settled
<1>2. CachePages(k) \cap SlabPages(m) = {}
  BY <1>1, CacheSets
<1>3. (CachePages(k) \cup W) \ SlabPages(m) = CachePages(k) \cup U
  BY <1>2
<1>4. Objects(k) \subseteq O /\ Mem(m, O, {}, R, CachePages(k) \cup U)
  BY <1>1, <1>3, Zenon
<1>5. QED
  BY <1>1, <1>4 DEF System

LEMMA SlabPagesSet ==
  ASSUME NEW m \in Mems
  PROVE  SlabPages(m) = {s.page : s \in UNION {Range(m.cache[c].pool) : c \in DOMAIN Classes}}
<1>1. PICK k \in Caches : k = m.cache
  <2>1. m.cache \in Caches
    BY MemFields
  <2>2. QED
    BY <2>1, Zenon
<1>2. PICK A : A = UNION {Range(k[c].pool) : c \in DOMAIN Classes}
  OBVIOUS
<1>3. \A c \in DOMAIN Classes : DOMAIN k[c].pool = 1..Len(k[c].pool)
  BY RingFields DEF Caches
<1>4. \A b : b \in A <=> \E c \in DOMAIN Classes : \E s \in 1..Len(k[c].pool) : b = k[c].pool[s]
  <2>1. \A b : b \in A <=> \E c \in DOMAIN Classes : b \in Range(k[c].pool)
    BY <1>2, Zenon
  <2>2. \A c \in DOMAIN Classes : \A b : b \in Range(k[c].pool) <=> \E s \in 1..Len(k[c].pool) : b = k[c].pool[s]
    BY <1>3 DEF Range
  <2>3. ASSUME NEW b
        PROVE  b \in A <=> \E c \in DOMAIN Classes : \E s \in 1..Len(k[c].pool) : b = k[c].pool[s]
    <3>1. ASSUME NEW c \in DOMAIN Classes, b \in Range(k[c].pool)
          PROVE  \E s \in 1..Len(k[c].pool) : b = k[c].pool[s]
      BY <2>2, <3>1
    <3>2. ASSUME NEW c \in DOMAIN Classes, NEW s \in 1..Len(k[c].pool), b = k[c].pool[s]
          PROVE  b \in Range(k[c].pool)
      BY <2>2, <3>2
    <3>3. QED
      BY <2>1, <3>1, <3>2
  <2>4. QED
    BY <2>3, Zenon
<1>5. ASSUME NEW p
      PROVE  p \in SlabPages(m) <=> \E b \in A : b.page = p
  <2>1. p \in SlabPages(m) <=> p \in Pages /\ \E x \in Slots(k) : Content(k)[x].page = p
    BY <1>1, ContentIs DEF SlabPages, PagesOf
  <2>2. (\E x \in Slots(k) : Content(k)[x].page = p) <=> \E c \in DOMAIN Classes : \E s \in 1..Len(k[c].pool) : k[c].pool[s].page = p
    <3>1. \A x \in Slots(k) : x[1] \in DOMAIN Classes /\ x[2] \in 1..Len(k[x[1]].pool) /\ Content(k)[x] = k[x[1]].pool[x[2]]
      BY ContentIs
    <3>2. ASSUME NEW c \in DOMAIN Classes, NEW s \in 1..Len(k[c].pool)
          PROVE  <<c, s>> \in Slots(k) /\ Content(k)[<<c, s>>] = k[c].pool[s]
      BY ContentIs
    <3>3. ASSUME NEW x \in Slots(k), Content(k)[x].page = p
          PROVE  \E c \in DOMAIN Classes : \E s \in 1..Len(k[c].pool) : k[c].pool[s].page = p
      BY <3>1, <3>3
    <3>4. ASSUME NEW c \in DOMAIN Classes, NEW s \in 1..Len(k[c].pool), k[c].pool[s].page = p
          PROVE  \E x \in Slots(k) : Content(k)[x].page = p
      BY <3>2, <3>4
    <3>5. QED
      BY <3>3, <3>4, Zenon
  <2>3. \A c \in DOMAIN Classes : \A s \in 1..Len(k[c].pool) : k[c].pool[s].page \in Pages
    BY ContentIs, SlabFields
  <2>4. QED
    BY <1>4, <2>1, <2>2, <2>3
<1>6. SlabPages(m) = {s.page : s \in A}
  BY <1>5
<1>7. QED
  BY <1>1, <1>2, <1>6

(* One slab of a cache put in place of another with the same parts.        *)
Replaced(k, h, s, n, u, f) ==
  /\ GoodCache(h) /\ h # NoCache /\ h.own = k.own /\ Len(h.pool) = Len(k.pool)
  /\ h.pool[s] = n /\ \A t \in 1..Len(k.pool) : t # s => h.pool[t] = k.pool[t]
  /\ h.total_using = u /\ h.total_free = f
  /\ Objects(h) = Objects(k) /\ PageRuns(h) = PageRuns(k) /\ CachePages(h) = CachePages(k)

LEMMA CacheReplace ==
  ASSUME NEW k, GoodCache(k), k # NoCache, NEW s \in 1..Len(k.pool), NEW n \in SlabRecords,
         n.page = k.pool[s].page, n.own = k.pool[s].own, NEW u \in Int, NEW f \in Int,
         NEW h, h = [own |-> k.own, pool |-> [k.pool EXCEPT ![s] = n], total_using |-> u, total_free |-> f]
  PROVE  Replaced(k, h, s, n, u, f)
<1>1. k \in CacheShapes /\ PartsApart(k) /\ k.own = <<k.own[1]>> /\ k.own[1] \in ObjectNames /\ k.pool # <<>>
  BY DEF GoodCache
<1>2. PICK x \in Seq(SlabRecords) : x = k.pool
  <2>1. k.pool \in Seq(SlabRecords)
    BY <1>1, CacheFields
  <2>2. QED
    BY <2>1, Zenon
<1>3. PICK y : y = [x EXCEPT ![s] = n]
  OBVIOUS
<1>4. y \in Seq(SlabRecords) /\ Len(y) = Len(x) /\ y[s] = n /\ (\A t \in 1..Len(x) : t # s => y[t] = x[t])
  BY <1>2, <1>3
<1>5. h.own = k.own /\ h.pool = y /\ h.total_using = u /\ h.total_free = f
  BY <1>2, <1>3
<1>6. h \in CacheShapes
  <2>1. PICK z \in SlabRings : z = y
    BY <1>4, Zenon DEF SlabRings
  <2>2. PICK w \in Seq(ObjectNames) : w = k.own
    BY <1>1, CacheFields
  <2>3. [own |-> w, pool |-> z, total_using |-> u, total_free |-> f] \in CacheShapes
    BY DEF CacheShapes
  <2>4. h = [own |-> w, pool |-> z, total_using |-> u, total_free |-> f]
    BY <1>2, <1>3, <2>1, <2>2, Zenon
  <2>5. QED
    BY <2>3, <2>4, Zenon
<1>7. \A t \in 1..Len(k.pool) : h.pool[t].page = k.pool[t].page /\ h.pool[t].own = k.pool[t].own
  BY <1>2, <1>4, <1>5
<1>8. Len(h.pool) = Len(k.pool)
  BY <1>2, <1>4, <1>5
<1>9. PartsApart(h)
  BY <1>1, <1>5, <1>7, <1>8 DEF PartsApart
<1>10. h.pool # <<>> /\ h # NoCache
  <2>1. Len(x) # 0
    BY <1>1, <1>2
  <2>2. y # <<>>
    BY <1>4, <2>1
  <2>3. QED
    BY <1>5, <2>2 DEF NoCache
<1>11. GoodCache(h)
  BY <1>1, <1>5, <1>6, <1>9, <1>10, Zenon DEF GoodCache
<1>120. CacheView(k) /\ CacheView(h)
  BY <1>11, CacheHas, Zenon
<1>12. Objects(h) = Objects(k)
  <2>1. \A o : o \in Objects(k) <=> \/ o = k.own[1]
                                    \/ \E t \in 1..Len(k.pool) : o = k.pool[t].own[1] \/ o = k.pool[t].own[2]
    BY <1>120, Zenon DEF CacheView
  <2>2. \A o : o \in Objects(h) <=> \/ o = h.own[1]
                                    \/ \E t \in 1..Len(h.pool) : o = h.pool[t].own[1] \/ o = h.pool[t].own[2]
    BY <1>10, <1>120, Zenon DEF CacheView
  <2>3. ASSUME NEW o
        PROVE  o \in Objects(h) <=> o \in Objects(k)
    <3>1. h.own[1] = k.own[1]
      BY <1>5
    <3>2. (\E t \in 1..Len(h.pool) : o = h.pool[t].own[1] \/ o = h.pool[t].own[2])
            <=> \E t \in 1..Len(k.pool) : o = k.pool[t].own[1] \/ o = k.pool[t].own[2]
      BY <1>7, <1>8, Zenon
    <3>3. o \in Objects(k) <=> o = k.own[1] \/ \E t \in 1..Len(k.pool) : o = k.pool[t].own[1] \/ o = k.pool[t].own[2]
      BY <2>1, Zenon
    <3>4. o \in Objects(h) <=> o = h.own[1] \/ \E t \in 1..Len(h.pool) : o = h.pool[t].own[1] \/ o = h.pool[t].own[2]
      BY <2>2, Zenon
    <3>5. o = h.own[1] <=> o = k.own[1]
      BY <3>1
    <3>6. QED
      BY <3>2, <3>3, <3>4, <3>5, Zenon
  <2>4. QED
    BY <2>3, Zenon
<1>13. PageRuns(h) = PageRuns(k)
  <2>1. \A w : w \in PageRuns(k) <=> \E t \in 1..Len(k.pool) : w = <<k.pool[t].page, 1>>
    BY <1>120, Zenon DEF CacheView
  <2>2. \A w : w \in PageRuns(h) <=> \E t \in 1..Len(h.pool) : w = <<h.pool[t].page, 1>>
    BY <1>120, Zenon DEF CacheView
  <2>3. ASSUME NEW w
        PROVE  w \in PageRuns(h) <=> w \in PageRuns(k)
    <3>1. (\E t \in 1..Len(h.pool) : w = <<h.pool[t].page, 1>>) <=> \E t \in 1..Len(k.pool) : w = <<k.pool[t].page, 1>>
      BY <1>7, <1>8, Zenon
    <3>2. QED
      BY <2>1, <2>2, <3>1, Zenon
  <2>4. QED
    BY <2>3, Zenon
<1>14. CachePages(h) = CachePages(k)
  BY <1>7, <1>8 DEF CachePages
<1>15. h.pool[s] = n /\ \A t \in 1..Len(k.pool) : t # s => h.pool[t] = k.pool[t]
  BY <1>2, <1>4, <1>5
<1>16. QED
  BY <1>5, <1>8, <1>10, <1>11, <1>12, <1>13, <1>14, <1>15, Zenon DEF Replaced
-----------------------------------------------------------------------------
(* An object given by a cache, and taken back.                             *)
LEMMA FilledFacts ==
  ASSUME NEW b \in SlabRecords, Filled(b)
  PROVE  /\ IsFiniteSet(b.used) /\ Cardinality(b.used) \in Nat /\ b.used \subseteq Nat
         /\ (b.free_count # 0 => (0..(Count - 1)) \ b.used # {})
<1>1. Count \in Nat \ {0}
  BY SlabCacheAssumption
<1>2. b.used \subseteq 0..(Count - 1) /\ b.free_count \in Nat /\ b.free_count <= Count - Cardinality(b.used)
  BY DEF Filled
<1>3. PICK N : N = 0..(Count - 1)
  OBVIOUS
<1>4. IsFiniteSet(N) /\ Cardinality(N) = Count
  <2>1. 0 \in Int /\ Count - 1 \in Int
    BY <1>1
  <2>2. IsFiniteSet(0..(Count - 1)) /\ Cardinality(0..(Count - 1)) = IF 0 > Count - 1 THEN 0 ELSE (Count - 1) - 0 + 1
    BY <2>1, FS_Interval
  <2>3. QED
    BY <1>1, <1>3, <2>2
<1>5. b.used \in SUBSET N
  BY <1>2, <1>3
<1>6. IsFiniteSet(b.used)
  BY <1>4, <1>5, FS_Subset
<1>7. Cardinality(b.used) \in Nat
  BY <1>6, FS_CardinalityType
<1>8. b.free_count # 0 => N \ b.used # {}
  <2>1. N \ b.used = {} => b.used = N
    BY <1>5
  <2>2. QED
    BY <1>1, <1>2, <1>4, <1>7, <2>1
<1>9. b.used \subseteq Nat
  BY <1>2
<1>10. QED
  BY <1>3, <1>6, <1>7, <1>8, <1>9

LEMMA FilledMarked ==
  ASSUME NEW b \in SlabRecords, Filled(b), b.free_count # 0, NEW i, i = Least((0..(Count - 1)) \ b.used)
  PROVE  i \in Nat /\ i \notin b.used /\ Filled(Marked(b, i))
<1>1. IsFiniteSet(b.used) /\ Cardinality(b.used) \in Nat /\ (0..(Count - 1)) \ b.used # {}
  BY FilledFacts
<1>2. PICK A : A = (0..(Count - 1)) \ b.used
  OBVIOUS
<1>3. A \subseteq Nat /\ A # {}
  BY <1>1, <1>2
<1>4. Least(A) \in A /\ Least(A) \in Nat
  BY <1>3, LeastIs
<1>5. i \in A /\ i \in Nat
  BY <1>2, <1>4, Zenon
<1>6. i \in 0..(Count - 1) /\ i \notin b.used
  BY <1>2, <1>5
<1>7. PICK n : n = Marked(b, i)
  OBVIOUS
<1>8. n.used = b.used \cup {i} /\ n.using_count = b.using_count + 1 /\ n.free_count = b.free_count - 1
  BY <1>5, <1>7, MarkedIs
<1>9. Cardinality(n.used) = Cardinality(b.used) + 1
  <2>1. Cardinality(b.used \cup {i}) = Cardinality(b.used) + 1
    <3>1. IsFiniteSet(b.used)
      BY <1>1
    <3>2. Cardinality(b.used \cup {i}) = IF i \in b.used THEN Cardinality(b.used) ELSE Cardinality(b.used) + 1
      BY <3>1, FS_AddElement
    <3>3. QED
      BY <1>6, <3>2
  <2>2. QED
    BY <1>8, <2>1, Zenon
<1>10. /\ b.used \subseteq 0..(Count - 1) /\ b.free_count \in Nat
       /\ b.free_count <= Count - Cardinality(b.used) /\ b.using_count >= Cardinality(b.used)
  BY DEF Filled
<1>11. Count \in Nat /\ b.using_count \in Int
  BY SlabCacheAssumption DEF SlabRecords
<1>12. Filled(n)
  <2>1. n.used \subseteq 0..(Count - 1)
    BY <1>6, <1>8, <1>10
  <2>2. n.free_count \in Nat
    BY <1>8, <1>10
  <2>3. n.free_count <= Count - Cardinality(n.used)
    BY <1>1, <1>8, <1>9, <1>10, <1>11
  <2>4. n.using_count >= Cardinality(n.used)
    BY <1>1, <1>8, <1>9, <1>10, <1>11
  <2>5. QED
    BY <2>1, <2>2, <2>3, <2>4 DEF Filled
<1>13. QED
  BY <1>5, <1>6, <1>7, <1>12

(* What slab_malloc does to the cache, with the slab it found.             *)
Gave(k, s, i) ==
  [k EXCEPT !.pool[s].used = @ \cup {i}, !.pool[s].using_count = @ + 1,
            !.pool[s].free_count = @ - 1, !.total_using = @ + 1, !.total_free = @ - 1]

LEMMA GivenRecord ==
  ASSUME NEW k \in CacheShapes, NEW s \in 1..Len(k.pool), NEW i
  PROVE  Gave(k, s, i)
           = [own |-> k.own, pool |-> [k.pool EXCEPT ![s] = Marked(k.pool[s], i)],
              total_using |-> k.total_using + 1, total_free |-> k.total_free - 1]
<1>1. k.pool \in Seq(SlabRecords) /\ s \in DOMAIN k.pool /\ k.pool[s] \in SlabRecords
  BY CacheFields
<1>2. PICK e : e = [k EXCEPT !.pool[s].used = @ \cup {i}, !.pool[s].using_count = @ + 1,
                             !.pool[s].free_count = @ - 1, !.total_using = @ + 1, !.total_free = @ - 1]
  OBVIOUS
<1>3. e = [own |-> k.own, pool |-> [k.pool EXCEPT ![s] = Marked(@, i)],
           total_using |-> k.total_using + 1, total_free |-> k.total_free - 1]
  BY <1>1, <1>2 DEF CacheShapes, Marked
<1>4. QED
  BY <1>2, <1>3 DEF Gave

LEMMA InUseReplaced ==
  ASSUME NEW k, GoodCache(k), k # NoCache, NEW s \in 1..Len(k.pool), NEW n, n.page = k.pool[s].page,
         NEW u, NEW f, NEW h, Replaced(k, h, s, n, u, f), NEW o \in ObjectNames
  PROVE  /\ o[1] = n.page => (o \in InUse(h) <=> o[2] \in n.used) /\ (o \in InUse(k) <=> o[2] \in k.pool[s].used)
         /\ o[1] # n.page => (o \in InUse(h) <=> o \in InUse(k))
<1>1. \A t \in 1..Len(k.pool) : k.pool[s].page = k.pool[t].page => s = t
  BY DEF GoodCache, PartsApart
<1>2. h.pool[s] = n /\ (\A t \in 1..Len(k.pool) : t # s => h.pool[t] = k.pool[t]) /\ Len(h.pool) = Len(k.pool)
  BY DEF Replaced
<1>3. o \in InUse(h) <=> \E t \in 1..Len(k.pool) : h.pool[t].page = o[1] /\ o[2] \in h.pool[t].used
  BY <1>2 DEF InUse
<1>4. o \in InUse(k) <=> \E t \in 1..Len(k.pool) : k.pool[t].page = o[1] /\ o[2] \in k.pool[t].used
  BY DEF InUse
<1>5. \A t \in 1..Len(k.pool) : h.pool[t].page = k.pool[t].page
  BY <1>2
<1>6. ASSUME o[1] = n.page
      PROVE  (o \in InUse(h) <=> o[2] \in n.used) /\ (o \in InUse(k) <=> o[2] \in k.pool[s].used)
  <2>1. \A t \in 1..Len(k.pool) : k.pool[t].page = o[1] => t = s
    BY <1>1, <1>6
  <2>2. k.pool[s].page = o[1] /\ h.pool[s].page = o[1]
    BY <1>2, <1>6
  <2>3. QED
    BY <1>2, <1>3, <1>4, <1>5, <2>1, <2>2
<1>7. ASSUME o[1] # n.page
      PROVE  o \in InUse(h) <=> o \in InUse(k)
  <2>1. \A t \in 1..Len(k.pool) : k.pool[t].page = o[1] => t # s /\ h.pool[t] = k.pool[t]
    BY <1>2, <1>7
  <2>2. QED
    BY <1>3, <1>4, <1>5, <2>1
<1>8. QED
  BY <1>6, <1>7

CacheGave(k, h, V, W) ==
  /\ GoodCache(h) /\ h # NoCache /\ Exact(h, W)
  /\ Objects(h) = Objects(k) /\ PageRuns(h) = PageRuns(k) /\ CachePages(h) = CachePages(k)

LEMMA CacheGive ==
  ASSUME NEW k, NEW V, GoodCache(k), k # NoCache, Exact(k, V), NEW s \in 1..Len(k.pool),
         k.pool[s].free_count # 0, NEW i, i = Least((0..(Count - 1)) \ k.pool[s].used),
         NEW h, h = Gave(k, s, i)
  PROVE  CacheGave(k, h, V, V \cup {<<k.pool[s].page, i>>})
<1>1. k \in CacheShapes
  BY DEF GoodCache
<1>2. PICK b : b = k.pool[s]
  OBVIOUS
<1>3. b \in SlabRecords /\ Filled(b) /\ b.page \in Pages
  BY <1>1, <1>2, CacheFields DEF Exact
<1>4. i \in Nat /\ i \notin b.used /\ Filled(Marked(b, i))
  BY <1>2, <1>3, FilledMarked
<1>5. PICK n : n = Marked(b, i)
  OBVIOUS
<1>6. n \in SlabRecords /\ n.page = b.page /\ n.own = b.own /\ n.used = b.used \cup {i}
  <2>1. MarkedFacts(b, i, n)
    BY <1>3, <1>4, <1>5, MarkedHas, Zenon
  <2>2. QED
    BY <2>1 DEF MarkedFacts
<1>7. PICK u \in Int : u = k.total_using + 1
  <2>1. k.total_using + 1 \in Int
    BY <1>1, CacheFields
  <2>2. QED
    BY <2>1, Zenon
<1>8. PICK f \in Int : f = k.total_free - 1
  <2>1. k.total_free - 1 \in Int
    BY <1>1, CacheFields
  <2>2. QED
    BY <2>1, Zenon
<1>9. h = [own |-> k.own, pool |-> [k.pool EXCEPT ![s] = n], total_using |-> u, total_free |-> f]
  BY <1>1, <1>2, <1>5, <1>7, <1>8, GivenRecord, Zenon
<1>10. Replaced(k, h, s, n, u, f)
  BY <1>2, <1>6, <1>9, CacheReplace
<1>100. n.page = k.pool[s].page
  BY <1>2, <1>6
<1>11. PICK o \in ObjectNames : o = <<b.page, i>>
  <2>1. <<b.page, i>> \in ObjectNames
    BY <1>3, <1>4 DEF ObjectNames
  <2>2. QED
    BY <2>1, Zenon
<1>12. o[1] = b.page /\ o[2] = i
  BY <1>11
<1>13. o \notin InUse(k)
  BY <1>2, <1>4, <1>6, <1>10, <1>12, InUseReplaced
<1>14. InUse(h) = InUse(k) \cup {o}
  <2>1. InUse(h) \subseteq ObjectNames /\ InUse(k) \subseteq ObjectNames
    BY DEF InUse
  <2>2. ASSUME NEW w \in ObjectNames
        PROVE  w \in InUse(h) <=> w \in InUse(k) \/ w = o
    <3>1. /\ w[1] = n.page => (w \in InUse(h) <=> w[2] \in n.used) /\ (w \in InUse(k) <=> w[2] \in k.pool[s].used)
          /\ w[1] # n.page => (w \in InUse(h) <=> w \in InUse(k))
      BY <1>10, <1>100, InUseReplaced
    <3>2. w = o <=> w[1] = b.page /\ w[2] = i
      BY <1>11 DEF ObjectNames
    <3>3. QED
      BY <1>2, <1>6, <3>1, <3>2
  <2>3. QED
    BY <2>1, <2>2
<1>15. /\ \A t \in 1..Len(k.pool) : Filled(k.pool[t])
       /\ V = InUse(k) /\ IsFiniteSet(V) /\ k.total_using = Cardinality(V)
       /\ k.total_using + k.total_free = Count * Len(k.pool)
  BY DEF Exact
<1>16. PICK W : W = V \cup {o}
  OBVIOUS
<1>17. IsFiniteSet(W) /\ Cardinality(W) = Cardinality(V) + 1
  <2>1. IsFiniteSet(V \cup {o}) /\ Cardinality(V \cup {o}) = IF o \in V THEN Cardinality(V) ELSE Cardinality(V) + 1
    BY <1>15, FS_AddElement
  <2>2. QED
    BY <1>13, <1>15, <1>16, <2>1
<1>18. /\ GoodCache(h) /\ h # NoCache /\ Len(h.pool) = Len(k.pool) /\ h.pool[s] = n
       /\ (\A t \in 1..Len(k.pool) : t # s => h.pool[t] = k.pool[t])
       /\ h.total_using = u /\ h.total_free = f
       /\ Objects(h) = Objects(k) /\ PageRuns(h) = PageRuns(k) /\ CachePages(h) = CachePages(k)
  BY <1>10 DEF Replaced
<1>19. \A t \in 1..Len(h.pool) : Filled(h.pool[t])
  BY <1>4, <1>5, <1>15, <1>18
<1>20. h.total_using = Cardinality(W)
  BY <1>7, <1>15, <1>17, <1>18
<1>21. h.total_using + h.total_free = Count * Len(h.pool)
  <2>1. PICK z : z = Count * Len(k.pool)
    OBVIOUS
  <2>2. k.total_using \in Int /\ k.total_free \in Int
    BY <1>1, CacheFields
  <2>3. h.total_using + h.total_free = k.total_using + k.total_free
    <3>1. h.total_using = k.total_using + 1 /\ h.total_free = k.total_free - 1
      BY <1>7, <1>8, <1>18, Zenon
    <3>2. \A x, y \in Int : (x + 1) + (y - 1) = x + y
      OBVIOUS
    <3>3. QED
      BY <2>2, <3>1, <3>2
  <2>4. QED
    BY <1>15, <1>18, <2>1, <2>3, Zenon
<1>22. Exact(h, W)
  BY <1>14, <1>15, <1>16, <1>17, <1>19, <1>20, <1>21 DEF Exact
<1>23. CacheGave(k, h, V, W)
  BY <1>18, <1>22, Zenon DEF CacheGave
<1>24. QED
  BY <1>2, <1>11, <1>16, <1>23, Zenon

Emptied(b, i) == [b EXCEPT !.used = @ \ {i}]

LEMMA EmptiedIs ==
  ASSUME NEW b \in SlabRecords, NEW i, NEW n, n = Emptied(b, i)
  PROVE  /\ n \in SlabRecords /\ n.page = b.page /\ n.own = b.own /\ n.used = b.used \ {i}
         /\ n.using_count = b.using_count /\ n.free_count = b.free_count
<1>1. /\ b.page \in Pages /\ b.used \in SUBSET Nat /\ b.using_count \in Int /\ b.free_count \in Int
      /\ b.color_count \in Nat /\ b.own \in Seq(ObjectNames)
  BY DEF SlabRecords
<1>2. /\ n.page = b.page /\ n.own = b.own /\ n.color_count = b.color_count
      /\ n.used = b.used \ {i} /\ n.using_count = b.using_count /\ n.free_count = b.free_count
  BY DEF Emptied, SlabRecords
<1>3. n.used \in SUBSET Nat
  BY <1>1, <1>2
<1>4. n = [page |-> n.page, used |-> n.used, using_count |-> n.using_count, free_count |-> n.free_count,
           color_count |-> n.color_count, own |-> n.own]
  BY DEF Emptied, SlabRecords
<1>5. n \in SlabRecords
  BY <1>1, <1>2, <1>3, <1>4, Zenon DEF SlabRecords
<1>6. QED
  BY <1>2, <1>5

LEMMA TakenRecord ==
  ASSUME NEW k \in CacheShapes, NEW s \in 1..Len(k.pool), NEW i
  PROVE  [k EXCEPT !.pool[s].used = @ \ {i}, !.total_using = @ - 1, !.total_free = @ + 1]
           = [own |-> k.own, pool |-> [k.pool EXCEPT ![s] = Emptied(k.pool[s], i)],
              total_using |-> k.total_using - 1, total_free |-> k.total_free + 1]
<1>1. k.pool \in Seq(SlabRecords) /\ s \in DOMAIN k.pool /\ k.pool[s] \in SlabRecords
  BY CacheFields
<1>2. PICK e : e = [k EXCEPT !.pool[s].used = @ \ {i}, !.total_using = @ - 1, !.total_free = @ + 1]
  OBVIOUS
<1>3. e = [own |-> k.own, pool |-> [k.pool EXCEPT ![s] = Emptied(@, i)],
           total_using |-> k.total_using - 1, total_free |-> k.total_free + 1]
  BY <1>1, <1>2 DEF CacheShapes, Emptied
<1>4. QED
  BY <1>2, <1>3

(* slab_free on a slab of the cache.                                       *)
Took(k, s, i) == [k EXCEPT !.pool[s].used = @ \ {i}, !.total_using = @ - 1, !.total_free = @ + 1]
CacheTook(k, h, V, o, s, i) == CacheGave(k, h, V, V \ {o}) /\ h.pool[s].using_count # 0

LEMMA CacheTake ==
  ASSUME NEW k, NEW V, GoodCache(k), Exact(k, V), NEW o \in V, k # NoCache,
         NEW s \in 1..Len(k.pool), k.pool[s].page = o[1], NEW i, i = o[2],
         NEW h, h = Took(k, s, i)
  PROVE  CacheTook(k, h, V, o, s, i)
<1>1. k \in CacheShapes
  BY DEF GoodCache
<1>2. o \in ObjectNames /\ o \in InUse(k)
  BY DEF Exact, InUse
<1>7. PICK b : b = k.pool[s]
  OBVIOUS
<1>8. b \in SlabRecords /\ Filled(b) /\ b.page = o[1]
  BY <1>1, <1>7, CacheFields DEF Exact
<1>9. PICK n : n = Emptied(b, i)
  OBVIOUS
<1>10. n \in SlabRecords /\ n.page = b.page /\ n.own = b.own /\ n.used = b.used \ {i}
       /\ n.using_count = b.using_count /\ n.free_count = b.free_count
  BY <1>8, <1>9, EmptiedIs
<1>11. PICK u \in Int : u = k.total_using - 1
  <2>1. k.total_using - 1 \in Int
    BY <1>1, CacheFields
  <2>2. QED
    BY <2>1, Zenon
<1>12. PICK f \in Int : f = k.total_free + 1
  <2>1. k.total_free + 1 \in Int
    BY <1>1, CacheFields
  <2>2. QED
    BY <2>1, Zenon
<1>13. h = [own |-> k.own, pool |-> [k.pool EXCEPT ![s] = n], total_using |-> u, total_free |-> f]
  <2>1. h = [own |-> k.own, pool |-> [k.pool EXCEPT ![s] = Emptied(k.pool[s], i)],
             total_using |-> k.total_using - 1, total_free |-> k.total_free + 1]
    BY <1>1, TakenRecord DEF Took
  <2>2. QED
    BY <1>7, <1>9, <1>11, <1>12, <2>1, Zenon
<1>14. n.page = k.pool[s].page
  BY <1>7, <1>10
<1>15. Replaced(k, h, s, n, u, f)
  BY <1>7, <1>10, <1>13, CacheReplace
<1>16. InUse(h) = InUse(k) \ {o}
  <2>1. InUse(h) \subseteq ObjectNames /\ InUse(k) \subseteq ObjectNames
    BY DEF InUse
  <2>2. ASSUME NEW w \in ObjectNames
        PROVE  w \in InUse(h) <=> w \in InUse(k) /\ w # o
    <3>1. /\ w[1] = n.page => (w \in InUse(h) <=> w[2] \in n.used) /\ (w \in InUse(k) <=> w[2] \in k.pool[s].used)
          /\ w[1] # n.page => (w \in InUse(h) <=> w \in InUse(k))
      BY <1>2, <1>14, <1>15, InUseReplaced
    <3>2. w = o <=> w[1] = o[1] /\ w[2] = o[2]
      BY <1>2 DEF ObjectNames
    <3>3. QED
      BY <1>7, <1>8, <1>10, <3>1, <3>2
  <2>3. QED
    BY <2>1, <2>2
<1>17. /\ \A t \in 1..Len(k.pool) : Filled(k.pool[t])
       /\ V = InUse(k) /\ IsFiniteSet(V) /\ k.total_using = Cardinality(V)
       /\ k.total_using + k.total_free = Count * Len(k.pool)
  BY DEF Exact
<1>18. PICK W : W = V \ {o}
  OBVIOUS
<1>19. IsFiniteSet(W) /\ Cardinality(W) = Cardinality(V) - 1
  <2>1. IsFiniteSet(V \ {o}) /\ Cardinality(V \ {o}) = IF o \in V THEN Cardinality(V) - 1 ELSE Cardinality(V)
    BY <1>17, FS_RemoveElement
  <2>2. QED
    BY <1>18, <2>1
<1>20. /\ GoodCache(h) /\ h # NoCache /\ Len(h.pool) = Len(k.pool) /\ h.pool[s] = n
       /\ (\A t \in 1..Len(k.pool) : t # s => h.pool[t] = k.pool[t])
       /\ h.total_using = u /\ h.total_free = f
       /\ Objects(h) = Objects(k) /\ PageRuns(h) = PageRuns(k) /\ CachePages(h) = CachePages(k)
  BY <1>15 DEF Replaced
<1>21. Filled(n) /\ n.using_count # 0
  <2>1. IsFiniteSet(b.used) /\ Cardinality(b.used) \in Nat
    BY <1>8, FilledFacts
  <2>2. i \in b.used
    <3>1. o \in InUse(k) <=> o[2] \in k.pool[s].used
      BY <1>7, <1>10, <1>2, <1>2, <1>14, <1>15, InUseReplaced
    <3>2. QED
      BY <1>2, <1>7, <3>1
  <2>3. Cardinality(n.used) = Cardinality(b.used) - 1
    <3>1. Cardinality(b.used \ {i}) = IF i \in b.used THEN Cardinality(b.used) - 1 ELSE Cardinality(b.used)
      BY <2>1, FS_RemoveElement
    <3>2. QED
      BY <1>10, <2>2, <3>1
  <2>4. Cardinality(b.used) # 0
    <3>1. Cardinality(b.used) = 0 <=> b.used = {}
      BY <2>1, FS_EmptySet
    <3>2. QED
      BY <2>2, <3>1
  <2>5. /\ b.used \subseteq 0..(Count - 1) /\ b.free_count \in Nat
        /\ b.free_count <= Count - Cardinality(b.used) /\ b.using_count >= Cardinality(b.used)
    BY <1>8 DEF Filled
  <2>6. Count \in Nat /\ b.using_count \in Int
    BY <1>8, SlabCacheAssumption DEF SlabRecords
  <2>7. n.used \subseteq 0..(Count - 1)
    BY <1>10, <2>5
  <2>8. n.free_count \in Nat /\ n.free_count <= Count - Cardinality(n.used)
    BY <1>10, <2>1, <2>3, <2>5, <2>6
  <2>9. n.using_count >= Cardinality(n.used) /\ n.using_count # 0
    BY <1>10, <2>1, <2>3, <2>4, <2>5, <2>6
  <2>10. QED
    BY <2>7, <2>8, <2>9 DEF Filled
<1>22. \A t \in 1..Len(h.pool) : Filled(h.pool[t])
  BY <1>17, <1>20, <1>21
<1>23. Cardinality(V) \in Nat
  BY <1>17, FS_CardinalityType
<1>24. h.total_using = Cardinality(W)
  BY <1>11, <1>17, <1>19, <1>20, <1>23
<1>25. h.total_using + h.total_free = Count * Len(h.pool)
  <2>1. k.total_using \in Int /\ k.total_free \in Int
    BY <1>1, CacheFields
  <2>2. h.total_using + h.total_free = k.total_using + k.total_free
    <3>1. h.total_using = k.total_using - 1 /\ h.total_free = k.total_free + 1
      BY <1>11, <1>12, <1>20, Zenon
    <3>2. \A x, y \in Int : (x - 1) + (y + 1) = x + y
      OBVIOUS
    <3>3. QED
      BY <2>1, <3>1, <3>2
  <2>3. QED
    BY <1>17, <1>20, <2>2, Zenon
<1>26. Exact(h, W)
  BY <1>16, <1>17, <1>18, <1>19, <1>22, <1>24, <1>25 DEF Exact
<1>27. CacheGave(k, h, V, W)
  BY <1>20, <1>26, Zenon DEF CacheGave
<1>28. QED
  BY <1>18, <1>20, <1>21, <1>27 DEF CacheTook

LEMMA CacheHolds ==
  ASSUME NEW k, NEW V, GoodCache(k), Exact(k, V), NEW o \in V,
         NEW s, s = CHOOSE t \in DOMAIN k.pool : k.pool[t].page = o[1]
  PROVE  s \in 1..Len(k.pool) /\ k.pool[s].page = o[1] /\ k # NoCache
<1>1. k \in CacheShapes /\ DOMAIN k.pool = 1..Len(k.pool)
  BY CacheFields DEF GoodCache
<1>2. o \in ObjectNames /\ o \in InUse(k)
  BY DEF Exact, InUse
<1>3. \E t \in DOMAIN k.pool : k.pool[t].page = o[1]
  BY <1>1, <1>2 DEF InUse
<1>4. s \in 1..Len(k.pool) /\ k.pool[s].page = o[1]
  BY <1>1, <1>3
<1>5. k # NoCache
  <2>1. NoCache.pool = <<>>
    BY DEF NoCache
  <2>2. Len(NoCache.pool) = 0
    BY <2>1
  <2>3. QED
    BY <1>4, <2>2
<1>6. QED
  BY <1>4, <1>5

(* A slab added behind the first.                                          *)
Pos(j) == IF j = 1 THEN 1 ELSE j + 1

Inserted(q, y, b) ==
  /\ Len(y) = Len(q) + 1 /\ y[2] = b
  /\ \A t \in 1..Len(y) : t = 2 \/ \E j \in 1..Len(q) : t = Pos(j) /\ y[t] = q[j]
  /\ \A j \in 1..Len(q) : Pos(j) \in 1..Len(y) /\ Pos(j) # 2 /\ y[Pos(j)] = q[j]

LEMMA InsertAtIs ==
  ASSUME NEW T, NEW q \in Seq(T), q # <<>>, NEW b \in T, NEW y, y = InsertAt(q, 2, b)
  PROVE  y \in Seq(T) /\ Inserted(q, y, b)
<1>1. Len(q) \in Nat /\ Len(q) >= 1
  BY EmptySeq
<1>2. PICK x : x = SubSeq(q, 1, 1)
  OBVIOUS
<1>3. PICK z : z = SubSeq(q, 2, Len(q))
  OBVIOUS
<1>4. x \in Seq(T) /\ Len(x) = 1 /\ x[1] = q[1]
  <2>1. \A i \in 1..Len(q) : q[i] \in T
    BY ElementOfSeq
  <2>2. QED
    BY <1>1, <1>2, <2>1
<1>5. z \in Seq(T) /\ Len(z) = Len(q) - 1 /\ \A i \in 1..(Len(q) - 1) : z[i] = q[i + 1]
  <2>1. \A i \in 1..Len(q) : q[i] \in T
    BY ElementOfSeq
  <2>2. z = [i \in 1..(Len(q) - 1) |-> q[i + 1]]
    <3>1. z = [i \in 1..((Len(q) - 2) + 1) |-> q[(2 + i) - 1]]
      BY <1>1, <1>3
    <3>2. (Len(q) - 2) + 1 = Len(q) - 1 /\ \A i \in 1..(Len(q) - 1) : (2 + i) - 1 = i + 1
      BY <1>1
    <3>3. QED
      BY <3>1, <3>2
  <2>3. Len(q) - 1 \in Nat /\ \A i \in 1..(Len(q) - 1) : q[i + 1] \in T
    BY <1>1, <2>1
  <2>4. QED
    BY <2>2, <2>3
<1>6. y = (x \o <<b>>) \o z
  <2>1. 2 - 1 = 1
    OBVIOUS
  <2>2. QED
    BY <1>2, <1>3, <2>1, Zenon DEF InsertAt
<1>7. PICK w : w = x \o <<b>>
  OBVIOUS
<1>8. w \in Seq(T) /\ Len(w) = 2 /\ w[1] = q[1] /\ w[2] = b
  <2>1. <<b>> \in Seq(T) /\ Len(<<b>>) = 1 /\ <<b>>[1] = b
    OBVIOUS
  <2>2. w \in Seq(T) /\ Len(w) = Len(x) + Len(<<b>>)
    BY <1>4, <1>7, <2>1, ConcatProperties
  <2>3. \A i \in 1..(Len(x) + Len(<<b>>)) : w[i] = IF i <= Len(x) THEN x[i] ELSE <<b>>[i - Len(x)]
    BY <1>4, <1>7, <2>1, ConcatProperties
  <2>4. QED
    BY <1>4, <2>1, <2>2, <2>3
<1>9. y = w \o z
  BY <1>6, <1>7
<1>10. y \in Seq(T) /\ Len(y) = Len(q) + 1 /\ y[1] = q[1] /\ y[2] = b /\ \A i \in 1..(Len(q) - 1) : y[i + 2] = q[i + 1]
  <2>1. y \in Seq(T) /\ Len(y) = Len(w) + Len(z)
    BY <1>5, <1>8, <1>9, ConcatProperties
  <2>2. \A i \in 1..(Len(w) + Len(z)) : y[i] = IF i <= Len(w) THEN w[i] ELSE z[i - Len(w)]
    <3>1. \A i \in 1..(Len(w) + Len(z)) : (w \o z)[i] = IF i <= Len(w) THEN w[i] ELSE z[i - Len(w)]
      BY <1>5, <1>8, ConcatProperties, Zenon
    <3>2. QED
      BY <1>9, <3>1, Zenon
  <2>3. Len(y) = Len(q) + 1
    BY <1>1, <1>5, <1>8, <2>1
  <2>4. y[1] = q[1] /\ y[2] = b
    BY <1>1, <1>5, <1>8, <2>2
  <2>5. ASSUME NEW i \in 1..(Len(q) - 1)
        PROVE  y[i + 2] = q[i + 1]
    <3>1. i + 2 \in 1..(Len(w) + Len(z)) /\ ~(i + 2 <= Len(w)) /\ (i + 2) - Len(w) = i
      BY <1>1, <1>5, <1>8
    <3>2. y[i + 2] = z[(i + 2) - Len(w)]
      BY <2>2, <3>1
    <3>3. QED
      BY <1>5, <3>1, <3>2
  <2>6. QED
    BY <2>1, <2>3, <2>4, <2>5
<1>11. \A j \in 1..Len(q) : Pos(j) \in 1..Len(y) /\ Pos(j) # 2 /\ y[Pos(j)] = q[j]
  <2>1. TAKE j \in 1..Len(q)
  <2>2. CASE j = 1
    BY <1>1, <1>10, <2>2 DEF Pos
  <2>3. CASE j # 1
    <3>1. j - 1 \in 1..(Len(q) - 1) /\ Pos(j) = (j - 1) + 2 /\ j = (j - 1) + 1
      BY <1>1, <2>3 DEF Pos
    <3>2. PICK i : i = j - 1
      OBVIOUS
    <3>3. y[i + 2] = q[i + 1]
      BY <1>10, <3>1, <3>2
    <3>4. QED
      BY <1>1, <1>10, <2>3, <3>1, <3>2, <3>3
  <2>4. QED
    BY <2>2, <2>3
<1>12. \A t \in 1..Len(y) : t = 2 \/ \E j \in 1..Len(q) : t = Pos(j) /\ y[t] = q[j]
  <2>1. TAKE t \in 1..Len(y)
  <2>2. CASE t = 1
    <3>1. 1 \in 1..Len(q) /\ Pos(1) = 1
      BY <1>1 DEF Pos
    <3>2. QED
      BY <1>10, <2>2, <3>1
  <2>3. CASE t = 2
    BY <2>3
  <2>4. CASE t > 2
    <3>1. t - 1 \in 1..Len(q) /\ Pos(t - 1) = t
      BY <1>1, <1>10, <2>4 DEF Pos
    <3>2. QED
      BY <1>11, <3>1
  <2>5. t = 1 \/ t = 2 \/ t > 2
    BY <1>1, <1>10
  <2>6. QED
    BY <2>2, <2>3, <2>4, <2>5
<1>13. QED
  BY <1>10, <1>11, <1>12 DEF Inserted

NewPart(n, a, b, p) ==
  /\ n \in SlabRecords /\ n.page = p /\ n.own = <<a, b>> /\ n.used = {} /\ n.free_count = Count
  /\ n.using_count \in Nat

Widened(k, n) == [k EXCEPT !.pool = InsertAt(@, 2, n), !.total_free = @ + Count]

Enlarged(k, h, V, a, b, p) ==
  /\ GoodCache(h) /\ h # NoCache /\ Exact(h, V)
  /\ Objects(h) = Objects(k) \cup {a, b} /\ PageRuns(h) = PageRuns(k) \cup {<<p, 1>>}
  /\ CachePages(h) = CachePages(k) \cup {p}

LEMMA NewPartFilled ==
  ASSUME NEW n, NEW a, NEW b, NEW p, NewPart(n, a, b, p)
  PROVE  Filled(n)
<1>1. n.used = {} /\ n.free_count = Count /\ n.using_count \in Nat
  BY DEF NewPart
<1>2. Cardinality(n.used) = 0
  BY <1>1, FS_EmptySet
<1>3. Count \in Nat
  BY SlabCacheAssumption
<1>4. QED
  BY <1>1, <1>2, <1>3 DEF Filled

SecondIs(k, h, V, a, b, p, n) == Enlarged(k, h, V, a, b, p) /\ 2 \in 1..Len(h.pool) /\ h.pool[2] = n

LEMMA CacheRecord ==
  \A w, x, y, z : LET h == [own |-> w, pool |-> x, total_using |-> y, total_free |-> z]
                  IN  h.own = w /\ h.pool = x /\ h.total_using = y /\ h.total_free = z
OBVIOUS

LEMMA CacheInsert ==
  ASSUME NEW k, NEW V, GoodCache(k), k # NoCache, Exact(k, V),
         NEW a \in ObjectNames, NEW b \in ObjectNames, a # b, a \notin Objects(k), b \notin Objects(k),
         NEW p \in Pages, <<p, 1>> \notin PageRuns(k), NEW n, NewPart(n, a, b, p),
         NEW h, h = Widened(k, n)
  PROVE  SecondIs(k, h, V, a, b, p, n)
<1>1. k \in CacheShapes /\ PartsApart(k) /\ k.own = <<k.own[1]>> /\ k.own[1] \in ObjectNames /\ k.pool # <<>>
  BY DEF GoodCache
<1>2. PICK q \in Seq(SlabRecords) : q = k.pool
  <2>1. k.pool \in Seq(SlabRecords)
    BY <1>1, CacheFields
  <2>2. QED
    BY <2>1, Zenon
<1>3. PICK y : y = InsertAt(q, 2, n)
  OBVIOUS
<1>4. n \in SlabRecords /\ n.page = p /\ n.own = <<a, b>> /\ n.used = {} /\ n.free_count = Count
  BY DEF NewPart
<1>5. y \in Seq(SlabRecords) /\ Inserted(q, y, n)
  BY <1>1, <1>2, <1>3, <1>4, InsertAtIs
<1>6. Count \in Nat \ {0}
  BY SlabCacheAssumption
<1>7. k.total_using \in Int /\ k.total_free \in Int /\ k.own \in Seq(ObjectNames) /\ Len(q) \in Nat
  BY <1>1, <1>2, CacheFields
<1>8. h = [own |-> k.own, pool |-> y, total_using |-> k.total_using, total_free |-> k.total_free + Count]
  BY <1>1, <1>2, <1>3 DEF CacheShapes, Widened
<1>9. h.own = k.own /\ h.pool = y /\ h.total_using = k.total_using /\ h.total_free = k.total_free + Count
  <2>1. PICK g : g = [own |-> k.own, pool |-> y, total_using |-> k.total_using, total_free |-> k.total_free + Count]
    OBVIOUS
  <2>2. g.own = k.own /\ g.pool = y /\ g.total_using = k.total_using /\ g.total_free = k.total_free + Count
    BY <2>1, CacheRecord, Zenon
  <2>3. g = h
    BY <1>8, <2>1, Zenon
  <2>4. QED
    BY <2>2, <2>3, Zenon
<1>10. h \in CacheShapes
  <2>1. PICK z \in SlabRings : z = y
    BY <1>5, Zenon DEF SlabRings
  <2>2. PICK w \in Seq(ObjectNames) : w = k.own
    BY <1>7
  <2>3. PICK f \in Int : f = k.total_free + Count
    BY <1>6, <1>7
  <2>4. PICK u \in Int : u = k.total_using
    BY <1>7
  <2>5. [own |-> w, pool |-> z, total_using |-> u, total_free |-> f] \in CacheShapes
    BY DEF CacheShapes
  <2>6. QED
    BY <1>8, <2>1, <2>2, <2>3, <2>4, <2>5, Zenon
<1>11. /\ Len(y) = Len(q) + 1 /\ y[2] = n
       /\ \A t \in 1..Len(y) : t = 2 \/ \E j \in 1..Len(q) : t = Pos(j) /\ y[t] = q[j]
       /\ \A j \in 1..Len(q) : Pos(j) \in 1..Len(y) /\ Pos(j) # 2 /\ y[Pos(j)] = q[j]
  BY <1>5 DEF Inserted
<1>12. CacheView(k)
  BY CacheHas
<1>13. \A o : o \in Objects(k) <=> \/ o = k.own[1]
                                   \/ \E t \in 1..Len(q) : o = q[t].own[1] \/ o = q[t].own[2]
  BY <1>2, <1>12, Zenon DEF CacheView
<1>14. \A j \in 1..Len(q) : q[j].page # p
  <2>1. \A w : w \in PageRuns(k) <=> \E s \in 1..Len(q) : w = <<q[s].page, 1>>
    BY <1>2, <1>12, Zenon DEF CacheView
  <2>2. QED
    BY <2>1
<1>15. /\ \A s \in 1..Len(q) : /\ q[s].own = <<q[s].own[1], q[s].own[2]>>
                               /\ q[s].own[1] \in ObjectNames /\ q[s].own[2] \in ObjectNames
                               /\ q[s].own[1] # k.own[1] /\ q[s].own[2] # k.own[1]
       /\ \A s, t \in 1..Len(q) : \A u, v \in {1, 2} : q[s].own[u] = q[t].own[v] => s = t /\ u = v
       /\ \A s, t \in 1..Len(q) : q[s].page = q[t].page => s = t
  BY <1>1, <1>2 DEF PartsApart
<1>16. n.own[1] = a /\ n.own[2] = b /\ a # k.own[1] /\ b # k.own[1]
  BY <1>4, <1>13
<1>17. PartsApart(h)
  <2>1. ASSUME NEW s \in 1..Len(y)
        PROVE  /\ y[s].own = <<y[s].own[1], y[s].own[2]>>
               /\ y[s].own[1] \in ObjectNames /\ y[s].own[2] \in ObjectNames
               /\ y[s].own[1] # k.own[1] /\ y[s].own[2] # k.own[1]
    <3>1. CASE s = 2
      BY <1>4, <1>11, <1>16, <3>1
    <3>2. ASSUME NEW j \in 1..Len(q), y[s] = q[j]
          PROVE  /\ y[s].own = <<y[s].own[1], y[s].own[2]>>
                 /\ y[s].own[1] \in ObjectNames /\ y[s].own[2] \in ObjectNames
                 /\ y[s].own[1] # k.own[1] /\ y[s].own[2] # k.own[1]
      <4>1. /\ q[j].own = <<q[j].own[1], q[j].own[2]>>
            /\ q[j].own[1] \in ObjectNames /\ q[j].own[2] \in ObjectNames
            /\ q[j].own[1] # k.own[1] /\ q[j].own[2] # k.own[1]
        BY <1>15, Zenon
      <4>2. QED
        BY <3>2, <4>1, Zenon
    <3>3. QED
      BY <1>11, <3>1, <3>2, Zenon
  <2>2. \A j \in 1..Len(q) : \A u, v \in {1, 2} : q[j].own[u] # n.own[v]
    <3>1. \A j \in 1..Len(q) : \A u \in {1, 2} : q[j].own[u] \in Objects(k)
      BY <1>13
    <3>2. \A v \in {1, 2} : n.own[v] = a \/ n.own[v] = b
      BY <1>16
    <3>3. QED
      BY <3>1, <3>2
  <2>3. ASSUME NEW s \in 1..Len(y), NEW t \in 1..Len(y), NEW u \in {1, 2}, NEW v \in {1, 2}, y[s].own[u] = y[t].own[v]
        PROVE  s = t /\ u = v
    <3>1. CASE s = 2 /\ t = 2
      <4>1. n.own[u] = n.own[v]
        BY <1>11, <2>3, <3>1
      <4>2. u = v
        BY <1>16, <4>1
      <4>3. QED
        BY <3>1, <4>2
    <3>2. CASE s = 2 /\ t # 2
      <4>1. PICK j \in 1..Len(q) : y[t] = q[j]
        BY <1>11, <3>2
      <4>2. q[j].own[v] = n.own[u]
        BY <1>11, <2>3, <3>2, <4>1
      <4>3. QED
        BY <2>2, <4>2
    <3>3. CASE s # 2 /\ t = 2
      <4>1. PICK j \in 1..Len(q) : y[s] = q[j]
        BY <1>11, <3>3
      <4>2. q[j].own[u] = n.own[v]
        BY <1>11, <2>3, <3>3, <4>1
      <4>3. QED
        BY <2>2, <4>2
    <3>4. CASE s # 2 /\ t # 2
      <4>1. PICK i \in 1..Len(q) : s = Pos(i) /\ y[s] = q[i]
        BY <1>11, <3>4
      <4>2. PICK j \in 1..Len(q) : t = Pos(j) /\ y[t] = q[j]
        BY <1>11, <3>4
      <4>3. q[i].own[u] = q[j].own[v]
        BY <2>3, <4>1, <4>2
      <4>4. i = j /\ u = v
        BY <1>15, <4>3
      <4>5. QED
        BY <4>1, <4>2, <4>4
    <3>5. QED
      BY <3>1, <3>2, <3>3, <3>4
  <2>4. ASSUME NEW s \in 1..Len(y), NEW t \in 1..Len(y), y[s].page = y[t].page
        PROVE  s = t
    <3>1. CASE s = 2 /\ t = 2
      BY <3>1
    <3>2. CASE s = 2 /\ t # 2
      <4>1. PICK j \in 1..Len(q) : y[t] = q[j]
        BY <1>11, <3>2
      <4>2. QED
        BY <1>4, <1>11, <1>14, <2>4, <3>2, <4>1
    <3>3. CASE s # 2 /\ t = 2
      <4>1. PICK j \in 1..Len(q) : y[s] = q[j]
        BY <1>11, <3>3
      <4>2. QED
        BY <1>4, <1>11, <1>14, <2>4, <3>3, <4>1
    <3>4. CASE s # 2 /\ t # 2
      <4>1. PICK i \in 1..Len(q) : s = Pos(i) /\ y[s] = q[i]
        BY <1>11, <3>4
      <4>2. PICK j \in 1..Len(q) : t = Pos(j) /\ y[t] = q[j]
        BY <1>11, <3>4
      <4>3. i = j
        BY <1>15, <2>4, <4>1, <4>2
      <4>4. QED
        BY <4>1, <4>2, <4>3
    <3>5. QED
      BY <3>1, <3>2, <3>3, <3>4
  <2>5. QED
    BY <1>9, <2>1, <2>3, <2>4 DEF PartsApart
<1>18. h.pool # <<>> /\ h # NoCache
  <2>1. Len(y) # 0
    BY <1>7, <1>11
  <2>2. y # <<>>
    BY <2>1
  <2>3. QED
    BY <1>9, <2>2 DEF NoCache
<1>19. GoodCache(h)
  BY <1>1, <1>9, <1>10, <1>17, <1>18, Zenon DEF GoodCache
<1>20. CacheView(h)
  BY <1>19, CacheHas, Zenon
<1>21. ASSUME NEW o
       PROVE  o \in Objects(h) <=> o \in Objects(k) \/ o = a \/ o = b
  <2>1. o \in Objects(h) <=> o = k.own[1] \/ \E t \in 1..Len(y) : o = y[t].own[1] \/ o = y[t].own[2]
    BY <1>9, <1>18, <1>20 DEF CacheView
  <2>2. ASSUME NEW t \in 1..Len(y), o = y[t].own[1] \/ o = y[t].own[2]
        PROVE  o \in Objects(k) \/ o = a \/ o = b
    <3>1. CASE t = 2
      BY <1>11, <1>16, <2>2, <3>1
    <3>2. ASSUME NEW j \in 1..Len(q), y[t] = q[j]
          PROVE  o \in Objects(k)
      BY <1>13, <2>2, <3>2
    <3>3. QED
      BY <1>11, <3>1, <3>2
  <2>3. ASSUME NEW j \in 1..Len(q), o = q[j].own[1] \/ o = q[j].own[2]
        PROVE  \E t \in 1..Len(y) : o = y[t].own[1] \/ o = y[t].own[2]
    BY <1>11, <2>3
  <2>4. o = a \/ o = b => \E t \in 1..Len(y) : o = y[t].own[1] \/ o = y[t].own[2]
    <3>1. 2 \in 1..Len(y) /\ y[2].own[1] = a /\ y[2].own[2] = b
      <4>1. Len(q) >= 1
        BY <1>1, <1>2, <1>7, EmptySeq
      <4>2. QED
        BY <1>7, <1>11, <1>16, <4>1
    <3>2. QED
      BY <3>1
  <2>5. QED
    BY <1>13, <2>1, <2>2, <2>3, <2>4
<1>22. Objects(h) = Objects(k) \cup {a, b}
  BY <1>21
<1>23. Len(q) >= 1
  BY <1>1, <1>2, <1>7, EmptySeq
<1>24. 2 \in 1..Len(y)
  BY <1>7, <1>11, <1>23
<1>25. ASSUME NEW x
       PROVE  (\E t \in 1..Len(y) : x = y[t].page) <=> x = p \/ \E j \in 1..Len(q) : x = q[j].page
  <2>1. ASSUME NEW t \in 1..Len(y), x = y[t].page
        PROVE  x = p \/ \E j \in 1..Len(q) : x = q[j].page
    BY <1>4, <1>11, <2>1, Zenon
  <2>2. ASSUME NEW j \in 1..Len(q), x = q[j].page
        PROVE  \E t \in 1..Len(y) : x = y[t].page
    BY <1>11, <2>2, Zenon
  <2>3. x = p => \E t \in 1..Len(y) : x = y[t].page
    BY <1>4, <1>11, <1>24, Zenon
  <2>4. QED
    BY <2>1, <2>2, <2>3, Zenon
<1>26. PageRuns(h) = PageRuns(k) \cup {<<p, 1>>}
  <2>1. \A w : w \in PageRuns(k) <=> \E s \in 1..Len(q) : w = <<q[s].page, 1>>
    BY <1>2, <1>12, Zenon DEF CacheView
  <2>2. \A w : w \in PageRuns(h) <=> \E s \in 1..Len(y) : w = <<y[s].page, 1>>
    BY <1>9, <1>20, Zenon DEF CacheView
  <2>3. ASSUME NEW w
        PROVE  w \in PageRuns(h) <=> w \in PageRuns(k) \/ w = <<p, 1>>
    <3>1. (\E s \in 1..Len(y) : w = <<y[s].page, 1>>) <=> \E x : w = <<x, 1>> /\ \E s \in 1..Len(y) : x = y[s].page
      OBVIOUS
    <3>2. (\E s \in 1..Len(q) : w = <<q[s].page, 1>>) <=> \E x : w = <<x, 1>> /\ \E s \in 1..Len(q) : x = q[s].page
      OBVIOUS
    <3>3. QED
      BY <1>25, <2>1, <2>2, <3>1, <3>2
  <2>4. QED
    BY <2>3
<1>27. CachePages(h) = CachePages(k) \cup {p}
  <2>1. ASSUME NEW x \in Pages
        PROVE  x \in CachePages(h) <=> x \in CachePages(k) \/ x = p
    <3>1. x \in CachePages(k) <=> \E j \in 1..Len(q) : q[j].page = x
      BY <1>2 DEF CachePages
    <3>2. x \in CachePages(h) <=> \E t \in 1..Len(y) : y[t].page = x
      BY <1>9 DEF CachePages
    <3>3. (\E t \in 1..Len(y) : x = y[t].page) <=> x = p \/ \E j \in 1..Len(q) : x = q[j].page
      BY <1>25, Zenon
    <3>4. QED
      BY <3>1, <3>2, <3>3
  <2>2. CachePages(h) \subseteq Pages /\ CachePages(k) \subseteq Pages
    BY DEF CachePages
  <2>3. QED
    BY <2>1, <2>2
<1>28. Exact(h, V)
  <2>1. /\ \A s \in 1..Len(q) : Filled(q[s])
        /\ V = InUse(k) /\ IsFiniteSet(V)
        /\ k.total_using = Cardinality(V)
        /\ k.total_using + k.total_free = Count * Len(q)
    BY <1>2, Zenon DEF Exact
  <2>2. Filled(n)
    BY NewPartFilled
  <2>3. \A t \in 1..Len(y) : Filled(y[t])
    BY <1>11, <2>1, <2>2
  <2>4. InUse(h) = InUse(k)
    <3>1. ASSUME NEW o \in ObjectNames
          PROVE  (\E t \in 1..Len(y) : y[t].page = o[1] /\ o[2] \in y[t].used)
                   <=> \E j \in 1..Len(q) : q[j].page = o[1] /\ o[2] \in q[j].used
      <4>1. ASSUME NEW t \in 1..Len(y), y[t].page = o[1], o[2] \in y[t].used
            PROVE  \E j \in 1..Len(q) : q[j].page = o[1] /\ o[2] \in q[j].used
        <5>1. t # 2
          BY <1>4, <1>11, <4>1
        <5>2. PICK j \in 1..Len(q) : y[t] = q[j]
          BY <1>11, <5>1
        <5>3. q[j].page = o[1] /\ o[2] \in q[j].used
          BY <4>1, <5>2
        <5>4. QED
          BY <5>3
      <4>2. ASSUME NEW j \in 1..Len(q), q[j].page = o[1], o[2] \in q[j].used
            PROVE  \E t \in 1..Len(y) : y[t].page = o[1] /\ o[2] \in y[t].used
        <5>1. Pos(j) \in 1..Len(y) /\ y[Pos(j)] = q[j]
          BY <1>11
        <5>2. QED
          BY <4>2, <5>1
      <4>3. QED
        BY <4>1, <4>2, Zenon
    <3>2. QED
      BY <1>2, <1>9, <3>1, Zenon DEF InUse
  <2>5. Count * (Len(q) + 1) = Count * Len(q) + Count
    <3>1. \A x, z \in Int : x * (z + 1) = x * z + x
      OBVIOUS
    <3>2. QED
      BY <1>6, <1>7, <3>1
  <2>6. k.total_using + (k.total_free + Count) = Count * Len(q) + Count
    <3>1. \A x, z, w \in Int : x + (z + w) = (x + z) + w
      OBVIOUS
    <3>2. k.total_using \in Int /\ k.total_free \in Int /\ Count \in Int
      BY <1>6, <1>7
    <3>3. k.total_using + (k.total_free + Count) = (k.total_using + k.total_free) + Count
      BY <3>1, <3>2, Zenon
    <3>4. QED
      BY <2>1, <3>3, Zenon
  <2>7. h.total_using + h.total_free = Count * Len(h.pool)
    BY <1>9, <1>11, <2>5, <2>6, Zenon
  <2>8. QED
    BY <1>9, <2>1, <2>3, <2>4, <2>7, Zenon DEF Exact
<1>29. QED
  BY <1>9, <1>11, <1>18, <1>19, <1>22, <1>24, <1>26, <1>27, <1>28, Zenon DEF Enlarged, SecondIs

Begun(h, V, o, a, b, p) ==
  /\ GoodCache(h) /\ h # NoCache /\ Exact(h, V)
  /\ Objects(h) = {o, a, b} /\ PageRuns(h) = {<<p, 1>>} /\ CachePages(h) = {p}

LEMMA CacheNone ==
  /\ GoodCache(NoCache) /\ Exact(NoCache, {})
  /\ Objects(NoCache) = {} /\ PageRuns(NoCache) = {} /\ CachePages(NoCache) = {}
  /\ \A V : Exact(NoCache, V) => V = {}
<1>1. NoCache.own = <<>> /\ NoCache.pool = <<>> /\ NoCache.total_using = 0 /\ NoCache.total_free = 0
  BY DEF NoCache
<1>2. Len(NoCache.pool) = 0 /\ 1..Len(NoCache.pool) = {}
  <2>1. Len(NoCache.pool) = 0
    BY <1>1
  <2>2. 1..0 = {}
    OBVIOUS
  <2>3. QED
    BY <2>1, <2>2, Zenon
<1>3. NoCache \in CacheShapes
  BY DEF NoCache, CacheShapes, SlabRings
<1>4. GoodCache(NoCache)
  BY <1>2, <1>3 DEF GoodCache, PartsApart
<1>5. CacheView(NoCache)
  BY <1>4, CacheHas, Zenon
<1>6. Objects(NoCache) = {}
  BY <1>5, Zenon DEF CacheView
<1>7. \A w : w \in PageRuns(NoCache) <=> \E s \in 1..Len(NoCache.pool) : w = <<NoCache.pool[s].page, 1>>
  BY <1>5, Zenon DEF CacheView
<1>8. PageRuns(NoCache) = {} /\ CachePages(NoCache) = {} /\ InUse(NoCache) = {}
  BY <1>2, <1>7 DEF CachePages, InUse
<1>9. Exact(NoCache, {})
  <2>1. IsFiniteSet({}) /\ Cardinality({}) = 0
    BY FS_EmptySet
  <2>2. 0 + 0 = Count * 0
    BY SlabCacheAssumption
  <2>3. QED
    BY <1>1, <1>2, <1>8, <2>1, <2>2 DEF Exact
<1>10. \A V : Exact(NoCache, V) => V = {}
  BY <1>8 DEF Exact
<1>11. QED
  BY <1>4, <1>6, <1>8, <1>9, <1>10

LEMMA CacheBegin ==
  ASSUME NEW o \in ObjectNames, NEW a \in ObjectNames, NEW b \in ObjectNames, o # a, o # b, a # b,
         NEW p \in Pages, NEW n, NewPart(n, a, b, p),
         NEW h, h = [own |-> <<o>>, pool |-> <<n>>, total_using |-> 0, total_free |-> Count]
  PROVE  Begun(h, {}, o, a, b, p)
<1>1. h.own = <<o>> /\ h.pool = <<n>> /\ h.total_using = 0 /\ h.total_free = Count
  <2>1. PICK g : g = [own |-> <<o>>, pool |-> <<n>>, total_using |-> 0, total_free |-> Count]
    OBVIOUS
  <2>2. g.own = <<o>> /\ g.pool = <<n>> /\ g.total_using = 0 /\ g.total_free = Count
    BY <2>1, CacheRecord, Zenon
  <2>3. g = h
    BY <2>1, Zenon
  <2>4. QED
    BY <2>2, <2>3, Zenon
<1>2. n \in SlabRecords /\ n.page = p /\ n.own = <<a, b>> /\ n.used = {} /\ n.free_count = Count
  BY DEF NewPart
<1>3. n.own[1] = a /\ n.own[2] = b
  BY <1>2
<1>4. Len(h.pool) = 1 /\ h.pool[1] = n /\ 1..Len(h.pool) = {1} /\ h.own[1] = o /\ h.pool # <<>>
  BY <1>1
<1>5. Count \in Nat \ {0}
  BY SlabCacheAssumption
<1>6. h \in CacheShapes
  <2>1. PICK z \in SlabRings : z = <<n>>
    <3>1. <<n>> \in SlabRings
      BY <1>2 DEF SlabRings
    <3>2. QED
      BY <3>1, Zenon
  <2>2. PICK w \in Seq(ObjectNames) : w = <<o>>
    <3>1. <<o>> \in Seq(ObjectNames)
      OBVIOUS
    <3>2. QED
      BY <3>1, Zenon
  <2>3. PICK f \in Int : f = Count
    BY <1>5
  <2>4. PICK u \in Int : u = 0
    OBVIOUS
  <2>5. [own |-> w, pool |-> z, total_using |-> u, total_free |-> f] \in CacheShapes
    BY DEF CacheShapes
  <2>6. QED
    BY <2>1, <2>2, <2>3, <2>4, <2>5, Zenon
<1>7. PartsApart(h)
  <2>1. \A s \in 1..Len(h.pool) : s = 1 /\ h.pool[s] = n
    BY <1>4
  <2>2. n.own = <<n.own[1], n.own[2]>> /\ n.own[1] # h.own[1] /\ n.own[2] # h.own[1]
    BY <1>2, <1>3, <1>4
  <2>3. \A u, v \in {1, 2} : n.own[u] = n.own[v] => u = v
    BY <1>3
  <2>4. QED
    BY <1>3, <2>1, <2>2, <2>3 DEF PartsApart
<1>8. h # NoCache
  BY <1>4 DEF NoCache
<1>9. GoodCache(h)
  <2>1. h.own = <<h.own[1]>> /\ h.own[1] \in ObjectNames
    BY <1>1
  <2>2. QED
    BY <1>4, <1>6, <1>7, <2>1, Zenon DEF GoodCache
<1>10. CacheView(h)
  BY <1>9, CacheHas, Zenon
<1>11. \A x : x \in Objects(h) <=> x = h.own[1] \/ \E s \in 1..Len(h.pool) : x = h.pool[s].own[1] \/ x = h.pool[s].own[2]
  BY <1>8, <1>10, Zenon DEF CacheView
<1>12. Objects(h) = {o, a, b}
  BY <1>3, <1>4, <1>11
<1>13. \A w : w \in PageRuns(h) <=> \E s \in 1..Len(h.pool) : w = <<h.pool[s].page, 1>>
  BY <1>10, Zenon DEF CacheView
<1>14. PageRuns(h) = {<<p, 1>>}
  BY <1>2, <1>4, <1>13
<1>15. CachePages(h) = {p}
  BY <1>2, <1>4 DEF CachePages
<1>16. InUse(h) = {}
  BY <1>2, <1>4 DEF InUse
<1>17. Exact(h, {})
  <2>1. IsFiniteSet({}) /\ Cardinality({}) = 0
    BY FS_EmptySet
  <2>2. 0 + Count = Count * 1
    BY <1>5
  <2>3. Filled(n)
    BY NewPartFilled
  <2>4. QED
    BY <1>1, <1>4, <1>16, <2>1, <2>2, <2>3 DEF Exact
<1>18. QED
  BY <1>8, <1>9, <1>12, <1>14, <1>15, <1>17, Zenon DEF Begun

LEMMA NewPartIs ==
  ASSUME NEW p \in Pages, NEW a \in ObjectNames, NEW b \in ObjectNames
  PROVE  /\ NewPart(Slab(p, Count, <<a, b>>), a, b, p)
         /\ NewPart([Slab(p, Count, <<a, b>>) EXCEPT !.using_count = Count], a, b, p)
<1>1. Count \in Nat
  BY SlabCacheAssumption
<1>2. PICK x \in Seq(ObjectNames) : x = <<a, b>>
  <2>1. <<a, b>> \in Seq(ObjectNames)
    OBVIOUS
  <2>2. QED
    BY <2>1, Zenon
<1>3. ASSUME NEW u \in Nat, NEW n,
             n = [page |-> p, used |-> {}, using_count |-> u, free_count |-> Count, color_count |-> Count, own |-> x]
      PROVE  NewPart(n, a, b, p)
  BY <1>1, <1>2, <1>3 DEF NewPart, SlabRecords
<1>4. PICK n : n = Slab(p, Count, x)
  OBVIOUS
<1>5. n = [page |-> p, used |-> {}, using_count |-> 0, free_count |-> Count, color_count |-> Count, own |-> x]
  BY <1>4 DEF Slab
<1>6. NewPart(n, a, b, p)
  BY <1>3, <1>5
<1>7. PICK w : w = [n EXCEPT !.using_count = Count]
  OBVIOUS
<1>8. w = [page |-> p, used |-> {}, using_count |-> Count, free_count |-> Count, color_count |-> Count, own |-> x]
  BY <1>5, <1>7
<1>9. NewPart(w, a, b, p)
  BY <1>1, <1>3, <1>8
<1>10. QED
  BY <1>2, <1>4, <1>6, <1>7, <1>9, Zenon
-----------------------------------------------------------------------------
(* The operations of a cache, each on the whole system.                    *)
Advanced(m, r, h, V, O, R, W) == Settled(r, h, V, O, R, W) /\ Reserve(m, r)

(* Old parts out, new parts in.                                            *)
Swap(A, B, C) == (A \ B) \cup C

SystemFacts(m, k, V, O, R, U) ==
  /\ GoodCache(k) /\ Exact(k, V) /\ PageRuns(k) \subseteq R
  /\ Objects(k) \subseteq O /\ Mem(m, O, {}, R, CachePages(k) \cup U) /\ U \cap CachePages(k) = {}
  /\ Objects(k) \subseteq O /\ (CachePages(k) \cup U) \cap SlabPages(m) = {} /\ Rings(m)

LEMMA SystemHas ==
  ASSUME NEW m, NEW k, NEW V, NEW O, NEW R, NEW U, System(m, k, V, O, R, U)
  PROVE  SystemFacts(m, k, V, O, R, U)
<1>1. /\ GoodCache(k) /\ Exact(k, V) /\ PageRuns(k) \subseteq R
      /\ Objects(k) \subseteq O /\ Mem(m, O, {}, R, CachePages(k) \cup U) /\ U \cap CachePages(k) = {}
  BY DEF System
<1>2. Objects(k) \subseteq O /\ (CachePages(k) \cup U) \cap SlabPages(m) = {}
  BY <1>1 DEF Mem, CacheSide, Possession
<1>3. Rings(m)
  BY <1>1, MemRings
<1>4. QED
  BY <1>1, <1>2, <1>3 DEF SystemFacts

LEMMA SwapSame ==
  ASSUME NEW A, NEW B, B \subseteq A
  PROVE  Swap(A, B, B) = A /\ \A C : Swap(A, B, B \cup C) = A \cup C
BY DEF Swap

LEMMA SettleSame ==
  ASSUME NEW m, NEW k, NEW V, NEW O, NEW R, NEW U, System(m, k, V, O, R, U), NEW h, NEW W, CacheGave(k, h, V, W)
  PROVE  Advanced(m, m, h, W, Swap(O, Objects(k), Objects(h)), Swap(R, PageRuns(k), PageRuns(h)), U)
<1>1. SystemFacts(m, k, V, O, R, U)
  BY SystemHas
<1>2. /\ PageRuns(k) \subseteq R /\ Objects(k) \subseteq O /\ Mem(m, O, {}, R, CachePages(k) \cup U)
      /\ Objects(k) \subseteq O /\ (CachePages(k) \cup U) \cap SlabPages(m) = {} /\ Rings(m)
  BY <1>1 DEF SystemFacts
<1>3. /\ GoodCache(h) /\ Exact(h, W)
      /\ Objects(h) = Objects(k) /\ PageRuns(h) = PageRuns(k) /\ CachePages(h) = CachePages(k)
  BY DEF CacheGave
<1>4. Swap(O, Objects(k), Objects(h)) = O /\ Swap(R, PageRuns(k), PageRuns(h)) = R
  BY <1>2, <1>3, SwapSame
<1>5. CachePages(k) \cup U = (CachePages(h) \cup U) \ SlabPages(m)
  BY <1>2, <1>3
<1>6. Objects(h) \subseteq O /\ Mem(m, O, {}, R, (CachePages(h) \cup U) \ SlabPages(m))
  BY <1>2, <1>3, <1>5, Zenon
<1>7. Settled(m, h, W, O, R, U)
  BY <1>2, <1>3, <1>6 DEF Settled
<1>8. Reserve(m, m)
  BY <1>2, HomesSame
<1>9. QED
  BY <1>4, <1>7, <1>8, Zenon DEF Advanced

LEMMA DoKmalloc ==
  ASSUME NEW m, NEW k, NEW V, NEW O, NEW R, NEW U, System(m, k, V, O, R, U), NEW c \in DOMAIN Classes,
         ~Refused(m, c), ~Breaks(m, c), NEW r, r = Alloc(m, c).mm, NEW o, o = Alloc(m, c).object
  PROVE  Advanced(m, r, k, V, O \cup {o}, R, U)
<1>1. SystemFacts(m, k, V, O, R, U)
  BY SystemHas
<1>2. PICK L : L = CachePages(k) \cup U
  OBVIOUS
<1>3. PICK S : S = {}
  OBVIOUS
<1>4. Mem(m, O, S, R, L)
  BY <1>1, <1>2, <1>3, Zenon DEF SystemFacts
<1>5. Obtained(m, r, O, S, R, L, o)
  BY <1>4, MemKmalloc
<1>6. Mem(r, O \cup {o}, S, R, L \ SlabPages(r)) /\ Grows(m, r)
  BY <1>5 DEF Obtained
<1>7. Settled(r, k, V, O \cup {o}, R, U)
  <2>1. Objects(k) \subseteq O \cup {o}
    BY <1>1 DEF SystemFacts
  <2>2. QED
    BY <1>1, <1>2, <1>3, <1>6, <2>1, Zenon DEF Settled, SystemFacts
<1>8. Rings(m) /\ Rings(r)
  BY <1>4, <1>6, MemRings
<1>9. Reserve(r, r)
  BY <1>8, HomesSame
<1>10. Reserve(m, r)
  BY <1>6, <1>8, <1>9, ReserveGrows
<1>11. QED
  BY <1>7, <1>10 DEF Advanced

LEMMA DoKfree ==
  ASSUME NEW m, NEW k, NEW V, NEW O, NEW R, NEW U, System(m, k, V, O, R, U), NEW o \in O, o \notin Objects(k),
         NEW r, r = Free(m, o)
  PROVE  Advanced(m, r, k, V, O \ {o}, R, U)
<1>1. SystemFacts(m, k, V, O, R, U)
  BY SystemHas
<1>2. PICK L : L = CachePages(k) \cup U
  OBVIOUS
<1>3. PICK S : S = {}
  OBVIOUS
<1>4. Mem(m, O, S, R, L) /\ L \cap SlabPages(m) = {}
  BY <1>1, <1>2, <1>3, Zenon DEF SystemFacts
<1>5. Freed(m, r, O, S, R, L, o)
  BY <1>4, MemKfree
<1>6. Mem(r, O \ {o}, S \ {o}, R, L) /\ Kept(m, r) /\ SlabPages(r) \subseteq SlabPages(m)
  BY <1>5 DEF Freed
<1>7. S \ {o} = S /\ L = L \ SlabPages(r)
  BY <1>3, <1>4, <1>6
<1>8. Mem(r, O \ {o}, S, R, L \ SlabPages(r))
  BY <1>6, <1>7, Zenon
<1>9. Settled(r, k, V, O \ {o}, R, U)
  <2>1. Objects(k) \subseteq O \ {o}
    BY <1>1 DEF SystemFacts
  <2>2. QED
    BY <1>1, <1>2, <1>3, <1>8, <2>1, Zenon DEF Settled, SystemFacts
<1>10. QED
  BY <1>6, <1>9, KeptReserve DEF Advanced

LEMMA PagesSame ==
  ASSUME NEW m, NEW r, r.cache = m.cache, Rings(m)
  PROVE  SlabPages(r) = SlabPages(m) /\ Reserve(m, r)
BY DEF SlabPages, Reserve, Rings

LEMMA DoAllocPages ==
  ASSUME NEW m, NEW k, NEW V, NEW O, NEW R, NEW U, System(m, k, V, O, R, U),
         NEW select \in {"ZONE_NORMAL", "ZONE_UNMAPED"}, NEW n \in Nat \ {0}, Serves(m, select, n) # 0,
         NEW p, p = FoundPage(m, select, n), NEW r, r = alloc_pages(m, select, n)
  PROVE  Advanced(m, r, k, V, O, R \cup {<<p, n>>}, U)
<1>1. SystemFacts(m, k, V, O, R, U)
  BY SystemHas
<1>2. PICK L : L = CachePages(k) \cup U
  OBVIOUS
<1>3. PICK S : S = {}
  OBVIOUS
<1>4. Mem(m, O, S, R, L) /\ L \cap SlabPages(m) = {} /\ Rings(m)
  BY <1>1, <1>2, <1>3, Zenon DEF SystemFacts
<1>5. PICK z : z = Serves(m, select, n)
  OBVIOUS
<1>6. Mem(r, O, S, R \cup {<<p, n>>}, L) /\ Taken(m, r, select, SlabPages(m), R, z, p, n)
  BY <1>4, <1>5, MemTake
<1>7. r.cache = m.cache
  BY <1>6 DEF Taken
<1>8. SlabPages(r) = SlabPages(m) /\ Reserve(m, r)
  BY <1>4, <1>7, PagesSame
<1>9. L = L \ SlabPages(r)
  BY <1>4, <1>8
<1>10. PICK Q : Q = R \cup {<<p, n>>}
  OBVIOUS
<1>11. PageRuns(k) \subseteq Q
  BY <1>1, <1>10 DEF SystemFacts
<1>12. Mem(r, O, S, Q, L \ SlabPages(r))
  BY <1>6, <1>9, <1>10, Zenon
<1>13. Settled(r, k, V, O, Q, U)
  BY <1>1, <1>2, <1>3, <1>11, <1>12, Zenon DEF Settled, SystemFacts
<1>14. QED
  BY <1>8, <1>10, <1>13, Zenon DEF Advanced

LEMMA DoFreePages ==
  ASSUME NEW m, NEW k, NEW V, NEW O, NEW R, NEW U, System(m, k, V, O, R, U), NEW w \in R, w \notin PageRuns(k),
         NEW r, r = free_pages(m, w[1], w[2])
  PROVE  Advanced(m, r, k, V, O, R \ {w}, U)
<1>1. SystemFacts(m, k, V, O, R, U)
  BY SystemHas
<1>2. PICK L : L = CachePages(k) \cup U
  OBVIOUS
<1>3. PICK S : S = {}
  OBVIOUS
<1>4. Mem(m, O, S, R, L) /\ L \cap SlabPages(m) = {} /\ Rings(m)
  BY <1>1, <1>2, <1>3, Zenon DEF SystemFacts
<1>5. Proper(w)
  BY <1>4 DEF Mem, PageSide, Owned
<1>6. PICK p \in Nat, n \in Nat \ {0} : w = <<p, n>>
  BY <1>5 DEF Proper
<1>7. w[1] = p /\ w[2] = n
  BY <1>6
<1>8. r = free_pages(m, p, n) /\ <<p, n>> \in R
  BY <1>6, <1>7, Zenon
<1>9. Mem(r, O, S, R \ {<<p, n>>}, L) /\ r.cache = m.cache
  BY <1>4, <1>8, MemGive
<1>10. SlabPages(r) = SlabPages(m) /\ Reserve(m, r)
  BY <1>4, <1>9, PagesSame
<1>11. L = L \ SlabPages(r)
  BY <1>4, <1>10
<1>12. PICK Q : Q = R \ {w}
  OBVIOUS
<1>13. PageRuns(k) \subseteq Q
  BY <1>1, <1>12 DEF SystemFacts
<1>14. Mem(r, O, S, Q, L \ SlabPages(r))
  BY <1>6, <1>9, <1>11, <1>12, Zenon
<1>15. Settled(r, k, V, O, Q, U)
  BY <1>1, <1>2, <1>3, <1>13, <1>14, Zenon DEF Settled, SystemFacts
<1>16. QED
  BY <1>10, <1>12, <1>15, Zenon DEF Advanced

LEMMA DoCreate ==
  ASSUME NEW m, NEW V, NEW O, NEW R, NEW U, System(m, NoCache, V, O, R, U), ~Refused(m, CacheClass),
         NEW x, x = AllocSmall(m, CacheClass), ~SlabBreaks(x.mm), NEW y, y = MakeSlab(x.mm), y.slabs # <<>>,
         NEW h, h = [own |-> <<x.object>>, pool |-> y.slabs, total_using |-> 0, total_free |-> Count]
  PROVE  /\ Advanced(m, y.mm, h, V, Swap(O, Objects(NoCache), Objects(h)),
                Swap(R, PageRuns(NoCache), PageRuns(h)), U)
         /\ h # NoCache
<1>1. SystemFacts(m, NoCache, V, O, R, U)
  BY SystemHas
<1>2. V = {} /\ Objects(NoCache) = {} /\ PageRuns(NoCache) = {} /\ CachePages(NoCache) = {}
  BY <1>1, CacheNone DEF SystemFacts
<1>3. {} \cup U = U
  OBVIOUS
<1>4. Mem(m, O, {}, R, U) /\ Rings(m)
  BY <1>1, <1>2, <1>3, Zenon DEF SystemFacts
<1>5. CacheClass \in DOMAIN Classes /\ Classes[CacheClass].small
  BY SlabCacheAssumption
<1>6. PICK n : n = x.mm
  OBVIOUS
<1>7. PICK o : o = x.object
  OBVIOUS
<1>8. n = AllocSmall(m, CacheClass).mm /\ o = AllocSmall(m, CacheClass).object
  BY <1>6, <1>7, Zenon
<1>9. PICK S1 : S1 = {}
  OBVIOUS
<1>10. Mem(m, O, S1, R, U)
  BY <1>4, <1>9, Zenon
<1>11. Got(m, n, O, S1, R, U, CacheClass, o)
  BY <1>5, <1>8, <1>10, MemAllocSmall
<1>12. o \in ObjectNames /\ o \notin O /\ Mem(n, O \cup {o}, S1 \cup {o}, R, U \ {o[1]})
  BY <1>11, Zenon DEF Got
<1>13. PICK O1 : O1 = O \cup {o}
  OBVIOUS
<1>14. Mem(n, O \cup {o}, S1, R, U \ {o[1]})
  BY <1>9, <1>12, MemLess
<1>15. PICK U1 : U1 = U \ {o[1]}
  OBVIOUS
<1>16. Mem(n, O1, S1, R, U1)
  BY <1>13, <1>14, <1>15, Zenon
<1>17. y = MakeSlab(n) /\ ~SlabBreaks(n)
  BY <1>6, Zenon
<1>18. PICK a, b, p : Built(n, y, O1, S1, R, U1, a, b, p)
  BY <1>16, <1>17, MemMakeSlab
<1>19. /\ a \in ObjectNames /\ b \in ObjectNames /\ a # b /\ a \notin O1 /\ b \notin O1
       /\ p \in Pages /\ <<p, 1>> \notin R /\ y.slabs = <<Slab(p, Count, <<a, b>>)>>
       /\ Mem(y.mm, O1 \cup {a, b}, S1, R \cup {<<p, 1>>}, (U1 \cup {p}) \ SlabPages(y.mm))
       /\ Grows(n, y.mm)
  BY <1>18 DEF Built
<1>20. PICK w : w = Slab(p, Count, <<a, b>>)
  OBVIOUS
<1>21. NewPart(w, a, b, p)
  BY <1>19, <1>20, NewPartIs
<1>22. h = [own |-> <<o>>, pool |-> <<w>>, total_using |-> 0, total_free |-> Count]
  BY <1>7, <1>19, <1>20, Zenon
<1>23. o # a /\ o # b
  BY <1>13, <1>19
<1>24. Begun(h, {}, o, a, b, p)
  BY <1>12, <1>19, <1>21, <1>22, <1>23, CacheBegin
<1>25. /\ GoodCache(h) /\ h # NoCache /\ Exact(h, {})
       /\ Objects(h) = {o, a, b} /\ PageRuns(h) = {<<p, 1>>} /\ CachePages(h) = {p}
  BY <1>24 DEF Begun
<1>26. Swap(O, Objects(NoCache), Objects(h)) = O1 \cup {a, b}
  BY <1>2, <1>13, <1>25 DEF Swap
<1>27. Swap(R, PageRuns(NoCache), PageRuns(h)) = R \cup {<<p, 1>>}
  BY <1>2, <1>25 DEF Swap
<1>28. Objects(h) \subseteq O1 \cup {a, b}
  BY <1>13, <1>25
<1>29. PICK r : r = y.mm
  OBVIOUS
<1>30. PICK O2 : O2 = O1 \cup {a, b}
  OBVIOUS
<1>31. PICK R2 : R2 = R \cup {<<p, 1>>}
  OBVIOUS
<1>32. PICK L2 : L2 = (U1 \cup {p}) \ SlabPages(r)
  OBVIOUS
<1>33. Objects(h) \subseteq O2 /\ Mem(r, O2, {}, R2, L2)
  BY <1>9, <1>19, <1>28, <1>29, <1>30, <1>31, <1>32, Zenon
<1>34. o[1] \in SlabPages(r)
  <2>1. o \in O2
    BY <1>13, <1>30
  <2>2. QED
    BY <1>33, <2>1, HeldPage
<1>35. L2 = (CachePages(h) \cup U) \ SlabPages(r)
  BY <1>15, <1>25, <1>32, <1>34
<1>36. Objects(h) \subseteq O2 /\ Mem(r, O2, {}, R2, (CachePages(h) \cup U) \ SlabPages(r))
  BY <1>33, <1>35, Zenon
<1>37. PageRuns(h) \subseteq R2
  BY <1>25, <1>31
<1>38. Settled(r, h, V, O2, R2, U)
  BY <1>2, <1>25, <1>36, <1>37, Zenon DEF Settled
<1>39. Grows(m, n) /\ Rings(n)
  BY <1>4, <1>5, <1>11, GotGrows
<1>40. Rings(r)
  BY <1>33, MemRings
<1>41. Grows(n, r)
  BY <1>19, <1>29
<1>42. Reserve(m, r)
  <2>1. Reserve(r, r)
    BY <1>40, HomesSame
  <2>2. Reserve(n, r)
    BY <1>39, <1>40, <1>41, <2>1, ReserveGrows
  <2>3. QED
    BY <1>4, <1>39, <1>40, <2>2, ReserveGrows
<1>43. Advanced(m, r, h, V, O2, R2, U)
  BY <1>38, <1>42 DEF Advanced
<1>44. QED
  BY <1>25, <1>26, <1>27, <1>29, <1>30, <1>31, <1>43, Zenon

LEMMA DoCreateFails ==
  ASSUME NEW m, NEW V, NEW O, NEW R, NEW U, System(m, NoCache, V, O, R, U), ~Refused(m, CacheClass),
         NEW x, x = AllocSmall(m, CacheClass), ~SlabBreaks(x.mm), NEW y, y = MakeSlab(x.mm), y.slabs = <<>>,
         NEW r, r = FreeSmall(y.mm, x.object)
  PROVE  Advanced(m, r, NoCache, V, O, R, U \cup y.unclean)
<1>1. SystemFacts(m, NoCache, V, O, R, U)
  BY SystemHas
<1>2. Exact(NoCache, V) /\ Objects(NoCache) = {} /\ PageRuns(NoCache) = {} /\ CachePages(NoCache) = {} /\ GoodCache(NoCache)
  BY <1>1, CacheNone DEF SystemFacts
<1>3. {} \cup U = U
  OBVIOUS
<1>4. Mem(m, O, {}, R, U) /\ Rings(m) /\ U \cap SlabPages(m) = {}
  BY <1>1, <1>2, <1>3, Zenon DEF SystemFacts
<1>5. CacheClass \in DOMAIN Classes /\ Classes[CacheClass].small
  BY SlabCacheAssumption
<1>6. PICK n : n = x.mm
  OBVIOUS
<1>7. PICK o : o = x.object
  OBVIOUS
<1>8. n = AllocSmall(m, CacheClass).mm /\ o = AllocSmall(m, CacheClass).object
  BY <1>6, <1>7, Zenon
<1>9. PICK S : S = {}
  OBVIOUS
<1>10. Mem(m, O, S, R, U)
  BY <1>4, <1>9, Zenon
<1>11. Got(m, n, O, S, R, U, CacheClass, o)
  BY <1>5, <1>8, <1>10, MemAllocSmall
<1>12. /\ o \in ObjectNames /\ o \notin O /\ Mem(n, O \cup {o}, S \cup {o}, R, U \ {o[1]})
       /\ SlabPages(n) = SlabPages(m) \cup {o[1]} /\ Home(n, CacheClass, o[1])
       /\ m.cache[CacheClass].total_free # 0 => o[1] \in SlabPages(m)
       /\ n.cache[CacheClass].total_free
            = (IF m.cache[CacheClass].total_free = 0 THEN Classes[CacheClass].created
               ELSE m.cache[CacheClass].total_free) - 1
  BY <1>11, Zenon DEF Got
<1>13. PICK O1 : O1 = O \cup {o}
  OBVIOUS
<1>14. PICK S1 : S1 = S \cup {o}
  OBVIOUS
<1>15. PICK U1 : U1 = U \ {o[1]}
  OBVIOUS
<1>16. Mem(n, O1, S1, R, U1)
  BY <1>12, <1>13, <1>14, <1>15, Zenon
<1>17. y = MakeSlab(n) /\ ~SlabBreaks(n)
  BY <1>6, Zenon
<1>18. PICK f : f = y.mm
  OBVIOUS
<1>19. PICK N : N = y.unclean
  OBVIOUS
<1>20. Undo(n, f, N, O1, S1, R, U1)
  <2>1. Undo(n, y.mm, y.unclean, O1, S1, R, U1)
    BY <1>16, <1>17, MemMakeSlab
  <2>2. QED
    BY <1>18, <1>19, <2>1, Zenon
<1>21. /\ Mem(f, O1, S1, R, (U1 \cup N) \ SlabPages(f)) /\ N \cap SlabPages(n) = {}
       /\ Homes(n, f) /\ Sparing(n, f) /\ Reserve(n, f)
  BY <1>20 DEF Undo
<1>22. PICK L : L = (U1 \cup N) \ SlabPages(f)
  OBVIOUS
<1>23. Mem(f, O1, S1, R, L)
  BY <1>21, <1>22, Zenon
<1>24. o[1] \in SlabPages(f)
  <2>1. o \in O1
    BY <1>13
  <2>2. QED
    BY <1>23, <2>1, HeldPage
<1>25. L = (U \cup N) \ SlabPages(f)
  BY <1>15, <1>22, <1>24
<1>26. o \in S1
  BY <1>14
<1>27. r = FreeSmall(f, o)
  BY <1>7, <1>18, Zenon
<1>28. Back(f, r, O1, S1, R, L, o)
  BY <1>23, <1>26, <1>27, MemFreeSmall
<1>29. Mem(r, O1 \ {o}, S1 \ {o}, R, L) /\ Kept(f, r)
       /\ (SlabPages(r) = SlabPages(f) \/ SlabPages(r) = SlabPages(f) \ {o[1]})
  BY <1>28, Zenon DEF Back
<1>30. PICK c \in DOMAIN Classes :
         Home(f, c, o[1]) /\ (SlabPages(r) # SlabPages(f) => f.cache[c].total_free + 1 > Classes[c].created)
  BY <1>28 DEF Back
<1>31. O1 \ {o} = O /\ S1 \ {o} = {}
  BY <1>9, <1>12, <1>13, <1>14
<1>32. Mem(r, O, {}, R, L)
  BY <1>29, <1>31, Zenon
<1>33. L = (U \cup N) \ SlabPages(r)
  <2>1. CASE SlabPages(r) = SlabPages(f)
    BY <1>25, <2>1
  <2>2. CASE SlabPages(r) # SlabPages(f)
    <3>1. Home(f, CacheClass, o[1])
      BY <1>5, <1>12, <1>21, <1>24 DEF Homes
    <3>2. f \in Mems /\ Apart(Content(f.cache))
      BY <1>23 DEF Mem, CacheSide
    <3>3. c = CacheClass
      BY <1>5, <1>30, <3>1, <3>2, HomeUnique
    <3>4. f.cache[CacheClass].total_free + 1 > Classes[CacheClass].created
      BY <1>30, <2>2, <3>3, Zenon
    <3>5. f.cache[CacheClass].total_free \in Nat
      BY <1>5, <1>23, MemRing
    <3>6. m.cache[CacheClass].total_free # 0
      <4>1. SUFFICES ASSUME m.cache[CacheClass].total_free = 0
                     PROVE  FALSE
        OBVIOUS
      <4>2. n.cache[CacheClass].total_free = Classes[CacheClass].created - 1
        BY <1>12, <4>1
      <4>3. Classes[CacheClass].created \in Nat /\ Classes[CacheClass].created > 1
        BY <1>5, ClassFacts
      <4>4. f.cache[CacheClass].total_free <= n.cache[CacheClass].total_free
        BY <1>5, <1>21, <4>2, <4>3 DEF Sparing
      <4>5. QED
        BY <3>4, <3>5, <4>2, <4>3, <4>4
    <3>7. o[1] \notin U
      BY <1>4, <1>12, <3>6
    <3>8. o[1] \notin N
      BY <1>12, <1>21
    <3>9. QED
      BY <1>25, <1>29, <2>2, <3>7, <3>8
  <2>3. QED
    BY <2>1, <2>2
<1>34. PICK W : W = U \cup N
  OBVIOUS
<1>35. L = (CachePages(NoCache) \cup W) \ SlabPages(r)
  BY <1>2, <1>33, <1>34
<1>36. Objects(NoCache) \subseteq O /\ Mem(r, O, {}, R, (CachePages(NoCache) \cup W) \ SlabPages(r))
  BY <1>2, <1>32, <1>35, Zenon
<1>37. PageRuns(NoCache) \subseteq R
  BY <1>2
<1>38. Settled(r, NoCache, V, O, R, W)
  BY <1>2, <1>36, <1>37, Zenon DEF Settled
<1>39. Grows(m, n) /\ Rings(n)
  BY <1>4, <1>5, <1>11, GotGrows
<1>40. Rings(f) /\ Rings(r)
  BY <1>23, <1>32, MemRings
<1>41. Reserve(n, r)
  BY <1>21, <1>29, <1>39, <1>40, ReserveKept
<1>42. Reserve(m, r)
  BY <1>4, <1>39, <1>40, <1>41, ReserveGrows
<1>43. QED
  BY <1>19, <1>34, <1>38, <1>42, Zenon DEF Advanced

LEMMA DoGrow ==
  ASSUME NEW m, NEW k, NEW V, NEW O, NEW R, NEW U, System(m, k, V, O, R, U), k # NoCache, ~SlabBreaks(m),
         NEW y, y = MakeSlab(m), y.slabs # <<>>, NEW n, n = [y.slabs[1] EXCEPT !.using_count = Count],
         NEW g, g = Widened(k, n),
         NEW i, i = Least((0..(Count - 1)) \ g.pool[2].used),
         NEW h, h = Gave(g, 2, i)
  PROVE  /\ Advanced(m, y.mm, h, V \cup {<<g.pool[2].page, i>>}, Swap(O, Objects(k), Objects(h)),
                     Swap(R, PageRuns(k), PageRuns(h)), U)
         /\ h # NoCache
<1>1. SystemFacts(m, k, V, O, R, U)
  BY SystemHas
<1>2. PICK L : L = CachePages(k) \cup U
  OBVIOUS
<1>3. PICK S : S = {}
  OBVIOUS
<1>4. /\ Mem(m, O, S, R, L) /\ Rings(m) /\ Objects(k) \subseteq O /\ PageRuns(k) \subseteq R
      /\ GoodCache(k) /\ Exact(k, V)
  BY <1>1, <1>2, <1>3, Zenon DEF SystemFacts
<1>5. PICK a, b, p : Built(m, y, O, S, R, L, a, b, p)
  BY <1>4, MemMakeSlab
<1>6. /\ a \in ObjectNames /\ b \in ObjectNames /\ a # b /\ a \notin O /\ b \notin O
      /\ p \in Pages /\ <<p, 1>> \notin R /\ y.slabs = <<Slab(p, Count, <<a, b>>)>>
      /\ Mem(y.mm, O \cup {a, b}, S, R \cup {<<p, 1>>}, (L \cup {p}) \ SlabPages(y.mm))
      /\ Grows(m, y.mm)
  BY <1>5 DEF Built
<1>7. y.slabs[1] = Slab(p, Count, <<a, b>>)
  <2>1. PICK w : w = Slab(p, Count, <<a, b>>)
    OBVIOUS
  <2>2. <<w>>[1] = w
    OBVIOUS
  <2>3. QED
    BY <1>6, <2>1, <2>2, Zenon
<1>8. NewPart(n, a, b, p)
  BY <1>6, <1>7, NewPartIs, Zenon
<1>9. a \notin Objects(k) /\ b \notin Objects(k) /\ <<p, 1>> \notin PageRuns(k)
  BY <1>3, <1>4, <1>6
<1>10. Enlarged(k, g, V, a, b, p) /\ 2 \in 1..Len(g.pool) /\ g.pool[2] = n
  <2>1. SecondIs(k, g, V, a, b, p, n)
    BY <1>4, <1>6, <1>8, <1>9, CacheInsert
  <2>2. QED
    BY <2>1 DEF SecondIs
<1>11. /\ GoodCache(g) /\ g # NoCache /\ Exact(g, V)
       /\ Objects(g) = Objects(k) \cup {a, b} /\ PageRuns(g) = PageRuns(k) \cup {<<p, 1>>}
       /\ CachePages(g) = CachePages(k) \cup {p}
  BY <1>10 DEF Enlarged
<1>12. g.pool[2].free_count # 0
  <2>1. n.free_count = Count /\ Count # 0
    BY <1>8, SlabCacheAssumption DEF NewPart
  <2>2. QED
    BY <1>10, <2>1
<1>13. PICK W : W = V \cup {<<g.pool[2].page, i>>}
  OBVIOUS
<1>14. CacheGave(g, h, V, W)
  BY <1>10, <1>11, <1>12, <1>13, CacheGive
<1>15. /\ GoodCache(h) /\ h # NoCache /\ Exact(h, W)
       /\ Objects(h) = Objects(g) /\ PageRuns(h) = PageRuns(g) /\ CachePages(h) = CachePages(g)
  BY <1>14 DEF CacheGave
<1>16. Objects(h) = Objects(k) \cup {a, b} /\ PageRuns(h) = PageRuns(k) \cup {<<p, 1>>} /\ CachePages(h) = CachePages(k) \cup {p}
  BY <1>11, <1>15, Zenon
<1>17. Swap(O, Objects(k), Objects(h)) = O \cup {a, b}
  <2>1. Swap(O, Objects(k), Objects(k) \cup {a, b}) = O \cup {a, b}
    BY <1>4, SwapSame
  <2>2. QED
    BY <1>16, <2>1, Zenon
<1>18. Swap(R, PageRuns(k), PageRuns(h)) = R \cup {<<p, 1>>}
  <2>1. Swap(R, PageRuns(k), PageRuns(k) \cup {<<p, 1>>}) = R \cup {<<p, 1>>}
    BY <1>4, SwapSame
  <2>2. QED
    BY <1>16, <2>1, Zenon
<1>19. PICK r : r = y.mm
  OBVIOUS
<1>20. PICK O2 : O2 = O \cup {a, b}
  OBVIOUS
<1>21. PICK R2 : R2 = R \cup {<<p, 1>>}
  OBVIOUS
<1>22. (L \cup {p}) \ SlabPages(r) = (CachePages(h) \cup U) \ SlabPages(r)
  BY <1>2, <1>16
<1>23. Objects(h) \subseteq O2 /\ Mem(r, O2, {}, R2, (CachePages(h) \cup U) \ SlabPages(r))
  <2>1. Objects(h) \subseteq O2
    BY <1>4, <1>16, <1>20
  <2>2. QED
    BY <1>3, <1>6, <1>19, <1>20, <1>21, <1>22, <2>1, Zenon
<1>24. PageRuns(h) \subseteq R2
  BY <1>4, <1>16, <1>21
<1>25. Settled(r, h, W, O2, R2, U)
  BY <1>15, <1>23, <1>24, Zenon DEF Settled
<1>26. Rings(r)
  BY <1>23, MemRings
<1>27. Reserve(m, r)
  <2>1. Reserve(r, r)
    BY <1>26, HomesSame
  <2>2. Grows(m, r)
    BY <1>6, <1>19
  <2>3. QED
    BY <1>4, <1>26, <2>1, <2>2, ReserveGrows
<1>28. Advanced(m, r, h, W, O2, R2, U)
  BY <1>25, <1>27 DEF Advanced
<1>29. QED
  BY <1>13, <1>15, <1>17, <1>18, <1>19, <1>20, <1>21, <1>28, Zenon

LEMMA DoGrowFails ==
  ASSUME NEW m, NEW k, NEW V, NEW O, NEW R, NEW U, System(m, k, V, O, R, U), ~SlabBreaks(m),
         NEW y, y = MakeSlab(m), y.slabs = <<>>
  PROVE  Advanced(m, y.mm, k, V, O, R, U \cup y.unclean)
<1>1. SystemFacts(m, k, V, O, R, U)
  BY SystemHas
<1>2. PICK L : L = CachePages(k) \cup U
  OBVIOUS
<1>3. PICK S : S = {}
  OBVIOUS
<1>4. Mem(m, O, S, R, L) /\ Objects(k) \subseteq O /\ PageRuns(k) \subseteq R /\ GoodCache(k) /\ Exact(k, V)
  BY <1>1, <1>2, <1>3, Zenon DEF SystemFacts
<1>5. PICK r : r = y.mm
  OBVIOUS
<1>6. PICK N : N = y.unclean
  OBVIOUS
<1>7. Undo(m, r, N, O, S, R, L)
  <2>1. Undo(m, y.mm, y.unclean, O, S, R, L)
    BY <1>4, MemMakeSlab
  <2>2. QED
    BY <1>5, <1>6, <2>1, Zenon
<1>8. Mem(r, O, S, R, (L \cup N) \ SlabPages(r)) /\ Reserve(m, r)
  BY <1>7 DEF Undo
<1>9. PICK W : W = U \cup N
  OBVIOUS
<1>10. L \cup N = CachePages(k) \cup W
  BY <1>2, <1>9
<1>11. Objects(k) \subseteq O /\ Mem(r, O, {}, R, (CachePages(k) \cup W) \ SlabPages(r))
  BY <1>3, <1>4, <1>8, <1>10, Zenon
<1>12. Settled(r, k, V, O, R, W)
  BY <1>4, <1>11, Zenon DEF Settled
<1>13. QED
  BY <1>5, <1>6, <1>8, <1>9, <1>12, Zenon DEF Advanced

LEMMA DoMalloc ==
  ASSUME NEW m, NEW k, NEW V, NEW O, NEW R, NEW U, System(m, k, V, O, R, U), k # NoCache,
         NEW s, s = Least({t \in DOMAIN k.pool : k.pool[t].free_count # 0}),
         {t \in DOMAIN k.pool : k.pool[t].free_count # 0} # {},
         NEW i, i = Least((0..(Count - 1)) \ k.pool[s].used),
         NEW h, h = Gave(k, s, i)
  PROVE  /\ Advanced(m, m, h, V \cup {<<k.pool[s].page, i>>}, Swap(O, Objects(k), Objects(h)),
                     Swap(R, PageRuns(k), PageRuns(h)), U)
         /\ h # NoCache
<1>1. GoodCache(k) /\ Exact(k, V) /\ k \in CacheShapes
  BY DEF System, GoodCache
<1>2. PICK A : A = {t \in DOMAIN k.pool : k.pool[t].free_count # 0}
  OBVIOUS
<1>3. DOMAIN k.pool = 1..Len(k.pool)
  BY <1>1, CacheFields
<1>4. A \subseteq Nat /\ A # {}
  <2>1. A # {}
    BY <1>2, Zenon
  <2>2. A \subseteq 1..Len(k.pool)
    BY <1>2, <1>3, Zenon
  <2>3. QED
    BY <2>1, <2>2
<1>5. s \in A
  BY <1>2, <1>4, LeastIs, Zenon
<1>6. s \in 1..Len(k.pool) /\ k.pool[s].free_count # 0
  BY <1>2, <1>3, <1>5
<1>7. PICK W : W = V \cup {<<k.pool[s].page, i>>}
  OBVIOUS
<1>8. CacheGave(k, h, V, W)
  BY <1>1, <1>6, <1>7, CacheGive
<1>9. Advanced(m, m, h, W, Swap(O, Objects(k), Objects(h)), Swap(R, PageRuns(k), PageRuns(h)), U)
  BY <1>8, SettleSame
<1>10. QED
  BY <1>7, <1>8, <1>9, Zenon DEF CacheGave

LEMMA DoFree ==
  ASSUME NEW m, NEW k, NEW V, NEW O, NEW R, NEW U, System(m, k, V, O, R, U), NEW o \in V,
         NEW s, s = CHOOSE t \in DOMAIN k.pool : k.pool[t].page = o[1], NEW i, i = o[2], NEW h, h = Took(k, s, i)
  PROVE  /\ Advanced(m, m, h, V \ {o}, Swap(O, Objects(k), Objects(h)), Swap(R, PageRuns(k), PageRuns(h)), U)
         /\ h.pool[s].using_count # 0
<1>1. GoodCache(k) /\ Exact(k, V)
  BY DEF System
<1>2. s \in 1..Len(k.pool) /\ k.pool[s].page = o[1] /\ k # NoCache
  BY <1>1, CacheHolds
<1>3. CacheTook(k, h, V, o, s, i)
  <2>1. PICK x : x = s
    OBVIOUS
  <2>2. x \in 1..Len(k.pool) /\ k.pool[x].page = o[1] /\ h = Took(k, x, i)
    BY <1>2, <2>1, Zenon
  <2>3. CacheTook(k, h, V, o, x, i)
    BY <1>1, <1>2, <2>2, CacheTake
  <2>4. QED
    BY <2>1, <2>3, Zenon
<1>4. CacheGave(k, h, V, V \ {o}) /\ h.pool[s].using_count # 0
  BY <1>3 DEF CacheTook
<1>5. PICK W : W = V \ {o}
  OBVIOUS
<1>6. CacheGave(k, h, V, W)
  BY <1>4, <1>5, Zenon
<1>7. Advanced(m, m, h, W, Swap(O, Objects(k), Objects(h)), Swap(R, PageRuns(k), PageRuns(h)), U)
  BY <1>6, SettleSame
<1>8. QED
  BY <1>4, <1>5, <1>7, Zenon

(* slab_destroy, slab by slab.                                             *)
Chain(m, q, g, n) ==
  /\ DOMAIN g = 0..n /\ g = [i \in 0..n |-> g[i]]
  /\ g[0] = m
  /\ \A i \in 1..n : g[i] = GiveBack(g[i - 1], q[i])

LEMMA ChainExists ==
  ASSUME NEW m, NEW q, Len(q) \in Nat
  PROVE  \A n \in 0..Len(q) : \E g : Chain(m, q, g, n)
<1>1. PICK bad : bad = {n \in 0..Len(q) : ~ \E g : Chain(m, q, g, n)}
  OBVIOUS
<1>2. SUFFICES ASSUME bad # {}
               PROVE  FALSE
  BY <1>1
<1>3. bad \subseteq Nat
  BY <1>1
<1>4. PICK z \in bad : \A k \in bad : z <= k
  BY <1>2, <1>3, LeastExists
<1>5. z \in 0..Len(q) /\ z \in Nat /\ ~ \E g : Chain(m, q, g, z)
  BY <1>1, <1>4
<1>6. CASE z = 0
  <2>1. Chain(m, q, [i \in 0..0 |-> m], 0)
    BY DEF Chain
  <2>2. QED
    BY <1>5, <1>6, <2>1
<1>7. CASE z # 0
  <2>1. z - 1 \in 0..Len(q) /\ ~ (z <= z - 1)
    BY <1>5, <1>7
  <2>2. PICK g : Chain(m, q, g, z - 1)
    BY <1>1, <1>4, <2>1
  <2>3. PICK x : x = GiveBack(g[z - 1], q[z])
    OBVIOUS
  <2>4. PICK h : h = [i \in 0..z |-> IF i = z THEN x ELSE g[i]]
    OBVIOUS
  <2>5. DOMAIN h = 0..z /\ h[z] = x /\ \A i \in 0..(z - 1) : h[i] = g[i]
    <3>1. \A i \in 0..(z - 1) : i \in 0..z /\ i # z
      BY <1>5
    <3>2. z \in 0..z
      BY <1>5
    <3>3. QED
      BY <2>4, <3>1, <3>2
  <2>6. h = [i \in 0..z |-> h[i]]
    BY <2>4
  <2>7. h[0] = m
    BY <1>5, <1>7, <2>2, <2>5 DEF Chain
  <2>8. ASSUME NEW i \in 1..z
        PROVE  h[i] = GiveBack(h[i - 1], q[i])
    <3>1. CASE i = z
      <4>1. h[i - 1] = g[i - 1]
        BY <1>5, <1>7, <2>5, <3>1
      <4>2. QED
        BY <2>3, <2>5, <3>1, <4>1, Zenon
    <3>2. CASE i # z
      <4>1. i \in 1..(z - 1) /\ i \in 0..(z - 1) /\ i - 1 \in 0..(z - 1)
        BY <1>5, <3>2
      <4>2. g[i] = GiveBack(g[i - 1], q[i])
        BY <2>2, <4>1, Zenon DEF Chain
      <4>3. h[i] = g[i] /\ h[i - 1] = g[i - 1]
        BY <2>5, <4>1
      <4>4. QED
        BY <4>2, <4>3, Zenon
    <3>3. QED
      BY <3>1, <3>2
  <2>9. Chain(m, q, h, z)
    BY <2>5, <2>6, <2>7, <2>8, Zenon DEF Chain
  <2>10. QED
    BY <1>5, <2>9
<1>8. QED
  BY <1>6, <1>7

Gives(m, q, g) == g = [i \in 0..Len(q) |-> IF i = 0 THEN m ELSE GiveBack(g[i - 1], q[i])]

LEMMA ChainOf ==
  ASSUME NEW m, NEW q, Len(q) \in Nat
  PROVE  \E g : Chain(m, q, g, Len(q)) /\ GiveBackAll(m, q) = g[Len(q)]
<1>1. Len(q) \in 0..Len(q)
  OBVIOUS
<1>2. PICK f : Chain(m, q, f, Len(q))
  BY <1>1, ChainExists
<1>3. Gives(m, q, f)
  <2>1. f = [i \in 0..Len(q) |-> f[i]]
    BY <1>2 DEF Chain
  <2>2. ASSUME NEW i \in 0..Len(q)
        PROVE  f[i] = IF i = 0 THEN m ELSE GiveBack(f[i - 1], q[i])
    <3>1. CASE i = 0
      BY <1>2, <3>1 DEF Chain
    <3>2. CASE i # 0
      <4>1. i \in 1..Len(q)
        BY <3>2
      <4>2. f[i] = GiveBack(f[i - 1], q[i])
        BY <1>2, <4>1, Zenon DEF Chain
      <4>3. QED
        BY <3>2, <4>2, Zenon
    <3>3. QED
      BY <3>1, <3>2
  <2>3. [i \in 0..Len(q) |-> f[i]] = [i \in 0..Len(q) |-> IF i = 0 THEN m ELSE GiveBack(f[i - 1], q[i])]
    BY <2>2, Zenon
  <2>4. QED
    BY <2>1, <2>3, Zenon DEF Gives
<1>4. PICK g : g = CHOOSE x : Gives(m, q, x)
  OBVIOUS
<1>5. Gives(m, q, g)
  BY <1>3, <1>4, Zenon
<1>6. GiveBackAll(m, q) = g[Len(q)]
  BY <1>4, Zenon DEF GiveBackAll, Gives
<1>7. \A i \in 0..Len(q) : g[i] = IF i = 0 THEN m ELSE GiveBack(g[i - 1], q[i])
  BY <1>5, Zenon DEF Gives
<1>8. DOMAIN g = 0..Len(q) /\ g = [i \in 0..Len(q) |-> g[i]]
  <2>1. \A f1, n : f1 = [i \in 0..n |-> f1[i]] => DOMAIN f1 = 0..n
    BY Zenon
  <2>2. PICK e : e = [i \in 0..Len(q) |-> IF i = 0 THEN m ELSE GiveBack(g[i - 1], q[i])]
    OBVIOUS
  <2>3. g = e
    BY <1>5, <2>2, Zenon DEF Gives
  <2>4. DOMAIN e = 0..Len(q) /\ e = [i \in 0..Len(q) |-> e[i]]
    BY <2>2
  <2>5. QED
    BY <2>3, <2>4
<1>9. g[0] = m /\ \A i \in 1..Len(q) : g[i] = GiveBack(g[i - 1], q[i])
  <2>1. 0 \in 0..Len(q)
    OBVIOUS
  <2>2. \A i \in 1..Len(q) : i \in 0..Len(q) /\ i # 0
    OBVIOUS
  <2>3. QED
    BY <1>7, <2>1, <2>2, Zenon
<1>10. Chain(m, q, g, Len(q))
  BY <1>8, <1>9, Zenon DEF Chain
<1>11. QED
  BY <1>6, <1>10, Zenon

GoneParts(k, i) == {o \in ObjectNames : \E j \in 1..i : o = k.pool[j].own[1] \/ o = k.pool[j].own[2]}
GonePages(k, i) == {p \in Pages : \E j \in 1..i : p = k.pool[j].page}
GoneRuns(k, i) == {<<p, 1>> : p \in GonePages(k, i)}

Unmade(m, r, k, O, R, L, i) ==
  /\ Mem(r, O \ GoneParts(k, i), {}, R \ GoneRuns(k, i), L \ GonePages(k, i))
  /\ Kept(m, r)

GoneOne(k, i, j, a, b, p) ==
  /\ GoneParts(k, j) = GoneParts(k, i) \cup {a, b} /\ GonePages(k, j) = GonePages(k, i) \cup {p}
  /\ GoneRuns(k, j) = GoneRuns(k, i) \cup {<<p, 1>>}
  /\ a \in Objects(k) \ GoneParts(k, i) /\ b \in Objects(k) \ GoneParts(k, i) /\ a # b
  /\ p \in CachePages(k) \ GonePages(k, i) /\ <<p, 1>> \in PageRuns(k) \ GoneRuns(k, i)

LEMMA GoneMore ==
  ASSUME NEW k, GoodCache(k), k # NoCache, NEW j \in 1..Len(k.pool), NEW i \in Nat, j = i + 1,
         NEW a, a = k.pool[j].own[1], NEW b, b = k.pool[j].own[2], NEW p, p = k.pool[j].page
  PROVE  GoneOne(k, i, j, a, b, p)
<1>1. k \in CacheShapes /\ PartsApart(k)
  BY DEF GoodCache
<1>2. PICK q : q = k.pool
  OBVIOUS
<1>3. CacheView(k)
  BY CacheHas
<1>4. \A o : o \in Objects(k) <=> o = k.own[1] \/ \E s \in 1..Len(q) : o = q[s].own[1] \/ o = q[s].own[2]
  BY <1>2, <1>3 DEF CacheView
<1>5. Len(q) \in Nat /\ p \in Pages /\ \A s \in 1..Len(q) : q[s].page \in Pages
  BY <1>1, <1>2, CacheFields
<1>6. j \in 1..Len(q) /\ a = q[j].own[1] /\ b = q[j].own[2] /\ p = q[j].page
  BY <1>2, Zenon
<1>7. a \in ObjectNames /\ b \in ObjectNames
  BY <1>1, <1>2, <1>6 DEF PartsApart
<1>8. \A s, t \in 1..Len(q) : \A u, v \in {1, 2} : q[s].own[u] = q[t].own[v] => s = t /\ u = v
  BY <1>1, <1>2 DEF PartsApart
<1>9. \A s, t \in 1..Len(q) : q[s].page = q[t].page => s = t
  BY <1>1, <1>2 DEF PartsApart
<1>10. \A s : s \in 1..j <=> s \in 1..i \/ s = j
  OBVIOUS
<1>11. \A s \in 1..i : s \in 1..Len(q) /\ s # j
  BY <1>5, <1>6
<1>12. GoneParts(k, j) = GoneParts(k, i) \cup {a, b}
  <2>1. ASSUME NEW o \in ObjectNames
        PROVE  (\E s \in 1..j : o = q[s].own[1] \/ o = q[s].own[2])
                 <=> (\E s \in 1..i : o = q[s].own[1] \/ o = q[s].own[2]) \/ o = a \/ o = b
    <3>1. ASSUME NEW s \in 1..j, o = q[s].own[1] \/ o = q[s].own[2]
          PROVE  (\E t \in 1..i : o = q[t].own[1] \/ o = q[t].own[2]) \/ o = a \/ o = b
      BY <1>6, <1>10, <3>1
    <3>2. ASSUME NEW s \in 1..i, o = q[s].own[1] \/ o = q[s].own[2]
          PROVE  \E t \in 1..j : o = q[t].own[1] \/ o = q[t].own[2]
      BY <1>10, <3>2
    <3>3. ASSUME o = a \/ o = b
          PROVE  \E t \in 1..j : o = q[t].own[1] \/ o = q[t].own[2]
      BY <1>6, <1>10, <3>3
    <3>4. QED
      BY <3>1, <3>2, <3>3, Zenon
  <2>2. ASSUME NEW o \in ObjectNames
        PROVE  o \in GoneParts(k, j) <=> o \in GoneParts(k, i) \/ o = a \/ o = b
    <3>1. o \in GoneParts(k, j) <=> \E s \in 1..j : o = q[s].own[1] \/ o = q[s].own[2]
      BY <1>2 DEF GoneParts
    <3>2. o \in GoneParts(k, i) <=> \E s \in 1..i : o = q[s].own[1] \/ o = q[s].own[2]
      BY <1>2 DEF GoneParts
    <3>3. QED
      BY <2>1, <3>1, <3>2, Zenon
  <2>3. GoneParts(k, j) \subseteq ObjectNames /\ GoneParts(k, i) \subseteq ObjectNames
    BY DEF GoneParts
  <2>4. QED
    BY <1>7, <2>2, <2>3
<1>13. GonePages(k, j) = GonePages(k, i) \cup {p}
  <2>1. ASSUME NEW x \in Pages
        PROVE  x \in GonePages(k, j) <=> x \in GonePages(k, i) \/ x = p
    <3>1. x \in GonePages(k, j) <=> \E s \in 1..j : x = q[s].page
      BY <1>2 DEF GonePages
    <3>2. x \in GonePages(k, i) <=> \E s \in 1..i : x = q[s].page
      BY <1>2 DEF GonePages
    <3>3. QED
      BY <1>6, <1>10, <3>1, <3>2
  <2>2. GonePages(k, j) \subseteq Pages /\ GonePages(k, i) \subseteq Pages
    BY DEF GonePages
  <2>3. QED
    BY <1>5, <2>1, <2>2
<1>14. GoneRuns(k, j) = GoneRuns(k, i) \cup {<<p, 1>>}
  BY <1>13 DEF GoneRuns
<1>15. a \in Objects(k) /\ b \in Objects(k)
  BY <1>4, <1>6
<1>16. a # b
  <2>1. q[j].own[1] = q[j].own[2] => 1 = 2
    BY <1>6, <1>8
  <2>2. QED
    BY <1>6, <2>1
<1>17. a \notin GoneParts(k, i) /\ b \notin GoneParts(k, i)
  <2>1. ASSUME NEW s \in 1..i
        PROVE  a # q[s].own[1] /\ a # q[s].own[2] /\ b # q[s].own[1] /\ b # q[s].own[2]
    <3>1. s \in 1..Len(q) /\ s # j
      BY <1>11
    <3>2. \A u, v \in {1, 2} : q[j].own[u] # q[s].own[v]
      BY <1>6, <1>8, <3>1
    <3>3. QED
      BY <1>6, <3>2
  <2>2. QED
    BY <1>2, <2>1 DEF GoneParts
<1>18. p \in CachePages(k)
  BY <1>2, <1>5, <1>6 DEF CachePages
<1>19. p \notin GonePages(k, i)
  <2>1. \A s \in 1..i : p # q[s].page
    BY <1>6, <1>9, <1>11
  <2>2. QED
    BY <1>2, <2>1 DEF GonePages
<1>20. <<p, 1>> \in PageRuns(k)
  BY <1>3, <1>18 DEF CacheView
<1>21. <<p, 1>> \notin GoneRuns(k, i)
  BY <1>19 DEF GoneRuns
<1>22. QED
  BY <1>12, <1>13, <1>14, <1>15, <1>16, <1>17, <1>18, <1>19, <1>20, <1>21 DEF GoneOne

LEMMA UnmadeNext ==
  ASSUME NEW m, NEW n, NEW k, NEW O, NEW R, NEW L, GoodCache(k), k # NoCache, PageRuns(k) \subseteq R, Objects(k) \subseteq O,
         CachePages(k) \subseteq L, Rings(m), NEW j \in 1..Len(k.pool), NEW i \in Nat, j = i + 1,
         Unmade(m, n, k, O, R, L, i), NEW r, r = GiveBack(n, k.pool[j])
  PROVE  Unmade(m, r, k, O, R, L, j)
<1>1. PICK s : s = k.pool[j]
  OBVIOUS
<1>2. PICK a : a = s.own[1]
  OBVIOUS
<1>3. PICK b : b = s.own[2]
  OBVIOUS
<1>4. PICK p : p = s.page
  OBVIOUS
<1>5. GoneOne(k, i, j, a, b, p)
  BY <1>1, <1>2, <1>3, <1>4, GoneMore
<1>6. /\ GoneParts(k, j) = GoneParts(k, i) \cup {a, b} /\ GonePages(k, j) = GonePages(k, i) \cup {p}
      /\ GoneRuns(k, j) = GoneRuns(k, i) \cup {<<p, 1>>}
      /\ a \in Objects(k) \ GoneParts(k, i) /\ b \in Objects(k) \ GoneParts(k, i) /\ a # b
      /\ p \in CachePages(k) \ GonePages(k, i) /\ <<p, 1>> \in PageRuns(k) \ GoneRuns(k, i)
  BY <1>5 DEF GoneOne
<1>7. PICK O1 : O1 = O \ GoneParts(k, i)
  OBVIOUS
<1>8. PICK S1 : S1 = {}
  OBVIOUS
<1>9. PICK R1 : R1 = R \ GoneRuns(k, i)
  OBVIOUS
<1>10. PICK L1 : L1 = L \ GonePages(k, i)
  OBVIOUS
<1>11. Mem(n, O1, S1, R1, L1) /\ Kept(m, n)
  BY <1>7, <1>8, <1>9, <1>10, Zenon DEF Unmade
<1>12. a \in O1 /\ b \in O1 /\ p \in L1 /\ <<p, 1>> \in R1
  BY <1>6, <1>7, <1>9, <1>10
<1>13. r = GiveBack(n, s)
  BY <1>1, Zenon
<1>14. Returned(n, r, O1, S1, R1, L1, a, b, p)
  BY <1>2, <1>3, <1>4, <1>6, <1>11, <1>12, <1>13, MemGiveBack
<1>15. Mem(r, O1 \ {a, b}, S1 \ {a, b}, R1 \ {<<p, 1>>}, L1 \ {p}) /\ Kept(n, r)
  BY <1>14 DEF Returned
<1>16. /\ O1 \ {a, b} = O \ GoneParts(k, j) /\ S1 \ {a, b} = {}
       /\ R1 \ {<<p, 1>>} = R \ GoneRuns(k, j) /\ L1 \ {p} = L \ GonePages(k, j)
  BY <1>6, <1>7, <1>8, <1>9, <1>10
<1>17. Rings(n) /\ Rings(r)
  BY <1>11, <1>15, MemRings
<1>18. Kept(m, r)
  BY <1>11, <1>15, <1>17, KeptMore DEF Rings
<1>19. QED
  BY <1>15, <1>16, <1>18, Zenon DEF Unmade

LEMMA DoDestroy ==
  ASSUME NEW m, NEW k, NEW V, NEW O, NEW R, NEW U, System(m, k, V, O, R, U), k # NoCache, k.total_using = 0,
         NEW r, r = Free(GiveBackAll(m, k.pool), k.own[1])
  PROVE  Advanced(m, r, NoCache, V, Swap(O, Objects(k), Objects(NoCache)),
             Swap(R, PageRuns(k), PageRuns(NoCache)), U)
<1>1. SystemFacts(m, k, V, O, R, U)
  BY SystemHas
<1>2. PICK L : L = CachePages(k) \cup U
  OBVIOUS
<1>3. PICK S : S = Objects(k)
  OBVIOUS
<1>4. /\ Mem(m, O, {}, R, L) /\ PageRuns(k) \subseteq R /\ GoodCache(k) /\ Exact(k, V) /\ Rings(m)
      /\ S \subseteq O /\ U \cap CachePages(k) = {}
  BY <1>1, <1>2, <1>3, Zenon DEF SystemFacts
<1>5. V = {}
  BY <1>4, FS_EmptySet DEF Exact
<1>6. CachePages(k) \subseteq L
  BY <1>2
<1>7. k \in CacheShapes /\ Len(k.pool) \in Nat
  BY <1>4, CacheFields DEF GoodCache
<1>8. PICK q : q = k.pool
  OBVIOUS
<1>9. Len(q) \in Nat
  BY <1>7, <1>8
<1>10. PICK g : Chain(m, q, g, Len(q)) /\ GiveBackAll(m, q) = g[Len(q)]
  BY <1>9, ChainOf, Zenon
<1>11. Unmade(m, m, k, O, R, L, 0)
  <2>1. 1..0 = {}
    OBVIOUS
  <2>2. GoneParts(k, 0) = {} /\ GonePages(k, 0) = {} /\ GoneRuns(k, 0) = {}
    BY <2>1 DEF GoneParts, GonePages, GoneRuns
  <2>3. /\ O \ GoneParts(k, 0) = O /\ R \ GoneRuns(k, 0) = R
        /\ L \ GonePages(k, 0) = L
    BY <1>3, <2>2
  <2>4. Kept(m, m)
    BY <1>4 DEF Kept, Rings
  <2>5. QED
    BY <1>4, <2>3, <2>4, Zenon DEF Unmade
<1>12. \A i \in 0..Len(q) : Unmade(m, g[i], k, O, R, L, i)
  <2>1. PICK bad : bad = {i \in 0..Len(q) : ~ Unmade(m, g[i], k, O, R, L, i)}
    OBVIOUS
  <2>2. SUFFICES ASSUME bad # {}
                 PROVE  FALSE
    BY <2>1
  <2>3. bad \subseteq Nat
    BY <2>1
  <2>4. PICK z \in bad : \A x \in bad : z <= x
    BY <2>2, <2>3, LeastExists
  <2>5. z \in 0..Len(q) /\ z \in Nat /\ ~ Unmade(m, g[z], k, O, R, L, z)
    BY <2>1, <2>4
  <2>6. g[0] = m
    BY <1>10 DEF Chain
  <2>7. z # 0
    BY <1>11, <2>5, <2>6, Zenon
  <2>8. PICK i \in Nat : z = i + 1
    <3>1. z - 1 \in Nat /\ z = (z - 1) + 1
      BY <2>5, <2>7
    <3>2. QED
      BY <3>1, Zenon
  <2>9. i \in 0..Len(q) /\ ~ (z <= i) /\ z \in 1..Len(q) /\ z - 1 = i
    BY <1>9, <2>5, <2>7, <2>8
  <2>10. Unmade(m, g[i], k, O, R, L, i)
    BY <2>1, <2>4, <2>9
  <2>11. g[z] = GiveBack(g[i], q[z])
    BY <1>10, <2>9 DEF Chain
  <2>12. z \in 1..Len(k.pool) /\ g[z] = GiveBack(g[i], k.pool[z])
    BY <1>8, <2>9, <2>11, Zenon
  <2>13. Unmade(m, g[z], k, O, R, L, z)
    BY <1>3, <1>4, <1>6, <2>8, <2>10, <2>12, UnmadeNext
  <2>14. QED
    BY <2>5, <2>13
<1>13. PICK n : n = GiveBackAll(m, q)
  OBVIOUS
<1>14. Unmade(m, n, k, O, R, L, Len(q))
  <2>1. Len(q) \in 0..Len(q)
    BY <1>9
  <2>2. QED
    BY <1>10, <1>12, <1>13, <2>1, Zenon
<1>15. PICK o : o = k.own[1]
  OBVIOUS
<1>16. CacheView(k) /\ PartsApart(k) /\ o \in ObjectNames
  BY <1>4, <1>15, CacheHas DEF GoodCache
<1>17. /\ \A w : w \in PageRuns(k) <=> \E s \in 1..Len(q) : w = <<q[s].page, 1>>
       /\ \A x : x \in S <=> x = o \/ \E s \in 1..Len(q) : x = q[s].own[1] \/ x = q[s].own[2]
  BY <1>3, <1>8, <1>15, <1>16 DEF CacheView
<1>18. \A s \in 1..Len(q) : /\ q[s].own[1] \in ObjectNames /\ q[s].own[2] \in ObjectNames
                            /\ q[s].own[1] # o /\ q[s].own[2] # o
  BY <1>8, <1>15, <1>16 DEF PartsApart
<1>19. S \ GoneParts(k, Len(q)) = {o}
  <2>1. \A x \in ObjectNames : x \in GoneParts(k, Len(q)) <=> \E s \in 1..Len(q) : x = q[s].own[1] \/ x = q[s].own[2]
    BY <1>8 DEF GoneParts
  <2>2. o \in S /\ o \notin GoneParts(k, Len(q))
    BY <1>16, <1>17, <1>18, <2>1
  <2>3. \A x \in S : x \notin GoneParts(k, Len(q)) => x = o
    BY <1>17, <1>18, <2>1
  <2>4. QED
    BY <2>2, <2>3
<1>20. GoneParts(k, Len(q)) \subseteq S
  BY <1>8, <1>17 DEF GoneParts
<1>21. GonePages(k, Len(q)) = CachePages(k)
  BY <1>8 DEF GonePages, CachePages
<1>22. GoneRuns(k, Len(q)) = PageRuns(k)
  <2>1. \A w : w \in GoneRuns(k, Len(q)) <=> \E p \in GonePages(k, Len(q)) : w = <<p, 1>>
    BY Zenon DEF GoneRuns
  <2>2. \A p : p \in GonePages(k, Len(q)) <=> p \in Pages /\ \E s \in 1..Len(q) : p = q[s].page
    BY <1>8 DEF GonePages
  <2>3. \A s \in 1..Len(q) : q[s].page \in Pages
    BY <1>7, <1>8, CacheFields
  <2>4. ASSUME NEW w
        PROVE  w \in GoneRuns(k, Len(q)) <=> w \in PageRuns(k)
    <3>1. ASSUME w \in GoneRuns(k, Len(q))
          PROVE  w \in PageRuns(k)
      BY <1>17, <2>1, <2>2, <3>1
    <3>2. ASSUME w \in PageRuns(k)
          PROVE  w \in GoneRuns(k, Len(q))
      BY <1>17, <2>1, <2>2, <2>3, <3>2
    <3>3. QED
      BY <3>1, <3>2
  <2>5. QED
    BY <2>4
<1>23. PICK O1 : O1 = O \ GoneParts(k, Len(q))
  OBVIOUS
<1>24. PICK S1 : S1 = {}
  OBVIOUS
<1>25. PICK R1 : R1 = R \ PageRuns(k)
  OBVIOUS
<1>26. L \ GonePages(k, Len(q)) = U
  BY <1>2, <1>4, <1>21
<1>27. Mem(n, O1, S1, R1, U) /\ Kept(m, n)
  <2>1. /\ Mem(n, O \ GoneParts(k, Len(q)), {}, R \ GoneRuns(k, Len(q)), L \ GonePages(k, Len(q)))
        /\ Kept(m, n)
    BY <1>14, Zenon DEF Unmade
  <2>2. QED
    BY <1>22, <1>23, <1>24, <1>25, <1>26, <2>1, Zenon
<1>28. o \in O1
  BY <1>4, <1>19, <1>23
<1>29. r = Free(n, o)
  BY <1>8, <1>13, <1>15, Zenon
<1>30. Freed(n, r, O1, S1, R1, U, o)
  BY <1>27, <1>28, <1>29, MemKfree
<1>31. Mem(r, O1 \ {o}, S1 \ {o}, R1, U) /\ Kept(n, r)
  BY <1>30, Zenon DEF Freed
<1>32. Objects(NoCache) = {} /\ PageRuns(NoCache) = {} /\ CachePages(NoCache) = {} /\ GoodCache(NoCache) /\ Exact(NoCache, {})
  BY CacheNone
<1>33. O1 \ {o} = Swap(O, Objects(k), Objects(NoCache))
  BY <1>3, <1>19, <1>20, <1>23, <1>32 DEF Swap
<1>34. S1 \ {o} = {}
  BY <1>24
<1>35. R1 = Swap(R, PageRuns(k), PageRuns(NoCache))
  BY <1>25, <1>32 DEF Swap
<1>36. U = (CachePages(NoCache) \cup U) \ SlabPages(r)
  <2>1. U \cap SlabPages(r) = {}
    BY <1>31, Zenon DEF Mem
  <2>2. QED
    BY <1>32, <2>1
<1>37. PICK O2 : O2 = Swap(O, Objects(k), Objects(NoCache))
  OBVIOUS
<1>38. PICK R2 : R2 = Swap(R, PageRuns(k), PageRuns(NoCache))
  OBVIOUS
<1>39. Objects(NoCache) \subseteq O2 /\ Mem(r, O2, {}, R2, U)
  <2>1. Objects(NoCache) \subseteq O2
    BY <1>32
  <2>2. QED
    BY <1>31, <1>33, <1>34, <1>35, <1>37, <1>38, <2>1, Zenon
<1>390. Objects(NoCache) \subseteq O2 /\ Mem(r, O2, {}, R2, (CachePages(NoCache) \cup U) \ SlabPages(r))
  BY <1>36, <1>39, Zenon
<1>40. PageRuns(NoCache) \subseteq R2
  BY <1>32
<1>41. Settled(r, NoCache, V, O2, R2, U)
  BY <1>5, <1>32, <1>390, <1>40, Zenon DEF Settled
<1>42. Rings(n) /\ Rings(r)
  BY <1>27, <1>31, MemRings
<1>43. Kept(m, r)
  BY <1>4, <1>27, <1>31, <1>42, KeptMore DEF Rings
<1>44. Advanced(m, r, NoCache, V, O2, R2, U)
  BY <1>41, <1>43, KeptReserve DEF Advanced
<1>45. QED
  BY <1>37, <1>38, <1>44, Zenon
-----------------------------------------------------------------------------
(* The invariant of the memory with its caches.                            *)
Few(m) == m.free[1] < (IF Classes[MapClass].small THEN 3 ELSE 5)

SysInv ==
  /\ wild \in BOOLEAN /\ (wild => Few(mm))
  /\ System(mm, cache, live, held, runs, unclean)

Arrived(pages) == Advanced(mm, mm', cache', live', held', runs', unclean \cup pages) /\ Leave(pages)

LEMMA Arrive ==
  ASSUME NEW pages, Arrived(pages)
  PROVE  System(mm', cache', live', held', runs', unclean') /\ Reserve(mm, mm')
<1>1. Settled(mm', cache', live', held', runs', unclean \cup pages) /\ Reserve(mm, mm') /\ Leave(pages)
  BY DEF Arrived, Advanced
<1>2. GoodCache(cache') /\ mm' \in Mems
  BY <1>1 DEF Settled, Mem
<1>3. PICK A : A = UNION {Range(mm'.cache[c].pool) : c \in DOMAIN Classes}
  OBVIOUS
<1>4. SlabPages(mm') = {s.page : s \in A}
  BY <1>2, <1>3, SlabPagesSet
<1>5. CachePages(cache') = {s.page : s \in Range(cache'.pool)}
  BY <1>2, CacheHas DEF CacheView
<1>6. unclean' = (unclean \cup pages) \ {s.page : s \in Range(cache'.pool) \cup A}
  BY <1>1, <1>3, Zenon DEF Leave
<1>7. {s.page : s \in Range(cache'.pool) \cup A} = CachePages(cache') \cup SlabPages(mm')
  BY <1>4, <1>5
<1>8. PICK W : W = unclean \cup pages
  OBVIOUS
<1>9. PICK U : U = unclean'
  OBVIOUS
<1>10. U = W \ (CachePages(cache') \cup SlabPages(mm'))
  BY <1>6, <1>7, <1>8, <1>9, Zenon
<1>11. Settled(mm', cache', live', held', runs', W)
  BY <1>1, <1>8, Zenon
<1>12. System(mm', cache', live', held', runs', U)
  BY <1>10, <1>11, Settle
<1>13. QED
  BY <1>1, <1>9, <1>12, Zenon

LEMMA StepCreate ==
  ASSUME System(mm, cache, live, held, runs, unclean), SlabCreate
  PROVE  Arrived({})
<1>1. PICK x : x = AllocSmall(mm, CacheClass)
  OBVIOUS
<1>2. PICK y : y = MakeSlab(x.mm)
  OBVIOUS
<1>3. /\ cache = NoCache /\ ~Refused(mm, CacheClass) /\ ~SlabBreaks(x.mm) /\ y.slabs # <<>> /\ mm' = y.mm /\ live' = live
      /\ cache' = [own |-> <<x.object>>, pool |-> y.slabs, total_using |-> 0, total_free |-> Count]
      /\ held' = Swap(held, Objects(cache), Objects([own |-> <<x.object>>, pool |-> y.slabs,
             total_using |-> 0, total_free |-> Count]))
      /\ runs' = Swap(runs, PageRuns(cache), PageRuns([own |-> <<x.object>>, pool |-> y.slabs,
             total_using |-> 0, total_free |-> Count]))
      /\ Leave({})
  BY <1>1, <1>2, Zenon DEF SlabCreate, Become, Swap
<1>4. PICK h : h = cache'
  OBVIOUS
<1>5. h = [own |-> <<x.object>>, pool |-> y.slabs, total_using |-> 0, total_free |-> Count]
  BY <1>3, <1>4, Zenon
<1>6. held' = Swap(held, Objects(NoCache), Objects(h)) /\ runs' = Swap(runs, PageRuns(NoCache), PageRuns(h))
  BY <1>3, <1>5, Zenon
<1>7. System(mm, NoCache, live, held, runs, unclean)
  BY <1>3, Zenon
<1>8. Advanced(mm, y.mm, h, live, Swap(held, Objects(NoCache), Objects(h)),
          Swap(runs, PageRuns(NoCache), PageRuns(h)), unclean)
  BY <1>1, <1>2, <1>3, <1>5, <1>7, DoCreate
<1>9. unclean \cup {} = unclean
  OBVIOUS
<1>10. QED
  BY <1>3, <1>4, <1>6, <1>8, <1>9, Zenon DEF Arrived

LEMMA StepCreateFails ==
  ASSUME System(mm, cache, live, held, runs, unclean), SlabCreateFails
  PROVE  \E pages : Arrived(pages)
<1>1. PICK x : x = AllocSmall(mm, CacheClass)
  OBVIOUS
<1>2. PICK y : y = MakeSlab(x.mm)
  OBVIOUS
<1>3. /\ cache = NoCache /\ ~Refused(mm, CacheClass) /\ ~SlabBreaks(x.mm) /\ y.slabs = <<>> /\ mm' = FreeSmall(y.mm, x.object)
      /\ held' = held /\ runs' = runs /\ cache' = cache /\ live' = live /\ Leave(y.unclean)
  BY <1>1, <1>2, Zenon DEF SlabCreateFails
<1>4. System(mm, NoCache, live, held, runs, unclean)
  BY <1>3, Zenon
<1>5. PICK r : r = FreeSmall(y.mm, x.object)
  OBVIOUS
<1>6. Advanced(mm, r, NoCache, live, held, runs, unclean \cup y.unclean)
  BY <1>1, <1>2, <1>3, <1>4, <1>5, DoCreateFails
<1>7. Arrived(y.unclean)
  BY <1>3, <1>5, <1>6, Zenon DEF Arrived
<1>8. QED
  BY <1>7, Zenon

LEMMA StepMalloc ==
  ASSUME System(mm, cache, live, held, runs, unclean), SlabMalloc
  PROVE  Arrived({})
<1>1. PICK A : A = {t \in DOMAIN cache.pool : cache.pool[t].free_count # 0}
  OBVIOUS
<1>2. PICK s : s = Least(A)
  OBVIOUS
<1>3. PICK i : i = Least((0..(Count - 1)) \ cache.pool[s].used)
  OBVIOUS
<1>4. PICK h : h = Gave(cache, s, i)
  OBVIOUS
<1>5. Roomy = A
  BY <1>1, Zenon DEF Roomy
<1>6. cache # NoCache /\ A # {} /\ mm' = mm /\ Leave({}) /\ GiveObject(cache, s)
  BY <1>2, <1>5, Zenon DEF SlabMalloc
<1>7. /\ cache' = h /\ live' = live \cup {<<cache.pool[s].page, i>>}
      /\ held' = Swap(held, Objects(cache), Objects(h)) /\ runs' = Swap(runs, PageRuns(cache), PageRuns(h))
  BY <1>3, <1>4, <1>6, Zenon DEF GiveObject, Become, Swap, Gave
<1>8. Advanced(mm, mm, h, live \cup {<<cache.pool[s].page, i>>}, Swap(held, Objects(cache), Objects(h)),
               Swap(runs, PageRuns(cache), PageRuns(h)), unclean)
  BY <1>1, <1>2, <1>3, <1>4, <1>6, DoMalloc
<1>9. unclean \cup {} = unclean
  OBVIOUS
<1>10. QED
  BY <1>6, <1>7, <1>8, <1>9, Zenon DEF Arrived

LEMMA StepGrows ==
  ASSUME System(mm, cache, live, held, runs, unclean), SlabMallocGrows
  PROVE  Arrived({})
<1>1. PICK y : y = MakeSlab(mm)
  OBVIOUS
<1>2. PICK n : n = [y.slabs[1] EXCEPT !.using_count = Count]
  OBVIOUS
<1>3. PICK g : g = Widened(cache, n)
  OBVIOUS
<1>4. PICK i : i = Least((0..(Count - 1)) \ g.pool[2].used)
  OBVIOUS
<1>5. PICK h : h = Gave(g, 2, i)
  OBVIOUS
<1>6. cache # NoCache /\ ~SlabBreaks(mm) /\ y.slabs # <<>> /\ mm' = y.mm /\ Leave({}) /\ GiveObject(g, 2)
  BY <1>1, <1>2, <1>3, Zenon DEF SlabMallocGrows, Widened
<1>7. /\ cache' = h /\ live' = live \cup {<<g.pool[2].page, i>>}
      /\ held' = Swap(held, Objects(cache), Objects(h)) /\ runs' = Swap(runs, PageRuns(cache), PageRuns(h))
  BY <1>4, <1>5, <1>6, Zenon DEF GiveObject, Become, Swap, Gave
<1>8. Advanced(mm, y.mm, h, live \cup {<<g.pool[2].page, i>>}, Swap(held, Objects(cache), Objects(h)),
               Swap(runs, PageRuns(cache), PageRuns(h)), unclean)
  BY <1>1, <1>2, <1>3, <1>4, <1>5, <1>6, DoGrow, ZenonT(60)
<1>9. unclean \cup {} = unclean
  OBVIOUS
<1>10. QED
  BY <1>6, <1>7, <1>8, <1>9, Zenon DEF Arrived

LEMMA StepMallocFails ==
  ASSUME System(mm, cache, live, held, runs, unclean), SlabMallocFails
  PROVE  \E pages : Arrived(pages)
<1>1. PICK y : y = MakeSlab(mm)
  OBVIOUS
<1>2. /\ ~SlabBreaks(mm) /\ y.slabs = <<>> /\ mm' = y.mm /\ held' = held /\ runs' = runs /\ cache' = cache /\ live' = live
      /\ Leave(y.unclean)
  BY <1>1, Zenon DEF SlabMallocFails
<1>3. Advanced(mm, y.mm, cache, live, held, runs, unclean \cup y.unclean)
  BY <1>1, <1>2, DoGrowFails
<1>4. Arrived(y.unclean)
  BY <1>2, <1>3, Zenon DEF Arrived
<1>5. QED
  BY <1>4, Zenon

(* The slab's using_count never falls, so that slab_free never releases.   *)
LEMMA StepFree ==
  ASSUME System(mm, cache, live, held, runs, unclean), NEW o \in live, SlabFree(o)
  PROVE  Arrived({})
<1>1. PICK s : s = CHOOSE t \in DOMAIN cache.pool : cache.pool[t].page = o[1]
  OBVIOUS
<1>2. PICK i : i = o[2]
  OBVIOUS
<1>3. PICK h : h = Took(cache, s, i)
  OBVIOUS
<1>4. /\ Advanced(mm, mm, h, live \ {o}, Swap(held, Objects(cache), Objects(h)),
             Swap(runs, PageRuns(cache), PageRuns(h)), unclean)
      /\ h.pool[s].using_count # 0
  BY <1>1, <1>2, <1>3, DoFree
<1>5. live' = live \ {o} /\ Leave({})
  BY Zenon DEF SlabFree
<1>6. IF h.pool[s].using_count = 0 /\ h.total_free >= (Count * 3) \div 2
      THEN /\ mm' = GiveBack(mm, h.pool[s])
           /\ Become([h EXCEPT !.pool = RemoveAt(@, s), !.total_free = @ - Count])
      ELSE UNCHANGED mm /\ Become(h)
  BY <1>1, <1>2, <1>3, Zenon DEF SlabFree, Took
<1>7. mm' = mm /\ Become(h)
  BY <1>4, <1>6, Zenon
<1>8. /\ cache' = h /\ held' = Swap(held, Objects(cache), Objects(h))
      /\ runs' = Swap(runs, PageRuns(cache), PageRuns(h))
  BY <1>7, Zenon DEF Become, Swap
<1>9. unclean \cup {} = unclean
  OBVIOUS
<1>10. QED
  BY <1>4, <1>5, <1>7, <1>8, <1>9, Zenon DEF Arrived

LEMMA StepDestroy ==
  ASSUME System(mm, cache, live, held, runs, unclean), SlabDestroy
  PROVE  Arrived({})
<1>1. PICK r : r = Free(GiveBackAll(mm, cache.pool), cache.own[1])
  OBVIOUS
<1>2. /\ cache # NoCache /\ cache.total_using = 0 /\ mm' = r /\ cache' = NoCache /\ live' = live
      /\ held' = Swap(held, Objects(cache), Objects(NoCache))
      /\ runs' = Swap(runs, PageRuns(cache), PageRuns(NoCache))
      /\ Leave({})
  BY <1>1, Zenon DEF SlabDestroy, Become, Swap
<1>3. Advanced(mm, r, NoCache, live, Swap(held, Objects(cache), Objects(NoCache)),
          Swap(runs, PageRuns(cache), PageRuns(NoCache)), unclean)
  BY <1>1, <1>2, DoDestroy
<1>4. unclean \cup {} = unclean
  OBVIOUS
<1>5. QED
  BY <1>2, <1>3, <1>4, Zenon DEF Arrived

LEMMA SettleStill ==
  ASSUME NEW m, NEW k, NEW V, NEW O, NEW R, NEW U, System(m, k, V, O, R, U)
  PROVE  Advanced(m, m, k, V, O, R, U)
<1>1. SystemFacts(m, k, V, O, R, U)
  BY SystemHas
<1>2. PICK L : L = CachePages(k) \cup U
  OBVIOUS
<1>3. Objects(k) \subseteq O /\ Mem(m, O, {}, R, L) /\ L \cap SlabPages(m) = {} /\ Rings(m)
  BY <1>1, <1>2, Zenon DEF SystemFacts
<1>4. L = L \ SlabPages(m)
  BY <1>3
<1>5. Settled(m, k, V, O, R, U)
  BY <1>1, <1>2, <1>3, <1>4, Zenon DEF Settled, SystemFacts
<1>6. QED
  BY <1>3, <1>5, HomesSame DEF Advanced

LEMMA StepOthers ==
  ASSUME SysInv, Others, cache' = cache, live' = live, Leave({})
  PROVE  Arrived({}) /\ wild' \in BOOLEAN /\ (wild' => Few(mm'))
<1>0. unclean \cup {} = unclean
  OBVIOUS
<1>1. System(mm, cache, live, held, runs, unclean)
  BY DEF SysInv
<1>2. ASSUME NEW c \in DOMAIN Classes, Kmalloc(c)
      PROVE  Arrived({}) /\ wild' = FALSE
  <2>1. PICK r : r = Alloc(mm, c).mm
    OBVIOUS
  <2>2. PICK o : o = Alloc(mm, c).object
    OBVIOUS
  <2>3. /\ ~wild /\ ~Refused(mm, c) /\ ~Breaks(mm, c)
        /\ mm' = r /\ held' = held \cup {o} /\ runs' = runs /\ wild' = wild
    BY <1>2, <2>1, <2>2, Zenon DEF Kmalloc
  <2>4. Advanced(mm, r, cache, live, held \cup {o}, runs, unclean)
    BY <1>1, <2>1, <2>2, <2>3, DoKmalloc
  <2>5. wild' = FALSE
    BY <2>3 DEF SysInv
  <2>6. QED
    BY <1>0, <2>3, <2>4, <2>5, Zenon DEF Arrived
<1>3. ASSUME NEW c \in DOMAIN Classes, KmallocWild(c)
      PROVE  Arrived({}) /\ wild' = TRUE /\ Few(mm')
  <2>1. /\ Breaks(mm, c) /\ wild' = TRUE /\ mm' = mm /\ held' = held /\ runs' = runs
    BY <1>3, Zenon DEF KmallocWild
  <2>2. Objects(cache) \subseteq held /\ Mem(mm, held, {}, runs, CachePages(cache) \cup unclean)
    BY <1>1, Zenon DEF System
  <2>3. Few(mm)
    <3>1. PICK L : L = CachePages(cache) \cup unclean
      OBVIOUS
    <3>2. PICK S : S = {}
      OBVIOUS
    <3>3. Mem(mm, held, S, runs, L)
      BY <2>2, <3>1, <3>2, Zenon
    <3>4. mm.free[1] < 2 + Short(mm, SlabClass) /\ mm.free[1] \in Int
      BY <2>1, <3>3, MemWild, MemFree
    <3>5. QED
      BY <3>4 DEF Short, Few
  <2>4. Advanced(mm, mm, cache, live, held, runs, unclean)
    BY <1>1, SettleStill
  <2>5. QED
    BY <1>0, <2>1, <2>3, <2>4, Zenon DEF Arrived
<1>4. ASSUME NEW o \in held \ Objects(cache), Kfree(o)
      PROVE  Arrived({}) /\ wild' = FALSE
  <2>1. PICK r : r = Free(mm, o)
    OBVIOUS
  <2>2. ~wild /\ mm' = r /\ held' = held \ {o} /\ runs' = runs /\ wild' = wild
    BY <1>4, <2>1, Zenon DEF Kfree
  <2>3. o \in held /\ o \notin Objects(cache)
    OBVIOUS
  <2>4. Advanced(mm, r, cache, live, held \ {o}, runs, unclean)
    BY <1>1, <2>1, <2>3, DoKfree
  <2>5. wild' = FALSE
    BY <2>2 DEF SysInv
  <2>6. QED
    BY <1>0, <2>2, <2>4, <2>5, Zenon DEF Arrived
<1>5. ASSUME NEW select \in {"ZONE_NORMAL", "ZONE_UNMAPED"}, NEW n \in 1..MaxRun, AllocPages(select, n)
      PROVE  Arrived({}) /\ wild' = FALSE
  <2>1. PICK r : r = alloc_pages(mm, select, n)
    OBVIOUS
  <2>2. PICK p : p = FoundPage(mm, select, n)
    OBVIOUS
  <2>3. ~wild /\ Serves(mm, select, n) # 0 /\ mm' = r /\ runs' = runs \cup {<<p, n>>} /\ held' = held /\ wild' = wild
    BY <1>5, <2>1, <2>2, Zenon DEF AllocPages
  <2>4. n \in Nat \ {0}
    BY MemoryAssumption
  <2>5. Advanced(mm, r, cache, live, held, runs \cup {<<p, n>>}, unclean)
    BY <1>1, <2>1, <2>2, <2>3, <2>4, DoAllocPages
  <2>6. wild' = FALSE
    BY <2>3 DEF SysInv
  <2>7. QED
    BY <1>0, <2>3, <2>5, <2>6, Zenon DEF Arrived
<1>6. ASSUME NEW w \in runs \ PageRuns(cache), FreePages(w)
      PROVE  Arrived({}) /\ wild' = FALSE
  <2>1. PICK r : r = free_pages(mm, w[1], w[2])
    OBVIOUS
  <2>2. ~wild /\ mm' = r /\ runs' = runs \ {w} /\ held' = held /\ wild' = wild
    BY <1>6, <2>1, Zenon DEF FreePages
  <2>3. w \in runs /\ w \notin PageRuns(cache)
    OBVIOUS
  <2>4. Advanced(mm, r, cache, live, held, runs \ {w}, unclean)
    BY <1>1, <2>1, <2>3, DoFreePages
  <2>5. wild' = FALSE
    BY <2>2 DEF SysInv
  <2>6. QED
    BY <1>0, <2>2, <2>4, <2>5, Zenon DEF Arrived
<1>7. QED
  BY <1>2, <1>3, <1>4, <1>5, <1>6 DEF Others

(* The kernel's end: nothing has changed but that it is lost.              *)
LEMMA StepWild ==
  ASSUME SysInv, SlabCreateWild \/ SlabMallocWild, UNCHANGED <<mm, held, runs, cacheVars>>, wild' = TRUE
  PROVE  SysInv' /\ Reserve(mm, mm')
<1>1. System(mm, cache, live, held, runs, unclean)
  BY DEF SysInv
<1>2. SystemFacts(mm, cache, live, held, runs, unclean)
  BY <1>1, SystemHas
<1>3. PICK L : L = CachePages(cache) \cup unclean
  OBVIOUS
<1>4. PICK S : S = {}
  OBVIOUS
<1>5. Mem(mm, held, S, runs, L) /\ Rings(mm)
  BY <1>2, <1>3, <1>4, Zenon DEF SystemFacts
<1>6. CASE SlabMallocWild
  <2>1. SlabBreaks(mm)
    BY <1>6 DEF SlabMallocWild
  <2>2. mm.free[1] < 4 /\ ~Classes[MapClass].small /\ mm.free[1] \in Int
    BY <1>5, <2>1, MemSlabBreaks, MemFree
  <2>3. Few(mm)
    BY <2>2 DEF Few
  <2>4. QED
    BY <1>1, <1>5, <2>3, HomesSame DEF SysInv, cacheVars
<1>7. CASE SlabCreateWild
  <2>1. PICK n : n = AllocSmall(mm, CacheClass).mm
    OBVIOUS
  <2>2. PICK o : o = AllocSmall(mm, CacheClass).object
    OBVIOUS
  <2>3. ~Refused(mm, CacheClass) /\ SlabBreaks(n)
    BY <1>7, <2>1 DEF SlabCreateWild
  <2>4. Got(mm, n, held, S, runs, L, CacheClass, o)
    BY <1>5, <2>1, <2>2, <2>3, SlabCacheAssumption, MemAllocSmall
  <2>5. PICK f : f = mm.cache[CacheClass].total_free
    OBVIOUS
  <2>6. /\ Mem(n, held \cup {o}, S \cup {o}, runs, L \ {o[1]})
        /\ n.free[1] = mm.free[1] - (IF f = 0 THEN 1 ELSE 0)
    BY <2>4, <2>5, Zenon DEF Got
  <2>7. n.free[1] < 4 /\ ~Classes[MapClass].small /\ n.free[1] \in Int /\ mm.free[1] \in Int
    BY <1>5, <2>3, <2>6, MemSlabBreaks, MemFree
  <2>8. Few(mm)
    BY <2>6, <2>7 DEF Few
  <2>9. QED
    BY <1>1, <1>5, <2>8, HomesSame DEF SysInv, cacheVars
<1>8. QED
  BY <1>6, <1>7

LEMMA StepSystem ==
  ASSUME SysInv, CacheNext
  PROVE  SysInv' /\ Reserve(mm, mm')
<1>1. System(mm, cache, live, held, runs, unclean)
  BY DEF SysInv
<1>2. ASSUME \E pages : Arrived(pages), wild' \in BOOLEAN, wild' => Few(mm')
      PROVE  SysInv' /\ Reserve(mm, mm')
  <2>1. System(mm', cache', live', held', runs', unclean') /\ Reserve(mm, mm')
    BY <1>2, Arrive
  <2>2. QED
    BY <1>2, <2>1 DEF SysInv
<1>3. ASSUME SlabCreate \/ SlabCreateFails \/ SlabMalloc \/ SlabMallocGrows \/ SlabMallocFails
               \/ (\E object \in live : SlabFree(object)) \/ SlabDestroy
      PROVE  \E pages : Arrived(pages)
  <2>1. CASE SlabCreate
    BY <1>1, <2>1, StepCreate, Zenon
  <2>2. CASE SlabCreateFails
    BY <1>1, <2>2, StepCreateFails, Zenon
  <2>3. CASE SlabMalloc
    BY <1>1, <2>3, StepMalloc, Zenon
  <2>4. CASE SlabMallocGrows
    BY <1>1, <2>4, StepGrows, Zenon
  <2>5. CASE SlabMallocFails
    BY <1>1, <2>5, StepMallocFails, Zenon
  <2>6. ASSUME NEW object \in live, SlabFree(object)
        PROVE  \E pages : Arrived(pages)
    BY <1>1, <2>6, StepFree, Zenon
  <2>7. CASE SlabDestroy
    BY <1>1, <2>7, StepDestroy, Zenon
  <2>8. QED
    BY <1>3, <2>1, <2>2, <2>3, <2>4, <2>5, <2>6, <2>7, Zenon
<1>4. CASE /\ SlabCreate \/ SlabCreateFails \/ SlabMalloc \/ SlabMallocGrows \/ SlabMallocFails
              \/ (\E object \in live : SlabFree(object)) \/ SlabDestroy
           /\ ~wild /\ UNCHANGED wild
  <2>1. wild' = FALSE
    BY <1>4 DEF SysInv
  <2>2. \E pages : Arrived(pages)
    BY <1>3, <1>4, Zenon
  <2>3. QED
    BY <1>2, <2>1, <2>2
<1>5. CASE Others /\ UNCHANGED <<cache, live>> /\ Leave({})
  <2>1. cache' = cache /\ live' = live
    BY <1>5
  <2>2. Arrived({}) /\ wild' \in BOOLEAN /\ (wild' => Few(mm'))
    BY <1>5, <2>1, StepOthers, Zenon
  <2>3. QED
    BY <1>2, <2>2, Zenon
<1>6. CASE /\ SlabCreateWild \/ SlabMallocWild
           /\ ~wild /\ wild' = TRUE
           /\ UNCHANGED <<mm, held, runs, cacheVars>>
  BY <1>6, StepWild
<1>7. QED
  BY <1>4, <1>5, <1>6, Zenon DEF CacheNext
-----------------------------------------------------------------------------
(* What init_memory and slab_init leave.                                   *)
Statics == {StaticPage(c) : c \in DOMAIN Classes}
FirstTaken == KernelPages \cup Statics
InFirst(z) == IF z = 1 THEN Cardinality(FirstTaken) ELSE 0

LEMMA TakenFacts ==
  /\ 0 \in KernelPages /\ FirstTaken \ {0} \subseteq ZonePages(1) /\ FirstTaken \subseteq Pages /\ 0 \in FirstTaken
  /\ KernelPages \cap Statics = {} /\ Statics \subseteq ZonePages(1)
  /\ \A c \in DOMAIN Classes : StaticPage(c) \in Statics
  /\ \A c, d \in DOMAIN Classes : StaticPage(c) = StaticPage(d) => c = d
  /\ IsFiniteSet(FirstTaken) /\ Cardinality(FirstTaken \ {0}) < Cardinality(ZonePages(1))
<1>1. /\ KernelEnd \in Nat /\ (KernelPages \ {0}) \cup Statics \subseteq ZonePages(1)
      /\ \E p \in ZonePages(1) : p \notin KernelPages \cup Statics
  BY MemoryAssumption DEF Statics
<1>2. 0 \in KernelPages /\ \A p \in KernelPages : p \in Nat /\ p <= KernelEnd
  BY <1>1 DEF KernelPages
<1>3. \A c \in DOMAIN Classes : c \in Nat /\ c > 0
  <2>1. Classes \in Seq([small : BOOLEAN, first : Nat, created : Nat \ {0, 1}, map : Nat])
    BY MemoryAssumption
  <2>2. \A c \in DOMAIN Classes : c \in 1..Len(Classes)
    BY <2>1
  <2>3. QED
    BY <2>1, <2>2
<1>4. \A c \in DOMAIN Classes : StaticPage(c) = KernelEnd + c /\ StaticPage(c) > KernelEnd /\ StaticPage(c) # 0
  BY <1>1, <1>3 DEF StaticPage
<1>5. \A c, d \in DOMAIN Classes : StaticPage(c) = StaticPage(d) => c = d
  BY <1>1, <1>3, <1>4
<1>6. KernelPages \cap Statics = {}
  <2>1. ASSUME NEW p \in KernelPages, NEW c \in DOMAIN Classes, p = StaticPage(c)
        PROVE  FALSE
    <3>1. p <= KernelEnd /\ p \in Nat
      BY <1>2
    <3>2. p = KernelEnd + c /\ c \in Nat /\ c > 0
      BY <1>3, <1>4, <2>1
    <3>3. QED
      BY <1>1, <3>1, <3>2
  <2>2. QED
    BY <2>1 DEF Statics
<1>7. 1 \in ZoneIds
  BY ZoneFacts
<1>8. /\ ZonePages(1) \subseteq Pages /\ 0 \notin ZonePages(1) /\ IsFiniteSet(ZonePages(1))
  BY <1>7, ZonePlace
<1>9. 0 \in Pages
  <2>1. Hi(1) \in Pages
    BY ZoneFacts
  <2>2. QED
    BY <2>1, PageFacts
<1>10. FirstTaken \ {0} \subseteq ZonePages(1) /\ FirstTaken \subseteq Pages /\ 0 \in FirstTaken
  BY <1>1, <1>2, <1>8, <1>9 DEF FirstTaken
<1>11. IsFiniteSet(FirstTaken)
  BY <1>10, PageFacts, FS_Subset
<1>12. Cardinality(FirstTaken \ {0}) < Cardinality(ZonePages(1))
  <2>1. PICK A : A = FirstTaken \ {0}
    OBVIOUS
  <2>2. PICK B : B = ZonePages(1)
    OBVIOUS
  <2>3. A \in SUBSET B /\ IsFiniteSet(B) /\ A # B
    BY <1>1, <1>8, <1>10, <2>1, <2>2 DEF FirstTaken
  <2>4. Cardinality(A) <= Cardinality(B) /\ (Cardinality(A) = Cardinality(B) => A = B) /\ IsFiniteSet(A)
    BY <2>3, FS_Subset
  <2>5. Cardinality(A) \in Nat /\ Cardinality(B) \in Nat
    BY <2>3, <2>4, FS_CardinalityType
  <2>6. QED
    BY <2>1, <2>2, <2>3, <2>4, <2>5
<1>13. QED
  BY <1>1, <1>2, <1>5, <1>6, <1>10, <1>11, <1>12 DEF Statics

LEMMA TakenCounts ==
  ASSUME NEW z \in ZoneIds
  PROVE  /\ InFirst(z) \in Nat /\ Cardinality(ZonePages(z)) \in Nat /\ InFirst(z) <= Cardinality(ZonePages(z))
         /\ Cardinality(ZonePages(z) \ (Holes \cup FirstTaken)) - (IF z = 1 THEN 1 ELSE 0)
              = Cardinality(ZonePages(z)) - InFirst(z)
<1>1. PICK Z : Z = ZonePages(z)
  OBVIOUS
<1>2. IsFiniteSet(Z) /\ 0 \notin Z /\ Z \cap Holes = {}
  BY <1>1, ZonePlace, HoleFacts
<1>3. PICK c \in Nat : c = Cardinality(Z)
  BY <1>2, FS_CardinalityType
<1>4. PICK A : A = FirstTaken \ {0}
  OBVIOUS
<1>5. Z \ (Holes \cup FirstTaken) = Z \ A
  BY <1>2, <1>4
<1>6. CASE z = 1
  <2>1. A \in SUBSET Z /\ IsFiniteSet(FirstTaken) /\ 0 \in FirstTaken /\ Cardinality(A) < c
    BY <1>1, <1>3, <1>4, <1>6, TakenFacts
  <2>2. Cardinality(FirstTaken) \in Nat /\ IsFiniteSet(A) /\ Cardinality(A) = Cardinality(FirstTaken) - 1
    BY <1>4, <2>1, FS_CardinalityType, FS_RemoveElement
  <2>3. Z \cap A = A
    BY <2>1
  <2>4. Cardinality(Z \ A) = Cardinality(Z) - Cardinality(Z \cap A)
    BY <1>2, FS_Difference
  <2>5. Cardinality(Z \ A) = c - Cardinality(A)
    BY <1>3, <2>3, <2>4, Zenon
  <2>6. InFirst(z) = Cardinality(FirstTaken)
    BY <1>6 DEF InFirst
  <2>7. PICK n \in Nat : n = Cardinality(FirstTaken)
    BY <2>2
  <2>8. PICK a : a = Cardinality(A)
    OBVIOUS
  <2>9. a = n - 1 /\ a < c
    BY <2>1, <2>2, <2>7, <2>8
  <2>10. (c - a) - 1 = c - n /\ n <= c
    BY <2>9
  <2>11. QED
    BY <1>1, <1>3, <1>5, <1>6, <2>5, <2>6, <2>7, <2>8, <2>10
<1>7. CASE z # 1
  <2>1. Z \cap A = {}
    <3>1. \A p \in Z : \A y \in ZoneIds : p \in ZonePages(y) => y = z
      BY <1>1, ZonePlace
    <3>2. 1 \in ZoneIds /\ A \subseteq ZonePages(1)
      BY <1>4, ZoneFacts, TakenFacts
    <3>3. QED
      BY <1>7, <3>1, <3>2
  <2>2. Z \ A = Z
    BY <2>1
  <2>3. InFirst(z) = 0
    BY <1>7 DEF InFirst
  <2>4. QED
    BY <1>1, <1>3, <1>5, <1>7, <2>2, <2>3
<1>8. QED
  BY <1>6, <1>7

StaticRing(c) ==
  [pool |-> <<Slab(StaticPage(c), Classes[c].first, <<>>)>>, total_free |-> Classes[c].first, total_using |-> 0]

LEMMA StaticRingIs ==
  ASSUME NEW c \in DOMAIN Classes
  PROVE  /\ StaticRing(c) \in CacheRecords /\ GoodRing(c, StaticRing(c))
         /\ Len(StaticRing(c).pool) = 1 /\ StaticRing(c).pool[1].page = StaticPage(c)
         /\ StaticRing(c).pool[1].used = {} /\ StaticRing(c).pool[1].own = <<>>
<1>1. PICK n \in Nat : n = Classes[c].first
  BY ClassFacts
<1>2. PICK p \in Pages : p = StaticPage(c)
  <2>1. StaticPage(c) \in Pages
    BY TakenFacts DEF FirstTaken
  <2>2. QED
    BY <2>1
<1>3. PICK b : b = Slab(p, n, <<>>)
  OBVIOUS
<1>4. /\ b \in SlabRecords /\ b.page = p /\ b.used = {} /\ b.own = <<>> /\ b.color_count = n
      /\ b.using_count = 0 /\ b.free_count = n
  BY <1>3 DEF Slab, SlabRecords
<1>5. PICK e : e = StaticRing(c)
  OBVIOUS
<1>6. e.pool = <<b>> /\ e.total_free = n /\ e.total_using = 0 /\ e = [pool |-> <<b>>, total_free |-> n, total_using |-> 0]
  BY <1>1, <1>2, <1>3, <1>5 DEF StaticRing
<1>7. <<b>> \in Seq(SlabRecords) /\ Len(<<b>>) = 1 /\ <<b>>[1] = b
  BY <1>4
<1>8. e \in CacheRecords
  BY <1>6, <1>7 DEF CacheRecords, SlabRings
<1>9. GoodSlab(b) /\ ShapedFor(c, b)
  <2>1. Cardinality({}) = 0
    BY FS_EmptySet
  <2>2. QED
    BY <1>4, <2>1 DEF GoodSlab, ShapedFor
<1>10. \A field : (\A d \in SlabRecords : d[field] \in Int) => Sum(Column(<<b>>, field)) = b[field]
  <2>1. SUFFICES ASSUME NEW field, \A d \in SlabRecords : d[field] \in Int
                 PROVE  Sum(Column(<<b>>, field)) = b[field]
    OBVIOUS
  <2>2. PICK q \in Seq(SlabRecords) : q = <<>> /\ Len(q) = 0
    <3>1. <<>> \in Seq(SlabRecords) /\ Len(<<>>) = 0
      BY EmptySeq
    <3>2. QED
      BY <3>1, Zenon
  <2>3. PICK x : x = Column(q, field)
    OBVIOUS
  <2>4. x \in Seq(Int) /\ Len(x) = Len(q)
    BY <2>1, <2>3, ColumnIs
  <2>5. Sum(x) = 0
    <3>1. \A i \in 1..Len(x) : x[i] = 0
      <4>1. Len(x) = 0
        BY <2>2, <2>4
      <4>2. 1..0 = {}
        OBVIOUS
      <4>3. QED
        BY <4>1, <4>2
    <3>2. QED
      BY <2>4, <3>1, SumZero
  <2>6. Sum(Column(Append(q, b), field)) = Sum(Column(q, field)) + b[field]
    BY <1>4, <2>1, ColumnAppend
  <2>7. Append(q, b) = <<b>>
    BY <2>2
  <2>8. b[field] \in Int
    BY <1>4, <2>1
  <2>9. QED
    BY <2>3, <2>5, <2>6, <2>7, <2>8
<1>11. Sum(Column(<<b>>, "free_count")) = n /\ Sum(Column(<<b>>, "using_count")) = 0
  BY <1>4, <1>10, SlabCountFields, SlabFields
<1>12. Len(e.pool) = 1 /\ e.pool[1] = b
  BY <1>6, <1>7
<1>13. GoodRing(c, e)
  <2>1. \A s \in 1..Len(e.pool) : s = 1
    BY <1>12
  <2>2. \A s \in 1..Len(e.pool) : GoodSlab(e.pool[s]) /\ ShapedFor(c, e.pool[s]) /\ (s # 1 => e.pool[s].color_count = Classes[c].created)
    BY <1>9, <1>12, <2>1
  <2>3. e.total_free = Sum(Column(e.pool, "free_count")) /\ e.total_using = Sum(Column(e.pool, "using_count"))
    BY <1>6, <1>11
  <2>4. Len(e.pool) > 0 /\ e.pool[1].page = StaticPage(c)
    BY <1>2, <1>4, <1>12
  <2>5. QED
    BY <2>2, <2>3, <2>4, Zenon DEF GoodRing
<1>14. QED
  BY <1>2, <1>4, <1>5, <1>8, <1>12, <1>13
Started(m) ==
  /\ m \in Mems /\ m.bits_map = Holes \cup FirstTaken
  /\ m.using = [z \in ZoneIds |-> InFirst(z)]
  /\ m.free = [z \in ZoneIds |-> Cardinality(ZonePages(z)) - InFirst(z)]
  /\ m.total_pages_link = [z \in ZoneIds |-> InFirst(z)]
  /\ m.reference_count = [p \in Pages |-> IF p \in FirstTaken THEN 1 ELSE 0]
  /\ m.cache = [c \in DOMAIN Classes |-> StaticRing(c)]

LEMMA StartedIs ==
  ASSUME NEW m, Init, m = mm
  PROVE  Started(m)
<1>1. PICK b : b = Holes \cup FirstTaken
  OBVIOUS
<1>2. PICK u : u = [z \in ZoneIds |-> InFirst(z)]
  OBVIOUS
<1>3. PICK f : f = [z \in ZoneIds |-> Cardinality(ZonePages(z)) - InFirst(z)]
  OBVIOUS
<1>4. PICK rc : rc = [p \in Pages |-> IF p \in FirstTaken THEN 1 ELSE 0]
  OBVIOUS
<1>5. PICK k : k = [c \in DOMAIN Classes |-> StaticRing(c)]
  OBVIOUS
<1>6. m = [bits_map |-> b, using |-> u, free |-> f, total_pages_link |-> u, reference_count |-> rc, cache |-> k]
  <2>1. u = [z \in ZoneIds |-> IF z = 1 THEN Cardinality(FirstTaken) ELSE 0]
    BY <1>2, Zenon DEF InFirst
  <2>2. \A z \in ZoneIds : u[z] = InFirst(z)
    BY <1>2
  <2>3. f = [z \in ZoneIds |-> Cardinality(ZonePages(z)) - u[z]]
    BY <1>3, <2>2
  <2>4. k = [c \in DOMAIN Classes |->
                            [pool |-> <<Slab(StaticPage(c), Classes[c].first, <<>>)>>,
                             total_free |-> Classes[c].first,
                             total_using |-> 0]]
    BY <1>5, Zenon DEF StaticRing
  <2>5. mm = [bits_map |-> Holes \cup FirstTaken, using |-> u,
              free |-> [z \in ZoneIds |-> Cardinality(ZonePages(z)) - u[z]],
              total_pages_link |-> u, reference_count |-> [p \in Pages |-> IF p \in FirstTaken THEN 1 ELSE 0],
              cache |-> [c \in DOMAIN Classes |->
                            [pool |-> <<Slab(StaticPage(c), Classes[c].first, <<>>)>>,
                             total_free |-> Classes[c].first,
                             total_using |-> 0]]]
    BY <2>1, Zenon DEF Init, FirstTaken, Statics
  <2>6. QED
    BY <1>1, <1>4, <2>3, <2>4, <2>5, Zenon
<1>7. b \in BitMaps
  BY <1>1, TakenFacts, HoleFacts DEF BitMaps
<1>8. u \in ZoneNumbers /\ f \in ZoneNumbers
  <2>1. ASSUME NEW z \in ZoneIds
        PROVE  InFirst(z) \in Int /\ Cardinality(ZonePages(z)) - InFirst(z) \in Int
    <3>1. PICK i \in Nat : i = InFirst(z)
      BY TakenCounts
    <3>2. PICK n \in Nat : n = Cardinality(ZonePages(z))
      BY TakenCounts
    <3>3. QED
      BY <3>1, <3>2
  <2>2. QED
    BY <1>2, <1>3, <2>1 DEF ZoneNumbers
<1>9. rc \in PageNumbers
  BY <1>4 DEF PageNumbers
<1>10. k \in Caches
  BY <1>5, StaticRingIs DEF Caches
<1>11. m \in Mems
  BY <1>6, <1>7, <1>8, <1>9, <1>10 DEF Mems
<1>12. /\ m.bits_map = b /\ m.using = u /\ m.free = f /\ m.total_pages_link = u /\ m.reference_count = rc
       /\ m.cache = k
  BY <1>6
<1>13. QED
  BY <1>1, <1>2, <1>3, <1>4, <1>5, <1>11, <1>12 DEF Started

LEMMA StartedCounted ==
  ASSUME NEW m, Started(m)
  PROVE  Counted(m)
<1>1. ASSUME NEW z \in ZoneIds
      PROVE  /\ m.using[z] + m.free[z] = Cardinality(ZonePages(z)) /\ m.free[z] \in Nat
             /\ m.free[z] = Cardinality(ZonePages(z) \ m.bits_map) - (IF z = 1 THEN 1 ELSE 0)
  <2>1. m.using[z] = InFirst(z) /\ m.free[z] = Cardinality(ZonePages(z)) - InFirst(z)
    BY DEF Started
  <2>2. m.bits_map = Holes \cup FirstTaken
    BY DEF Started
  <2>3. PICK i \in Nat : i = InFirst(z)
    BY TakenCounts
  <2>4. PICK n \in Nat : n = Cardinality(ZonePages(z))
    BY TakenCounts
  <2>5. i <= n
    BY <2>3, <2>4, TakenCounts
  <2>6. i + (n - i) = n /\ n - i \in Nat
    BY <2>5
  <2>7. m.free[z] = Cardinality(ZonePages(z) \ m.bits_map) - (IF z = 1 THEN 1 ELSE 0)
    BY <2>1, <2>2, TakenCounts, Zenon
  <2>8. QED
    BY <2>1, <2>3, <2>4, <2>6, <2>7
<1>2. QED
  BY <1>1 DEF Counted

LEMMA StartedLinked ==
  ASSUME NEW m, Started(m)
  PROVE  Linked(m, Statics)
<1>1. ASSUME NEW p \in Pages
      PROVE  m.reference_count[p] \in {0, 1} /\ (m.reference_count[p] = 1 <=> p \in KernelPages \cup Statics)
  BY DEF Started, FirstTaken
<1>2. ASSUME NEW z \in ZoneIds
      PROVE  m.total_pages_link[z] = Cardinality({p \in Realm(z) : m.reference_count[p] = 1})
  <2>1. PICK A : A = {p \in Realm(z) : m.reference_count[p] = 1}
    OBVIOUS
  <2>2. \A p \in Realm(z) : p \in Pages /\ ZoneOf(p) = z
    BY DEF Realm
  <2>3. \A p : p \in A <=> p \in Realm(z) /\ p \in FirstTaken
    BY <1>1, <2>1, <2>2 DEF FirstTaken
  <2>4. ZoneOf(0) = 1
    BY DEF ZoneOf
  <2>5. 1 \in ZoneIds
    BY ZoneFacts
  <2>6. \A p \in FirstTaken : p # 0 => p \in ZonePages(1)
    BY TakenFacts
  <2>7. CASE z = 1
    <3>1. 0 \in Realm(1)
      BY <2>4, TakenFacts DEF Realm
    <3>2. \A p \in FirstTaken : p # 0 => p \in Realm(1)
      BY <2>5, <2>6, ZonePageFacts
    <3>3. A = FirstTaken
      BY <2>3, <2>7, <3>1, <3>2
    <3>4. m.total_pages_link[z] = Cardinality(FirstTaken)
      BY <2>7 DEF Started, InFirst
    <3>5. QED
      BY <2>1, <3>3, <3>4
  <2>8. CASE z # 1
    <3>1. 0 \notin Realm(z)
      BY <2>4, <2>8 DEF Realm
    <3>2. \A p \in FirstTaken : p # 0 => p \notin Realm(z)
      BY <2>5, <2>6, <2>8, ZonePageFacts
    <3>3. A = {}
      BY <2>3, <3>1, <3>2
    <3>4. m.total_pages_link[z] = 0
      BY <2>8 DEF Started, InFirst
    <3>5. Cardinality({}) = 0
      BY FS_EmptySet
    <3>6. QED
      BY <2>1, <3>3, <3>4, <3>5
  <2>9. QED
    BY <2>7, <2>8
<1>3. InZones(Statics)
  BY TakenFacts, ZoneFacts DEF InZones
<1>4. QED
  BY <1>1, <1>2, <1>3 DEF Linked

LEMMA StartedSlabs ==
  ASSUME NEW m, Started(m)
  PROVE  CacheSide(m.cache, {}, {}) /\ SlabPages(m) = Statics
<1>1. PICK k \in Caches : k = m.cache
  <2>1. m.cache \in Caches
    BY MemFields DEF Started
  <2>2. QED
    BY <2>1, Zenon
<1>2. k = [c \in DOMAIN Classes |-> StaticRing(c)]
  BY <1>1, Zenon DEF Started
<1>3. \A c \in DOMAIN Classes : k[c] = StaticRing(c)
  BY <1>2
<1>4. ASSUME NEW c \in DOMAIN Classes
      PROVE  /\ GoodRing(c, k[c]) /\ Len(k[c].pool) = 1 /\ k[c].pool[1].page = StaticPage(c)
             /\ k[c].pool[1].used = {} /\ k[c].pool[1].own = <<>>
  BY <1>3, StaticRingIs
<1>5. PICK F : F = Content(k)
  OBVIOUS
<1>6. DOMAIN F = Slots(k)
  BY <1>5, ContentIs
<1>7. ASSUME NEW x \in DOMAIN F
      PROVE  /\ x[1] \in DOMAIN Classes /\ x = <<x[1], 1>> /\ F[x].page = StaticPage(x[1])
             /\ F[x].used = {} /\ F[x].own = <<>>
  <2>1. x = <<x[1], x[2]>> /\ x[1] \in DOMAIN Classes /\ x[2] \in 1..Len(k[x[1]].pool) /\ F[x] = k[x[1]].pool[x[2]]
    BY <1>5, <1>6, ContentIs
  <2>2. x[2] = 1
    BY <1>4, <2>1
  <2>3. F[x] = k[x[1]].pool[1] /\ x = <<x[1], 1>>
    BY <2>1, <2>2, Zenon
  <2>4. QED
    BY <1>4, <2>1, <2>3
<1>8. Apart(F)
  <2>1. ASSUME NEW x \in DOMAIN F, NEW y \in DOMAIN F, F[x].page = F[y].page
        PROVE  x = y
    <3>1. StaticPage(x[1]) = StaticPage(y[1]) /\ x[1] \in DOMAIN Classes /\ y[1] \in DOMAIN Classes
      BY <1>7, <2>1
    <3>2. x[1] = y[1]
      BY <3>1, TakenFacts
    <3>3. x = <<x[1], 1>> /\ y = <<y[1], 1>>
      BY <1>7
    <3>4. QED
      BY <3>2, <3>3, Zenon
  <2>2. QED
    BY <2>1 DEF Apart
<1>9. UsedOf(F) = {} /\ SmallOf(F) = {}
  BY <1>7 DEF UsedOf, SmallOf
<1>10. OwnersOf(F) = {}
  <2>1. ASSUME NEW x \in DOMAIN F
        PROVE  OwnPairs(F[x]) = {}
    <3>1. F[x].own = <<>>
      BY <1>7
    <3>2. 1..Len(F[x].own) = {}
      BY <3>1
    <3>3. QED
      BY <3>2, Zenon DEF OwnPairs
  <2>2. QED
    BY <2>1 DEF OwnersOf
<1>11. Possession({}, {}, {}, {}, {})
  BY DEF Possession
<1>12. CacheSide(k, {}, {})
  BY <1>4, <1>5, <1>8, <1>9, <1>10, <1>11, Zenon DEF CacheSide
<1>13. PagesOf(F) = Statics
  <2>1. ASSUME NEW p \in Pages, NEW x \in DOMAIN F, F[x].page = p
        PROVE  p \in Statics
    BY <1>7, <2>1, TakenFacts
  <2>2. ASSUME NEW p \in Statics
        PROVE  p \in Pages /\ \E x \in DOMAIN F : F[x].page = p
    <3>1. PICK c \in DOMAIN Classes : p = StaticPage(c)
      BY DEF Statics
    <3>2. 1 \in 1..Len(k[c].pool) /\ k[c].pool[1].page = p
      BY <1>4, <3>1
    <3>3. <<c, 1>> \in DOMAIN F /\ F[<<c, 1>>] = k[c].pool[1]
      BY <1>5, <1>6, <3>2, ContentIs
    <3>4. p \in Pages
      BY TakenFacts DEF FirstTaken
    <3>5. QED
      BY <3>2, <3>3, <3>4
  <2>3. QED
    BY <2>1, <2>2 DEF PagesOf
<1>14. QED
  BY <1>1, <1>5, <1>12, <1>13, Zenon DEF SlabPages

LEMMA InitSystem ==
  ASSUME CacheInit
  PROVE  SysInv
<1>1. PICK m : m = mm
  OBVIOUS
<1>2. Init /\ cache = NoCache /\ live = {} /\ unclean = {} /\ held = {} /\ runs = {} /\ wild = FALSE
  BY DEF CacheInit, Init
<1>3. Started(m)
  BY <1>1, <1>2, StartedIs
<1>4. CacheSide(m.cache, {}, {}) /\ SlabPages(m) = Statics /\ Counted(m) /\ Linked(m, Statics) /\ m \in Mems
  BY <1>3, StartedSlabs, StartedCounted, StartedLinked, Zenon DEF Started
<1>5. Owned(m.bits_map, Statics, {})
  <2>1. RunSet({}) = {}
    BY DEF RunSet
  <2>2. m.bits_map = Holes \cup KernelPages \cup Statics
    BY <1>3 DEF Started, FirstTaken
  <2>3. InZones(Statics)
    BY <1>4 DEF Linked
  <2>4. KernelPages \cap Statics = {}
    BY TakenFacts
  <2>5. QED
    BY <2>1, <2>2, <2>3, <2>4 DEF Owned
<1>6. Mem(m, {}, {}, {}, {})
  BY <1>4, <1>5 DEF Mem, PageSide
<1>7. System(m, NoCache, {}, {}, {}, {})
  <2>1. /\ GoodCache(NoCache) /\ Exact(NoCache, {})
        /\ Objects(NoCache) = {} /\ PageRuns(NoCache) = {} /\ CachePages(NoCache) = {}
    BY CacheNone
  <2>2. {} \cup {} = {}
    OBVIOUS
  <2>3. Objects(NoCache) \subseteq {} /\ Mem(m, {}, {}, {}, CachePages(NoCache) \cup {})
    BY <1>6, <2>1, <2>2, Zenon
  <2>4. QED
    BY <2>1, <2>3 DEF System
<1>8. QED
  BY <1>1, <1>2, <1>7 DEF SysInv

(* The memory and its caches keep their invariant.                         *)
THEOREM CacheInvariant == CacheSpec => []SysInv
<1>1. CacheInit => SysInv
  BY InitSystem
<1>2. SysInv /\ [CacheNext]_<<vars, cacheVars>> => SysInv'
  <2>1. ASSUME SysInv, CacheNext
        PROVE  SysInv'
    BY <2>1, StepSystem
  <2>2. ASSUME SysInv, UNCHANGED <<vars, cacheVars>>
        PROVE  SysInv'
    <3>1. /\ mm' = mm /\ held' = held /\ runs' = runs /\ wild' = wild /\ cache' = cache /\ live' = live
          /\ unclean' = unclean
      BY <2>2 DEF vars, cacheVars
    <3>2. QED
      BY <2>2, <3>1, Zenon DEF SysInv
  <2>3. QED
    BY <2>1, <2>2
<1>3. QED
  BY <1>1, <1>2, PTL DEF CacheSpec
-----------------------------------------------------------------------------
(* What the invariant says in the words of the properties.                 *)
LEMMA AllSlabsAre ==
  ASSUME mm \in Mems, NEW F, F = Content(mm.cache)
  PROVE  /\ \A b : b \in AllSlabs <=> \E x \in DOMAIN F : b = F[x]
         /\ \A x \in DOMAIN F : F[x] \in SlabRecords
         /\ SlabPages(mm) = {slab.page : slab \in AllSlabs}
<1>1. PICK k \in Caches : k = mm.cache
  <2>1. mm.cache \in Caches
    BY MemFields
  <2>2. QED
    BY <2>1, Zenon
<1>2. \A c \in DOMAIN Classes : DOMAIN k[c].pool = 1..Len(k[c].pool)
  BY RingFields DEF Caches
<1>3. \A b : b \in AllSlabs <=> \E c \in DOMAIN Classes : b \in Range(k[c].pool)
  BY <1>1, Zenon DEF AllSlabs, Slabs
<1>4. \A c \in DOMAIN Classes : \A b : b \in Range(k[c].pool) <=> \E s \in 1..Len(k[c].pool) : b = k[c].pool[s]
  BY <1>2 DEF Range
<1>5. F = Content(k)
  BY <1>1, Zenon
<1>6. ASSUME NEW b, NEW c \in DOMAIN Classes, b \in Range(k[c].pool)
      PROVE  \E x \in DOMAIN F : b = F[x]
  <2>1. PICK s \in 1..Len(k[c].pool) : b = k[c].pool[s]
    BY <1>4, <1>6
  <2>2. <<c, s>> \in DOMAIN F /\ F[<<c, s>>] = k[c].pool[s]
    BY <1>5, ContentIs
  <2>3. QED
    BY <2>1, <2>2
<1>7. ASSUME NEW x \in DOMAIN F
      PROVE  F[x] \in SlabRecords /\ \E c \in DOMAIN Classes : F[x] \in Range(k[c].pool)
  <2>1. x[1] \in DOMAIN Classes /\ x[2] \in 1..Len(k[x[1]].pool) /\ F[x] = k[x[1]].pool[x[2]] /\ F[x] \in SlabRecords
    BY <1>5, ContentIs
  <2>2. F[x] \in Range(k[x[1]].pool)
    BY <1>4, <2>1
  <2>3. QED
    BY <2>1, <2>2
<1>8. SlabPages(mm) = {slab.page : slab \in AllSlabs}
  BY SlabPagesSet, Zenon DEF AllSlabs, Slabs
<1>9. QED
  BY <1>3, <1>6, <1>7, <1>8

LEMMA InvFacts ==
  ASSUME SysInv
  PROVE  /\ mm \in Mems /\ CacheSide(mm.cache, held, {}) /\ Owned(mm.bits_map, SlabPages(mm), runs)
         /\ Counted(mm) /\ Linked(mm, SlabPages(mm) \cup CachePages(cache) \cup unclean)
         /\ GoodCache(cache) /\ Exact(cache, live) /\ wild \in BOOLEAN /\ (wild => Few(mm))
<1>1. SlabPages(mm) \cup (CachePages(cache) \cup unclean) = SlabPages(mm) \cup CachePages(cache) \cup unclean
  OBVIOUS
<1>2. Objects(cache) \subseteq held /\ Mem(mm, held, {}, runs, CachePages(cache) \cup unclean)
  BY DEF SysInv, System
<1>3. QED
  BY <1>1, <1>2 DEF SysInv, System, Mem, PageSide

LEMMA TypesHold ==
  ASSUME SysInv
  PROVE  TypeOK
<1>1. PICK n \in Nat : n = Cardinality(Pages)
  <2>1. Cardinality(Pages) \in Nat
    BY PageFacts
  <2>2. QED
    BY <2>1, Zenon
<1>2. ASSUME NEW S, S \subseteq Pages
      PROVE  IsFiniteSet(S) /\ Cardinality(S) \in Nat /\ Cardinality(S) <= n
  <2>1. PICK P : P = Pages
    OBVIOUS
  <2>2. IsFiniteSet(P) /\ S \in SUBSET P
    BY <1>2, <2>1, PageFacts
  <2>3. IsFiniteSet(S) /\ Cardinality(S) <= Cardinality(P)
    BY <2>2, FS_Subset
  <2>4. QED
    BY <1>1, <2>1, <2>3, FS_CardinalityType
<1>3. ASSUME NEW z \in ZoneIds
      PROVE  {mm.using[z], mm.free[z], mm.total_pages_link[z]} \subseteq 0..(Cardinality(Pages))
  <2>1. PICK Z : Z = ZonePages(z)
    OBVIOUS
  <2>2. Z \subseteq Pages
    BY <2>1, ZonePlace
  <2>3. PICK c \in Nat : c = Cardinality(Z) /\ c <= n
    BY <1>2, <2>2
  <2>4. PICK f \in Nat : f = mm.free[z]
    BY InvFacts DEF Counted
  <2>5. mm.using \in ZoneNumbers
    BY InvFacts, MemFields
  <2>6. PICK u \in Int : u = mm.using[z]
    <3>1. \A using \in ZoneNumbers : using[z] \in Int
      BY DEF ZoneNumbers
    <3>2. mm.using[z] \in Int
      BY <2>5, <3>1, Zenon
    <3>3. QED
      BY <3>2, Zenon
  <2>7. u + f = c
    BY <2>1, <2>3, <2>4, <2>6, InvFacts DEF Counted
  <2>8. PICK B : B = Z \ mm.bits_map
    OBVIOUS
  <2>9. PICK b \in Nat : b = Cardinality(B) /\ b <= c
    <3>1. IsFiniteSet(Z) /\ B \in SUBSET Z
      BY <1>2, <2>2, <2>8
    <3>2. IsFiniteSet(B) /\ Cardinality(B) <= Cardinality(Z)
      BY <3>1, FS_Subset
    <3>3. QED
      BY <2>3, <3>2, FS_CardinalityType
  <2>10. f = b - (IF z = 1 THEN 1 ELSE 0)
    BY <2>1, <2>4, <2>8, <2>9, InvFacts DEF Counted
  <2>11. f <= b
    BY <2>10
  <2>12. f \in 0..n /\ u \in 0..n
    BY <2>3, <2>7, <2>9, <2>11
  <2>13. PICK L : L = {p \in Realm(z) : mm.reference_count[p] = 1}
    OBVIOUS
  <2>14. L \subseteq Pages
    BY <2>13 DEF Realm
  <2>15. mm.total_pages_link[z] = Cardinality(L)
    BY <2>13, InvFacts DEF Linked
  <2>16. mm.total_pages_link[z] \in 0..n
    BY <1>2, <2>14, <2>15
  <2>17. QED
    BY <1>1, <2>4, <2>6, <2>12, <2>16
<1>4. mm.bits_map \subseteq Bits
  BY InvFacts, MemFields DEF BitMaps
<1>5. \A p \in Pages : mm.reference_count[p] \in {0, 1}
  BY InvFacts DEF Linked
<1>6. held \subseteq Pages \X Nat
  BY InvFacts DEF CacheSide, Possession, UsedOf, ObjectNames
<1>7. QED
  BY <1>3, <1>4, <1>5, <1>6, InvFacts DEF TypeOK

LEMMA PagesHold ==
  ASSUME SysInv
  PROVE  PagesOwnedOnce
<1>1. PICK P : P = {slab.page : slab \in AllSlabs}
  OBVIOUS
<1>2. mm \in Mems
  BY InvFacts
<1>3. SlabPages(mm) = P
  <2>1. PICK F : F = Content(mm.cache)
    OBVIOUS
  <2>2. QED
    BY <1>1, <1>2, <2>1, AllSlabsAre
<1>4. PICK Q : Q = UNION {RunPages(run) : run \in runs}
  OBVIOUS
<1>5. Owned(mm.bits_map, P, runs) /\ RunSet(runs) = Q
  BY <1>3, <1>4, InvFacts, Zenon DEF RunSet
<1>6. /\ mm.bits_map = Holes \cup KernelPages \cup P \cup Q
      /\ P \cap Q = {} /\ KernelPages \cap (P \cup Q) = {}
      /\ \A a, b \in runs : a # b => RunPages(a) \cap RunPages(b) = {}
  BY <1>5 DEF Owned
<1>7. ASSUME NEW c \in DOMAIN Classes, NEW d \in DOMAIN Classes,
             NEW s \in DOMAIN mm.cache[c].pool, NEW t \in DOMAIN mm.cache[d].pool,
             mm.cache[c].pool[s].page = mm.cache[d].pool[t].page
      PROVE  <<c, s>> = <<d, t>>
  <2>1. PICK k \in Caches : k = mm.cache
    <3>1. mm.cache \in Caches
      BY <1>2, MemFields
    <3>2. QED
      BY <3>1, Zenon
  <2>2. \A a \in DOMAIN Classes : DOMAIN k[a].pool = 1..Len(k[a].pool)
    BY RingFields DEF Caches
  <2>3. s \in 1..Len(k[c].pool) /\ t \in 1..Len(k[d].pool) /\ k[c].pool[s].page = k[d].pool[t].page
    BY <1>7, <2>1, <2>2
  <2>4. PICK F : F = Content(k)
    OBVIOUS
  <2>5. PICK x : x = <<c, s>>
    OBVIOUS
  <2>6. PICK y : y = <<d, t>>
    OBVIOUS
  <2>7. x \in DOMAIN F /\ F[x] = k[c].pool[s]
    BY <2>3, <2>4, <2>5, ContentIs
  <2>8. y \in DOMAIN F /\ F[y] = k[d].pool[t]
    BY <2>3, <2>4, <2>6, ContentIs
  <2>9. Apart(F)
    BY <2>1, <2>4, InvFacts DEF CacheSide
  <2>10. F[x].page = F[y].page
    BY <2>3, <2>7, <2>8
  <2>11. x = y
    BY <2>7, <2>8, <2>9, <2>10 DEF Apart
  <2>12. QED
    BY <2>5, <2>6, <2>11, Zenon
<1>8. QED
  BY <1>1, <1>4, <1>6, <1>7, Zenon DEF PagesOwnedOnce

LEMMA ObjectsHold ==
  ASSUME SysInv
  PROVE  ObjectsOwnedOnce
<1>1. PICK F : F = Content(mm.cache)
  OBVIOUS
<1>2. /\ \A b : b \in AllSlabs <=> \E x \in DOMAIN F : b = F[x]
      /\ \A x \in DOMAIN F : F[x] \in SlabRecords
  BY <1>1, InvFacts, AllSlabsAre
<1>3. Apart(F)
  BY <1>1, InvFacts DEF CacheSide
<1>4. Possession(UsedOf(F), SmallOf(F), OwnersOf(F), held, {})
  BY <1>1, InvFacts DEF CacheSide
<1>5. PICK used : used = UNION {{slab.page} \X slab.used : slab \in AllSlabs}
  OBVIOUS
<1>6. PICK own : own = UNION {Range(slab.own) : slab \in AllSlabs}
  OBVIOUS
<1>7. ASSUME NEW o
      PROVE  o \in used <=> o \in UsedOf(F)
  <2>1. o \in used <=> \E b \in AllSlabs : o \in {b.page} \X b.used
    BY <1>5, Zenon
  <2>2. o \in used <=> \E x \in DOMAIN F : o \in {F[x].page} \X F[x].used
    BY <1>2, <2>1, Zenon
  <2>3. ASSUME NEW x \in DOMAIN F, o \in {F[x].page} \X F[x].used
        PROVE  o \in ObjectNames /\ F[x].page = o[1] /\ o[2] \in F[x].used
    <3>1. F[x].page \in Pages /\ F[x].used \subseteq Nat
      BY <1>2, SlabFields
    <3>2. QED
      BY <2>3, <3>1 DEF ObjectNames
  <2>4. ASSUME NEW x \in DOMAIN F, o \in ObjectNames, F[x].page = o[1], o[2] \in F[x].used
        PROVE  o \in {F[x].page} \X F[x].used
    BY <2>4 DEF ObjectNames
  <2>5. QED
    BY <2>2, <2>3, <2>4 DEF UsedOf
<1>8. ASSUME NEW x \in DOMAIN F, NEW o
      PROVE  o \in Range(F[x].own) <=> <<F[x].page, o>> \in OwnPairs(F[x])
  <2>1. PICK q \in Seq(ObjectNames) : q = F[x].own
    BY <1>2, SlabFields
  <2>2. PICK p \in Pages : p = F[x].page
    BY <1>2, SlabFields
  <2>3. o \in Range(q) <=> \E j \in 1..Len(q) : q[j] = o
    BY DEF Range
  <2>4. \A j \in 1..Len(q) : q[j] \in ObjectNames
    BY ElementOfSeq
  <2>5. <<p, o>> \in OwnPairs(F[x]) <=> o \in ObjectNames /\ \E j \in 1..Len(q) : q[j] = o
    BY <2>1, <2>2 DEF OwnPairs
  <2>6. QED
    BY <2>1, <2>2, <2>3, <2>4, <2>5
<1>9. ASSUME NEW x \in DOMAIN F, NEW o
      PROVE  o \in Range(F[x].own) => <<F[x].page, o>> \in OwnersOf(F)
  BY <1>8 DEF OwnersOf, OwnPairs
<1>10. ASSUME NEW w \in OwnersOf(F)
       PROVE  \E x \in DOMAIN F : w[2] \in Range(F[x].own)
  <2>1. PICK x \in DOMAIN F : w \in OwnPairs(F[x])
    BY DEF OwnersOf
  <2>2. w[1] = F[x].page /\ w = <<w[1], w[2]>>
    BY <2>1 DEF OwnPairs
  <2>3. w[2] \in Range(F[x].own)
    BY <1>8, <2>1, <2>2
  <2>4. QED
    BY <2>3
<1>11. ASSUME NEW o
       PROVE  o \in own <=> \E x \in DOMAIN F : o \in Range(F[x].own)
  <2>1. o \in own <=> \E b \in AllSlabs : o \in Range(b.own)
    BY <1>6, Zenon
  <2>2. (\E b \in AllSlabs : o \in Range(b.own)) <=> \E x \in DOMAIN F : o \in Range(F[x].own)
    BY <1>2, Zenon
  <2>3. QED
    BY <2>1, <2>2, Zenon
<1>12. \A o \in own : \E w \in OwnersOf(F) : w[2] = o
  <2>1. ASSUME NEW o \in own
        PROVE  \E w \in OwnersOf(F) : w[2] = o
    <3>1. PICK x \in DOMAIN F : o \in Range(F[x].own)
      BY <1>11
    <3>2. PICK w : w = <<F[x].page, o>>
      OBVIOUS
    <3>3. w \in OwnersOf(F) /\ w[2] = o
      BY <1>9, <3>1, <3>2
    <3>4. QED
      BY <3>3
  <2>2. QED
    BY <2>1
<1>13. \A w \in OwnersOf(F) : w[2] \in own
  BY <1>10, <1>11
<1>14. used = held \cup own /\ held \cap own = {}
  <2>1. \A o \in held : o \in UsedOf(F) /\ o \notin own
    BY <1>4, <1>12 DEF Possession
  <2>2. \A o \in own : o \in UsedOf(F)
    BY <1>4, <1>12 DEF Possession
  <2>3. \A o \in UsedOf(F) : o \in held \/ o \in own
    BY <1>4, <1>13 DEF Possession
  <2>4. QED
    BY <1>7, <2>1, <2>2, <2>3
<1>15. ASSUME NEW s \in AllSlabs, NEW t \in AllSlabs, NEW o, o \in Range(s.own), o \in Range(t.own)
       PROVE  s = t
  <2>1. PICK x \in DOMAIN F : s = F[x]
    BY <1>2
  <2>2. PICK y \in DOMAIN F : t = F[y]
    BY <1>2
  <2>3. PICK v : v = <<F[x].page, o>>
    OBVIOUS
  <2>4. PICK w : w = <<F[y].page, o>>
    OBVIOUS
  <2>5. v \in OwnersOf(F) /\ w \in OwnersOf(F)
    BY <1>9, <1>15, <2>1, <2>2, <2>3, <2>4
  <2>6. v[2] = w[2]
    BY <2>3, <2>4
  <2>7. v = w
    BY <1>4, <2>5, <2>6 DEF Possession
  <2>8. F[x].page = F[y].page
    BY <2>3, <2>4, <2>7
  <2>9. x = y
    BY <1>3, <2>8 DEF Apart
  <2>10. QED
    BY <2>1, <2>2, <2>9
<1>16. \A s, t \in AllSlabs : s # t => Range(s.own) \cap Range(t.own) = {}
  BY <1>15
<1>17. QED
  BY <1>5, <1>6, <1>14, <1>16, Zenon DEF ObjectsOwnedOnce

LEMMA CountsHold ==
  ASSUME SysInv
  PROVE  CountsAgree
<1>1. ZoneCounts
  BY InvFacts DEF Counted, ZoneCounts
<1>2. SlabCounts
  <2>1. ASSUME NEW c \in DOMAIN Classes
        PROVE  /\ mm.cache[c].total_free = Total(c, "free_count")
               /\ mm.cache[c].total_using = Total(c, "using_count")
               /\ \A slab \in Slabs(c) : /\ slab.using_count = Cardinality(slab.used)
                                         /\ slab.free_count = slab.color_count - slab.using_count
    <3>1. GoodRing(c, mm.cache[c])
      BY InvFacts DEF CacheSide
    <3>2. \A field : Total(c, field) = Sum(Column(mm.cache[c].pool, field))
      BY Zenon DEF Total, Column
    <3>3. mm.cache[c].total_free = Total(c, "free_count") /\ mm.cache[c].total_using = Total(c, "using_count")
      BY <3>1, <3>2, Zenon DEF GoodRing
    <3>4. PICK e \in CacheRecords : e = mm.cache[c]
      <4>1. mm.cache \in Caches
        BY InvFacts, MemFields
      <4>2. mm.cache[c] \in CacheRecords
        BY <4>1 DEF Caches
      <4>3. QED
        BY <4>2, Zenon
    <3>5. DOMAIN e.pool = 1..Len(e.pool)
      BY RingFields
    <3>6. \A slab \in Slabs(c) : \E s \in 1..Len(e.pool) : slab = e.pool[s]
      BY <3>4, <3>5 DEF Slabs, Range
    <3>7. \A s \in 1..Len(e.pool) : GoodSlab(e.pool[s])
      BY <3>1, <3>4 DEF GoodRing
    <3>8. \A slab \in Slabs(c) : GoodSlab(slab)
      BY <3>6, <3>7
    <3>9. QED
      BY <3>3, <3>8, Zenon DEF GoodSlab
  <2>2. QED
    BY <2>1, Zenon DEF SlabCounts
<1>3. LinksCount({s.page : s \in Range(cache.pool)} \cup unclean)
  <2>1. PICK P : P = {s.page : s \in AllSlabs}
    OBVIOUS
  <2>2. SlabPages(mm) = P
    <3>1. PICK F : F = Content(mm.cache)
      OBVIOUS
    <3>2. QED
      BY <2>1, <3>1, InvFacts, AllSlabsAre
  <2>3. PICK others : others = {s.page : s \in Range(cache.pool)} \cup unclean
    OBVIOUS
  <2>4. others = CachePages(cache) \cup unclean
    BY <2>3, InvFacts, CacheHas DEF CacheView
  <2>5. SlabPages(mm) \cup CachePages(cache) \cup unclean = P \cup others
    BY <2>2, <2>4
  <2>6. Linked(mm, P \cup others)
    BY <2>5, InvFacts, Zenon
  <2>7. \A p \in Pages : mm.reference_count[p] = 1 <=> p \in KernelPages \cup P \cup others
    BY <2>6 DEF Linked
  <2>8. ASSUME NEW z \in ZoneIds
        PROVE  mm.total_pages_link[z] =
                 Cardinality({p \in Pages \ (Holes \ {0}) : ZoneOf(p) = z /\ mm.reference_count[p] = 1})
    <3>1. {p \in Realm(z) : mm.reference_count[p] = 1}
            = {p \in Pages \ (Holes \ {0}) : ZoneOf(p) = z /\ mm.reference_count[p] = 1}
      BY DEF Realm
    <3>2. QED
      BY <2>6, <3>1, Zenon DEF Linked
  <2>9. LinksCount(others)
    BY <2>1, <2>7, <2>8, Zenon DEF LinksCount
  <2>10. QED
    BY <2>3, <2>9, Zenon
<1>4. QED
  BY <1>1, <1>2, <1>3, InvFacts, Zenon DEF CountsAgree, Few

LEMMA ExactHolds ==
  ASSUME SysInv
  PROVE  CacheExact
<1>1. PICK k : k = cache
  OBVIOUS
<1>2. GoodCache(k) /\ Exact(k, live) /\ k \in CacheShapes
  BY <1>1, InvFacts DEF GoodCache
<1>3. DOMAIN k.pool = 1..Len(k.pool) /\ \A s \in 1..Len(k.pool) : k.pool[s] \in SlabRecords
  BY <1>2, CacheFields
<1>4. \A b : b \in Range(k.pool) <=> \E s \in 1..Len(k.pool) : b = k.pool[s]
  BY <1>3 DEF Range
<1>5. PICK V : V = UNION {{s.page} \X s.used : s \in Range(k.pool)}
  OBVIOUS
<1>6. ASSUME NEW o
      PROVE  o \in V <=> o \in InUse(k)
  <2>1. o \in V <=> \E b \in Range(k.pool) : o \in {b.page} \X b.used
    BY <1>5, Zenon
  <2>2. o \in V <=> \E s \in 1..Len(k.pool) : o \in {k.pool[s].page} \X k.pool[s].used
    BY <1>4, <2>1, Zenon
  <2>3. ASSUME NEW s \in 1..Len(k.pool), o \in {k.pool[s].page} \X k.pool[s].used
        PROVE  o \in ObjectNames /\ k.pool[s].page = o[1] /\ o[2] \in k.pool[s].used
    <3>1. k.pool[s].page \in Pages /\ k.pool[s].used \subseteq Nat
      BY <1>3, SlabFields
    <3>2. QED
      BY <2>3, <3>1 DEF ObjectNames
  <2>4. ASSUME NEW s \in 1..Len(k.pool), o \in ObjectNames, k.pool[s].page = o[1], o[2] \in k.pool[s].used
        PROVE  o \in {k.pool[s].page} \X k.pool[s].used
    BY <2>4 DEF ObjectNames
  <2>5. QED
    BY <2>2, <2>3, <2>4 DEF InUse
<1>7. live = V
  BY <1>2, <1>6 DEF Exact
<1>8. \A b \in Range(k.pool) : b.free_count <= Count - Cardinality(b.used)
  BY <1>2, <1>4 DEF Exact, Filled
<1>9. k.total_using = Cardinality(live) /\ k.total_using + k.total_free = Count * Len(k.pool)
  BY <1>2, Zenon DEF Exact
<1>10. QED
  BY <1>1, <1>5, <1>7, <1>8, <1>9, Zenon DEF CacheExact

(* Every page and every object has one owner: what a cache holds nobody    *)
(* else is given, a failed call gives back all it took, and the release of *)
(* a slab returns its page, its structure and its map.                     *)
THEOREM EachHasOneOwner == CacheSpec => []OwnedOnce
<1>1. SysInv => OwnedOnce
  BY TypesHold, PagesHold, ObjectsHold DEF OwnedOnce
<1>2. QED
  BY <1>1, CacheInvariant, PTL

(* The counts of zones, pages and classes agree with what is taken, and a  *)
(* write through a null pointer needs a zone that is all but full.         *)
THEOREM CountsAreRight == CacheSpec => []CountsAgree
<1>1. SysInv => CountsAgree
  BY CountsHold
<1>2. QED
  BY <1>1, CacheInvariant, PTL

(* A cache gives no object twice and counts them exactly, although its     *)
(* slabs do not.                                                           *)
THEOREM CacheIsExact == CacheSpec => []CacheExact
<1>1. SysInv => CacheExact
  BY ExactHolds
<1>2. QED
  BY <1>1, CacheInvariant, PTL

(* A class that releases a slab has another free object, and slab_init's   *)
(* slabs stay.                                                             *)
THEOREM ReserveIsKept == CacheSpec => ReleaseKeepsReserve
<1>1. ASSUME SysInv, CacheNext
      PROVE  \A c \in DOMAIN Classes : Len(mm'.cache[c].pool) < Len(mm.cache[c].pool) =>
               mm'.cache[c].total_free > 0 /\ mm'.cache[c].pool[1].page = StaticPage(c)
  <2>1. SysInv' /\ Reserve(mm, mm')
    BY <1>1, StepSystem
  <2>2. PICK r : r = mm'
    OBVIOUS
  <2>3. Objects(cache') \subseteq held' /\ Mem(r, held', {}, runs', CachePages(cache') \cup unclean')
    BY <2>1, <2>2 DEF SysInv, System
  <2>4. \A c \in DOMAIN Classes : r.cache[c].pool[1].page = StaticPage(c)
    BY <2>3 DEF Mem, CacheSide, GoodRing
  <2>5. QED
    BY <2>1, <2>2, <2>4 DEF Reserve
<1>2. ASSUME SysInv, UNCHANGED <<vars, cacheVars>>
      PROVE  UNCHANGED vars
  BY <1>2
<1>3. SysInv /\ [CacheNext]_<<vars, cacheVars>> =>
        [\A c \in DOMAIN Classes : Len(mm'.cache[c].pool) < Len(mm.cache[c].pool) =>
           mm'.cache[c].total_free > 0 /\ mm'.cache[c].pool[1].page = StaticPage(c)]_vars
  BY <1>1, <1>2
<1>4. QED
  BY <1>3, CacheInvariant, PTL DEF CacheSpec, ReleaseKeepsReserve
=============================================================================
