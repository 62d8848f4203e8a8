---------------------------- MODULE MemoryProofs ----------------------------
(***************************************************************************)
(* Proofs about Memory.tla, for any map of the firmware, any pages and any *)
(* size classes: what each operation of the page allocator and of kmalloc  *)
(* does to an order of the whole memory (Mem), which it keeps.             *)
(***************************************************************************)
EXTENDS Memory, FiniteSetTheorems, SequenceTheorems, WellFoundedInduction, TLAPS
-----------------------------------------------------------------------------
(* Least numbers.                                                          *)
Before == {w \in Nat \X Nat : w[1] < w[2]}

LEMMA BeforeWellFounded == IsWellFoundedOn(Before, Nat)
<1>1. Before = OpToRel(<, Nat)
  BY DEF Before, OpToRel
<1>2. QED
  BY Zenon, <1>1, NatLessThanWellFounded

LEMMA LeastExists ==
  ASSUME NEW S, S \subseteq Nat, S # {}
  PROVE  \E m \in S : \A x \in S : m <= x
<1>1. PICK m \in S : \A x \in S : ~ <<x, m>> \in Before
  BY BeforeWellFounded, WFMin
<1>2. ASSUME NEW x \in S
      PROVE  m <= x
  <2>1. m \in Nat /\ x \in Nat /\ (<<x, m>> \in Before <=> x < m)
    BY DEF Before
  <2>2. QED
    BY <1>1, <2>1
<1>3. QED
  BY <1>2

LEMMA LeastIs ==
  ASSUME NEW S, S \subseteq Nat, S # {}
  PROVE  Least(S) \in S /\ Least(S) \in Nat /\ \A x \in S : Least(S) <= x
<1>1. \E m \in S : \A x \in S : m <= x
  BY LeastExists
<1>2. QED
  BY <1>1 DEF Least

LEMMA LeastOfOne ==
  ASSUME NEW x \in Nat
  PROVE  Least({x}) = x
<1>1. {x} \subseteq Nat /\ {x} # {}
  OBVIOUS
<1>2. Least({x}) \in {x}
  BY <1>1, LeastIs, Zenon
<1>3. QED
  BY <1>2
-----------------------------------------------------------------------------
(* Sums.                                                                   *)
SumsTo(f, g) == g = [i \in 0..Len(f) |-> IF i = 0 THEN 0 ELSE g[i - 1] + f[i]]

LEMMA SumsUnique ==
  ASSUME NEW f \in Seq(Int), NEW g, NEW h, SumsTo(f, g), SumsTo(f, h)
  PROVE  \A i \in 0..Len(f) : g[i] = h[i]
<1>1. PICK bad : bad = {i \in 0..Len(f) : g[i] # h[i]}
  OBVIOUS
<1>2. SUFFICES ASSUME bad # {}
               PROVE  FALSE
  BY <1>1
<1>3. bad \subseteq Nat
  BY <1>1
<1>4. PICK m \in bad : \A k \in bad : m <= k
  BY <1>2, <1>3, LeastExists
<1>5. m \in 0..Len(f) /\ g[m] # h[m]
  BY <1>1, <1>4
<1>6. g[m] = (IF m = 0 THEN 0 ELSE g[m - 1] + f[m]) /\ h[m] = (IF m = 0 THEN 0 ELSE h[m - 1] + f[m])
  BY <1>5, Zenon DEF SumsTo
<1>7. m # 0
  BY <1>5, <1>6
<1>8. m - 1 \in 0..Len(f) /\ ~ (m <= m - 1)
  BY <1>5, <1>7
<1>9. g[m - 1] = h[m - 1]
  BY <1>1, <1>4, <1>8
<1>10. QED
  BY <1>5, <1>6, <1>7, <1>9

(* Whatever adds up from 0 is the sum.                                     *)
LEMMA SumIs ==
  ASSUME NEW f \in Seq(Int), NEW g, SumsTo(f, g)
  PROVE  Sum(f) = g[Len(f)]
<1>1. PICK h : h = CHOOSE x : SumsTo(f, x)
  OBVIOUS
<1>2. SumsTo(f, h)
  BY <1>1, Zenon
<1>3. Sum(f) = h[Len(f)]
  BY <1>1 DEF Sum, SumsTo
<1>4. Len(f) \in 0..Len(f)
  OBVIOUS
<1>5. QED
  BY <1>2, <1>3, <1>4, SumsUnique

LEMMA SumIsAt ==
  ASSUME NEW f \in Seq(Int), NEW g, DOMAIN g = 0..Len(f), g = [i \in DOMAIN g |-> g[i]], g[0] = 0,
         \A i \in 1..Len(f) : g[i] = g[i - 1] + f[i]
  PROVE  Sum(f) = g[Len(f)]
<1>1. ASSUME NEW i \in 0..Len(f)
      PROVE  g[i] = IF i = 0 THEN 0 ELSE g[i - 1] + f[i]
  <2>1. i = 0 \/ i \in 1..Len(f)
    OBVIOUS
  <2>2. i \in 1..Len(f) => i # 0
    OBVIOUS
  <2>3. QED
    BY <2>1, <2>2
<1>2. g = [i \in 0..Len(f) |-> g[i]]
  BY Zenon
<1>3. SumsTo(f, g)
  BY <1>1, <1>2 DEF SumsTo
<1>4. QED
  BY <1>3, SumIs

AddsUp(f, g, n) ==
  /\ g \in [0..n -> Int]
  /\ g[0] = 0
  /\ \A i \in 1..n : g[i] = g[i - 1] + f[i]

LEMMA PrefixExists ==
  ASSUME NEW f \in Seq(Int)
  PROVE  \A n \in 0..Len(f) : \E g : AddsUp(f, g, n)
<1>1. PICK bad : bad = {n \in 0..Len(f) : ~ \E g : AddsUp(f, g, n)}
  OBVIOUS
<1>2. SUFFICES ASSUME bad # {}
               PROVE  FALSE
  BY <1>1
<1>3. bad \subseteq Nat
  BY <1>1
<1>4. PICK m \in bad : \A k \in bad : m <= k
  BY <1>2, <1>3, LeastExists
<1>5. m \in 0..Len(f) /\ m \in Nat /\ ~ \E g : AddsUp(f, g, m)
  BY <1>1, <1>4
<1>6. CASE m = 0
  <2>1. AddsUp(f, [i \in 0..0 |-> 0], 0)
    BY DEF AddsUp
  <2>2. QED
    BY <1>5, <1>6, <2>1
<1>7. CASE m # 0
  <2>1. m - 1 \in 0..Len(f) /\ ~ (m <= m - 1)
    BY <1>5, <1>7
  <2>2. PICK g : AddsUp(f, g, m - 1)
    BY <1>1, <1>4, <2>1
  <2>3. m \in 1..Len(f) /\ f[m] \in Int /\ g[m - 1] \in Int
    BY <1>5, <1>7, <2>2 DEF AddsUp
  <2>4. PICK x \in Int : x = g[m - 1] + f[m]
    BY <2>3
  <2>5. PICK h : h = [i \in 0..m |-> IF i = m THEN x ELSE g[i]]
    OBVIOUS
  <2>6. \A i \in 0..(m - 1) : h[i] = g[i] /\ g[i] \in Int
    BY <1>5, <2>2, <2>5 DEF AddsUp
  <2>7. h \in [0..m -> Int] /\ h[m] = x
    <3>1. \A i \in 0..m : i = m \/ i \in 0..(m - 1)
      BY <1>5
    <3>2. ASSUME NEW i \in 0..m
          PROVE  (IF i = m THEN x ELSE g[i]) \in Int
      BY <2>2, <3>1 DEF AddsUp
    <3>3. m \in 0..m
      BY <1>5
    <3>4. QED
      BY <2>5, <3>2, <3>3
  <2>8. h[0] = 0
    BY <1>5, <1>7, <2>2, <2>6 DEF AddsUp
  <2>9. ASSUME NEW i \in 1..m
        PROVE  h[i] = h[i - 1] + f[i]
    <3>1. CASE i = m
      BY <1>5, <1>7, <2>4, <2>6, <2>7, <3>1
    <3>2. CASE i # m
      <4>1. i \in 1..(m - 1) /\ i \in 0..(m - 1) /\ i - 1 \in 0..(m - 1)
        BY <1>5, <3>2
      <4>2. QED
        BY <2>2, <2>6, <4>1 DEF AddsUp
    <3>3. QED
      BY <3>1, <3>2
  <2>10. AddsUp(f, h, m)
    BY <2>7, <2>8, <2>9 DEF AddsUp
  <2>11. QED
    BY <1>5, <2>10
<1>8. QED
  BY <1>6, <1>7

LEMMA SumOf ==
  ASSUME NEW f \in Seq(Int)
  PROVE  \E g : AddsUp(f, g, Len(f)) /\ Sum(f) = g[Len(f)] /\ Sum(f) \in Int
<1>1. Len(f) \in 0..Len(f)
  OBVIOUS
<1>2. PICK g : AddsUp(f, g, Len(f))
  BY <1>1, PrefixExists
<1>3. Sum(f) = g[Len(f)]
  <2>1. DOMAIN g = 0..Len(f) /\ g = [i \in DOMAIN g |-> g[i]] /\ g[0] = 0
    BY <1>2 DEF AddsUp
  <2>2. \A i \in 1..Len(f) : g[i] = g[i - 1] + f[i]
    BY <1>2 DEF AddsUp
  <2>3. QED
    BY <2>1, <2>2, SumIsAt
<1>4. g[Len(f)] \in Int
  BY <1>1, <1>2 DEF AddsUp
<1>5. QED
  BY <1>2, <1>3, <1>4

LEMMA SumNat ==
  ASSUME NEW f \in Seq(Nat)
  PROVE  Sum(f) \in Nat /\ \A i \in 1..Len(f) : f[i] <= Sum(f)
<1>1. f \in Seq(Int) /\ Len(f) \in Nat /\ \A i \in 1..Len(f) : f[i] \in Nat
  OBVIOUS
<1>2. PICK g : AddsUp(f, g, Len(f)) /\ Sum(f) = g[Len(f)]
  BY <1>1, SumOf
<1>3. PICK bad : bad = {n \in 0..Len(f) : ~ (g[n] \in Nat /\ \A i \in 1..n : f[i] <= g[n])}
  OBVIOUS
<1>4. ASSUME bad # {}
      PROVE  FALSE
  <2>1. bad \subseteq Nat
    BY <1>3
  <2>2. PICK m \in bad : \A k \in bad : m <= k
    BY <1>4, <2>1, LeastExists
  <2>3. m \in 0..Len(f) /\ m \in Nat /\ ~ (g[m] \in Nat /\ \A i \in 1..m : f[i] <= g[m])
    BY <1>3, <2>2
  <2>4. m # 0
    BY <1>2, <2>3 DEF AddsUp
  <2>5. m - 1 \in 0..Len(f) /\ ~ (m <= m - 1) /\ m \in 1..Len(f)
    BY <2>3, <2>4
  <2>6. m - 1 \notin bad
    BY <2>2, <2>5
  <2>7. g[m - 1] \in Nat /\ \A i \in 1..(m - 1) : f[i] <= g[m - 1]
    BY <1>3, <2>5, <2>6
  <2>8. g[m] = g[m - 1] + f[m] /\ f[m] \in Nat
    BY <1>1, <1>2, <2>5 DEF AddsUp
  <2>9. ASSUME NEW i \in 1..m
        PROVE  f[i] <= g[m]
    <3>1. i = m \/ i \in 1..(m - 1)
      BY <2>5
    <3>2. i \in 1..Len(f)
      BY <1>1, <2>5
    <3>3. QED
      BY <1>1, <2>7, <2>8, <3>1, <3>2
  <2>10. QED
    BY <2>3, <2>7, <2>8, <2>9
<1>5. Len(f) \in 0..Len(f)
  BY <1>1
<1>6. QED
  BY <1>2, <1>3, <1>4, <1>5

LEMMA SumZero ==
  ASSUME NEW f \in Seq(Int), \A i \in 1..Len(f) : f[i] = 0
  PROVE  Sum(f) = 0
<1>1. PICK g : g = [i \in 0..Len(f) |-> 0]
  OBVIOUS
<1>2. DOMAIN g = 0..Len(f) /\ g = [i \in DOMAIN g |-> g[i]] /\ g[0] = 0 /\ g[Len(f)] = 0
  BY <1>1
<1>3. \A i \in 1..Len(f) : g[i] = g[i - 1] + f[i]
  BY <1>1
<1>4. QED
  BY <1>2, <1>3, SumIsAt

LEMMA SumAppend ==
  ASSUME NEW f \in Seq(Int), NEW x \in Int
  PROVE  Sum(Append(f, x)) = Sum(f) + x
<1>1. PICK g : AddsUp(f, g, Len(f)) /\ Sum(f) = g[Len(f)] /\ Sum(f) \in Int
  BY SumOf
<1>2. PICK e \in Seq(Int) : e = Append(f, x)
  <2>1. Append(f, x) \in Seq(Int)
    OBVIOUS
  <2>2. QED
    BY <2>1, Zenon
<1>3. Len(e) = Len(f) + 1 /\ e[Len(f) + 1] = x /\ Len(f) \in Nat /\ \A i \in 1..Len(f) : e[i] = f[i]
  BY <1>2
<1>4. PICK s \in Int : s = Sum(f) + x
  <2>1. Sum(f) + x \in Int
    BY <1>1
  <2>2. QED
    BY <2>1, Zenon
<1>5. PICK h : h = [i \in 0..Len(e) |-> IF i = Len(e) THEN s ELSE g[i]]
  OBVIOUS
<1>6. DOMAIN h = 0..Len(e) /\ h = [i \in DOMAIN h |-> h[i]] /\ h[Len(e)] = s
      /\ \A i \in 0..Len(f) : h[i] = g[i]
  BY <1>3, <1>5
<1>7. h[0] = 0
  BY <1>1, <1>3, <1>6 DEF AddsUp
<1>8. ASSUME NEW i \in 1..Len(e)
      PROVE  h[i] = h[i - 1] + e[i]
  <2>1. CASE i = Len(e)
    <3>1. i - 1 = Len(f) /\ Len(f) \in 0..Len(f) /\ e[i] = x
      BY <1>3, <2>1
    <3>2. QED
      BY <1>1, <1>4, <1>6, <2>1, <3>1
  <2>2. CASE i # Len(e)
    <3>1. i \in 1..Len(f) /\ i \in 0..Len(f) /\ i - 1 \in 0..Len(f)
      BY <1>3, <2>2
    <3>2. QED
      BY <1>1, <1>3, <1>6, <3>1 DEF AddsUp
  <2>3. QED
    BY <2>1, <2>2
<1>9. Sum(e) = h[Len(e)]
  BY <1>6, <1>7, <1>8, SumIsAt
<1>10. QED
  BY <1>2, <1>4, <1>6, <1>9

LEMMA SumSwap ==
  ASSUME NEW f \in Seq(Int), NEW s \in 1..Len(f), NEW x \in Int
  PROVE  Sum([f EXCEPT ![s] = x]) = (Sum(f) - f[s]) + x
<1>1. PICK g : AddsUp(f, g, Len(f)) /\ Sum(f) = g[Len(f)] /\ Sum(f) \in Int
  BY SumOf
<1>2. PICK e \in Seq(Int) : e = [f EXCEPT ![s] = x]
  <2>1. [f EXCEPT ![s] = x] \in Seq(Int)
    OBVIOUS
  <2>2. QED
    BY <2>1, Zenon
<1>3. Len(e) = Len(f) /\ e[s] = x /\ f[s] \in Int /\ Len(f) \in Nat
      /\ \A i \in 1..Len(f) : f[i] \in Int /\ (i # s => e[i] = f[i])
  BY <1>2
<1>4. /\ g[0] = 0 /\ \A i \in 0..Len(f) : g[i] \in Int
      /\ \A i \in 1..Len(f) : g[i] = g[i - 1] + f[i]
  BY <1>1 DEF AddsUp
<1>5. PICK h : h = [i \in 0..Len(e) |-> IF i < s THEN g[i] ELSE (g[i] - f[s]) + x]
  OBVIOUS
<1>6. DOMAIN h = 0..Len(e) /\ h = [i \in DOMAIN h |-> h[i]]
      /\ \A i \in 0..Len(f) : h[i] = IF i < s THEN g[i] ELSE (g[i] - f[s]) + x
  BY <1>3, <1>5
<1>7. h[0] = 0
  <2>1. 0 \in 0..Len(f) /\ 0 < s
    BY <1>3
  <2>2. QED
    BY <1>4, <1>6, <2>1
<1>8. ASSUME NEW i \in 1..Len(e)
      PROVE  h[i] = h[i - 1] + e[i]
  <2>1. i \in 1..Len(f) /\ i \in 0..Len(f) /\ i - 1 \in 0..Len(f)
    BY <1>3
  <2>2. g[i] = g[i - 1] + f[i] /\ g[i - 1] \in Int /\ f[i] \in Int /\ g[i] \in Int
    BY <1>3, <1>4, <2>1
  <2>20. h[i] = (IF i < s THEN g[i] ELSE (g[i] - f[s]) + x)
         /\ h[i - 1] = (IF i - 1 < s THEN g[i - 1] ELSE (g[i - 1] - f[s]) + x)
    BY <1>6, <2>1
  <2>3. CASE i < s
    BY <1>3, <2>1, <2>2, <2>20, <2>3
  <2>4. CASE i = s
    <3>1. h[i] = (g[i] - f[s]) + x /\ h[i - 1] = g[i - 1] /\ e[i] = x
      <4>1. ~(i < s) /\ i - 1 < s
        BY <1>3, <2>1, <2>4
      <4>2. h[i] = (g[i] - f[s]) + x /\ h[i - 1] = g[i - 1]
        BY <2>20, <4>1, Zenon
      <4>3. e[i] = x
        BY <1>3, <2>1, <2>4
      <4>4. QED
        BY <4>2, <4>3
    <3>2. g[i - 1] \in Int /\ f[i] \in Int /\ g[i] = g[i - 1] + f[i] /\ f[i] = f[s]
      BY <2>2, <2>4, Zenon
    <3>3. \A a, b \in Int : (a + b) - b = a
      OBVIOUS
    <3>4. g[i] - f[s] = g[i - 1]
      BY <3>2, <3>3
    <3>5. QED
      BY <3>1, <3>4, Zenon
  <2>5. CASE i > s
    <3>1. ~ (i < s) /\ ~ (i - 1 < s) /\ i # s
      BY <1>3, <2>1, <2>5
    <3>2. h[i] = (g[i] - f[s]) + x /\ h[i - 1] = (g[i - 1] - f[s]) + x /\ e[i] = f[i]
      BY <1>3, <2>1, <2>20, <3>1
    <3>3. f[s] \in Int
      BY <1>3
    <3>4. \A a, b, c, d \in Int : ((a + b) - c) + d = ((a - c) + d) + b
      OBVIOUS
    <3>5. QED
      BY <2>2, <3>2, <3>3, <3>4
  <2>6. i < s \/ i = s \/ i > s
    BY <1>3, <2>1
  <2>7. QED
    BY <2>3, <2>4, <2>5, <2>6
<1>9. Sum(e) = h[Len(e)]
  BY <1>6, <1>7, <1>8, SumIsAt
<1>10. h[Len(e)] = (g[Len(f)] - f[s]) + x
  BY <1>3, <1>6
<1>11. QED
  BY <1>1, <1>2, <1>9, <1>10

(* What is left of a sequence when one element goes.                       *)
LEMMA RemoveAtIs ==
  ASSUME NEW T, NEW q \in Seq(T), NEW s \in 1..Len(q)
  PROVE  /\ RemoveAt(q, s) \in Seq(T)
         /\ Len(RemoveAt(q, s)) = Len(q) - 1
         /\ \A i \in 1..(Len(q) - 1) : RemoveAt(q, s)[i] = IF i < s THEN q[i] ELSE q[i + 1]
<1>0. Len(q) \in Nat /\ s \in Nat /\ s - 1 \in Int /\ s + 1 \in Int
  OBVIOUS
<1>1. PICK a \in Seq(T) : a = SubSeq(q, 1, s - 1)
  <2>1. SubSeq(q, 1, s - 1) \in Seq(T)
    OBVIOUS
  <2>2. QED
    BY <2>1, Zenon
<1>2. PICK b \in Seq(T) : b = SubSeq(q, s + 1, Len(q))
  <2>1. SubSeq(q, s + 1, Len(q)) \in Seq(T)
    OBVIOUS
  <2>2. QED
    BY <2>1, Zenon
<1>3. Len(a) = s - 1 /\ \A i \in 1..(s - 1) : a[i] = q[i]
  BY <1>0, <1>1
<1>4. Len(b) = Len(q) - s /\ \A i \in 1..(Len(q) - s) : b[i] = q[s + i]
  BY <1>0, <1>2
<1>5. PICK r \in Seq(T) : r = a \o b
  <2>1. a \o b \in Seq(T)
    OBVIOUS
  <2>2. QED
    BY <2>1, Zenon
<1>6. RemoveAt(q, s) = r
  BY <1>1, <1>2, <1>5 DEF RemoveAt
<1>7. Len(r) = Len(a) + Len(b)
      /\ \A i \in 1..Len(r) : r[i] = IF i <= Len(a) THEN a[i] ELSE b[i - Len(a)]
  BY <1>5
<1>8. Len(r) = Len(q) - 1
  BY <1>0, <1>3, <1>4, <1>7
<1>9. ASSUME NEW i \in 1..(Len(q) - 1)
      PROVE  r[i] = IF i < s THEN q[i] ELSE q[i + 1]
  <2>1. i \in 1..Len(r)
    BY <1>8
  <2>2. CASE i < s
    <3>1. i \in 1..(s - 1) /\ i <= Len(a)
      BY <1>0, <1>3, <2>2
    <3>2. QED
      BY <1>3, <1>7, <2>1, <2>2, <3>1
  <2>3. CASE ~ (i < s)
    <3>1. ~ (i <= Len(a)) /\ i - Len(a) = i - (s - 1) /\ i - (s - 1) \in 1..(Len(q) - s)
      BY <1>0, <1>3, <2>3
    <3>2. s + (i - (s - 1)) = i + 1
      BY <1>0
    <3>3. r[i] = b[i - (s - 1)]
      BY <1>7, <2>1, <3>1
    <3>4. b[i - (s - 1)] = q[s + (i - (s - 1))]
      BY <1>4, <3>1
    <3>5. QED
      BY <2>3, <3>2, <3>3, <3>4
  <2>4. QED
    BY <2>2, <2>3
<1>10. QED
  BY <1>6, <1>8, <1>9

(* The same element by element.                                            *)
Thinned(q, r, s) ==
  /\ \A i \in 1..Len(r) : \E j \in 1..Len(q) : j # s /\ r[i] = q[j]
  /\ \A i, k \in 1..Len(r) : \E j, l \in 1..Len(q) :
       j # s /\ l # s /\ r[i] = q[j] /\ r[k] = q[l] /\ (j = l <=> i = k)
  /\ \A j \in 1..Len(q) : j # s => \E i \in 1..Len(r) : r[i] = q[j]

LEMMA RemoveAtHas ==
  ASSUME NEW T, NEW q \in Seq(T), NEW s \in 1..Len(q), NEW r, r = RemoveAt(q, s)
  PROVE  Thinned(q, r, s)
<1>1. Len(q) \in Nat /\ s \in Nat /\ Len(r) = Len(q) - 1
      /\ \A i \in 1..(Len(q) - 1) : r[i] = IF i < s THEN q[i] ELSE q[i + 1]
  BY RemoveAtIs
<1>2. PICK old : old = [i \in 1..Len(r) |-> IF i < s THEN i ELSE i + 1]
  OBVIOUS
<1>3. ASSUME NEW i \in 1..Len(r)
      PROVE  old[i] \in 1..Len(q) /\ old[i] # s /\ r[i] = q[old[i]]
  BY <1>1, <1>2
<1>4. ASSUME NEW i \in 1..Len(r), NEW k \in 1..Len(r)
      PROVE  (old[i] = old[k] <=> i = k) /\ old[i] \in 1..Len(q) /\ old[k] \in 1..Len(q)
  BY <1>1, <1>2
<1>5. ASSUME NEW i \in 1..Len(r), NEW k \in 1..Len(r)
      PROVE  \E j, l \in 1..Len(q) :
              j # s /\ l # s /\ r[i] = q[j] /\ r[k] = q[l] /\ (j = l <=> i = k)
  <2>1. old[i] \in 1..Len(q) /\ old[k] \in 1..Len(q) /\ (old[i] = old[k] <=> i = k)
    BY <1>4
  <2>2. old[i] # s /\ old[k] # s /\ r[i] = q[old[i]] /\ r[k] = q[old[k]]
    BY <1>3
  <2>3. QED
    BY <2>1, <2>2, Zenon
<1>6. ASSUME NEW j \in 1..Len(q), j # s
      PROVE  \E i \in 1..Len(r) : r[i] = q[j]
  <2>1. CASE j < s
    <3>1. j \in 1..Len(r) /\ j \in 1..(Len(q) - 1)
      BY <1>1, <2>1
    <3>2. r[j] = q[j]
      BY <1>1, <2>1, <3>1
    <3>3. QED
      BY <3>1, <3>2
  <2>2. CASE ~ (j < s)
    <3>1. j - 1 \in 1..Len(r) /\ j - 1 \in 1..(Len(q) - 1) /\ ~ (j - 1 < s) /\ (j - 1) + 1 = j
      BY <1>1, <1>6, <2>2
    <3>2. r[j - 1] = q[j]
      BY <1>1, <3>1
    <3>3. QED
      BY <3>1, <3>2
  <2>3. QED
    BY <2>1, <2>2
<1>7. \A i \in 1..Len(r) : \E j \in 1..Len(q) : j # s /\ r[i] = q[j]
  BY <1>3
<1>8. QED
  BY <1>5, <1>6, <1>7, Zenon DEF Thinned

LEMMA SumRemoveAt ==
  ASSUME NEW f \in Seq(Int), NEW s \in 1..Len(f)
  PROVE  Sum(RemoveAt(f, s)) = Sum(f) - f[s]
<1>1. PICK g : AddsUp(f, g, Len(f)) /\ Sum(f) = g[Len(f)] /\ Sum(f) \in Int
  BY SumOf
<1>2. PICK e \in Seq(Int) : e = RemoveAt(f, s)
  <2>1. RemoveAt(f, s) \in Seq(Int)
    BY RemoveAtIs
  <2>2. QED
    BY <2>1, Zenon
<1>30. Len(f) \in Nat /\ s \in Nat /\ f[s] \in Int /\ Len(e) = Len(f) - 1
       /\ \A i \in 1..(Len(f) - 1) : e[i] = IF i < s THEN f[i] ELSE f[i + 1]
  <2>1. /\ Len(RemoveAt(f, s)) = Len(f) - 1
        /\ \A i \in 1..(Len(f) - 1) : RemoveAt(f, s)[i] = IF i < s THEN f[i] ELSE f[i + 1]
    BY RemoveAtIs
  <2>2. Len(f) \in Nat /\ s \in Nat /\ f[s] \in Int
    OBVIOUS
  <2>3. QED
    BY <1>2, <2>1, <2>2
<1>3. Len(f) \in Nat /\ s \in Nat /\ Len(e) = Len(f) - 1 /\ Len(e) \in Nat /\ f[s] \in Int
      /\ \A i \in 1..Len(e) : e[i] = IF i < s THEN f[i] ELSE f[i + 1]
  BY <1>30
<1>4. /\ g[0] = 0 /\ \A i \in 0..Len(f) : g[i] \in Int
      /\ \A i \in 1..Len(f) : g[i] = g[i - 1] + f[i]
  BY <1>1 DEF AddsUp
<1>5. PICK h : h = [i \in 0..Len(e) |-> IF i < s THEN g[i] ELSE g[i + 1] - f[s]]
  OBVIOUS
<1>6. DOMAIN h = 0..Len(e) /\ h = [i \in DOMAIN h |-> h[i]]
      /\ \A i \in 0..Len(e) : h[i] = IF i < s THEN g[i] ELSE g[i + 1] - f[s]
  BY <1>5
<1>7. h[0] = 0
  <2>1. 0 \in 0..Len(e) /\ 0 < s
    BY <1>3
  <2>2. QED
    BY <1>4, <1>6, <2>1
<1>8. ASSUME NEW i \in 1..Len(e)
      PROVE  h[i] = h[i - 1] + e[i]
  <2>1. /\ i \in 1..Len(f) /\ i + 1 \in 1..Len(f) /\ i \in 0..Len(e) /\ i - 1 \in 0..Len(e)
        /\ i \in 0..Len(f) /\ i - 1 \in 0..Len(f) /\ i + 1 \in 0..Len(f) /\ (i - 1) + 1 = i /\ (i + 1) - 1 = i
    BY <1>3
  <2>2. g[i] = g[i - 1] + f[i] /\ g[i - 1] \in Int /\ g[i] \in Int /\ f[i] \in Int
    BY <1>4, <2>1
  <2>3. g[i + 1] = g[i] + f[i + 1] /\ g[i + 1] \in Int /\ f[i + 1] \in Int
    BY <1>4, <2>1
  <2>20. /\ h[i] = IF i < s THEN g[i] ELSE g[i + 1] - f[s]
         /\ h[i - 1] = IF i - 1 < s THEN g[i - 1] ELSE g[i] - f[s]
         /\ e[i] = IF i < s THEN f[i] ELSE f[i + 1]
    BY <1>3, <1>6, <2>1
  <2>4. CASE i < s
    BY <1>3, <2>1, <2>2, <2>20, <2>4
  <2>5. CASE i = s
    <3>1. h[i] = g[i + 1] - f[s] /\ h[i - 1] = g[i - 1] /\ e[i] = f[i + 1]
      BY <1>3, <2>1, <2>20, <2>5
    <3>2. QED
      <4>1. /\ g[i + 1] = g[i] + f[i + 1] /\ g[i] = g[i - 1] + f[i] /\ f[i] = f[s]
            /\ g[i - 1] \in Int /\ f[i] \in Int /\ f[i + 1] \in Int
        BY <2>2, <2>3, <2>5, Zenon
      <4>2. g[i + 1] - f[s] = g[i - 1] + f[i + 1]
        <5>1. PICK u \in Int, v \in Int, w \in Int : u = g[i - 1] /\ v = f[i] /\ w = f[i + 1]
          BY <4>1, Zenon
        <5>2. g[i + 1] = (u + v) + w /\ f[s] = v
          BY <4>1, <5>1, Zenon
        <5>3. ((u + v) + w) - v = u + w
          OBVIOUS
        <5>4. QED
          BY <5>1, <5>2, <5>3, Zenon
      <4>3. QED
        BY <3>1, <4>2, Zenon
  <2>6. CASE i > s
    <3>1. h[i] = g[i + 1] - f[s] /\ h[i - 1] = g[i] - f[s] /\ e[i] = f[i + 1]
      BY <1>3, <2>1, <2>20, <2>6
    <3>2. \A a, b, c \in Int : (a + b) - c = (a - c) + b
      OBVIOUS
    <3>3. f[s] \in Int /\ g[i] \in Int /\ f[i + 1] \in Int /\ g[i + 1] = g[i] + f[i + 1]
      BY <1>3, <2>2, <2>3
    <3>4. (g[i] + f[i + 1]) - f[s] = (g[i] - f[s]) + f[i + 1]
      BY <3>2, <3>3
    <3>5. QED
      BY <3>1, <3>3, <3>4, Zenon
  <2>7. i < s \/ i = s \/ i > s
    BY <1>3, <2>1
  <2>8. QED
    BY <2>4, <2>5, <2>6, <2>7
<1>9. Sum(e) = h[Len(e)]
  BY <1>6, <1>7, <1>8, SumIsAt
<1>10. h[Len(e)] = g[Len(f)] - f[s]
  <2>1. CASE s = Len(f)
    <3>1. Len(e) < s /\ Len(e) \in 0..Len(e) /\ Len(e) = Len(f) - 1
      BY <1>3, <2>1
    <3>2. g[Len(f)] = g[Len(f) - 1] + f[s] /\ g[Len(f) - 1] \in Int
      BY <1>1, <1>3, <1>4, <2>1 DEF AddsUp
    <3>3. QED
      BY <1>3, <1>6, <3>1, <3>2
  <2>2. CASE s # Len(f)
    <3>1. ~ (Len(e) < s) /\ Len(e) \in 0..Len(e) /\ Len(e) + 1 = Len(f)
      BY <1>3, <2>2
    <3>2. QED
      BY <1>6, <3>1
  <2>3. QED
    BY <2>1, <2>2
<1>11. QED
  BY <1>1, <1>2, <1>9, <1>10
-----------------------------------------------------------------------------
(* Pages, words of bits_map and zones.                                     *)
LEMMA Words ==
  ASSUME NEW a \in Nat, NEW w \in Nat \ {0}
  PROVE  a \div w \in Nat /\ (a \div w) * w <= a /\ a < (a \div w) * w + w
<1>1. a \div w \in Nat
  OBVIOUS
<1>2. (a \div w) * w <= a
  OBVIOUS
<1>3. a < (a \div w) * w + w
  OBVIOUS
<1>4. QED
  BY <1>1, <1>2, <1>3

LEMMA NextWord ==
  ASSUME NEW a \in Nat, NEW b \in Nat, NEW w \in Nat \ {0}, a \div w < b \div w
  PROVE  (a \div w) * w + w <= b
OBVIOUS

LEMMA Multiples ==
  ASSUME NEW x \in Nat, NEW y \in Nat, NEW w \in Nat \ {0}, x * w < y * w
  PROVE  x < y
OBVIOUS

LEMMA WordEnds ==
  ASSUME NEW a \in Nat, NEW b \in Nat, NEW w \in Nat \ {0}, a < b
  PROVE  /\ (a \div w) * w + w - 1 < ((b + w - 1) \div w) * w
         /\ b <= ((b + w - 1) \div w) * w
<1>1. PICK n \in Nat : n = (b + w) - 1
  <2>1. (b + w) - 1 \in Nat
    OBVIOUS
  <2>2. QED
    BY <2>1, Zenon
<1>2. PICK x \in Nat : x = a \div w
  <2>1. a \div w \in Nat
    BY Words
  <2>2. QED
    BY <2>1, Zenon
<1>3. PICK y \in Nat : y = n \div w
  <2>1. n \div w \in Nat
    BY Words
  <2>2. QED
    BY <2>1, Zenon
<1>4. x * w <= a /\ y * w <= n /\ n < y * w + w
  BY <1>2, <1>3, Words
<1>5. PICK u \in Nat : u = x * w
  <2>1. x * w \in Nat
    OBVIOUS
  <2>2. QED
    BY <2>1, Zenon
<1>6. PICK v \in Nat : v = y * w
  <2>1. y * w \in Nat
    OBVIOUS
  <2>2. QED
    BY <2>1, Zenon
<1>7. u <= a /\ v <= n /\ n < v + w
  BY <1>4, <1>5, <1>6
<1>8. b <= v
  BY <1>1, <1>7
<1>9. u < v
  BY <1>7, <1>8
<1>10. x < y
  BY <1>5, <1>6, <1>9, Multiples
<1>11. (x + 1) * w <= y * w
  BY <1>10
<1>12. (x + 1) * w = x * w + w
  OBVIOUS
<1>13. u + w <= v
  BY <1>5, <1>6, <1>11, <1>12
<1>14. (x * w + w) - 1 < y * w
  BY <1>5, <1>6, <1>13
<1>15. (b + w - 1) \div w = y
  BY <1>1, <1>3
<1>16. QED
  BY <1>2, <1>5, <1>6, <1>8, <1>13, <1>15

Lo(z) == FirstPage(Zones[z])
Hi(z) == EndPage(Zones[z])
PageCount == (e820[Len(e820)].address + e820[Len(e820)].length) \div PageSize

LEMMA ZoneFacts ==
  /\ 1 \in ZoneIds /\ ZoneIds \subseteq Nat
  /\ \A z \in ZoneIds : /\ Lo(z) \in Nat /\ Hi(z) \in Nat /\ 0 < Lo(z) /\ Lo(z) < Hi(z)
                        /\ Hi(z) \in Pages /\ ZonePages(z) = Lo(z)..(Hi(z) - 1)
  /\ \A y, z \in ZoneIds : y < z => Hi(y) \div Word < Lo(z) \div Word
<1>1. Zones \in Seq(Range(e820)) /\ Zones # <<>> /\ e820 \in Seq([address : Nat, length : Nat, type : Nat])
  BY MemoryAssumption
<1>2. 1 \in ZoneIds /\ ZoneIds \subseteq Nat
  BY <1>1 DEF ZoneIds
<1>3. ASSUME NEW z \in ZoneIds
      PROVE  Lo(z) \in Nat /\ Hi(z) \in Nat
  <2>1. Zones[z] \in Range(e820)
    BY <1>1 DEF ZoneIds
  <2>2. PICK k \in DOMAIN e820 : Zones[z] = e820[k]
    BY <2>1 DEF Range
  <2>3. e820[k] \in [address : Nat, length : Nat, type : Nat]
    <3>1. e820 \in Seq([address : Nat, length : Nat, type : Nat]) /\ k \in 1..Len(e820)
      BY <1>1
    <3>2. QED
      BY <3>1, ElementOfSeq, Zenon
  <2>4. PICK a \in Nat : a = Zones[z].address
    BY <2>2, <2>3
  <2>5. PICK l \in Nat : l = Zones[z].length
    BY <2>2, <2>3
  <2>6. PageSize \in Nat \ {0}
    BY MemoryAssumption
  <2>7. PICK n \in Nat : n = (a + PageSize) - 1
    <3>1. (a + PageSize) - 1 \in Nat
      BY <2>6
    <3>2. QED
      BY <3>1, Zenon
  <2>8. PICK o \in Nat : o = a + l
    OBVIOUS
  <2>9. n \div PageSize \in Nat /\ o \div PageSize \in Nat
    BY <2>6, Words
  <2>10. Lo(z) = n \div PageSize
    <3>1. a + PageSize - 1 = n
      BY <2>6, <2>7
    <3>2. Lo(z) = (a + PageSize - 1) \div PageSize
      BY <2>4, Zenon DEF Lo, FirstPage
    <3>3. QED
      BY <3>1, <3>2, Zenon
  <2>11. Hi(z) = o \div PageSize
    BY <2>4, <2>5, <2>8 DEF Hi, EndPage
  <2>12. QED
    BY <2>9, <2>10, <2>11
<1>4. \A z \in ZoneIds : 0 < Lo(z) /\ Lo(z) < Hi(z) /\ Hi(z) \in Pages
  BY MemoryAssumption DEF Lo, Hi
<1>5. \A z \in ZoneIds : ZonePages(z) = Lo(z)..(Hi(z) - 1)
  BY DEF Lo, Hi, ZonePages
<1>6. \A y, z \in ZoneIds : y < z => Hi(y) \div Word < Lo(z) \div Word
  BY MemoryAssumption DEF Lo, Hi
<1>7. QED
  BY <1>2, <1>3, <1>4, <1>5, <1>6

LEMMA PageFacts ==
  /\ PageCount \in Nat /\ Pages = 0..(PageCount - 1) /\ Pages \subseteq Nat
  /\ IsFiniteSet(Pages) /\ Cardinality(Pages) = PageCount
  /\ Bits = 0..(((PageCount + Word - 1) \div Word) * Word - 1)
<1>1. e820 # <<>> /\ e820 \in Seq([address : Nat, length : Nat, type : Nat])
  BY MemoryAssumption
<1>2. Len(e820) \in DOMAIN e820
  BY <1>1
<1>3. e820[Len(e820)] \in [address : Nat, length : Nat, type : Nat]
  <2>1. e820 \in Seq([address : Nat, length : Nat, type : Nat]) /\ Len(e820) \in 1..Len(e820)
    BY <1>1, <1>2
  <2>2. QED
    BY <2>1, ElementOfSeq, Zenon
<1>4. PICK o \in Nat : o = e820[Len(e820)].address + e820[Len(e820)].length
  <2>1. e820[Len(e820)].address + e820[Len(e820)].length \in Nat
    BY <1>3
  <2>2. QED
    BY <2>1, Zenon
<1>5. PageCount = o \div PageSize /\ PageSize \in Nat \ {0}
  BY <1>4, MemoryAssumption DEF PageCount
<1>6. PageCount \in Nat
  BY <1>5, Words
<1>7. Pages = 0..(PageCount - 1)
  BY DEF Pages, PageCount
<1>8. IsFiniteSet(Pages) /\ Cardinality(Pages) = PageCount
  <2>1. 0 \in Int /\ PageCount - 1 \in Int
    BY <1>6
  <2>2. IsFiniteSet(0..(PageCount - 1))
        /\ Cardinality(0..(PageCount - 1)) = IF 0 > PageCount - 1 THEN 0 ELSE (PageCount - 1) - 0 + 1
    BY <2>1, FS_Interval
  <2>3. QED
    BY <1>6, <1>7, <2>2
<1>9. Bits = 0..(((PageCount + Word - 1) \div Word) * Word - 1)
  BY <1>8 DEF Bits
<1>10. QED
  BY <1>6, <1>7, <1>8, <1>9

(* Where a zone lies: in Pages, above page 0, apart from the others.       *)
LEMMA ZonePlace ==
  ASSUME NEW z \in ZoneIds
  PROVE  /\ ZonePages(z) \subseteq Pages /\ 0 \notin ZonePages(z) /\ IsFiniteSet(ZonePages(z))
         /\ \A p \in ZonePages(z) : \A y \in ZoneIds : p \in ZonePages(y) => y = z
         /\ \A p \in ZonePages(z) : ZoneOf(p) = z
         /\ \A y \in ZoneIds : Hi(z) \notin ZonePages(y)
<1>1. /\ Lo(z) \in Nat /\ Hi(z) \in Nat /\ 0 < Lo(z) /\ Lo(z) < Hi(z)
      /\ Hi(z) \in Pages /\ ZonePages(z) = Lo(z)..(Hi(z) - 1)
  BY ZoneFacts
<1>2. ZonePages(z) \subseteq Pages /\ 0 \notin ZonePages(z)
  BY <1>1, PageFacts
<1>3. ASSUME NEW y \in ZoneIds, NEW x \in ZoneIds, y < x
      PROVE  Hi(y) < Lo(x)
  <2>1. Hi(y) \in Nat /\ Lo(x) \in Nat /\ Hi(y) \div Word < Lo(x) \div Word /\ Word \in Nat \ {0}
    BY <1>3, ZoneFacts, MemoryAssumption
  <2>2. (Hi(y) \div Word) * Word + Word <= Lo(x)
    BY <2>1, NextWord
  <2>3. Hi(y) < (Hi(y) \div Word) * Word + Word
    BY <2>1, Words
  <2>4. PICK n \in Int : n = (Hi(y) \div Word) * Word + Word
    <3>1. (Hi(y) \div Word) \in Nat
      BY <2>1, Words
    <3>2. (Hi(y) \div Word) * Word + Word \in Int
      BY <2>1, <3>1
    <3>3. QED
      BY <3>2, Zenon
  <2>5. QED
    BY <2>1, <2>2, <2>3, <2>4
<1>4. ASSUME NEW p \in ZonePages(z), NEW y \in ZoneIds, p \in ZonePages(y)
      PROVE  y = z
  <2>1. /\ Lo(y) \in Nat /\ Hi(y) \in Nat /\ ZonePages(y) = Lo(y)..(Hi(y) - 1) /\ y \in Nat /\ z \in Nat
    BY ZoneFacts
  <2>2. Lo(y) <= p /\ p < Hi(y) /\ Lo(z) <= p /\ p < Hi(z) /\ p \in Int
    BY <1>1, <1>4, <2>1
  <2>3. ~ (y < z) /\ ~ (z < y)
    BY <1>1, <1>3, <2>1, <2>2
  <2>4. QED
    BY <2>1, <2>3
<1>5. ASSUME NEW p \in ZonePages(z)
      PROVE  ZoneOf(p) = z
  <2>1. p # 0
    BY <1>2
  <2>2. QED
    BY <1>4, <2>1 DEF ZoneOf
<1>6. ASSUME NEW y \in ZoneIds
      PROVE  Hi(z) \notin ZonePages(y)
  <2>1. /\ Lo(y) \in Nat /\ Hi(y) \in Nat /\ ZonePages(y) = Lo(y)..(Hi(y) - 1) /\ y \in Nat /\ z \in Nat /\ Lo(y) < Hi(y)
    BY ZoneFacts
  <2>2. CASE y < z
    BY <1>1, <1>3, <2>1, <2>2
  <2>3. CASE z < y
    BY <1>1, <1>3, <2>1, <2>3
  <2>4. CASE z = y
    BY <2>1, <2>4
  <2>5. QED
    BY <2>1, <2>2, <2>3, <2>4
<1>7. IsFiniteSet(ZonePages(z))
  BY <1>2, PageFacts, FS_Subset
<1>8. QED
  BY <1>2, <1>4, <1>5, <1>6, <1>7

LEMMA HoleFacts ==
  /\ 0 \in Holes /\ Holes \subseteq Bits /\ Pages \subseteq Bits
  /\ \A z \in ZoneIds : Holes \cap ZonePages(z) = {} /\ Hi(z) \in Holes
  /\ \A p \in Bits : p \notin Holes => \E z \in ZoneIds : p \in ZonePages(z)
<1>1. Pages \subseteq Bits
  <2>1. Word \in Nat \ {0}
    BY MemoryAssumption
  <2>2. CASE PageCount = 0
    BY <2>2, PageFacts
  <2>3. CASE PageCount # 0
    <3>1. PageCount \in Nat /\ 0 \in Nat /\ 0 < PageCount
      BY <2>3, PageFacts
    <3>2. PageCount <= ((PageCount + Word - 1) \div Word) * Word
      BY <2>1, <3>1, WordEnds
    <3>3. PICK n \in Int : n = ((PageCount + Word - 1) \div Word) * Word
      <4>1. (PageCount + Word - 1) \in Nat
        BY <2>1, <3>1
      <4>2. (PageCount + Word - 1) \div Word \in Nat
        BY <2>1, <4>1, Words
      <4>3. ((PageCount + Word - 1) \div Word) * Word \in Int
        BY <2>1, <4>2
      <4>4. QED
        BY <4>3, Zenon
    <3>4. Bits = 0..(n - 1) /\ Pages = 0..(PageCount - 1) /\ PageCount <= n
      BY <3>2, <3>3, PageFacts
    <3>5. QED
      BY <3>1, <3>4
  <2>4. QED
    BY <2>2, <2>3
<1>2. \A z \in ZoneIds : Hi(z) \in Holes
  <2>1. \A z \in ZoneIds : Hi(z) \in Bits /\ \A y \in ZoneIds : Hi(z) \notin ZonePages(y)
    BY <1>1, ZoneFacts, ZonePlace
  <2>2. QED
    BY <2>1, Zenon DEF Holes
<1>3. 0 \in Pages
  <2>1. Hi(1) \in Pages
    BY ZoneFacts
  <2>2. QED
    BY <2>1, PageFacts
<1>4. 0 \in Holes
  BY <1>1, <1>3, ZonePlace, Zenon DEF Holes
<1>5. QED
  BY <1>1, <1>2, <1>4 DEF Holes

(* A run of free pages found in the scan of a zone lies in the zone.       *)
LEMMA RunInZone ==
  ASSUME NEW z \in ZoneIds, NEW n \in Nat \ {0}, NEW b, Holes \subseteq b, NEW p \in Scanned(z),
         p..(p + n - 1) \cap b = {}
  PROVE  p \in Nat /\ p \in ZonePages(z) /\ p..(p + n - 1) \subseteq ZonePages(z)
<1>1. /\ Lo(z) \in Nat /\ Hi(z) \in Nat /\ 0 < Lo(z) /\ Lo(z) < Hi(z) /\ z \in Nat
      /\ Hi(z) \in Pages /\ ZonePages(z) = Lo(z)..(Hi(z) - 1) /\ Word \in Nat \ {0}
  BY ZoneFacts, MemoryAssumption
<1>2. PICK w \in Nat : w = (Hi(z) \div Word) * Word
  <2>1. (Hi(z) \div Word) * Word \in Nat
    <3>1. Hi(z) \div Word \in Nat
      BY <1>1, Words
    <3>2. QED
      BY <1>1, <3>1
  <2>2. QED
    BY <2>1, Zenon
<1>3. Scanned(z) = Lo(z)..(w + Word - 1)
  BY <1>2, Zenon DEF Scanned, Lo, Hi
<1>4. p \in Nat /\ Lo(z) <= p /\ p <= w + Word - 1
  BY <1>1, <1>3
<1>5. ASSUME p >= Hi(z)
      PROVE  FALSE
  <2>1. p \in Bits
    <3>1. PageCount \in Nat /\ Hi(z) < PageCount /\ Hi(z) \in Nat /\ Word \in Nat \ {0}
      BY <1>1, PageFacts
    <3>2. (Hi(z) \div Word) * Word + Word - 1 < ((PageCount + Word - 1) \div Word) * Word
      BY <3>1, WordEnds
    <3>3. PICK u \in Int : u = ((PageCount + Word - 1) \div Word) * Word
      <4>1. (PageCount + Word - 1) \in Nat
        BY <3>1
      <4>2. (PageCount + Word - 1) \div Word \in Nat
        BY <3>1, <4>1, Words
      <4>3. ((PageCount + Word - 1) \div Word) * Word \in Int
        BY <3>1, <4>2
      <4>4. QED
        BY <4>3, Zenon
    <3>4. w + Word - 1 < u
      BY <1>2, <3>2, <3>3
    <3>5. Bits = 0..(u - 1)
      BY <3>3, PageFacts
    <3>6. QED
      BY <1>1, <1>4, <3>4, <3>5
  <2>2. ASSUME NEW y \in ZoneIds, p \in ZonePages(y)
        PROVE  FALSE
    <3>1. /\ Lo(y) \in Nat /\ Hi(y) \in Nat /\ ZonePages(y) = Lo(y)..(Hi(y) - 1) /\ y \in Nat /\ Lo(y) < Hi(y)
      BY ZoneFacts
    <3>2. Lo(y) <= p /\ p < Hi(y)
      BY <1>4, <2>2, <3>1
    <3>3. CASE y = z
      BY <1>1, <1>4, <1>5, <3>2, <3>3
    <3>4. CASE y < z
      <4>1. Hi(y) \div Word < Lo(z) \div Word
        BY <3>4, ZoneFacts
      <4>2. (Hi(y) \div Word) * Word + Word <= Lo(z) /\ Hi(y) < (Hi(y) \div Word) * Word + Word
        BY <1>1, <3>1, <4>1, NextWord, Words
      <4>3. PICK i \in Int : i = (Hi(y) \div Word) * Word + Word
        <5>1. Hi(y) \div Word \in Nat
          BY <1>1, <3>1, Words
        <5>2. (Hi(y) \div Word) * Word + Word \in Int
          BY <1>1, <5>1
        <5>3. QED
          BY <5>2, Zenon
      <4>4. QED
        BY <1>1, <1>4, <3>1, <3>2, <4>2, <4>3
    <3>5. CASE z < y
      <4>1. Hi(z) \div Word < Lo(y) \div Word
        BY <3>5, ZoneFacts
      <4>2. (Hi(z) \div Word) * Word + Word <= Lo(y)
        BY <1>1, <3>1, <4>1, NextWord
      <4>3. w + Word <= Lo(y)
        BY <1>2, <4>2
      <4>4. QED
        BY <1>1, <1>4, <3>1, <3>2, <4>3
    <3>6. QED
      BY <1>1, <3>1, <3>3, <3>4, <3>5
  <2>3. p \in Holes
    BY <2>1, <2>2, HoleFacts
  <2>4. p \in p..(p + n - 1)
    BY <1>4
  <2>5. QED
    BY <2>3, <2>4
<1>6. p < Hi(z)
  BY <1>1, <1>4, <1>5
<1>7. Hi(z) \notin p..(p + n - 1)
  BY HoleFacts
<1>8. p + n - 1 < Hi(z)
  BY <1>1, <1>4, <1>6, <1>7
<1>9. QED
  BY <1>1, <1>4, <1>6, <1>8

(* What alloc_pages finds.                                                 *)
LEMMA Served ==
  ASSUME NEW m, NEW select \in {"ZONE_NORMAL", "ZONE_UNMAPED"}, NEW n \in Nat \ {0},
         Holes \subseteq m.bits_map, Serves(m, select, n) # 0,
         NEW z, z = Serves(m, select, n), NEW p, p = FoundPage(m, select, n)
  PROVE  /\ z \in Selected(select) /\ z \in ZoneIds /\ m.free[z] >= n
         /\ p \in Nat /\ p \in ZonePages(z) /\ p..(p + n - 1) \subseteq ZonePages(z)
         /\ p..(p + n - 1) \cap m.bits_map = {}
<1>1. PICK zones : zones = {x \in Selected(select) : HasRoom(m, x, n) /\ Runs(m, x, n) # {}}
  OBVIOUS
<1>2. Serves(m, select, n) = IF zones = {} THEN 0 ELSE Least(zones)
  BY <1>1 DEF Serves
<1>3. Selected(select) \subseteq ZoneIds /\ ZoneIds \subseteq Nat
  BY ZoneFacts DEF Selected
<1>4. zones # {} /\ zones \subseteq Nat
  BY <1>1, <1>2, <1>3
<1>5. z \in zones
  BY <1>2, <1>4, LeastIs
<1>6. z \in Selected(select) /\ z \in ZoneIds /\ HasRoom(m, z, n) /\ Runs(m, z, n) # {}
  BY <1>1, <1>3, <1>5
<1>7. Runs(m, z, n) \subseteq Nat
  <2>1. \A x \in Scanned(z) : x..(x + n - 1) \cap m.bits_map = {} => x \in Nat
    BY <1>6, RunInZone
  <2>2. QED
    BY <2>1 DEF Runs
<1>8. p \in Runs(m, z, n)
  BY <1>6, <1>7, LeastIs DEF FoundPage
<1>9. p \in Scanned(z) /\ p..(p + n - 1) \cap m.bits_map = {}
  BY <1>8 DEF Runs
<1>10. p \in Nat /\ p \in ZonePages(z) /\ p..(p + n - 1) \subseteq ZonePages(z)
  BY <1>6, <1>9, RunInZone
<1>11. QED
  BY <1>6, <1>9, <1>10 DEF HasRoom

(* A free page of the first zone is found.                                 *)
LEMMA FreePageServes ==
  ASSUME NEW m, m.free[1] >= 1, NEW p \in ZonePages(1), p \notin m.bits_map
  PROVE  HasPage(m)
<1>1. /\ 1 \in ZoneIds /\ Lo(1) \in Nat /\ Hi(1) \in Nat /\ 0 < Lo(1) /\ Lo(1) < Hi(1)
      /\ ZonePages(1) = Lo(1)..(Hi(1) - 1) /\ Word \in Nat \ {0}
  BY ZoneFacts, MemoryAssumption
<1>2. PICK w \in Nat : w = (Hi(1) \div Word) * Word
  <2>1. (Hi(1) \div Word) * Word \in Nat
    <3>1. Hi(1) \div Word \in Nat
      BY <1>1, Words
    <3>2. QED
      BY <1>1, <3>1
  <2>2. QED
    BY <2>1, Zenon
<1>3. Hi(1) < w + Word
  BY <1>1, <1>2, Words
<1>4. Scanned(1) = Lo(1)..(w + Word - 1)
  BY <1>2, Zenon DEF Scanned, Lo, Hi
<1>5. p \in Scanned(1)
  BY <1>1, <1>3, <1>4
<1>6. p \in Int /\ p..(p + 1 - 1) = {p}
  BY <1>1
<1>7. Runs(m, 1, 1) # {}
  BY <1>5, <1>6 DEF Runs
<1>8. {z \in Selected("ZONE_NORMAL") : HasRoom(m, z, 1) /\ Runs(m, z, 1) # {}} = {1}
  BY <1>7 DEF Selected, HasRoom
<1>9. Serves(m, "ZONE_NORMAL", 1) = Least({1})
  BY <1>8 DEF Serves
<1>10. QED
  BY <1>9, LeastOfOne DEF HasPage
-----------------------------------------------------------------------------
(* The memory record, and what each operation on pages leaves of it.       *)
ObjectNames == Pages \X Nat
SlabRecords == [page : Pages, used : SUBSET Nat, using_count : Int, free_count : Int, color_count : Nat,
                own : Seq(ObjectNames)]
SlabRings == Seq(SlabRecords)
CacheRecords == [pool : SlabRings, total_free : Int, total_using : Int]
BitMaps == SUBSET Bits
ZoneNumbers == [ZoneIds -> Int]
PageNumbers == [Pages -> Int]
Caches == [DOMAIN Classes -> CacheRecords]
Mems == [bits_map : BitMaps, using : ZoneNumbers, free : ZoneNumbers, total_pages_link : ZoneNumbers,
         reference_count : PageNumbers, cache : Caches]

LEMMA MemFields ==
  ASSUME NEW m \in Mems
  PROVE  /\ m.bits_map \in BitMaps /\ m.using \in ZoneNumbers /\ m.free \in ZoneNumbers
         /\ m.total_pages_link \in ZoneNumbers /\ m.reference_count \in PageNumbers /\ m.cache \in Caches
BY DEF Mems

LEMMA NewZoneNumber ==
  ASSUME NEW f \in ZoneNumbers, NEW z \in ZoneIds, NEW x \in Int
  PROVE  /\ f[z] \in Int /\ [f EXCEPT ![z] = x] \in ZoneNumbers /\ [f EXCEPT ![z] = x][z] = x
         /\ \A y \in ZoneIds : y # z => [f EXCEPT ![z] = x][y] = f[y]
BY DEF ZoneNumbers

LEMMA NewPageNumber ==
  ASSUME NEW f \in PageNumbers, NEW p \in Pages, NEW x \in Int
  PROVE  /\ f[p] \in Int /\ [f EXCEPT ![p] = x] \in PageNumbers /\ [f EXCEPT ![p] = x][p] = x
         /\ \A q \in Pages : q # p => [f EXCEPT ![p] = x][q] = f[q]
BY DEF PageNumbers

LEMMA TakeIs ==
  ASSUME NEW m \in Mems, NEW z \in ZoneIds, NEW p \in Nat, NEW n \in Nat, p..(p + n - 1) \subseteq Bits,
         NEW r, r = Take(m, z, p, n)
  PROVE  /\ r \in Mems /\ r.bits_map = m.bits_map \cup p..(p + n - 1)
         /\ r.using = [m.using EXCEPT ![z] = @ + n] /\ r.free = [m.free EXCEPT ![z] = @ - n]
         /\ r.total_pages_link = m.total_pages_link /\ r.reference_count = m.reference_count
         /\ r.cache = m.cache
<1>1. /\ r.bits_map = m.bits_map \cup p..(p + n - 1)
      /\ r.using = [m.using EXCEPT ![z] = @ + n] /\ r.free = [m.free EXCEPT ![z] = @ - n]
      /\ r.total_pages_link = m.total_pages_link /\ r.reference_count = m.reference_count
      /\ r.cache = m.cache
  BY DEF Take, Mems
<1>2. m.using[z] \in Int /\ m.free[z] \in Int
  BY MemFields DEF ZoneNumbers
<1>3. m.using[z] + n \in Int /\ m.free[z] - n \in Int
  BY <1>2
<1>4. r.using \in ZoneNumbers /\ r.free \in ZoneNumbers
  <2>1. \A f \in ZoneNumbers, x \in Int : [f EXCEPT ![z] = x] \in ZoneNumbers
    BY NewZoneNumber
  <2>2. m.using \in ZoneNumbers /\ m.free \in ZoneNumbers
    BY MemFields
  <2>3. QED
    <3>1. [m.using EXCEPT ![z] = @ + n] \in ZoneNumbers
      BY <1>3, <2>1, <2>2, Zenon
    <3>2. [m.free EXCEPT ![z] = @ - n] \in ZoneNumbers
      BY <1>3, <2>1, <2>2, Zenon
    <3>3. QED
      BY <1>1, <3>1, <3>2, Zenon
<1>5. r.bits_map \in BitMaps
  BY <1>1, MemFields DEF BitMaps
<1>6. r \in Mems
  BY <1>1, <1>4, <1>5, MemFields DEF Take, Mems
<1>7. QED
  BY <1>1, <1>6

LEMMA FreePagesIs ==
  ASSUME NEW m \in Mems, NEW p \in Nat, NEW n \in Nat, NEW z \in ZoneIds, ZoneOf(p) = z,
         NEW r, r = free_pages(m, p, n)
  PROVE  /\ r \in Mems /\ r.bits_map = m.bits_map \ (p..(p + n - 1))
         /\ r.using = [m.using EXCEPT ![z] = @ - n] /\ r.free = [m.free EXCEPT ![z] = @ + n]
         /\ r.total_pages_link = m.total_pages_link /\ r.reference_count = m.reference_count
         /\ r.cache = m.cache
<1>1. /\ r.bits_map = m.bits_map \ (p..(p + n - 1))
      /\ r.using = [m.using EXCEPT ![z] = @ - n] /\ r.free = [m.free EXCEPT ![z] = @ + n]
      /\ r.total_pages_link = m.total_pages_link /\ r.reference_count = m.reference_count
      /\ r.cache = m.cache
  BY DEF free_pages, Mems
<1>2. m.using[z] \in Int /\ m.free[z] \in Int
  BY MemFields DEF ZoneNumbers
<1>3. m.using[z] - n \in Int /\ m.free[z] + n \in Int
  BY <1>2
<1>4. r.using \in ZoneNumbers /\ r.free \in ZoneNumbers
  <2>1. \A f \in ZoneNumbers, x \in Int : [f EXCEPT ![z] = x] \in ZoneNumbers
    BY NewZoneNumber
  <2>2. m.using \in ZoneNumbers /\ m.free \in ZoneNumbers
    BY MemFields
  <2>3. /\ [m.using EXCEPT ![z] = m.using[z] - n] \in ZoneNumbers
        /\ [m.free EXCEPT ![z] = m.free[z] + n] \in ZoneNumbers
    BY <1>3, <2>1, <2>2, Zenon
  <2>4. QED
    BY <1>1, <2>3
<1>5. r.bits_map \in BitMaps
  BY <1>1, MemFields DEF BitMaps
<1>6. r \in Mems
  BY <1>1, <1>4, <1>5, MemFields DEF free_pages, Mems
<1>7. QED
  BY <1>1, <1>6

LEMMA PageInitIs ==
  ASSUME NEW m \in Mems, NEW p \in Pages, NEW z \in ZoneIds, ZoneOf(p) = z, m.reference_count[p] = 0,
         NEW r, r = page_init(m, p)
  PROVE  /\ r \in Mems /\ r.bits_map = m.bits_map /\ r.using = m.using /\ r.free = m.free
         /\ r.total_pages_link = [m.total_pages_link EXCEPT ![z] = @ + 1]
         /\ r.reference_count = [m.reference_count EXCEPT ![p] = 1]
         /\ r.cache = m.cache
<1>0. r = [m EXCEPT !.reference_count[p] = 1, !.total_pages_link[z] = @ + 1]
  BY DEF page_init
<1>1. /\ r.bits_map = m.bits_map /\ r.using = m.using /\ r.free = m.free
      /\ r.total_pages_link = [m.total_pages_link EXCEPT ![z] = @ + 1]
      /\ r.reference_count = [m.reference_count EXCEPT ![p] = 1]
      /\ r.cache = m.cache
  BY <1>0 DEF Mems
<1>2. m.total_pages_link[z] \in Int
  BY MemFields DEF ZoneNumbers
<1>3. m.total_pages_link[z] + 1 \in Int
  BY <1>2
<1>4. r.total_pages_link \in ZoneNumbers
  BY <1>1, <1>3, MemFields, NewZoneNumber
<1>5. r.reference_count \in PageNumbers
  <2>1. \A f \in PageNumbers, x \in Int : [f EXCEPT ![p] = x] \in PageNumbers
    BY NewPageNumber
  <2>2. m.reference_count \in PageNumbers /\ 1 \in Int
    BY MemFields
  <2>3. [m.reference_count EXCEPT ![p] = 1] \in PageNumbers
    BY <2>1, <2>2, Zenon
  <2>4. QED
    BY <1>1, <2>3
<1>6. r \in Mems
  BY <1>0, <1>1, <1>4, <1>5, MemFields DEF Mems
<1>7. QED
  BY <1>1, <1>6

LEMMA PageCleanIs ==
  ASSUME NEW m \in Mems, NEW p \in Pages, NEW z \in ZoneIds, ZoneOf(p) = z,
         NEW r, r = page_clean(m, p)
  PROVE  /\ r \in Mems /\ r.bits_map = m.bits_map /\ r.using = m.using /\ r.free = m.free
         /\ r.total_pages_link = [m.total_pages_link EXCEPT ![z] = @ - 1]
         /\ r.reference_count = [m.reference_count EXCEPT ![p] = @ - 1]
         /\ r.cache = m.cache
<1>1. /\ r.bits_map = m.bits_map /\ r.using = m.using /\ r.free = m.free
      /\ r.total_pages_link = [m.total_pages_link EXCEPT ![z] = @ - 1]
      /\ r.reference_count = [m.reference_count EXCEPT ![p] = @ - 1]
      /\ r.cache = m.cache
  BY DEF page_clean, Mems
<1>2. m.total_pages_link[z] \in Int /\ m.reference_count[p] \in Int
  BY MemFields DEF ZoneNumbers, PageNumbers
<1>3. m.total_pages_link[z] - 1 \in Int /\ m.reference_count[p] - 1 \in Int
  BY <1>2
<1>4. r.total_pages_link \in ZoneNumbers
  BY <1>1, <1>3, MemFields, NewZoneNumber
<1>5. r.reference_count \in PageNumbers
  BY <1>1, <1>3, MemFields, NewPageNumber
<1>6. r \in Mems
  BY <1>1, <1>4, <1>5, MemFields DEF page_clean, Mems
<1>7. QED
  BY <1>1, <1>6
-----------------------------------------------------------------------------
(* The pages' side of the invariant: who has which page, the zones' counts *)
(* and the references.                                                     *)
RunSet(R) == UNION {RunPages(run) : run \in R}
InZones(A) == \A p \in A : \E z \in ZoneIds : p \in ZonePages(z)
Proper(run) == \E p \in Nat, n \in Nat \ {0}, z \in ZoneIds : run = <<p, n>> /\ RunPages(run) \subseteq ZonePages(z)

Owned(b, P, R) ==
  /\ b = Holes \cup KernelPages \cup P \cup RunSet(R)
  /\ P \cap RunSet(R) = {} /\ KernelPages \cap (P \cup RunSet(R)) = {}
  /\ \A a, c \in R : a # c => RunPages(a) \cap RunPages(c) = {}
  /\ \A run \in R : Proper(run)
  /\ InZones(P)

Counted(m) ==
  \A z \in ZoneIds : /\ m.using[z] + m.free[z] = Cardinality(ZonePages(z)) /\ m.free[z] \in Nat
                     /\ m.free[z] = Cardinality(ZonePages(z) \ m.bits_map) - (IF z = 1 THEN 1 ELSE 0)

Realm(z) == {p \in Pages \ (Holes \ {0}) : ZoneOf(p) = z}

Linked(m, A) ==
  /\ \A p \in Pages : m.reference_count[p] \in {0, 1} /\ (m.reference_count[p] = 1 <=> p \in KernelPages \cup A)
  /\ \A z \in ZoneIds : m.total_pages_link[z] = Cardinality({p \in Realm(z) : m.reference_count[p] = 1})
  /\ InZones(A)

PageSide(m, P, R, A) == Owned(m.bits_map, P, R) /\ Counted(m) /\ Linked(m, A)

LEMMA ZonePageFacts ==
  ASSUME NEW z \in ZoneIds, NEW p \in ZonePages(z)
  PROVE  /\ p \in Pages /\ p \in Bits /\ p \in Nat /\ p \notin Holes /\ ZoneOf(p) = z
         /\ p \in Realm(z) /\ \A y \in ZoneIds : y # z => p \notin Realm(y) /\ p \notin ZonePages(y)
<1>1. ZoneOf(p) = z /\ p \in Pages
  BY ZonePlace
<1>2. p \in Bits /\ p \in Nat /\ p \notin Holes
  BY <1>1, HoleFacts, PageFacts
<1>3. \A y \in ZoneIds : y # z => p \notin ZonePages(y)
  BY ZonePlace
<1>4. QED
  BY <1>1, <1>2, <1>3 DEF Realm

LEMMA RunSetAdd ==
  ASSUME NEW R, NEW p, NEW n
  PROVE  RunSet(R \cup {<<p, n>>}) = RunSet(R) \cup p..(p + n - 1)
<1>1. RunPages(<<p, n>>) = p..(p + n - 1)
  BY DEF RunPages
<1>2. UNION {RunPages(run) : run \in R \cup {<<p, n>>}} = (UNION {RunPages(run) : run \in R}) \cup RunPages(<<p, n>>)
  BY Zenon
<1>3. QED
  BY <1>1, <1>2, Zenon DEF RunSet

LEMMA RunSetRemove ==
  ASSUME NEW R, NEW p, NEW n, <<p, n>> \in R,
         \A a, c \in R : a # c => RunPages(a) \cap RunPages(c) = {}
  PROVE  RunSet(R \ {<<p, n>>}) = RunSet(R) \ (p..(p + n - 1))
<1>1. RunPages(<<p, n>>) = p..(p + n - 1)
  BY DEF RunPages
<1>2. QED
  BY <1>1 DEF RunSet

LEMMA Interval ==
  ASSUME NEW p \in Nat, NEW n \in Nat \ {0}
  PROVE  /\ IsFiniteSet(p..(p + n - 1)) /\ Cardinality(p..(p + n - 1)) = n
         /\ p \in p..(p + n - 1)
<1>1. p \in Int /\ p + n - 1 \in Int
  OBVIOUS
<1>2. IsFiniteSet(p..(p + n - 1)) /\ Cardinality(p..(p + n - 1)) = IF p > p + n - 1 THEN 0 ELSE (p + n - 1) - p + 1
  BY <1>1, FS_Interval
<1>3. QED
  BY <1>2

(* Counts when a run leaves the free pages of a zone, and when it joins.   *)
Fewer(z, b, c, n) ==
  /\ Cardinality(ZonePages(z) \ c) = Cardinality(ZonePages(z) \ b) - n
  /\ Cardinality(ZonePages(z) \ b) \in Nat
  /\ \A y \in ZoneIds : y # z => ZonePages(y) \ c = ZonePages(y) \ b

LEMMA LessFree ==
  ASSUME NEW z \in ZoneIds, NEW b, NEW p \in Nat, NEW n \in Nat \ {0},
         p..(p + n - 1) \subseteq ZonePages(z), p..(p + n - 1) \cap b = {},
         NEW c, c = b \cup p..(p + n - 1)
  PROVE  Fewer(z, b, c, n)
<1>1. PICK D : D = p..(p + n - 1)
  OBVIOUS
<1>2. IsFiniteSet(D) /\ Cardinality(D) = n
  BY <1>1, Interval
<1>3. PICK S : S = ZonePages(z) \ b
  OBVIOUS
<1>4. IsFiniteSet(ZonePages(z)) /\ S \in SUBSET ZonePages(z)
  BY <1>3, ZonePlace
<1>5. IsFiniteSet(S)
  BY <1>4, FS_Subset
<1>6. S \cap D = D /\ ZonePages(z) \ (b \cup D) = S \ D
  BY <1>1, <1>3
<1>7. Cardinality(S \ D) = Cardinality(S) - Cardinality(S \cap D)
  BY <1>5, <1>2, FS_Difference
<1>8. Cardinality(S) \in Nat
  BY <1>5, FS_CardinalityType
<1>9. ASSUME NEW y \in ZoneIds, y # z
      PROVE  ZonePages(y) \ (b \cup D) = ZonePages(y) \ b
  <2>1. \A q \in D : q \notin ZonePages(y)
    BY <1>1, <1>9, ZonePageFacts
  <2>2. QED
    BY <2>1
<1>10. Cardinality(ZonePages(z) \ (b \cup D)) = Cardinality(ZonePages(z) \ b) - n
  BY <1>2, <1>3, <1>6, <1>7
<1>11. QED
  BY <1>1, <1>3, <1>8, <1>9, <1>10, Zenon DEF Fewer

LEMMA ProperRun ==
  ASSUME NEW p \in Nat, NEW n \in Nat \ {0}, NEW z \in ZoneIds, p..(p + n - 1) \subseteq ZonePages(z)
  PROVE  Proper(<<p, n>>) /\ InZones(p..(p + n - 1))
<1>1. RunPages(<<p, n>>) = p..(p + n - 1)
  BY DEF RunPages
<1>2. QED
  BY <1>1 DEF Proper, InZones

(* alloc_pages gives pages that nobody has.                                *)
Taken(m, r, select, P, R, z, p, n) ==
  /\ r.cache = m.cache /\ r.reference_count = m.reference_count /\ r.free[z] = m.free[z] - n
  /\ z \in Selected(select) /\ z \in ZoneIds /\ p \in Nat /\ p..(p + n - 1) \subseteq ZonePages(z)
  /\ p..(p + n - 1) \cap (KernelPages \cup P \cup RunSet(R)) = {} /\ <<p, n>> \notin R

LEMMA TakePages ==
  ASSUME NEW m \in Mems, NEW P, NEW R, NEW A, PageSide(m, P, R, A),
         NEW select \in {"ZONE_NORMAL", "ZONE_UNMAPED"}, NEW n \in Nat \ {0}, Serves(m, select, n) # 0,
         NEW z, z = Serves(m, select, n), NEW p, p = FoundPage(m, select, n),
         NEW r, r = alloc_pages(m, select, n)
  PROVE  r \in Mems /\ PageSide(r, P, R \cup {<<p, n>>}, A) /\ Taken(m, r, select, P, R, z, p, n)
<1>1. Owned(m.bits_map, P, R) /\ Counted(m) /\ Linked(m, A)
  BY DEF PageSide
<1>2. Holes \subseteq m.bits_map /\ KernelPages \cup P \cup RunSet(R) \subseteq m.bits_map
  BY <1>1 DEF Owned
<1>3. /\ z \in Selected(select) /\ z \in ZoneIds /\ m.free[z] >= n
      /\ p \in Nat /\ p \in ZonePages(z) /\ p..(p + n - 1) \subseteq ZonePages(z)
      /\ p..(p + n - 1) \cap m.bits_map = {}
  BY <1>2, Served, Zenon
<1>4. r = Take(m, z, p, n)
  BY DEF alloc_pages
<1>5. p..(p + n - 1) \subseteq Bits
  BY <1>3, ZonePageFacts
<1>6. /\ r \in Mems /\ r.bits_map = m.bits_map \cup p..(p + n - 1)
      /\ r.using = [m.using EXCEPT ![z] = @ + n] /\ r.free = [m.free EXCEPT ![z] = @ - n]
      /\ r.total_pages_link = m.total_pages_link /\ r.reference_count = m.reference_count
      /\ r.cache = m.cache
  BY <1>3, <1>4, <1>5, TakeIs
<1>7. p..(p + n - 1) \cap (KernelPages \cup P \cup RunSet(R)) = {}
  BY <1>2, <1>3
<1>8. <<p, n>> \notin R
  <2>1. p \in p..(p + n - 1)
    BY <1>3, Interval
  <2>2. <<p, n>> \in R => p \in RunSet(R)
    BY <2>1 DEF RunSet, RunPages
  <2>3. QED
    BY <1>7, <2>1, <2>2
<1>9. Owned(r.bits_map, P, R \cup {<<p, n>>})
  <2>1. RunSet(R \cup {<<p, n>>}) = RunSet(R) \cup p..(p + n - 1)
    BY RunSetAdd
  <2>2. r.bits_map = Holes \cup KernelPages \cup P \cup RunSet(R \cup {<<p, n>>})
    BY <1>1, <1>6, <2>1 DEF Owned
  <2>3. P \cap RunSet(R \cup {<<p, n>>}) = {} /\ KernelPages \cap (P \cup RunSet(R \cup {<<p, n>>})) = {}
    BY <1>1, <1>7, <2>1 DEF Owned
  <2>4. RunPages(<<p, n>>) = p..(p + n - 1)
    BY DEF RunPages
  <2>5. \A a \in R : RunPages(a) \subseteq RunSet(R)
    BY DEF RunSet
  <2>6. \A a, c \in R \cup {<<p, n>>} : a # c => RunPages(a) \cap RunPages(c) = {}
    BY <1>1, <1>7, <2>4, <2>5 DEF Owned
  <2>7. Proper(<<p, n>>)
    BY <1>3, ProperRun
  <2>8. (\A run \in R \cup {<<p, n>>} : Proper(run)) /\ InZones(P)
    BY <1>1, <2>7 DEF Owned
  <2>9. QED
    BY <2>2, <2>3, <2>6, <2>8 DEF Owned
<1>10. m.using \in ZoneNumbers /\ m.free \in ZoneNumbers
  BY MemFields
<1>11. m.using[z] \in Int /\ m.free[z] \in Int
  BY <1>3, <1>10 DEF ZoneNumbers
<1>12. r.using[z] = m.using[z] + n /\ r.free[z] = m.free[z] - n
       /\ \A y \in ZoneIds : y # z => r.using[y] = m.using[y] /\ r.free[y] = m.free[y]
  <2>1. m.using[z] + n \in Int /\ m.free[z] - n \in Int
    BY <1>11
  <2>2. QED
    BY <1>3, <1>6, <1>10, <2>1, NewZoneNumber
<1>13. Counted(r)
  <2>1. /\ Cardinality(ZonePages(z) \ r.bits_map) = Cardinality(ZonePages(z) \ m.bits_map) - n
        /\ Cardinality(ZonePages(z) \ m.bits_map) \in Nat
        /\ \A y \in ZoneIds : y # z => ZonePages(y) \ r.bits_map = ZonePages(y) \ m.bits_map
    <3>1. Fewer(z, m.bits_map, r.bits_map, n)
      BY <1>3, <1>6, LessFree, Zenon
    <3>2. QED
      BY <3>1, Zenon DEF Fewer
  <2>2. /\ m.using[z] + m.free[z] = Cardinality(ZonePages(z)) /\ m.free[z] \in Nat
        /\ m.free[z] = Cardinality(ZonePages(z) \ m.bits_map) - (IF z = 1 THEN 1 ELSE 0)
    BY <1>1, <1>3 DEF Counted
  <2>3. r.using[z] + r.free[z] = Cardinality(ZonePages(z)) /\ r.free[z] \in Nat
    BY <1>3, <1>11, <1>12, <2>2
  <2>4. r.free[z] = Cardinality(ZonePages(z) \ r.bits_map) - (IF z = 1 THEN 1 ELSE 0)
    BY <1>12, <2>1, <2>2
  <2>5. QED
    BY <1>1, <1>12, <2>1, <2>3, <2>4 DEF Counted
<1>14. Linked(r, A)
  BY <1>1, <1>6 DEF Linked
<1>15. PageSide(r, P, R \cup {<<p, n>>}, A)
  BY <1>9, <1>13, <1>14 DEF PageSide
<1>16. r.free[z] = m.free[z] - n
  BY <1>6, <1>12
<1>17. Taken(m, r, select, P, R, z, p, n)
  BY <1>3, <1>6, <1>7, <1>8, <1>16, Zenon DEF Taken
<1>18. QED
  BY <1>6, <1>15, <1>17

(* free_pages takes back what alloc_pages gave.                            *)
LEMMA GivePages ==
  ASSUME NEW m \in Mems, NEW P, NEW R, NEW A, PageSide(m, P, R, A),
         NEW p, NEW n, <<p, n>> \in R, NEW r, r = free_pages(m, p, n)
  PROVE  /\ r \in Mems /\ r.cache = m.cache /\ r.reference_count = m.reference_count
         /\ PageSide(r, P, R \ {<<p, n>>}, A)
<1>1. Owned(m.bits_map, P, R) /\ Counted(m) /\ Linked(m, A)
  BY DEF PageSide
<1>2. Proper(<<p, n>>)
  BY <1>1 DEF Owned
<1>3. PICK z \in ZoneIds : p \in Nat /\ n \in Nat \ {0} /\ p..(p + n - 1) \subseteq ZonePages(z)
  BY <1>2 DEF Proper, RunPages
<1>4. p \in p..(p + n - 1) /\ ZoneOf(p) = z
  BY <1>3, Interval, ZonePageFacts
<1>5. /\ r \in Mems /\ r.bits_map = m.bits_map \ (p..(p + n - 1))
      /\ r.using = [m.using EXCEPT ![z] = @ - n] /\ r.free = [m.free EXCEPT ![z] = @ + n]
      /\ r.total_pages_link = m.total_pages_link /\ r.reference_count = m.reference_count
      /\ r.cache = m.cache
  BY <1>3, <1>4, FreePagesIs
<1>6. p..(p + n - 1) \subseteq RunSet(R)
  BY DEF RunSet, RunPages
<1>7. p..(p + n - 1) \cap Holes = {}
  BY <1>3, ZonePageFacts
<1>8. Owned(r.bits_map, P, R \ {<<p, n>>})
  <2>1. RunSet(R \ {<<p, n>>}) = RunSet(R) \ (p..(p + n - 1))
    BY <1>1, RunSetRemove DEF Owned
  <2>2. r.bits_map = Holes \cup KernelPages \cup P \cup RunSet(R \ {<<p, n>>})
    BY <1>1, <1>5, <1>6, <1>7, <2>1 DEF Owned
  <2>3. P \cap RunSet(R \ {<<p, n>>}) = {} /\ KernelPages \cap (P \cup RunSet(R \ {<<p, n>>})) = {}
    BY <1>1, <2>1 DEF Owned
  <2>4. QED
    BY <1>1, <2>2, <2>3 DEF Owned
<1>9. m.using \in ZoneNumbers /\ m.free \in ZoneNumbers
  BY MemFields
<1>10. m.using[z] \in Int /\ m.free[z] \in Int
  BY <1>3, <1>9 DEF ZoneNumbers
<1>11. r.using[z] = m.using[z] - n /\ r.free[z] = m.free[z] + n
       /\ \A y \in ZoneIds : y # z => r.using[y] = m.using[y] /\ r.free[y] = m.free[y]
  <2>1. m.using[z] - n \in Int /\ m.free[z] + n \in Int
    BY <1>3, <1>10
  <2>2. QED
    BY <1>3, <1>5, <1>9, <2>1, NewZoneNumber
<1>12. Counted(r)
  <2>1. p..(p + n - 1) \cap r.bits_map = {} /\ m.bits_map = r.bits_map \cup p..(p + n - 1)
    BY <1>1, <1>5, <1>6 DEF Owned
  <2>2. /\ Cardinality(ZonePages(z) \ m.bits_map) = Cardinality(ZonePages(z) \ r.bits_map) - n
        /\ Cardinality(ZonePages(z) \ r.bits_map) \in Nat
        /\ \A y \in ZoneIds : y # z => ZonePages(y) \ m.bits_map = ZonePages(y) \ r.bits_map
    <3>1. Fewer(z, r.bits_map, m.bits_map, n)
      BY <1>3, <2>1, LessFree, Zenon
    <3>2. QED
      BY <3>1, Zenon DEF Fewer
  <2>3. /\ m.using[z] + m.free[z] = Cardinality(ZonePages(z)) /\ m.free[z] \in Nat
        /\ m.free[z] = Cardinality(ZonePages(z) \ m.bits_map) - (IF z = 1 THEN 1 ELSE 0)
    BY <1>1 DEF Counted
  <2>4. r.using[z] + r.free[z] = Cardinality(ZonePages(z)) /\ r.free[z] \in Nat
    BY <1>3, <1>10, <1>11, <2>3
  <2>5. r.free[z] = Cardinality(ZonePages(z) \ r.bits_map) - (IF z = 1 THEN 1 ELSE 0)
    BY <1>3, <1>11, <2>2, <2>3
  <2>6. QED
    BY <1>1, <1>11, <2>2, <2>4, <2>5 DEF Counted
<1>13. Linked(r, A)
  BY <1>1, <1>5 DEF Linked
<1>14. QED
  BY <1>5, <1>8, <1>12, <1>13 DEF PageSide

LEMMA RealmFinite ==
  ASSUME NEW z \in ZoneIds, NEW f
  PROVE  IsFiniteSet({q \in Realm(z) : f[q] = 1})
<1>1. {q \in Realm(z) : f[q] = 1} \in SUBSET Pages
  BY DEF Realm
<1>2. QED
  BY <1>1, PageFacts, FS_Subset

(* page_init references a page, page_clean lets it go.                     *)
LEMMA ReferPage ==
  ASSUME NEW m \in Mems, NEW P, NEW R, NEW A, PageSide(m, P, R, A),
         NEW z \in ZoneIds, NEW p \in ZonePages(z), p \notin KernelPages, NEW r, r = page_init(m, p)
  PROVE  /\ r \in Mems /\ r.cache = m.cache /\ r.free = m.free /\ r.bits_map = m.bits_map
         /\ PageSide(r, P, R, A \cup {p})
<1>1. Owned(m.bits_map, P, R) /\ Counted(m) /\ Linked(m, A)
  BY DEF PageSide
<1>2. p \in Pages /\ ZoneOf(p) = z /\ p \in Realm(z) /\ \A y \in ZoneIds : y # z => p \notin Realm(y)
  BY ZonePageFacts
<1>3. InZones(A \cup {p})
  BY <1>1 DEF Linked, InZones
<1>4. m.reference_count[p] \in {0, 1} /\ (m.reference_count[p] = 1 <=> p \in A)
  BY <1>1, <1>2 DEF Linked
<1>5. CASE m.reference_count[p] # 0
  <2>1. r = m
    BY <1>5 DEF page_init
  <2>2. A \cup {p} = A
    BY <1>4, <1>5
  <2>3. QED
    BY <2>1, <2>2
<1>6. CASE m.reference_count[p] = 0
  <2>1. /\ r \in Mems /\ r.bits_map = m.bits_map /\ r.using = m.using /\ r.free = m.free
        /\ r.total_pages_link = [m.total_pages_link EXCEPT ![z] = @ + 1]
        /\ r.reference_count = [m.reference_count EXCEPT ![p] = 1]
        /\ r.cache = m.cache
    BY <1>2, <1>6, PageInitIs
  <2>2. r.reference_count[p] = 1 /\ \A q \in Pages : q # p => r.reference_count[q] = m.reference_count[q]
    BY <1>2, <2>1, MemFields, NewPageNumber
  <2>3. m.total_pages_link[z] \in Int
    BY MemFields DEF ZoneNumbers
  <2>4. r.total_pages_link[z] = m.total_pages_link[z] + 1
        /\ \A y \in ZoneIds : y # z => r.total_pages_link[y] = m.total_pages_link[y]
    <3>1. m.total_pages_link[z] + 1 \in Int
      BY <2>3
    <3>2. QED
      BY <2>1, <3>1, MemFields, NewZoneNumber
  <2>5. \A y \in ZoneIds : Realm(y) \subseteq Pages
    BY DEF Realm
  <2>6. ASSUME NEW y \in ZoneIds
        PROVE  r.total_pages_link[y] = Cardinality({q \in Realm(y) : r.reference_count[q] = 1})
    <3>1. PICK T : T = {q \in Realm(y) : m.reference_count[q] = 1}
      OBVIOUS
    <3>2. IsFiniteSet(T) /\ m.total_pages_link[y] = Cardinality(T)
      BY <1>1, <3>1, RealmFinite DEF Linked
    <3>3. CASE y = z
      <4>1. {q \in Realm(y) : r.reference_count[q] = 1} = T \cup {p} /\ p \notin T
        BY <1>2, <1>6, <2>2, <2>5, <3>1, <3>3
      <4>2. Cardinality(T \cup {p}) = Cardinality(T) + 1
        BY <3>2, <4>1, FS_AddElement
      <4>3. QED
        BY <2>4, <3>2, <3>3, <4>1, <4>2
    <3>4. CASE y # z
      <4>1. {q \in Realm(y) : r.reference_count[q] = 1} = T
        BY <1>2, <2>2, <2>5, <3>1, <3>4
      <4>2. QED
        BY <2>4, <3>2, <3>4, <4>1
    <3>5. QED
      BY <3>3, <3>4
  <2>7. ASSUME NEW q \in Pages
        PROVE  r.reference_count[q] \in {0, 1} /\ (r.reference_count[q] = 1 <=> q \in KernelPages \cup (A \cup {p}))
    <3>1. m.reference_count[q] \in {0, 1} /\ (m.reference_count[q] = 1 <=> q \in KernelPages \cup A)
      BY <1>1 DEF Linked
    <3>2. QED
      BY <2>2, <3>1
  <2>8. Linked(r, A \cup {p})
    BY <1>3, <2>6, <2>7 DEF Linked
  <2>9. Owned(r.bits_map, P, R) /\ Counted(r)
    BY <1>1, <2>1 DEF Counted
  <2>10. QED
    BY <2>1, <2>8, <2>9 DEF PageSide
<1>7. QED
  BY <1>5, <1>6

LEMMA ForgetPage ==
  ASSUME NEW m \in Mems, NEW P, NEW R, NEW A, PageSide(m, P, R, A),
         NEW p \in A, p \notin KernelPages, NEW r, r = page_clean(m, p)
  PROVE  /\ r \in Mems /\ r.cache = m.cache /\ PageSide(r, P, R, A \ {p})
<1>1. Owned(m.bits_map, P, R) /\ Counted(m) /\ Linked(m, A)
  BY DEF PageSide
<1>2. PICK z \in ZoneIds : p \in ZonePages(z)
  BY <1>1 DEF Linked, InZones
<1>3. p \in Pages /\ ZoneOf(p) = z /\ p \in Realm(z) /\ \A y \in ZoneIds : y # z => p \notin Realm(y)
  BY <1>2, ZonePageFacts
<1>4. InZones(A \ {p})
  BY <1>1 DEF Linked, InZones
<1>5. m.reference_count[p] = 1
  BY <1>1, <1>3 DEF Linked
<1>6. /\ r \in Mems /\ r.bits_map = m.bits_map /\ r.using = m.using /\ r.free = m.free
      /\ r.total_pages_link = [m.total_pages_link EXCEPT ![z] = @ - 1]
      /\ r.reference_count = [m.reference_count EXCEPT ![p] = @ - 1]
      /\ r.cache = m.cache
  BY <1>3, PageCleanIs
<1>7. r.reference_count[p] = 0 /\ \A q \in Pages : q # p => r.reference_count[q] = m.reference_count[q]
  <2>1. r.reference_count = [m.reference_count EXCEPT ![p] = 0]
    BY <1>5, <1>6
  <2>2. QED
    BY <1>3, <2>1, MemFields, NewPageNumber
<1>8. m.total_pages_link[z] \in Int
  BY MemFields DEF ZoneNumbers
<1>9. r.total_pages_link[z] = m.total_pages_link[z] - 1
      /\ \A y \in ZoneIds : y # z => r.total_pages_link[y] = m.total_pages_link[y]
  <2>1. m.total_pages_link[z] - 1 \in Int
    BY <1>8
  <2>2. QED
    BY <1>6, <2>1, MemFields, NewZoneNumber
<1>10. \A y \in ZoneIds : Realm(y) \subseteq Pages
  BY DEF Realm
<1>11. ASSUME NEW y \in ZoneIds
       PROVE  r.total_pages_link[y] = Cardinality({q \in Realm(y) : r.reference_count[q] = 1})
  <2>1. PICK T : T = {q \in Realm(y) : m.reference_count[q] = 1}
    OBVIOUS
  <2>2. IsFiniteSet(T) /\ m.total_pages_link[y] = Cardinality(T)
    BY <1>1, <2>1, RealmFinite DEF Linked
  <2>3. CASE y = z
    <3>1. {q \in Realm(y) : r.reference_count[q] = 1} = T \ {p} /\ p \in T
      BY <1>3, <1>5, <1>7, <1>10, <2>1, <2>3
    <3>2. Cardinality(T \ {p}) = Cardinality(T) - 1
      BY <2>2, <3>1, FS_RemoveElement
    <3>3. QED
      BY <1>9, <2>2, <2>3, <3>1, <3>2
  <2>4. CASE y # z
    <3>1. {q \in Realm(y) : r.reference_count[q] = 1} = T
      BY <1>3, <1>7, <1>10, <2>1, <2>4
    <3>2. QED
      BY <1>9, <2>2, <2>4, <3>1
  <2>5. QED
    BY <2>3, <2>4
<1>12. ASSUME NEW q \in Pages
       PROVE  r.reference_count[q] \in {0, 1} /\ (r.reference_count[q] = 1 <=> q \in KernelPages \cup (A \ {p}))
  <2>1. m.reference_count[q] \in {0, 1} /\ (m.reference_count[q] = 1 <=> q \in KernelPages \cup A)
    BY <1>1 DEF Linked
  <2>2. QED
    BY <1>7, <2>1
<1>13. Linked(r, A \ {p})
  BY <1>4, <1>11, <1>12 DEF Linked
<1>14. Owned(r.bits_map, P, R) /\ Counted(r)
  BY <1>1, <1>6 DEF Counted
<1>15. QED
  BY <1>6, <1>13, <1>14 DEF PageSide
-----------------------------------------------------------------------------
(* The slabs' side.  What each operation makes of the rings of slabs.      *)
Put(k, c, q, f, u) == [k EXCEPT ![c] = [pool |-> q, total_free |-> f, total_using |-> u]]

Marked(b, i) == [b EXCEPT !.used = @ \cup {i}, !.using_count = @ + 1, !.free_count = @ - 1]
Unmarked(b, i) == [b EXCEPT !.used = @ \ {i}, !.using_count = @ - 1, !.free_count = @ + 1]

Same(m, r) ==
  /\ r.bits_map = m.bits_map /\ r.using = m.using /\ r.free = m.free
  /\ r.total_pages_link = m.total_pages_link /\ r.reference_count = m.reference_count

LEMMA MarkIs ==
  ASSUME NEW m \in Mems, NEW c \in DOMAIN Classes, NEW s \in DOMAIN m.cache[c].pool, NEW i, i = Object(m, c, s)[2]
  PROVE  LET r == Mark(m, c, s) IN
           /\ Same(m, r) /\ (r.cache \in Caches => r \in Mems)
           /\ r.cache = Put(m.cache, c, [m.cache[c].pool EXCEPT ![s] = Marked(@, i)],
                  m.cache[c].total_free - 1, m.cache[c].total_using + 1)
<1>1. PICK k : k = m.cache
  OBVIOUS
<1>2. k \in Caches /\ k[c] \in CacheRecords
  BY <1>1, MemFields DEF Caches
<1>3. PICK h : h = [k EXCEPT ![c].pool[s].used = @ \cup {i}, ![c].pool[s].using_count = @ + 1,
                             ![c].pool[s].free_count = @ - 1, ![c].total_free = @ - 1, ![c].total_using = @ + 1]
  OBVIOUS
<1>4. PICK r : r = Mark(m, c, s)
  OBVIOUS
<1>40. Same(m, r)
  BY <1>4 DEF Mark, Mems, Same
<1>41. r.cache = h
  BY <1>1, <1>3, <1>4 DEF Mark, Mems, Caches
<1>42. r.cache \in Caches => r \in Mems
  BY <1>4, <1>40, MemFields DEF Mark, Mems, Same
<1>5. PICK e : e = [k[c] EXCEPT !.pool[s].used = @ \cup {i}, !.pool[s].using_count = @ + 1,
                                !.pool[s].free_count = @ - 1, !.total_free = @ - 1, !.total_using = @ + 1]
  OBVIOUS
<1>6. h = [k EXCEPT ![c] = e]
  <2>1. DOMAIN h = DOMAIN Classes /\ \A d \in DOMAIN Classes : d # c => h[d] = k[d]
    BY <1>2, <1>3 DEF Caches
  <2>2. h[c] = e
    BY <1>2, <1>3, <1>5 DEF Caches
  <2>3. h = [d \in DOMAIN h |-> h[d]]
    <3>1. \A f, x : [f EXCEPT ![c].total_using = x] = [d \in DOMAIN f |-> [f EXCEPT ![c].total_using = x][d]]
      OBVIOUS
    <3>2. \A f, x : DOMAIN [f EXCEPT ![c].total_using = x] = DOMAIN f
      OBVIOUS
    <3>3. PICK g, x : h = [g EXCEPT ![c].total_using = x]
      BY <1>3, Zenon
    <3>4. QED
      BY <3>1, <3>2, <3>3, Zenon
  <2>4. DOMAIN k = DOMAIN Classes
    BY <1>2 DEF Caches
  <2>5. QED
    BY <2>1, <2>2, <2>3, <2>4
<1>7. e = [pool |-> [k[c].pool EXCEPT ![s] = Marked(@, i)],
           total_free |-> k[c].total_free - 1, total_using |-> k[c].total_using + 1]
  BY <1>1, <1>2, <1>5 DEF CacheRecords, Marked
<1>8. QED
  BY <1>1, <1>4, <1>40, <1>41, <1>42, <1>6, <1>7 DEF Put

LEMMA UnmarkIs ==
  ASSUME NEW m \in Mems, NEW c \in DOMAIN Classes, NEW s \in DOMAIN m.cache[c].pool, NEW o, NEW i, i = o[2]
  PROVE  LET r == Unmark(m, c, s, o) IN
           /\ Same(m, r) /\ (r.cache \in Caches => r \in Mems)
           /\ r.cache = Put(m.cache, c, [m.cache[c].pool EXCEPT ![s] = Unmarked(@, i)],
                  m.cache[c].total_free + 1, m.cache[c].total_using - 1)
<1>1. PICK k : k = m.cache
  OBVIOUS
<1>2. k \in Caches /\ k[c] \in CacheRecords
  BY <1>1, MemFields DEF Caches
<1>3. PICK h : h = [k EXCEPT ![c].pool[s].used = @ \ {i}, ![c].pool[s].using_count = @ - 1,
                             ![c].pool[s].free_count = @ + 1, ![c].total_free = @ + 1, ![c].total_using = @ - 1]
  OBVIOUS
<1>4. PICK r : r = Unmark(m, c, s, o)
  OBVIOUS
<1>40. Same(m, r)
  BY <1>4 DEF Unmark, Mems, Same
<1>41. r.cache = h
  BY <1>1, <1>3, <1>4 DEF Unmark, Mems, Caches
<1>42. r.cache \in Caches => r \in Mems
  BY <1>4, <1>40, MemFields DEF Unmark, Mems, Same
<1>5. PICK e : e = [k[c] EXCEPT !.pool[s].used = @ \ {i}, !.pool[s].using_count = @ - 1,
                                !.pool[s].free_count = @ + 1, !.total_free = @ + 1, !.total_using = @ - 1]
  OBVIOUS
<1>6. h = [k EXCEPT ![c] = e]
  <2>1. DOMAIN h = DOMAIN Classes /\ \A d \in DOMAIN Classes : d # c => h[d] = k[d]
    BY <1>2, <1>3 DEF Caches
  <2>2. h[c] = e
    BY <1>2, <1>3, <1>5 DEF Caches
  <2>3. h = [d \in DOMAIN h |-> h[d]]
    <3>1. \A f, x : [f EXCEPT ![c].total_using = x] = [d \in DOMAIN f |-> [f EXCEPT ![c].total_using = x][d]]
      OBVIOUS
    <3>2. \A f, x : DOMAIN [f EXCEPT ![c].total_using = x] = DOMAIN f
      OBVIOUS
    <3>3. PICK g, x : h = [g EXCEPT ![c].total_using = x]
      BY <1>3, Zenon
    <3>4. QED
      BY <3>1, <3>2, <3>3, Zenon
  <2>4. DOMAIN k = DOMAIN Classes
    BY <1>2 DEF Caches
  <2>5. QED
    BY <2>1, <2>2, <2>3, <2>4
<1>7. e = [pool |-> [k[c].pool EXCEPT ![s] = Unmarked(@, i)],
           total_free |-> k[c].total_free + 1, total_using |-> k[c].total_using - 1]
  BY <1>1, <1>2, <1>5 DEF CacheRecords, Unmarked
<1>8. QED
  BY <1>1, <1>4, <1>40, <1>41, <1>42, <1>6, <1>7 DEF Put

LEMMA AddSlabIs ==
  ASSUME NEW m \in Mems, NEW c \in DOMAIN Classes, NEW b
  PROVE  LET r == AddSlab(m, c, b) IN
           /\ Same(m, r) /\ (r.cache \in Caches => r \in Mems)
           /\ r.cache = Put(m.cache, c, Append(m.cache[c].pool, b),
                  m.cache[c].total_free + b.color_count, m.cache[c].total_using)
<1>1. PICK k : k = m.cache
  OBVIOUS
<1>2. k \in Caches /\ k[c] \in CacheRecords
  BY <1>1, MemFields DEF Caches
<1>3. PICK h : h = [k EXCEPT ![c].pool = Append(@, b), ![c].total_free = @ + b.color_count]
  OBVIOUS
<1>4. PICK r : r = AddSlab(m, c, b)
  OBVIOUS
<1>40. Same(m, r)
  BY <1>4 DEF AddSlab, Mems, Same
<1>41. r.cache = h
  BY <1>1, <1>3, <1>4 DEF AddSlab, Mems, Caches
<1>42. r.cache \in Caches => r \in Mems
  BY <1>4, <1>40, MemFields DEF AddSlab, Mems, Same
<1>5. PICK e : e = [k[c] EXCEPT !.pool = Append(@, b), !.total_free = @ + b.color_count]
  OBVIOUS
<1>6. h = [k EXCEPT ![c] = e]
  BY <1>2, <1>3, <1>5 DEF Caches
<1>7. e = [pool |-> Append(k[c].pool, b),
           total_free |-> k[c].total_free + b.color_count, total_using |-> k[c].total_using]
  BY <1>1, <1>2, <1>5 DEF CacheRecords
<1>8. QED
  BY <1>1, <1>4, <1>40, <1>41, <1>42, <1>6, <1>7 DEF Put

LEMMA DropSlabIs ==
  ASSUME NEW m \in Mems, NEW c \in DOMAIN Classes, NEW s
  PROVE  LET r == DropSlab(m, c, s) IN
           /\ Same(m, r) /\ (r.cache \in Caches => r \in Mems)
           /\ r.cache = Put(m.cache, c, RemoveAt(m.cache[c].pool, s),
                  m.cache[c].total_free - m.cache[c].pool[s].color_count, m.cache[c].total_using)
<1>1. PICK k : k = m.cache
  OBVIOUS
<1>2. k \in Caches /\ k[c] \in CacheRecords
  BY <1>1, MemFields DEF Caches
<1>3. PICK n : n = k[c].pool[s].color_count
  OBVIOUS
<1>4. PICK h : h = [k EXCEPT ![c].pool = RemoveAt(@, s), ![c].total_free = @ - n]
  OBVIOUS
<1>5. PICK r : r = DropSlab(m, c, s)
  OBVIOUS
<1>50. Same(m, r)
  BY <1>5 DEF DropSlab, Mems, Same
<1>51. r.cache = h
  BY <1>1, <1>3, <1>4, <1>5 DEF DropSlab, Mems, Caches
<1>52. r.cache \in Caches => r \in Mems
  BY <1>5, <1>50, MemFields DEF DropSlab, Mems, Same
<1>6. PICK e : e = [k[c] EXCEPT !.pool = RemoveAt(@, s), !.total_free = @ - n]
  OBVIOUS
<1>7. h = [k EXCEPT ![c] = e]
  BY <1>2, <1>4, <1>6 DEF Caches
<1>8. e = [pool |-> RemoveAt(k[c].pool, s), total_free |-> k[c].total_free - n, total_using |-> k[c].total_using]
  BY <1>1, <1>2, <1>6 DEF CacheRecords
<1>9. QED
  BY <1>1, <1>3, <1>5, <1>50, <1>51, <1>52, <1>7, <1>8 DEF Put

(* A ring put in place of another leaves all else.                         *)
Changed(k, h, c, q, f, u) ==
  /\ h \in Caches /\ h[c].pool = q /\ h[c].total_free = f /\ h[c].total_using = u
  /\ \A d \in DOMAIN Classes : d # c => h[d] = k[d]

LEMMA PutIs ==
  ASSUME NEW m \in Mems, NEW c \in DOMAIN Classes, NEW q \in SlabRings, NEW f \in Int, NEW u \in Int,
         NEW r, Same(m, r), r.cache = Put(m.cache, c, q, f, u), r.cache \in Caches => r \in Mems
  PROVE  r \in Mems /\ Same(m, r) /\ Changed(m.cache, r.cache, c, q, f, u)
<1>1. [pool |-> q, total_free |-> f, total_using |-> u] \in CacheRecords
  BY DEF CacheRecords
<1>2. PICK e \in CacheRecords : e = [pool |-> q, total_free |-> f, total_using |-> u]
  BY <1>1, Zenon
<1>3. e.pool = q /\ e.total_free = f /\ e.total_using = u
  BY <1>2
<1>4. PICK k \in Caches : k = m.cache
  <2>1. m.cache \in Caches
    BY MemFields
  <2>2. QED
    BY <2>1, Zenon
<1>5. PICK h : h = [k EXCEPT ![c] = e]
  OBVIOUS
<1>6. h \in Caches /\ h[c] = e /\ \A d \in DOMAIN Classes : d # c => h[d] = k[d]
  BY <1>4, <1>5 DEF Caches
<1>7. r.cache = h
  BY <1>2, <1>4, <1>5 DEF Put
<1>8. r \in Mems
  BY <1>6, <1>7
<1>9. QED
  BY <1>3, <1>4, <1>6, <1>7, <1>8 DEF Changed
-----------------------------------------------------------------------------
(* The counts of a ring.                                                   *)
Column(q, field) == [s \in DOMAIN q |-> q[s][field]]

LEMMA ColumnIs ==
  ASSUME NEW T, NEW q \in Seq(T), NEW field, \A b \in T : b[field] \in Int
  PROVE  /\ Column(q, field) \in Seq(Int) /\ Len(Column(q, field)) = Len(q)
         /\ \A s \in 1..Len(q) : Column(q, field)[s] = q[s][field] /\ q[s][field] \in Int
<1>1. DOMAIN q = 1..Len(q) /\ Len(q) \in Nat
  OBVIOUS
<1>2. \A s \in 1..Len(q) : q[s] \in T
  BY ElementOfSeq
<1>3. Column(q, field) = [s \in 1..Len(q) |-> q[s][field]]
  BY <1>1 DEF Column
<1>4. \A s \in 1..Len(q) : q[s][field] \in Int
  BY <1>2
<1>5. QED
  BY <1>1, <1>3, <1>4

LEMMA ColumnSwap ==
  ASSUME NEW T, NEW q \in Seq(T), NEW field, \A b \in T : b[field] \in Int,
         NEW s \in 1..Len(q), NEW b \in T
  PROVE  Sum(Column([q EXCEPT ![s] = b], field)) = (Sum(Column(q, field)) - q[s][field]) + b[field]
<1>1. PICK e : e = [q EXCEPT ![s] = b]
  OBVIOUS
<1>2. e \in Seq(T) /\ Len(e) = Len(q) /\ \A i \in 1..Len(q) : e[i] = IF i = s THEN b ELSE q[i]
  BY <1>1
<1>3. PICK x : x = Column(q, field)
  OBVIOUS
<1>4. x \in Seq(Int) /\ Len(x) = Len(q) /\ \A i \in 1..Len(q) : x[i] = q[i][field]
  BY <1>3, ColumnIs
<1>5. PICK y : y = Column(e, field)
  OBVIOUS
<1>6. y \in Seq(Int) /\ Len(y) = Len(q) /\ \A i \in 1..Len(q) : y[i] = e[i][field]
  <2>1. y \in Seq(Int) /\ Len(y) = Len(e) /\ \A i \in 1..Len(e) : y[i] = e[i][field]
    BY <1>2, <1>5, ColumnIs
  <2>2. QED
    BY <1>2, <2>1
<1>7. b[field] \in Int
  OBVIOUS
<1>8. y = [x EXCEPT ![s] = b[field]]
  <2>1. [x EXCEPT ![s] = b[field]] \in Seq(Int)
    BY <1>4, <1>7
  <2>2. Len([x EXCEPT ![s] = b[field]]) = Len(q)
    BY <1>4
  <2>3. ASSUME NEW i \in 1..Len(q)
        PROVE  [x EXCEPT ![s] = b[field]][i] = y[i]
    <3>1. [x EXCEPT ![s] = b[field]][i] = IF i = s THEN b[field] ELSE x[i]
      BY <1>4
    <3>2. e[i] = (IF i = s THEN b ELSE q[i]) /\ x[i] = q[i][field] /\ y[i] = e[i][field]
      BY <1>2, <1>4, <1>6, Zenon
    <3>3. QED
      BY <3>1, <3>2, Zenon
  <2>4. QED
    BY <1>6, <2>1, <2>2, <2>3, SeqEqual
<1>9. Sum(y) = (Sum(x) - x[s]) + b[field]
  BY <1>4, <1>7, <1>8, SumSwap
<1>10. QED
  BY <1>1, <1>3, <1>4, <1>5, <1>9

LEMMA ColumnAppend ==
  ASSUME NEW T, NEW q \in Seq(T), NEW field, \A b \in T : b[field] \in Int, NEW b \in T
  PROVE  Sum(Column(Append(q, b), field)) = Sum(Column(q, field)) + b[field]
<1>1. PICK e : e = Append(q, b)
  OBVIOUS
<1>2. e \in Seq(T) /\ Len(e) = Len(q) + 1 /\ \A i \in 1..Len(e) : e[i] = IF i <= Len(q) THEN q[i] ELSE b
  BY <1>1
<1>3. PICK x : x = Column(q, field)
  OBVIOUS
<1>4. x \in Seq(Int) /\ Len(x) = Len(q) /\ \A i \in 1..Len(q) : x[i] = q[i][field]
  BY <1>3, ColumnIs
<1>5. PICK y : y = Column(e, field)
  OBVIOUS
<1>6. y \in Seq(Int) /\ Len(y) = Len(e) /\ \A i \in 1..Len(e) : y[i] = e[i][field]
  BY <1>2, <1>5, ColumnIs
<1>7. b[field] \in Int
  OBVIOUS
<1>8. y = Append(x, b[field])
  <2>1. Append(x, b[field]) \in Seq(Int) /\ Len(Append(x, b[field])) = Len(q) + 1
    BY <1>4, <1>7
  <2>2. \A i \in 1..Len(e) : Append(x, b[field])[i] = IF i <= Len(q) THEN x[i] ELSE b[field]
    BY <1>2, <1>4, <1>7
  <2>3. \A i \in 1..Len(e) : i <= Len(q) => i \in 1..Len(q)
    BY <1>2
  <2>4. \A i \in 1..Len(e) : Append(x, b[field])[i] = y[i]
    BY <1>2, <1>4, <1>6, <2>2, <2>3
  <2>5. QED
    BY <1>2, <1>6, <2>1, <2>4, SeqEqual
<1>9. Sum(y) = Sum(x) + b[field]
  BY <1>4, <1>7, <1>8, SumAppend
<1>10. QED
  BY <1>1, <1>3, <1>5, <1>9

LEMMA ColumnRemoveAt ==
  ASSUME NEW T, NEW q \in Seq(T), NEW field, \A b \in T : b[field] \in Int, NEW s \in 1..Len(q)
  PROVE  Sum(Column(RemoveAt(q, s), field)) = Sum(Column(q, field)) - q[s][field]
<1>1. PICK e : e = RemoveAt(q, s)
  OBVIOUS
<1>2. e \in Seq(T) /\ Len(e) = Len(q) - 1 /\ \A i \in 1..(Len(q) - 1) : e[i] = IF i < s THEN q[i] ELSE q[i + 1]
  BY <1>1, RemoveAtIs
<1>3. PICK x : x = Column(q, field)
  OBVIOUS
<1>4. x \in Seq(Int) /\ Len(x) = Len(q) /\ \A i \in 1..Len(q) : x[i] = q[i][field]
  BY <1>3, ColumnIs
<1>5. PICK y : y = Column(e, field)
  OBVIOUS
<1>6. y \in Seq(Int) /\ Len(y) = Len(e) /\ \A i \in 1..Len(e) : y[i] = e[i][field]
  BY <1>2, <1>5, ColumnIs
<1>7. PICK w : w = RemoveAt(x, s)
  OBVIOUS
<1>8. w \in Seq(Int) /\ Len(w) = Len(x) - 1 /\ \A i \in 1..(Len(x) - 1) : w[i] = IF i < s THEN x[i] ELSE x[i + 1]
  <2>1. s \in 1..Len(x)
    BY <1>4
  <2>2. QED
    BY <1>4, <1>7, <2>1, RemoveAtIs
<1>9. y = w
  <2>1. Len(y) = Len(w) /\ Len(w) = Len(q) - 1 /\ Len(q) \in Nat /\ s \in Nat
    BY <1>2, <1>4, <1>6, <1>8
  <2>2. ASSUME NEW i \in 1..Len(y)
        PROVE  y[i] = w[i]
    <3>1. i \in 1..(Len(q) - 1) /\ i \in 1..Len(q) /\ i + 1 \in 1..Len(q) /\ i \in 1..Len(e) /\ i \in 1..(Len(x) - 1)
      BY <1>2, <1>4, <2>1
    <3>2. y[i] = e[i][field] /\ e[i] = (IF i < s THEN q[i] ELSE q[i + 1])
          /\ w[i] = (IF i < s THEN x[i] ELSE x[i + 1]) /\ x[i] = q[i][field] /\ x[i + 1] = q[i + 1][field]
      BY <1>2, <1>4, <1>6, <1>8, <3>1
    <3>3. QED
      BY <3>2
  <2>3. QED
    BY <1>6, <1>8, <2>1, <2>2, SeqEqual
<1>10. Sum(w) = Sum(x) - x[s]
  <2>1. s \in 1..Len(x)
    BY <1>4
  <2>2. QED
    BY <1>4, <1>7, <2>1, SumRemoveAt
<1>11. QED
  BY <1>1, <1>3, <1>4, <1>5, <1>9, <1>10
-----------------------------------------------------------------------------
(* A slab whose counts are those of its map, and a ring of such slabs.     *)
GoodSlab(b) ==
  /\ b.used \subseteq 0..(b.color_count - 1)
  /\ b.using_count = Cardinality(b.used)
  /\ b.free_count = b.color_count - b.using_count

ShapedFor(c, b) ==
  /\ Classes[c].small => b.own = <<>>
  /\ b.own = <<>> \/ \E x, y \in ObjectNames : x # y /\ b.own = <<x, y>>

GoodRing(c, e) ==
  /\ Len(e.pool) > 0 /\ e.pool[1].page = StaticPage(c)
  /\ \A s \in 1..Len(e.pool) : /\ GoodSlab(e.pool[s]) /\ ShapedFor(c, e.pool[s])
                               /\ (s # 1 => e.pool[s].color_count = Classes[c].created)
  /\ e.total_free = Sum(Column(e.pool, "free_count"))
  /\ e.total_using = Sum(Column(e.pool, "using_count"))

LEMMA SlabFields ==
  ASSUME NEW b \in SlabRecords
  PROVE  /\ b.page \in Pages /\ b.used \subseteq Nat /\ b.using_count \in Int /\ b.free_count \in Int
         /\ b.color_count \in Nat /\ b.own \in Seq(ObjectNames)
         /\ b["free_count"] = b.free_count /\ b["using_count"] = b.using_count
BY DEF SlabRecords

LEMMA SlabCountFields ==
  /\ \A b \in SlabRecords : b["free_count"] \in Int
  /\ \A b \in SlabRecords : b["using_count"] \in Int
BY DEF SlabRecords

LEMMA RingFields ==
  ASSUME NEW e \in CacheRecords
  PROVE  /\ e.pool \in SlabRings /\ e.pool \in Seq(SlabRecords) /\ e.total_free \in Int /\ e.total_using \in Int
         /\ Len(e.pool) \in Nat /\ DOMAIN e.pool = 1..Len(e.pool)
         /\ \A s \in 1..Len(e.pool) : e.pool[s] \in SlabRecords
<1>1. e.pool \in SlabRings /\ e.total_free \in Int /\ e.total_using \in Int
  BY DEF CacheRecords
<1>2. e.pool \in Seq(SlabRecords)
  BY <1>1 DEF SlabRings
<1>3. \A s \in 1..Len(e.pool) : e.pool[s] \in SlabRecords
  BY <1>2, ElementOfSeq
<1>4. QED
  BY <1>1, <1>2, <1>3

LEMMA MarkedIs ==
  ASSUME NEW b \in SlabRecords, NEW i \in Nat, NEW n, n = Marked(b, i)
  PROVE  /\ n \in SlabRecords /\ n.page = b.page /\ n.own = b.own /\ n.color_count = b.color_count
         /\ n.used = b.used \cup {i} /\ n.using_count = b.using_count + 1 /\ n.free_count = b.free_count - 1
<1>1. /\ b.page \in Pages /\ b.used \in SUBSET Nat /\ b.using_count \in Int /\ b.free_count \in Int
      /\ b.color_count \in Nat /\ b.own \in Seq(ObjectNames)
  BY DEF SlabRecords
<1>2. /\ n.page = b.page /\ n.own = b.own /\ n.color_count = b.color_count
      /\ n.used = b.used \cup {i} /\ n.using_count = b.using_count + 1 /\ n.free_count = b.free_count - 1
  BY DEF Marked, SlabRecords
<1>3. n.used \in SUBSET Nat /\ n.using_count \in Int /\ n.free_count \in Int
  BY <1>1, <1>2
<1>4. n = [page |-> n.page, used |-> n.used, using_count |-> n.using_count, free_count |-> n.free_count,
           color_count |-> n.color_count, own |-> n.own]
  BY DEF Marked, SlabRecords
<1>5. n \in SlabRecords
  BY <1>1, <1>2, <1>3, <1>4, Zenon DEF SlabRecords
<1>6. QED
  BY <1>2, <1>5

LEMMA UnmarkedIs ==
  ASSUME NEW b \in SlabRecords, NEW i, NEW n, n = Unmarked(b, i)
  PROVE  /\ n \in SlabRecords /\ n.page = b.page /\ n.own = b.own /\ n.color_count = b.color_count
         /\ n.used = b.used \ {i} /\ n.using_count = b.using_count - 1 /\ n.free_count = b.free_count + 1
<1>1. /\ b.page \in Pages /\ b.used \in SUBSET Nat /\ b.using_count \in Int /\ b.free_count \in Int
      /\ b.color_count \in Nat /\ b.own \in Seq(ObjectNames)
  BY DEF SlabRecords
<1>2. /\ n.page = b.page /\ n.own = b.own /\ n.color_count = b.color_count
      /\ n.used = b.used \ {i} /\ n.using_count = b.using_count - 1 /\ n.free_count = b.free_count + 1
  BY DEF Unmarked, SlabRecords
<1>3. n.used \in SUBSET Nat /\ n.using_count \in Int /\ n.free_count \in Int
  BY <1>1, <1>2
<1>4. n = [page |-> n.page, used |-> n.used, using_count |-> n.using_count, free_count |-> n.free_count,
           color_count |-> n.color_count, own |-> n.own]
  BY DEF Unmarked, SlabRecords
<1>5. n \in SlabRecords
  BY <1>1, <1>2, <1>3, <1>4, Zenon DEF SlabRecords
<1>6. QED
  BY <1>2, <1>5

MarkedFacts(b, i, n) ==
  /\ n \in SlabRecords /\ n.page = b.page /\ n.own = b.own /\ n.color_count = b.color_count
  /\ n.used = b.used \cup {i} /\ n.using_count = b.using_count + 1 /\ n.free_count = b.free_count - 1

LEMMA MarkedHas ==
  \A b \in SlabRecords : \A i \in Nat : MarkedFacts(b, i, Marked(b, i))
<1>1. TAKE b \in SlabRecords, i \in Nat
<1>2. PICK n : n = Marked(b, i)
  OBVIOUS
<1>3. MarkedFacts(b, i, n)
  BY <1>2, MarkedIs DEF MarkedFacts
<1>4. QED
  BY <1>2, <1>3

UnmarkedFacts(b, i, n) ==
  /\ n \in SlabRecords /\ n.page = b.page /\ n.own = b.own /\ n.color_count = b.color_count
  /\ \A j : j \in n.used <=> j \in b.used /\ j # i

LEMMA UnmarkedHas ==
  \A b \in SlabRecords : \A i \in Nat : UnmarkedFacts(b, i, Unmarked(b, i))
<1>1. TAKE b \in SlabRecords, i \in Nat
<1>2. PICK n : n = Unmarked(b, i)
  OBVIOUS
<1>3. UnmarkedFacts(b, i, n)
  BY <1>2, UnmarkedIs DEF UnmarkedFacts
<1>4. QED
  BY <1>2, <1>3

LEMMA GoodSlabFacts ==
  ASSUME NEW b \in SlabRecords, GoodSlab(b)
  PROVE  /\ IsFiniteSet(b.used) /\ b.using_count \in Nat /\ b.free_count \in Nat
         /\ (b.free_count # 0 => (0..(b.color_count - 1)) \ b.used # {})
         /\ (b.using_count = 0 => b.used = {} /\ b.free_count = b.color_count)
<1>1. b.color_count \in Nat /\ b.used \subseteq 0..(b.color_count - 1) /\ b.using_count = Cardinality(b.used)
      /\ b.free_count = b.color_count - b.using_count
  BY SlabFields DEF GoodSlab
<1>2. PICK N : N = 0..(b.color_count - 1)
  OBVIOUS
<1>3. IsFiniteSet(N) /\ Cardinality(N) = b.color_count
  <2>1. 0 \in Int /\ b.color_count - 1 \in Int
    BY <1>1
  <2>2. IsFiniteSet(0..(b.color_count - 1))
        /\ Cardinality(0..(b.color_count - 1)) = IF 0 > b.color_count - 1 THEN 0 ELSE (b.color_count - 1) - 0 + 1
    BY <2>1, FS_Interval
  <2>3. QED
    BY <1>1, <1>2, <2>2
<1>4. b.used \in SUBSET N
  BY <1>1, <1>2
<1>5. IsFiniteSet(b.used) /\ Cardinality(b.used) <= Cardinality(N)
  BY <1>3, <1>4, FS_Subset
<1>6. Cardinality(b.used) \in Nat
  BY <1>5, FS_CardinalityType
<1>7. b.free_count # 0 => N \ b.used # {}
  <2>1. N \ b.used = {} => b.used = N
    BY <1>4
  <2>2. QED
    BY <1>1, <1>3, <2>1
<1>8. b.using_count = 0 => b.used = {}
  BY <1>1, <1>5, FS_EmptySet
<1>9. QED
  BY <1>1, <1>2, <1>3, <1>5, <1>6, <1>7, <1>8

(* total_free is no less than any slab's free_count, and 0 only if all are.*)
LEMMA RingTotals ==
  ASSUME NEW c \in DOMAIN Classes, NEW e \in CacheRecords, GoodRing(c, e)
  PROVE  /\ e.total_free \in Nat /\ \A s \in 1..Len(e.pool) : e.pool[s].free_count <= e.total_free
         /\ (e.total_free # 0 => \E s \in 1..Len(e.pool) : e.pool[s].free_count # 0)
<1>1. PICK x : x = Column(e.pool, "free_count")
  OBVIOUS
<1>2. \A s \in 1..Len(e.pool) : e.pool[s] \in SlabRecords /\ GoodSlab(e.pool[s])
  BY RingFields DEF GoodRing
<1>3. \A s \in 1..Len(e.pool) : e.pool[s].free_count \in Nat
  BY <1>2, GoodSlabFacts
<1>4. x \in Seq(Int) /\ Len(x) = Len(e.pool) /\ \A s \in 1..Len(e.pool) : x[s] = e.pool[s]["free_count"]
  BY <1>1, RingFields, SlabCountFields, ColumnIs
<1>5. \A s \in 1..Len(e.pool) : x[s] = e.pool[s].free_count
  BY <1>2, <1>4, SlabFields
<1>6. x \in Seq(Nat)
  BY <1>3, <1>4, <1>5
<1>7. e.total_free = Sum(x)
  BY <1>1 DEF GoodRing
<1>8. Sum(x) \in Nat /\ \A i \in 1..Len(x) : x[i] <= Sum(x)
  BY <1>6, SumNat
<1>9. (\A i \in 1..Len(x) : x[i] = 0) => Sum(x) = 0
  BY <1>4, SumZero
<1>10. QED
  BY <1>4, <1>5, <1>7, <1>8, <1>9

LEMMA RingSwapped ==
  ASSUME NEW c \in DOMAIN Classes, NEW e \in CacheRecords, GoodRing(c, e), NEW s \in 1..Len(e.pool),
         NEW n \in SlabRecords, n.page = e.pool[s].page, n.own = e.pool[s].own,
         n.color_count = e.pool[s].color_count, GoodSlab(n),
         NEW h \in CacheRecords, h.pool = [e.pool EXCEPT ![s] = n],
         h.total_free = (e.total_free - e.pool[s].free_count) + n.free_count,
         h.total_using = (e.total_using - e.pool[s].using_count) + n.using_count
  PROVE  GoodRing(c, h)
<1>1. e.pool \in Seq(SlabRecords) /\ e.pool[s] \in SlabRecords /\ Len(e.pool) \in Nat
  BY RingFields
<1>2. /\ Len(h.pool) = Len(e.pool) /\ \A i \in 1..Len(e.pool) : h.pool[i] = IF i = s THEN n ELSE e.pool[i]
  BY <1>1
<1>3. h.total_free = Sum(Column(h.pool, "free_count"))
  <2>1. Sum(Column(h.pool, "free_count"))
          = (Sum(Column(e.pool, "free_count")) - e.pool[s]["free_count"]) + n["free_count"]
    BY <1>1, SlabCountFields, ColumnSwap
  <2>2. QED
    BY <1>1, <2>1, SlabFields DEF GoodRing
<1>4. h.total_using = Sum(Column(h.pool, "using_count"))
  <2>1. Sum(Column(h.pool, "using_count"))
          = (Sum(Column(e.pool, "using_count")) - e.pool[s]["using_count"]) + n["using_count"]
    BY <1>1, SlabCountFields, ColumnSwap
  <2>2. QED
    BY <1>1, <2>1, SlabFields DEF GoodRing
<1>5. ShapedFor(c, e.pool[s]) /\ (s # 1 => e.pool[s].color_count = Classes[c].created)
      /\ Len(e.pool) > 0 /\ e.pool[1].page = StaticPage(c)
  BY DEF GoodRing
<1>6. ShapedFor(c, n)
  BY <1>5 DEF ShapedFor
<1>7. Len(h.pool) > 0 /\ h.pool[1].page = StaticPage(c)
  BY <1>1, <1>2, <1>5
<1>8. ASSUME NEW i \in 1..Len(h.pool)
      PROVE  /\ GoodSlab(h.pool[i]) /\ ShapedFor(c, h.pool[i])
             /\ (i # 1 => h.pool[i].color_count = Classes[c].created)
  <2>1. i \in 1..Len(e.pool)
    BY <1>2
  <2>2. GoodSlab(e.pool[i]) /\ ShapedFor(c, e.pool[i]) /\ (i # 1 => e.pool[i].color_count = Classes[c].created)
    BY <2>1 DEF GoodRing
  <2>3. h.pool[i] = IF i = s THEN n ELSE e.pool[i]
    BY <1>2, <2>1
  <2>4. QED
    BY <1>5, <1>6, <2>2, <2>3
<1>9. QED
  BY <1>3, <1>4, <1>7, <1>8 DEF GoodRing

LEMMA RingMarked ==
  ASSUME NEW c \in DOMAIN Classes, NEW e \in CacheRecords, GoodRing(c, e), NEW s \in 1..Len(e.pool),
         NEW i \in (0..(e.pool[s].color_count - 1)) \ e.pool[s].used,
         NEW h \in CacheRecords, h.pool = [e.pool EXCEPT ![s] = Marked(@, i)],
         h.total_free = e.total_free - 1, h.total_using = e.total_using + 1
  PROVE  GoodRing(c, h)
<1>1. PICK b \in SlabRecords : b = e.pool[s]
  <2>1. e.pool[s] \in SlabRecords
    BY RingFields
  <2>2. QED
    BY <2>1, Zenon
<1>2. GoodSlab(b) /\ i \in Nat
  BY <1>1, SlabFields DEF GoodRing
<1>3. PICK n : n = Marked(b, i)
  OBVIOUS
<1>4. /\ n \in SlabRecords /\ n.page = b.page /\ n.own = b.own /\ n.color_count = b.color_count
      /\ n.used = b.used \cup {i} /\ n.using_count = b.using_count + 1 /\ n.free_count = b.free_count - 1
  <2>1. MarkedFacts(b, i, n)
    BY <1>2, <1>3, MarkedHas
  <2>2. QED
    BY <2>1, Zenon DEF MarkedFacts
<1>5. IsFiniteSet(b.used) /\ b.using_count \in Nat /\ b.free_count \in Nat
  BY <1>2, GoodSlabFacts
<1>6. Cardinality(n.used) = b.using_count + 1
  <2>1. i \notin b.used
    BY <1>1
  <2>2. Cardinality(b.used \cup {i}) = Cardinality(b.used) + 1
    BY <1>5, <2>1, FS_AddElement
  <2>3. QED
    BY <1>2, <1>4, <2>2 DEF GoodSlab
<1>7. GoodSlab(n)
  <2>1. n.used \subseteq 0..(n.color_count - 1)
    BY <1>1, <1>2, <1>4 DEF GoodSlab
  <2>2. n.free_count = n.color_count - n.using_count
    <3>1. b.free_count = b.color_count - b.using_count /\ b.color_count \in Nat
      BY <1>2, SlabFields DEF GoodSlab
    <3>2. \A x, y \in Int : (x - y) - 1 = x - (y + 1)
      OBVIOUS
    <3>3. (b.color_count - b.using_count) - 1 = b.color_count - (b.using_count + 1)
      BY <1>5, <3>1, <3>2
    <3>4. n.free_count = (b.color_count - b.using_count) - 1
      BY <1>4, <3>1, Zenon
    <3>5. n.color_count - n.using_count = b.color_count - (b.using_count + 1)
      BY <1>4, Zenon
    <3>6. QED
      BY <3>3, <3>4, <3>5, Zenon
  <2>3. QED
    BY <1>4, <1>6, <2>1, <2>2 DEF GoodSlab
<1>8. h.pool = [e.pool EXCEPT ![s] = n]
  BY <1>1, <1>3
<1>9. /\ h.total_free = (e.total_free - e.pool[s].free_count) + n.free_count
      /\ h.total_using = (e.total_using - e.pool[s].using_count) + n.using_count
  <2>1. \A x, y \in Int : x + 1 = (x - y) + (y + 1) /\ x - 1 = (x - y) + (y - 1)
    OBVIOUS
  <2>2. e.total_free \in Int /\ e.total_using \in Int /\ b.free_count \in Int /\ b.using_count \in Int
    BY <1>5, RingFields
  <2>3. /\ e.total_free - 1 = (e.total_free - b.free_count) + (b.free_count - 1)
        /\ e.total_using + 1 = (e.total_using - b.using_count) + (b.using_count + 1)
    BY <2>1, <2>2
  <2>4. /\ n.free_count = b.free_count - 1 /\ n.using_count = b.using_count + 1
        /\ e.pool[s].free_count = b.free_count /\ e.pool[s].using_count = b.using_count
    BY <1>1, <1>4, Zenon
  <2>5. QED
    BY <2>3, <2>4, Zenon
<1>10. QED
  BY <1>1, <1>4, <1>7, <1>8, <1>9, RingSwapped

LEMMA RingUnmarked ==
  ASSUME NEW c \in DOMAIN Classes, NEW e \in CacheRecords, GoodRing(c, e), NEW s \in 1..Len(e.pool),
         NEW i \in e.pool[s].used,
         NEW h \in CacheRecords, h.pool = [e.pool EXCEPT ![s] = Unmarked(@, i)],
         h.total_free = e.total_free + 1, h.total_using = e.total_using - 1
  PROVE  GoodRing(c, h)
<1>1. PICK b \in SlabRecords : b = e.pool[s]
  <2>1. e.pool[s] \in SlabRecords
    BY RingFields
  <2>2. QED
    BY <2>1, Zenon
<1>2. GoodSlab(b) /\ i \in b.used
  BY <1>1 DEF GoodRing
<1>3. PICK n : n = Unmarked(b, i)
  OBVIOUS
<1>4. /\ n \in SlabRecords /\ n.page = b.page /\ n.own = b.own /\ n.color_count = b.color_count
      /\ n.used = b.used \ {i} /\ n.using_count = b.using_count - 1 /\ n.free_count = b.free_count + 1
  BY <1>3, UnmarkedIs
<1>5. IsFiniteSet(b.used) /\ b.using_count \in Nat /\ b.free_count \in Nat
  BY <1>2, GoodSlabFacts
<1>6. Cardinality(n.used) = b.using_count - 1
  <2>1. Cardinality(b.used \ {i}) = Cardinality(b.used) - 1
    BY <1>2, <1>5, FS_RemoveElement
  <2>2. QED
    BY <1>2, <1>4, <2>1 DEF GoodSlab
<1>7. GoodSlab(n)
  <2>1. n.used \subseteq 0..(n.color_count - 1)
    BY <1>2, <1>4 DEF GoodSlab
  <2>2. n.free_count = n.color_count - n.using_count
    <3>1. b.free_count = b.color_count - b.using_count /\ b.color_count \in Nat
      BY <1>2, SlabFields DEF GoodSlab
    <3>2. \A x, y \in Int : (x - y) + 1 = x - (y - 1)
      OBVIOUS
    <3>3. (b.color_count - b.using_count) + 1 = b.color_count - (b.using_count - 1)
      BY <1>5, <3>1, <3>2
    <3>4. n.free_count = (b.color_count - b.using_count) + 1
      BY <1>4, <3>1, Zenon
    <3>5. n.color_count - n.using_count = b.color_count - (b.using_count - 1)
      BY <1>4, Zenon
    <3>6. QED
      BY <3>3, <3>4, <3>5, Zenon
  <2>3. QED
    BY <1>4, <1>6, <2>1, <2>2 DEF GoodSlab
<1>8. h.pool = [e.pool EXCEPT ![s] = n]
  BY <1>1, <1>3
<1>9. /\ h.total_free = (e.total_free - e.pool[s].free_count) + n.free_count
      /\ h.total_using = (e.total_using - e.pool[s].using_count) + n.using_count
  <2>1. \A x, y \in Int : x + 1 = (x - y) + (y + 1) /\ x - 1 = (x - y) + (y - 1)
    OBVIOUS
  <2>2. e.total_free \in Int /\ e.total_using \in Int /\ b.free_count \in Int /\ b.using_count \in Int
    BY <1>5, RingFields
  <2>3. /\ e.total_free + 1 = (e.total_free - b.free_count) + (b.free_count + 1)
        /\ e.total_using - 1 = (e.total_using - b.using_count) + (b.using_count - 1)
    BY <2>1, <2>2
  <2>4. /\ n.free_count = b.free_count + 1 /\ n.using_count = b.using_count - 1
        /\ e.pool[s].free_count = b.free_count /\ e.pool[s].using_count = b.using_count
    BY <1>1, <1>4, Zenon
  <2>5. QED
    BY <2>3, <2>4, Zenon
<1>10. QED
  BY <1>1, <1>4, <1>7, <1>8, <1>9, RingSwapped

LEMMA RingAppended ==
  ASSUME NEW c \in DOMAIN Classes, NEW e \in CacheRecords, GoodRing(c, e),
         NEW b \in SlabRecords, GoodSlab(b), ShapedFor(c, b), b.color_count = Classes[c].created, b.using_count = 0,
         NEW h \in CacheRecords, h.pool = Append(e.pool, b),
         h.total_free = e.total_free + b.color_count, h.total_using = e.total_using
  PROVE  GoodRing(c, h)
<1>1. e.pool \in Seq(SlabRecords) /\ Len(e.pool) \in Nat
  BY RingFields
<1>2. /\ Len(h.pool) = Len(e.pool) + 1
      /\ \A i \in 1..Len(h.pool) : h.pool[i] = IF i <= Len(e.pool) THEN e.pool[i] ELSE b
  BY <1>1
<1>3. b.free_count = b.color_count
  BY GoodSlabFacts
<1>4. h.total_free = Sum(Column(h.pool, "free_count"))
  <2>1. Sum(Column(h.pool, "free_count")) = Sum(Column(e.pool, "free_count")) + b["free_count"]
    BY <1>1, SlabCountFields, ColumnAppend
  <2>2. QED
    BY <1>3, <2>1, SlabFields DEF GoodRing
<1>5. h.total_using = Sum(Column(h.pool, "using_count"))
  <2>1. Sum(Column(h.pool, "using_count")) = Sum(Column(e.pool, "using_count")) + b["using_count"]
    BY <1>1, SlabCountFields, ColumnAppend
  <2>2. b["using_count"] = 0 /\ e.total_using \in Int
    BY SlabFields, RingFields
  <2>3. QED
    BY <2>1, <2>2 DEF GoodRing
<1>6. Len(e.pool) > 0 /\ e.pool[1].page = StaticPage(c)
  BY DEF GoodRing
<1>7. Len(h.pool) > 0 /\ h.pool[1].page = StaticPage(c)
  BY <1>1, <1>2, <1>6
<1>8. ASSUME NEW i \in 1..Len(h.pool)
      PROVE  /\ GoodSlab(h.pool[i]) /\ ShapedFor(c, h.pool[i])
             /\ (i # 1 => h.pool[i].color_count = Classes[c].created)
  <2>1. CASE i <= Len(e.pool)
    <3>1. i \in 1..Len(e.pool) /\ h.pool[i] = e.pool[i]
      BY <1>1, <1>2, <2>1
    <3>2. QED
      BY <3>1 DEF GoodRing
  <2>2. CASE ~ (i <= Len(e.pool))
    BY <1>2, <2>2
  <2>3. QED
    BY <2>1, <2>2
<1>9. QED
  BY <1>4, <1>5, <1>7, <1>8 DEF GoodRing

LEMMA RingRemoved ==
  ASSUME NEW c \in DOMAIN Classes, NEW e \in CacheRecords, GoodRing(c, e), NEW s \in 1..Len(e.pool), s # 1,
         e.pool[s].using_count = 0,
         NEW h \in CacheRecords, h.pool = RemoveAt(e.pool, s),
         h.total_free = e.total_free - e.pool[s].color_count, h.total_using = e.total_using
  PROVE  GoodRing(c, h)
<1>1. e.pool \in Seq(SlabRecords) /\ e.pool[s] \in SlabRecords /\ Len(e.pool) \in Nat
  BY RingFields
<1>2. Len(h.pool) = Len(e.pool) - 1
      /\ \A i \in 1..(Len(e.pool) - 1) : h.pool[i] = IF i < s THEN e.pool[i] ELSE e.pool[i + 1]
  <2>1. /\ Len(RemoveAt(e.pool, s)) = Len(e.pool) - 1
        /\ \A i \in 1..(Len(e.pool) - 1) :
             RemoveAt(e.pool, s)[i] = IF i < s THEN e.pool[i] ELSE e.pool[i + 1]
    BY <1>1, RemoveAtIs
  <2>2. QED
    BY <2>1
<1>3. GoodSlab(e.pool[s])
  BY DEF GoodRing
<1>4. e.pool[s].free_count = e.pool[s].color_count
  BY <1>1, <1>3, GoodSlabFacts
<1>5. h.total_free = Sum(Column(h.pool, "free_count"))
  <2>1. Sum(Column(h.pool, "free_count")) = Sum(Column(e.pool, "free_count")) - e.pool[s]["free_count"]
    BY <1>1, SlabCountFields, ColumnRemoveAt
  <2>2. QED
    BY <1>1, <1>4, <2>1, SlabFields DEF GoodRing
<1>6. h.total_using = Sum(Column(h.pool, "using_count"))
  <2>1. Sum(Column(h.pool, "using_count")) = Sum(Column(e.pool, "using_count")) - e.pool[s]["using_count"]
    BY <1>1, SlabCountFields, ColumnRemoveAt
  <2>2. e.pool[s]["using_count"] = 0 /\ e.total_using \in Int
    BY <1>1, SlabFields, RingFields
  <2>3. QED
    BY <2>1, <2>2 DEF GoodRing
<1>7. Len(e.pool) > 0 /\ e.pool[1].page = StaticPage(c)
  BY DEF GoodRing
<1>8. Len(h.pool) > 0 /\ h.pool[1].page = StaticPage(c)
  <2>1. Len(e.pool) > 1 /\ 1 \in 1..(Len(e.pool) - 1) /\ 1 < s
    BY <1>1
  <2>2. QED
    BY <1>1, <1>2, <1>7, <2>1
<1>9. ASSUME NEW i \in 1..Len(h.pool)
      PROVE  /\ GoodSlab(h.pool[i]) /\ ShapedFor(c, h.pool[i])
             /\ (i # 1 => h.pool[i].color_count = Classes[c].created)
  <2>1. i \in 1..(Len(e.pool) - 1) /\ i \in 1..Len(e.pool) /\ i + 1 \in 1..Len(e.pool) /\ i + 1 # 1
    BY <1>1, <1>2
  <2>2. h.pool[i] = IF i < s THEN e.pool[i] ELSE e.pool[i + 1]
    BY <1>2, <2>1
  <2>3. \A j \in 1..Len(e.pool) : /\ GoodSlab(e.pool[j]) /\ ShapedFor(c, e.pool[j])
                                  /\ (j # 1 => e.pool[j].color_count = Classes[c].created)
    BY DEF GoodRing
  <2>4. QED
    BY <2>1, <2>2, <2>3
<1>10. QED
  BY <1>5, <1>6, <1>8, <1>9 DEF GoodRing
-----------------------------------------------------------------------------
(* The slabs of all classes as one function, from class and position, and  *)
(* what they make up: pages, objects in use, objects of the slabs' own.    *)
Slots(k) == {x \in (DOMAIN Classes) \X Nat : x[2] \in 1..Len(k[x[1]].pool)}
Content(k) == [x \in Slots(k) |-> k[x[1]].pool[x[2]]]

OwnPairs(b) == {w \in Pages \X ObjectNames : w[1] = b.page /\ \E j \in 1..Len(b.own) : b.own[j] = w[2]}

PagesOf(F) == {p \in Pages : \E x \in DOMAIN F : F[x].page = p}
UsedOf(F) == {o \in ObjectNames : \E x \in DOMAIN F : F[x].page = o[1] /\ o[2] \in F[x].used}
SmallOf(F) == {o \in ObjectNames : \E x \in DOMAIN F : Classes[x[1]].small /\ F[x].page = o[1] /\ o[2] \in F[x].used}
OwnersOf(F) == {w \in Pages \X ObjectNames : \E x \in DOMAIN F : w \in OwnPairs(F[x])}
Apart(F) == \A x, y \in DOMAIN F : F[x].page = F[y].page => x = y

Swapped(F, G, z, n) ==
  /\ z \in DOMAIN F /\ DOMAIN G = DOMAIN F
  /\ \A x \in DOMAIN F : G[x] = IF x = z THEN n ELSE F[x]

LEMMA SwapEffect ==
  ASSUME NEW F, NEW G, NEW z, NEW n, Swapped(F, G, z, n), n.page = F[z].page, n.own = F[z].own
  PROVE  PagesOf(G) = PagesOf(F) /\ OwnersOf(G) = OwnersOf(F) /\ (Apart(F) => Apart(G))
<1>0. DOMAIN G = DOMAIN F
  BY DEF Swapped
<1>1. \A x \in DOMAIN F : G[x].page = F[x].page /\ G[x].own = F[x].own
  BY DEF Swapped
<1>2. PagesOf(G) = PagesOf(F)
  BY <1>0, <1>1 DEF PagesOf
<1>3. \A x \in DOMAIN F : OwnPairs(G[x]) = OwnPairs(F[x])
  BY <1>0, <1>1 DEF OwnPairs
<1>4. OwnersOf(G) = OwnersOf(F)
  BY <1>0, <1>3 DEF OwnersOf
<1>5. Apart(F) => Apart(G)
  BY <1>0, <1>1 DEF Apart
<1>6. QED
  BY <1>2, <1>4, <1>5

LEMMA ObjectIs ==
  ASSUME NEW p \in Pages, NEW i \in Nat
  PROVE  <<p, i>> \in ObjectNames /\ \A o \in ObjectNames : o = <<p, i>> <=> o[1] = p /\ o[2] = i
BY DEF ObjectNames

LEMMA MarkEffect ==
  ASSUME NEW F, NEW G, NEW z, NEW n, Swapped(F, G, z, n), n.page = F[z].page,
         NEW o \in ObjectNames, o[1] = n.page, n.used = F[z].used \cup {o[2]}
  PROVE  /\ UsedOf(G) = UsedOf(F) \cup {o}
         /\ SmallOf(G) = IF Classes[z[1]].small THEN SmallOf(F) \cup {o} ELSE SmallOf(F)
<1>0. z \in DOMAIN F /\ DOMAIN G = DOMAIN F /\ \A x \in DOMAIN F : G[x] = IF x = z THEN n ELSE F[x]
  BY DEF Swapped
<1>1. PICK i : i = o[2]
  OBVIOUS
<1>2. \A q \in ObjectNames : q = o <=> q[1] = n.page /\ q[2] = i
  BY <1>1 DEF ObjectNames
<1>3. ASSUME NEW q \in ObjectNames, NEW x \in DOMAIN F
      PROVE  (G[x].page = q[1] /\ q[2] \in G[x].used)
               <=> (F[x].page = q[1] /\ q[2] \in F[x].used) \/ (x = z /\ q = o)
  <2>1. CASE x = z
    <3>1. G[x] = n
      BY <1>0, <2>1
    <3>2. q[2] \in n.used <=> q[2] \in F[z].used \/ q[2] = i
      BY <1>1
    <3>3. QED
      BY <1>2, <2>1, <3>1, <3>2
  <2>2. CASE x # z
    BY <1>0, <2>2
  <2>3. QED
    BY <2>1, <2>2
<1>4. ASSUME NEW q \in ObjectNames
      PROVE  q \in UsedOf(G) <=> q \in UsedOf(F) \/ q = o
  BY <1>0, <1>3 DEF UsedOf
<1>5. ASSUME NEW q \in ObjectNames
      PROVE  q \in SmallOf(G) <=> q \in SmallOf(F) \/ (Classes[z[1]].small /\ q = o)
  BY <1>0, <1>3 DEF SmallOf
<1>6. UsedOf(F) \subseteq ObjectNames /\ UsedOf(G) \subseteq ObjectNames
      /\ SmallOf(F) \subseteq ObjectNames /\ SmallOf(G) \subseteq ObjectNames
  BY DEF UsedOf, SmallOf
<1>7. UsedOf(G) = UsedOf(F) \cup {o}
  BY <1>4, <1>6
<1>8. SmallOf(G) = IF Classes[z[1]].small THEN SmallOf(F) \cup {o} ELSE SmallOf(F)
  BY <1>5, <1>6
<1>9. QED
  BY <1>1, <1>7, <1>8, Zenon

LEMMA UnmarkEffect ==
  ASSUME NEW F, NEW G, NEW z, NEW n, Swapped(F, G, z, n), Apart(F), n.page = F[z].page,
         NEW o \in ObjectNames, o[1] = n.page, \A j : j \in n.used <=> j \in F[z].used /\ j # o[2]
  PROVE  UsedOf(G) = UsedOf(F) \ {o} /\ SmallOf(G) = SmallOf(F) \ {o}
<1>0. z \in DOMAIN F /\ DOMAIN G = DOMAIN F /\ \A x \in DOMAIN F : G[x] = IF x = z THEN n ELSE F[x]
  BY DEF Swapped
<1>1. PICK i : i = o[2]
  OBVIOUS
<1>2. \A q \in ObjectNames : q = o <=> q[1] = n.page /\ q[2] = i
  BY <1>1 DEF ObjectNames
<1>3. ASSUME NEW q \in ObjectNames, NEW x \in DOMAIN F
      PROVE  (G[x].page = q[1] /\ q[2] \in G[x].used)
               <=> (F[x].page = q[1] /\ q[2] \in F[x].used /\ q # o)
  <2>1. CASE x = z
    <3>1. G[x] = n
      BY <1>0, <2>1
    <3>2. q[2] \in n.used <=> q[2] \in F[z].used /\ q[2] # i
      BY <1>1
    <3>3. QED
      BY <1>2, <2>1, <3>1, <3>2
  <2>2. CASE x # z
    <3>1. G[x] = F[x] /\ F[x].page # n.page
      BY <1>0, <2>2 DEF Apart
    <3>2. QED
      BY <1>2, <3>1
  <2>3. QED
    BY <2>1, <2>2
<1>4. ASSUME NEW q \in ObjectNames
      PROVE  q \in UsedOf(G) <=> q \in UsedOf(F) /\ q # o
  BY <1>0, <1>3 DEF UsedOf
<1>5. ASSUME NEW q \in ObjectNames
      PROVE  q \in SmallOf(G) <=> q \in SmallOf(F) /\ q # o
  BY <1>0, <1>3 DEF SmallOf
<1>6. UsedOf(F) \subseteq ObjectNames /\ UsedOf(G) \subseteq ObjectNames
      /\ SmallOf(F) \subseteq ObjectNames /\ SmallOf(G) \subseteq ObjectNames
  BY DEF UsedOf, SmallOf
<1>7. QED
  BY <1>1, <1>4, <1>5, <1>6

Extended(F, G, z, b) ==
  /\ z \notin DOMAIN F /\ DOMAIN G = DOMAIN F \cup {z} /\ G[z] = b
  /\ \A x \in DOMAIN F : G[x] = F[x]

LEMMA AppendEffect ==
  ASSUME NEW F, NEW G, NEW z, NEW b, Extended(F, G, z, b), b.page \in Pages, b.used = {}
  PROVE  /\ PagesOf(G) = PagesOf(F) \cup {b.page}
         /\ OwnersOf(G) = OwnersOf(F) \cup OwnPairs(b)
         /\ (Apart(F) /\ b.page \notin PagesOf(F) => Apart(G))
         /\ UsedOf(G) = UsedOf(F) /\ SmallOf(G) = SmallOf(F)
<1>1. \A x \in DOMAIN G : (x \in DOMAIN F /\ G[x] = F[x]) \/ (x = z /\ G[x] = b)
  BY DEF Extended
<1>2. \A x \in DOMAIN F : x \in DOMAIN G /\ G[x] = F[x]
  BY DEF Extended
<1>3. z \in DOMAIN G /\ G[z] = b
  BY DEF Extended
<1>4. PagesOf(G) = PagesOf(F) \cup {b.page}
  BY <1>1, <1>2, <1>3 DEF PagesOf
<1>5. OwnPairs(b) \subseteq Pages \X ObjectNames
  BY DEF OwnPairs
<1>6. OwnersOf(G) = OwnersOf(F) \cup OwnPairs(b)
  BY <1>1, <1>2, <1>3, <1>5 DEF OwnersOf
<1>7. UsedOf(G) = UsedOf(F) /\ SmallOf(G) = SmallOf(F)
  BY <1>1, <1>2 DEF UsedOf, SmallOf
<1>8. Apart(F) /\ b.page \notin PagesOf(F) => Apart(G)
  BY <1>1 DEF Apart, PagesOf
<1>9. QED
  BY <1>4, <1>6, <1>7, <1>8

Reduced(F, G, z) ==
  /\ z \in DOMAIN F
  /\ \A x \in DOMAIN G : \E y \in DOMAIN F : y # z /\ G[x] = F[y] /\ x[1] = y[1]
  /\ \A y \in DOMAIN F : y # z => \E x \in DOMAIN G : G[x] = F[y] /\ x[1] = y[1]
  /\ \A x, w \in DOMAIN G : \E y, v \in DOMAIN F : G[x] = F[y] /\ G[w] = F[v] /\ (y = v => x = w)

LEMMA RemoveEffect ==
  ASSUME NEW F, NEW G, NEW z \in DOMAIN F, NEW b, F[z] = b, b.page \in Pages, b.used = {}, Apart(F),
         Reduced(F, G, z)
  PROVE  /\ PagesOf(G) = PagesOf(F) \ {b.page} /\ b.page \in PagesOf(F)
         /\ OwnersOf(G) = OwnersOf(F) \ OwnPairs(b) /\ OwnPairs(b) \subseteq OwnersOf(F)
         /\ Apart(G)
         /\ UsedOf(G) = UsedOf(F) /\ SmallOf(G) = SmallOf(F)
<1>0. /\ \A x \in DOMAIN G : \E y \in DOMAIN F : y # z /\ G[x] = F[y] /\ x[1] = y[1]
      /\ \A y \in DOMAIN F : y # z => \E x \in DOMAIN G : G[x] = F[y] /\ x[1] = y[1]
      /\ \A x, w \in DOMAIN G : \E y, v \in DOMAIN F : G[x] = F[y] /\ G[w] = F[v] /\ (y = v => x = w)
  BY Zenon DEF Reduced
<1>1. \A y \in DOMAIN F : y # z => F[y].page # b.page
  BY <1>0 DEF Apart
<1>2. b.page \in PagesOf(F)
  BY <1>0 DEF PagesOf
<1>3. PagesOf(G) = PagesOf(F) \ {b.page}
  <2>1. \A p \in PagesOf(G) : p \in PagesOf(F) /\ p # b.page
    BY <1>0, <1>1 DEF PagesOf
  <2>2. \A p \in PagesOf(F) : p # b.page => p \in PagesOf(G)
    BY <1>0 DEF PagesOf
  <2>3. QED
    BY <2>1, <2>2
<1>4. OwnPairs(b) \subseteq OwnersOf(F)
  BY <1>0 DEF OwnersOf, OwnPairs
<1>5. \A y \in DOMAIN F : \A w \in OwnPairs(F[y]) : w[1] = F[y].page
  BY <1>0 DEF OwnPairs
<1>6. OwnersOf(G) = OwnersOf(F) \ OwnPairs(b)
  <2>1. \A w \in OwnersOf(G) : w \in OwnersOf(F) /\ w \notin OwnPairs(b)
    <3>1. \A w \in OwnPairs(b) : w[1] = b.page
      BY <1>0 DEF OwnPairs
    <3>2. QED
      BY <1>0, <1>1, <1>5, <3>1 DEF OwnersOf
  <2>2. \A w \in OwnersOf(F) : w \notin OwnPairs(b) => w \in OwnersOf(G)
    BY <1>0 DEF OwnersOf
  <2>3. QED
    BY <2>1, <2>2
<1>70. ASSUME NEW y \in DOMAIN F, NEW i \in F[y].used
       PROVE  \E x \in DOMAIN G : G[x] = F[y] /\ x[1] = y[1]
  <2>1. y # z
    OBVIOUS
  <2>2. QED
    BY <1>0, <2>1
<1>7. UsedOf(G) = UsedOf(F)
  <2>1. \A q \in UsedOf(G) : q \in UsedOf(F)
    BY <1>0 DEF UsedOf
  <2>2. ASSUME NEW q \in UsedOf(F)
        PROVE  q \in UsedOf(G)
    <3>1. q \in ObjectNames /\ \E y \in DOMAIN F : F[y].page = q[1] /\ q[2] \in F[y].used
      BY <1>0 DEF UsedOf
    <3>2. PICK y \in DOMAIN F : F[y].page = q[1] /\ q[2] \in F[y].used
      BY <3>1
    <3>3. PICK x \in DOMAIN G : G[x] = F[y] /\ x[1] = y[1]
      BY <1>70, <3>2
    <3>4. QED
      BY <1>0, <3>1, <3>2, <3>3 DEF UsedOf
  <2>3. QED
    BY <2>1, <2>2
<1>8. SmallOf(G) = SmallOf(F)
  <2>1. ASSUME NEW q \in SmallOf(G)
        PROVE  q \in SmallOf(F)
    <3>1. q \in ObjectNames /\ \E x \in DOMAIN G : Classes[x[1]].small /\ G[x].page = q[1] /\ q[2] \in G[x].used
      BY DEF SmallOf
    <3>2. PICK x \in DOMAIN G : Classes[x[1]].small /\ G[x].page = q[1] /\ q[2] \in G[x].used
      BY <3>1
    <3>3. PICK y \in DOMAIN F : G[x] = F[y] /\ x[1] = y[1]
      BY <1>0, <3>2
    <3>4. QED
      BY <3>1, <3>2, <3>3 DEF SmallOf
  <2>2. ASSUME NEW q \in SmallOf(F)
        PROVE  q \in SmallOf(G)
    <3>1. q \in ObjectNames /\ \E y \in DOMAIN F : Classes[y[1]].small /\ F[y].page = q[1] /\ q[2] \in F[y].used
      BY <1>0 DEF SmallOf
    <3>2. PICK y \in DOMAIN F : Classes[y[1]].small /\ F[y].page = q[1] /\ q[2] \in F[y].used
      BY <3>1
    <3>3. PICK x \in DOMAIN G : G[x] = F[y] /\ x[1] = y[1]
      BY <1>70, <3>2
    <3>4. QED
      BY <1>0, <3>1, <3>2, <3>3 DEF SmallOf
  <2>3. QED
    BY <2>1, <2>2
<1>9. Apart(G)
  BY <1>0 DEF Apart
<1>10. QED
  BY <1>2, <1>3, <1>4, <1>6, <1>7, <1>8, <1>9
-----------------------------------------------------------------------------
(* The content after a ring has been changed.                              *)
LEMMA ContentIs ==
  ASSUME NEW k \in Caches
  PROVE  /\ DOMAIN Content(k) = Slots(k)
         /\ \A c \in DOMAIN Classes : \A s : <<c, s>> \in Slots(k) <=> s \in 1..Len(k[c].pool)
         /\ \A c \in DOMAIN Classes : \A s \in 1..Len(k[c].pool) :
              /\ <<c, s>> \in Slots(k) /\ Content(k)[<<c, s>>] = k[c].pool[s]
              /\ k[c].pool[s] \in SlabRecords
         /\ \A x \in Slots(k) : /\ x = <<x[1], x[2]>> /\ x[1] \in DOMAIN Classes /\ x[2] \in 1..Len(k[x[1]].pool)
                                /\ Content(k)[x] = k[x[1]].pool[x[2]] /\ Content(k)[x] \in SlabRecords
<1>1. \A c \in DOMAIN Classes : k[c] \in CacheRecords
  BY DEF Caches
<1>2. \A c \in DOMAIN Classes : Len(k[c].pool) \in Nat /\ \A s \in 1..Len(k[c].pool) : k[c].pool[s] \in SlabRecords
  BY <1>1, RingFields
<1>3. DOMAIN Content(k) = Slots(k) /\ \A x \in Slots(k) : Content(k)[x] = k[x[1]].pool[x[2]]
  BY DEF Content
<1>4. \A x \in Slots(k) : x = <<x[1], x[2]>> /\ x[1] \in DOMAIN Classes /\ x[2] \in 1..Len(k[x[1]].pool)
  BY DEF Slots
<1>5. \A c \in DOMAIN Classes : \A s : <<c, s>> \in Slots(k) <=> s \in 1..Len(k[c].pool)
  BY <1>2 DEF Slots
<1>6. \A c \in DOMAIN Classes : \A s \in 1..Len(k[c].pool) : Content(k)[<<c, s>>] = k[c].pool[s]
  BY <1>3, <1>5
<1>7. QED
  BY <1>2, <1>3, <1>4, <1>5, <1>6

LEMMA ChangedIs ==
  ASSUME NEW k \in Caches, NEW h, NEW c \in DOMAIN Classes, NEW q, NEW f, NEW u, Changed(k, h, c, q, f, u)
  PROVE  /\ h \in Caches /\ h[c] \in CacheRecords /\ k[c] \in CacheRecords
         /\ h[c].pool = q /\ h[c].total_free = f /\ h[c].total_using = u
         /\ \A d \in DOMAIN Classes : d # c => h[d] = k[d]
BY DEF Changed, Caches

LEMMA SwapContent ==
  ASSUME NEW k \in Caches, NEW h, NEW c \in DOMAIN Classes, NEW s \in 1..Len(k[c].pool), NEW n, NEW f, NEW u,
         Changed(k, h, c, [k[c].pool EXCEPT ![s] = n], f, u)
  PROVE  Swapped(Content(k), Content(h), <<c, s>>, n) /\ Content(k)[<<c, s>>] = k[c].pool[s]
<1>0. PICK z : z = <<c, s>>
  OBVIOUS
<1>1. h \in Caches /\ h[c].pool = [k[c].pool EXCEPT ![s] = n] /\ \A d \in DOMAIN Classes : d # c => h[d] = k[d]
  BY ChangedIs
<1>2. k[c].pool \in Seq(SlabRecords) /\ k[c] \in CacheRecords
  BY RingFields DEF Caches
<1>3. Len(h[c].pool) = Len(k[c].pool) /\ \A i \in 1..Len(k[c].pool) : h[c].pool[i] = IF i = s THEN n ELSE k[c].pool[i]
  BY <1>1, <1>2
<1>4. \A d \in DOMAIN Classes : Len(h[d].pool) = Len(k[d].pool)
  BY <1>1, <1>3
<1>5. Slots(h) = Slots(k)
  BY <1>4 DEF Slots
<1>6. z \in Slots(k) /\ Content(k)[z] = k[c].pool[s] /\ z[1] = c
  BY <1>0, ContentIs
<1>7. ASSUME NEW x \in Slots(k)
      PROVE  Content(h)[x] = IF x = z THEN n ELSE Content(k)[x]
  <2>1. /\ x = <<x[1], x[2]>> /\ x[1] \in DOMAIN Classes /\ x[2] \in 1..Len(k[x[1]].pool)
        /\ Content(k)[x] = k[x[1]].pool[x[2]]
    BY ContentIs
  <2>2. Content(h)[x] = h[x[1]].pool[x[2]]
    BY <1>1, <1>5, ContentIs
  <2>3. CASE x[1] = c
    <3>1. x = z <=> x[2] = s
      BY <1>0, <2>1, <2>3
    <3>2. QED
      BY <1>3, <2>1, <2>2, <2>3, <3>1
  <2>4. CASE x[1] # c
    BY <1>1, <1>6, <2>1, <2>2, <2>4
  <2>5. QED
    BY <2>3, <2>4
<1>8. DOMAIN Content(h) = Slots(h) /\ DOMAIN Content(k) = Slots(k)
  BY DEF Content
<1>9. Swapped(Content(k), Content(h), z, n)
  BY <1>5, <1>6, <1>7, <1>8, Zenon DEF Swapped
<1>10. QED
  BY <1>0, <1>6, <1>9

LEMMA AppendContent ==
  ASSUME NEW k \in Caches, NEW h, NEW c \in DOMAIN Classes, NEW b, NEW f, NEW u,
         Changed(k, h, c, Append(k[c].pool, b), f, u)
  PROVE  Extended(Content(k), Content(h), <<c, Len(k[c].pool) + 1>>, b)
<1>0. PICK z : z = <<c, Len(k[c].pool) + 1>>
  OBVIOUS
<1>1. h \in Caches /\ h[c].pool = Append(k[c].pool, b) /\ \A d \in DOMAIN Classes : d # c => h[d] = k[d]
  BY Zenon DEF Changed
<1>2. k[c].pool \in Seq(SlabRecords) /\ k[c] \in CacheRecords /\ Len(k[c].pool) \in Nat
  BY RingFields DEF Caches
<1>3. Len(h[c].pool) = Len(k[c].pool) + 1
      /\ \A i \in 1..Len(h[c].pool) : h[c].pool[i] = IF i = Len(k[c].pool) + 1 THEN b ELSE k[c].pool[i]
  BY <1>1, <1>2
<1>4. z \notin Slots(k) /\ z \in Slots(h) /\ Content(h)[z] = b
  <2>1. Len(k[c].pool) + 1 \in 1..Len(h[c].pool) /\ Len(k[c].pool) + 1 \notin 1..Len(k[c].pool)
    BY <1>2, <1>3
  <2>2. QED
    BY <1>0, <1>1, <1>3, <2>1, ContentIs
<1>5. ASSUME NEW x \in Slots(k)
      PROVE  x \in Slots(h) /\ Content(h)[x] = Content(k)[x]
  <2>1. /\ x = <<x[1], x[2]>> /\ x[1] \in DOMAIN Classes /\ x[2] \in 1..Len(k[x[1]].pool)
        /\ Content(k)[x] = k[x[1]].pool[x[2]]
    BY ContentIs
  <2>2. x[2] \in 1..Len(h[x[1]].pool) /\ h[x[1]].pool[x[2]] = k[x[1]].pool[x[2]]
    <3>1. CASE x[1] = c
      BY <1>2, <1>3, <2>1, <3>1
    <3>2. CASE x[1] # c
      BY <1>1, <2>1, <3>2
    <3>3. QED
      BY <3>1, <3>2
  <2>3. <<x[1], x[2]>> \in Slots(h) /\ Content(h)[<<x[1], x[2]>>] = h[x[1]].pool[x[2]]
    BY <1>1, <2>1, <2>2, ContentIs
  <2>4. QED
    BY <2>1, <2>2, <2>3
<1>6. ASSUME NEW x \in Slots(h), x # z
      PROVE  x \in Slots(k)
  <2>1. x = <<x[1], x[2]>> /\ x[1] \in DOMAIN Classes /\ x[2] \in 1..Len(h[x[1]].pool)
    BY <1>1, ContentIs
  <2>2. x[2] \in 1..Len(k[x[1]].pool)
    <3>1. CASE x[1] = c
      <4>1. x[2] # Len(k[c].pool) + 1
        BY <1>0, <1>6, <2>1, <3>1
      <4>2. QED
        BY <1>2, <1>3, <2>1, <3>1, <4>1
    <3>2. CASE x[1] # c
      BY <1>1, <2>1, <3>2
    <3>3. QED
      BY <3>1, <3>2
  <2>3. <<x[1], x[2]>> \in Slots(k)
    BY <2>1, <2>2, ContentIs
  <2>4. QED
    BY <2>1, <2>3
<1>7. DOMAIN Content(h) = Slots(h) /\ DOMAIN Content(k) = Slots(k)
  BY DEF Content
<1>8. DOMAIN Content(h) = DOMAIN Content(k) \cup {z}
  BY <1>4, <1>5, <1>6, <1>7
<1>9. Extended(Content(k), Content(h), z, b)
  BY <1>4, <1>5, <1>7, <1>8, Zenon DEF Extended
<1>10. QED
  BY <1>0, <1>9

LEMMA RemoveContent ==
  ASSUME NEW k \in Caches, NEW h, NEW c \in DOMAIN Classes, NEW s \in 1..Len(k[c].pool), NEW f, NEW u,
         Changed(k, h, c, RemoveAt(k[c].pool, s), f, u)
  PROVE  Reduced(Content(k), Content(h), <<c, s>>) /\ Content(k)[<<c, s>>] = k[c].pool[s]
<1>01. PICK z : z = <<c, s>>
  OBVIOUS
<1>02. PICK F : F = Content(k)
  OBVIOUS
<1>03. PICK G : G = Content(h)
  OBVIOUS
<1>1. h \in Caches /\ h[c].pool = RemoveAt(k[c].pool, s) /\ \A d \in DOMAIN Classes : d # c => h[d] = k[d]
  BY ChangedIs
<1>2. k[c].pool \in Seq(SlabRecords) /\ k[c] \in CacheRecords
  BY RingFields DEF Caches
<1>3. PICK q \in Seq(SlabRecords) : q = k[c].pool
  <2>1. k[c].pool \in Seq(SlabRecords)
    BY <1>2, Zenon
  <2>2. QED
    BY <2>1, Zenon
<1>4. PICK r : r = h[c].pool
  OBVIOUS
<1>50. Thinned(q, r, s)
  <2>1. s \in 1..Len(q) /\ r = RemoveAt(q, s)
    BY <1>1, <1>3, <1>4
  <2>2. QED
    BY <2>1, RemoveAtHas
<1>5. /\ \A i \in 1..Len(r) : \E j \in 1..Len(q) : j # s /\ r[i] = q[j]
      /\ \A i, l \in 1..Len(r) : \E j, t \in 1..Len(q) :
           j # s /\ t # s /\ r[i] = q[j] /\ r[l] = q[t] /\ (j = t <=> i = l)
      /\ \A j \in 1..Len(q) : j # s => \E i \in 1..Len(r) : r[i] = q[j]
  BY <1>50, Zenon DEF Thinned
<1>6. DOMAIN G = Slots(h) /\ DOMAIN F = Slots(k)
  BY <1>02, <1>03 DEF Content
<1>7. /\ \A x \in DOMAIN G : x = <<x[1], x[2]>> /\ x[1] \in DOMAIN Classes /\ x[2] \in 1..Len(h[x[1]].pool)
                             /\ G[x] = h[x[1]].pool[x[2]]
      /\ \A x \in DOMAIN F : x = <<x[1], x[2]>> /\ x[1] \in DOMAIN Classes /\ x[2] \in 1..Len(k[x[1]].pool)
                             /\ F[x] = k[x[1]].pool[x[2]]
  BY <1>1, <1>02, <1>03, <1>6, ContentIs
<1>8. /\ \A d \in DOMAIN Classes : \A i \in 1..Len(h[d].pool) : <<d, i>> \in DOMAIN G /\ G[<<d, i>>] = h[d].pool[i]
      /\ \A d \in DOMAIN Classes : \A i \in 1..Len(k[d].pool) : <<d, i>> \in DOMAIN F /\ F[<<d, i>>] = k[d].pool[i]
  BY <1>1, <1>02, <1>03, <1>6, ContentIs
<1>9. z \in DOMAIN F /\ F[z] = k[c].pool[s]
  BY <1>01, <1>8
<1>10. \A i : <<c, i>> = z <=> i = s
  BY <1>01
<1>11. \A d, i : d # c => <<d, i>> # z
  BY <1>01
<1>12. ASSUME NEW x \in DOMAIN G
       PROVE  \E y \in DOMAIN F : y # z /\ G[x] = F[y] /\ x[1] = y[1]
  <2>1. CASE x[1] = c
    <3>1. x[2] \in 1..Len(r) /\ G[x] = r[x[2]]
      BY <1>4, <1>7, <2>1
    <3>2. PICK j \in 1..Len(q) : j # s /\ r[x[2]] = q[j]
      BY <1>5, <3>1
    <3>3. <<c, j>> \in DOMAIN F /\ F[<<c, j>>] = q[j] /\ <<c, j>> # z /\ <<c, j>>[1] = c
      BY <1>3, <1>8, <1>10, <3>2
    <3>4. QED
      BY <2>1, <3>1, <3>2, <3>3
  <2>2. CASE x[1] # c
    <3>1. <<x[1], x[2]>> \in DOMAIN F /\ F[<<x[1], x[2]>>] = k[x[1]].pool[x[2]] /\ G[x] = k[x[1]].pool[x[2]]
      BY <1>1, <1>7, <1>8, <2>2
    <3>2. x = <<x[1], x[2]>> /\ <<x[1], x[2]>> # z
      BY <1>7, <1>11, <2>2
    <3>3. QED
      BY <3>1, <3>2, Zenon
  <2>3. QED
    BY <2>1, <2>2
<1>13. ASSUME NEW y \in DOMAIN F, y # z
       PROVE  \E x \in DOMAIN G : G[x] = F[y] /\ x[1] = y[1]
  <2>1. CASE y[1] = c
    <3>1. y[2] \in 1..Len(q) /\ F[y] = q[y[2]] /\ y[2] # s
      BY <1>01, <1>3, <1>7, <1>13, <2>1
    <3>2. PICK i \in 1..Len(r) : r[i] = q[y[2]]
      BY <1>5, <3>1
    <3>3. <<c, i>> \in DOMAIN G /\ G[<<c, i>>] = r[i] /\ <<c, i>>[1] = c
      BY <1>4, <1>8, <3>2
    <3>4. QED
      BY <2>1, <3>1, <3>2, <3>3
  <2>2. CASE y[1] # c
    <3>1. <<y[1], y[2]>> \in DOMAIN G /\ G[<<y[1], y[2]>>] = k[y[1]].pool[y[2]] /\ F[y] = k[y[1]].pool[y[2]]
      BY <1>1, <1>7, <1>8, <2>2
    <3>2. y = <<y[1], y[2]>>
      BY <1>7
    <3>3. QED
      BY <3>1, <3>2, Zenon
  <2>3. QED
    BY <2>1, <2>2
<1>14. ASSUME NEW x \in DOMAIN G, NEW w \in DOMAIN G
       PROVE  \E y, v \in DOMAIN F : G[x] = F[y] /\ G[w] = F[v] /\ (y = v => x = w)
  <2>1. CASE x[1] = c /\ w[1] = c
    <3>1. x[2] \in 1..Len(r) /\ G[x] = r[x[2]] /\ w[2] \in 1..Len(r) /\ G[w] = r[w[2]]
      BY <1>4, <1>7, <2>1
    <3>2. PICK j \in 1..Len(q), t \in 1..Len(q) :
           j # s /\ t # s /\ r[x[2]] = q[j] /\ r[w[2]] = q[t] /\ (j = t <=> x[2] = w[2])
      BY <1>5, <3>1, Zenon
    <3>3. /\ <<c, j>> \in DOMAIN F /\ F[<<c, j>>] = q[j] /\ <<c, t>> \in DOMAIN F /\ F[<<c, t>>] = q[t]
          /\ (<<c, j>> = <<c, t>> => j = t)
      BY <1>3, <1>8
    <3>4. x[2] = w[2] => x = w
      <4>1. x = <<x[1], x[2]>> /\ w = <<w[1], w[2]>>
        BY <1>7
      <4>2. QED
        BY <2>1, <4>1
    <3>5. QED
      BY <3>1, <3>2, <3>3, <3>4
  <2>2. CASE x[1] # w[1]
    <3>1. PICK y \in DOMAIN F : G[x] = F[y] /\ x[1] = y[1]
      BY <1>12
    <3>2. PICK v \in DOMAIN F : G[w] = F[v] /\ w[1] = v[1]
      BY <1>12
    <3>3. y # v
      BY <2>2, <3>1, <3>2
    <3>4. QED
      BY <3>1, <3>2, <3>3
  <2>3. CASE x[1] = w[1] /\ x[1] # c
    <3>1. <<x[1], x[2]>> \in DOMAIN F /\ F[<<x[1], x[2]>>] = k[x[1]].pool[x[2]] /\ G[x] = k[x[1]].pool[x[2]]
      BY <1>1, <1>7, <1>8, <2>3
    <3>2. <<w[1], w[2]>> \in DOMAIN F /\ F[<<w[1], w[2]>>] = k[w[1]].pool[w[2]] /\ G[w] = k[w[1]].pool[w[2]]
      BY <1>1, <1>7, <1>8, <2>3
    <3>3. x = <<x[1], x[2]>> /\ w = <<w[1], w[2]>>
      BY <1>7
    <3>4. QED
      BY <3>1, <3>2, <3>3, Zenon
  <2>4. QED
    BY <2>1, <2>2, <2>3
<1>15. Reduced(F, G, z)
  BY <1>9, <1>12, <1>13, <1>14, Zenon DEF Reduced
<1>16. QED
  BY <1>01, <1>02, <1>03, <1>9, <1>15, Zenon
-----------------------------------------------------------------------------
(* Who has the objects in use: somebody outside (O, of small classes at    *)
(* least S), or one slab, for its structure and map, once.                 *)
Possession(U, US, W, O, S) ==
  /\ O \subseteq U /\ S \subseteq O /\ S \subseteq US /\ US \subseteq U
  /\ \A w \in W : w[2] \in US /\ w[2] \notin O
  /\ \A o \in U : o \in O \/ \E w \in W : w[2] = o
  /\ \A v, w \in W : v[2] = w[2] => v = w

LEMMA PossessMore ==
  ASSUME NEW U, NEW US, NEW W, NEW O, NEW S, Possession(U, US, W, O, S), NEW o, o \notin U
  PROVE  /\ Possession(U \cup {o}, US, W, O \cup {o}, S)
         /\ Possession(U \cup {o}, US \cup {o}, W, O \cup {o}, S \cup {o})
BY DEF Possession

LEMMA PossessLess ==
  ASSUME NEW U, NEW US, NEW W, NEW O, NEW S, Possession(U, US, W, O, S), NEW o \in O
  PROVE  Possession(U \ {o}, US \ {o}, W, O \ {o}, S \ {o})
BY DEF Possession

LEMMA PossessInside ==
  ASSUME NEW U, NEW US, NEW W, NEW O, NEW S, Possession(U, US, W, O, S), NEW V, V \subseteq S,
         NEW P, \A w \in P : w[2] \in V, \A o \in V : \E w \in P : w[2] = o,
         \A v, w \in P : v[2] = w[2] => v = w
  PROVE  Possession(U, US, W \cup P, O \ V, S \ V)
<1>1. \A w \in W \cup P : w[2] \in US /\ w[2] \notin O \ V
  BY DEF Possession
<1>2. \A o \in U : o \in O \ V \/ \E w \in W \cup P : w[2] = o
  BY DEF Possession
<1>3. \A v, w \in W \cup P : v[2] = w[2] => v = w
  BY DEF Possession
<1>4. QED
  BY <1>1, <1>2, <1>3 DEF Possession

Names(P, V) == (\A w \in P : w[2] \in V) /\ \A o \in V : \E w \in P : w[2] = o

LEMMA PossessOutside ==
  ASSUME NEW U, NEW US, NEW W, NEW O, NEW S, Possession(U, US, W, O, S), NEW P, P \subseteq W,
         NEW V, Names(P, V)
  PROVE  /\ Possession(U, US, W \ P, O \cup V, S \cup V) /\ V \cap O = {}
<1>0. (\A w \in P : w[2] \in V) /\ \A o \in V : \E w \in P : w[2] = o
  BY Zenon DEF Names
<1>1. V \cap O = {} /\ V \subseteq US
  BY <1>0 DEF Possession
<1>2. \A w \in W \ P : w[2] \in US /\ w[2] \notin O \cup V
  BY <1>0 DEF Possession
<1>3. \A o \in U : o \in O \cup V \/ \E w \in W \ P : w[2] = o
  BY <1>0 DEF Possession
<1>4. QED
  BY <1>0, <1>1, <1>2, <1>3 DEF Possession

CacheSide(k, O, S) ==
  /\ \A c \in DOMAIN Classes : GoodRing(c, k[c])
  /\ Apart(Content(k))
  /\ Possession(UsedOf(Content(k)), SmallOf(Content(k)), OwnersOf(Content(k)), O, S)

Owns(b) == {o \in ObjectNames : \E j \in 1..Len(b.own) : b.own[j] = o}

LEMMA OwnsIs ==
  ASSUME NEW b \in SlabRecords, NEW c, ShapedFor(c, b)
  PROVE  /\ \A w \in OwnPairs(b) : w[2] \in Owns(b)
         /\ \A o \in Owns(b) : \E w \in OwnPairs(b) : w[2] = o
         /\ \A v, w \in OwnPairs(b) : v[2] = w[2] => v = w
         /\ (b.own = <<>> => Owns(b) = {})
         /\ \A x, y \in ObjectNames : b.own = <<x, y>> => Owns(b) = {x, y}
<1>1. b.page \in Pages /\ b.own \in Seq(ObjectNames)
  BY SlabFields
<1>2. \A w \in OwnPairs(b) : w[2] \in ObjectNames /\ w = <<b.page, w[2]>> /\ \E j \in 1..Len(b.own) : b.own[j] = w[2]
  BY DEF OwnPairs
<1>3. \A w \in OwnPairs(b) : w[2] \in Owns(b)
  BY <1>2 DEF Owns
<1>4. ASSUME NEW o \in Owns(b)
      PROVE  \E w \in OwnPairs(b) : w[2] = o
  <2>1. <<b.page, o>> \in OwnPairs(b)
    BY <1>1 DEF OwnPairs, Owns
  <2>2. <<b.page, o>>[2] = o
    OBVIOUS
  <2>3. QED
    BY <2>1, <2>2
<1>5. \A v, w \in OwnPairs(b) : v[2] = w[2] => v = w
  <2>1. TAKE v, w \in OwnPairs(b)
  <2>2. v = <<b.page, v[2]>> /\ w = <<b.page, w[2]>>
    BY <1>2
  <2>3. QED
    BY <2>2, Zenon
<1>6. b.own = <<>> => Owns(b) = {}
  BY DEF Owns
<1>7. ASSUME NEW x \in ObjectNames, NEW y \in ObjectNames, b.own = <<x, y>>
      PROVE  Owns(b) = {x, y}
  <2>1. Len(b.own) = 2 /\ b.own[1] = x /\ b.own[2] = y
    BY <1>7
  <2>2. \A o \in ObjectNames : o \in Owns(b) <=> o = x \/ o = y
    BY <2>1 DEF Owns
  <2>3. Owns(b) \subseteq ObjectNames
    BY DEF Owns
  <2>4. QED
    BY <2>2, <2>3
<1>8. QED
  BY <1>3, <1>4, <1>5, <1>6, <1>7

(* kmalloc's part in a slab with a free object: one that nobody had.       *)
NewObject(k, h, O, S, c, o) ==
  /\ o \notin O /\ o \in ObjectNames /\ CacheSide(h, O \cup {o}, S)
  /\ (Classes[c].small => CacheSide(h, O \cup {o}, S \cup {o}))
  /\ PagesOf(Content(h)) = PagesOf(Content(k)) /\ o[1] \in PagesOf(Content(k))

LEMMA CacheMark ==
  ASSUME NEW k \in Caches, NEW O, NEW S, CacheSide(k, O, S),
         NEW c \in DOMAIN Classes, NEW s \in 1..Len(k[c].pool),
         NEW i \in 0..(k[c].pool[s].color_count - 1), i \notin k[c].pool[s].used, NEW h,
         Changed(k, h, c, [k[c].pool EXCEPT ![s] = Marked(@, i)], k[c].total_free - 1, k[c].total_using + 1),
         NEW o, o = <<k[c].pool[s].page, i>>
  PROVE  NewObject(k, h, O, S, c, o)
<1>1. k[c].pool[s] \in SlabRecords
  BY ContentIs
<1>2. PICK b \in SlabRecords : b = k[c].pool[s]
  BY <1>1, Zenon
<1>3. i \in Nat /\ i \notin b.used /\ b.page \in Pages /\ b.color_count \in Nat
  BY <1>2, SlabFields
<1>4. PICK n : n = Marked(b, i)
  OBVIOUS
<1>5. MarkedFacts(b, i, n)
  BY <1>3, <1>4, MarkedHas
<1>50. n.page = b.page /\ n.own = b.own /\ n.used = b.used \cup {i}
  BY <1>5 DEF MarkedFacts
<1>6. Changed(k, h, c, [k[c].pool EXCEPT ![s] = n], k[c].total_free - 1, k[c].total_using + 1)
  BY <1>2, <1>4
<1>7. PICK F : F = Content(k)
  OBVIOUS
<1>8. PICK G : G = Content(h)
  OBVIOUS
<1>9. PICK z : z = <<c, s>>
  OBVIOUS
<1>10. Swapped(F, G, z, n) /\ F[z] = b
  <2>1. Swapped(Content(k), Content(h), <<c, s>>, n) /\ Content(k)[<<c, s>>] = k[c].pool[s]
    BY <1>6, SwapContent, Zenon
  <2>2. QED
    BY <1>2, <1>7, <1>8, <1>9, <2>1, Zenon
<1>100. z \in DOMAIN F /\ z[1] = c
  <2>1. z \in DOMAIN F
    BY <1>10 DEF Swapped
  <2>2. QED
    BY <1>9, <2>1
<1>11. Apart(F) /\ Possession(UsedOf(F), SmallOf(F), OwnersOf(F), O, S)
  BY <1>7 DEF CacheSide
<1>12. PagesOf(G) = PagesOf(F) /\ OwnersOf(G) = OwnersOf(F) /\ Apart(G)
  <2>1. n.page = F[z].page /\ n.own = F[z].own
    BY <1>50, <1>10, Zenon
  <2>2. QED
    BY <1>10, <1>11, <2>1, SwapEffect, Zenon
<1>13. o \in ObjectNames /\ o[1] = n.page /\ o[1] = b.page /\ o[2] = i
  BY <1>2, <1>3, <1>50, ObjectIs
<1>14. /\ UsedOf(G) = UsedOf(F) \cup {o}
       /\ SmallOf(G) = IF Classes[c].small THEN SmallOf(F) \cup {o} ELSE SmallOf(F)
  <2>1. n.page = F[z].page /\ n.used = F[z].used \cup {o[2]}
    BY <1>50, <1>10, <1>13, Zenon
  <2>2. /\ UsedOf(G) = UsedOf(F) \cup {o}
        /\ SmallOf(G) = IF Classes[z[1]].small THEN SmallOf(F) \cup {o} ELSE SmallOf(F)
    BY <1>10, <1>13, <2>1, MarkEffect, SMTT(30)
  <2>3. QED
    BY <1>100, <2>2, Zenon
<1>15. o \in ObjectNames /\ o[1] = b.page /\ o[2] = i
  BY <1>13
<1>16. o \notin UsedOf(F)
  <2>1. \A x \in DOMAIN F : F[x].page = b.page => x = z
    BY <1>10, <1>100, <1>11 DEF Apart
  <2>2. QED
    BY <1>3, <1>10, <1>15, <2>1 DEF UsedOf
<1>17. o \notin O
  BY <1>11, <1>16 DEF Possession
<1>18. /\ Possession(UsedOf(F) \cup {o}, SmallOf(F), OwnersOf(F), O \cup {o}, S)
       /\ Possession(UsedOf(F) \cup {o}, SmallOf(F) \cup {o}, OwnersOf(F), O \cup {o}, S \cup {o})
  BY <1>11, <1>16, PossessMore
<1>19. ASSUME NEW d \in DOMAIN Classes
       PROVE  GoodRing(d, h[d])
  <2>1. GoodRing(d, k[d])
    BY DEF CacheSide
  <2>2. CASE d = c
    <3>1. /\ h[c] \in CacheRecords /\ k[c] \in CacheRecords /\ h[c].pool = [k[c].pool EXCEPT ![s] = Marked(@, i)]
          /\ h[c].total_free = k[c].total_free - 1 /\ h[c].total_using = k[c].total_using + 1
      BY ChangedIs
    <3>2. GoodRing(c, k[c])
      BY <2>1, <2>2, Zenon
    <3>3. GoodRing(c, h[c])
      BY <3>1, <3>2, RingMarked
    <3>4. QED
      BY <2>2, <3>3, Zenon
  <2>3. CASE d # c
    <3>1. h[d] = k[d]
      BY <2>3, Zenon DEF Changed
    <3>2. QED
      BY <2>1, <3>1, Zenon
  <2>4. QED
    BY <2>2, <2>3
<1>20. b.page \in PagesOf(F)
  BY <1>3, <1>10, <1>100 DEF PagesOf
<1>21. Possession(UsedOf(G), SmallOf(G), OwnersOf(G), O \cup {o}, S)
  <2>1. CASE Classes[c].small
    <3>1. Possession(UsedOf(F) \cup {o}, SmallOf(F) \cup {o}, OwnersOf(F), O \cup {o}, S)
      BY <1>18 DEF Possession
    <3>2. QED
      BY <1>12, <1>14, <2>1, <3>1
  <2>2. CASE ~Classes[c].small
    BY <1>12, <1>14, <1>18, <2>2
  <2>3. QED
    BY <2>1, <2>2
<1>22. Classes[c].small => Possession(UsedOf(G), SmallOf(G), OwnersOf(G), O \cup {o}, S \cup {o})
  BY <1>12, <1>14, <1>18
<1>23. CacheSide(h, O \cup {o}, S)
  BY <1>8, <1>12, <1>19, <1>21 DEF CacheSide
<1>24. Classes[c].small => CacheSide(h, O \cup {o}, S \cup {o})
  BY <1>8, <1>12, <1>19, <1>22 DEF CacheSide
<1>25. o[1] \in PagesOf(F)
  BY <1>15, <1>20
<1>26. QED
  BY <1>7, <1>8, <1>12, <1>15, <1>17, <1>25, <1>23, <1>24, Zenon DEF NewObject

(* An object held is found: by its page, in use in one slab.               *)
LEMMA CacheFinds ==
  ASSUME NEW m \in Mems, NEW O, NEW S, CacheSide(m.cache, O, S), NEW o \in O,
         NEW c, c = ClassOf(m, o), NEW s, s = SlabOf(m, c, o)
  PROVE  /\ c \in DOMAIN Classes /\ s \in 1..Len(m.cache[c].pool) /\ o \in ObjectNames
         /\ m.cache[c].pool[s].page = o[1] /\ o[2] \in m.cache[c].pool[s].used
         /\ (o \in S => Classes[c].small)
<1>1. PICK k \in Caches : k = m.cache
  <2>1. m.cache \in Caches
    BY MemFields
  <2>2. QED
    BY <2>1, Zenon
<1>2. PICK F : F = Content(k)
  OBVIOUS
<1>3. Apart(F) /\ Possession(UsedOf(F), SmallOf(F), OwnersOf(F), O, S)
  BY <1>1, <1>2 DEF CacheSide
<1>4. o \in UsedOf(F)
  BY <1>3 DEF Possession
<1>5. o \in ObjectNames
  BY <1>4 DEF UsedOf
<1>6. PICK x \in DOMAIN F : F[x].page = o[1] /\ o[2] \in F[x].used
  BY <1>4 DEF UsedOf
<1>7. PICK d \in DOMAIN Classes : \E t \in 1..Len(k[d].pool) : x = <<d, t>> /\ F[x] = k[d].pool[t]
  BY <1>2, ContentIs
<1>8. PICK t \in 1..Len(k[d].pool) : x = <<d, t>> /\ F[x] = k[d].pool[t]
  BY <1>7
<1>9. ASSUME NEW e \in DOMAIN Classes, NEW i \in 1..Len(k[e].pool), k[e].pool[i].page = o[1]
      PROVE  e = d /\ i = t
  <2>1. <<e, i>> \in DOMAIN F /\ F[<<e, i>>] = k[e].pool[i]
    BY <1>2, ContentIs
  <2>2. <<e, i>> = <<d, t>>
    BY <1>3, <1>6, <1>8, <1>9, <2>1 DEF Apart
  <2>3. QED
    BY <2>2
<1>10. \A e \in DOMAIN Classes : DOMAIN k[e].pool = 1..Len(k[e].pool)
  BY RingFields DEF Caches
<1>11. d \in Nat /\ t \in Nat
  <2>1. DOMAIN Classes \subseteq Nat
    <3>1. Classes \in Seq([small : BOOLEAN, first : Nat, created : Nat \ {0, 1}, map : Nat])
      BY MemoryAssumption
    <3>2. DOMAIN Classes = 1..Len(Classes) /\ Len(Classes) \in Nat
      BY <3>1
    <3>3. QED
      BY <3>2
  <2>2. QED
    BY <2>1
<1>12. {e \in DOMAIN Classes : \E i \in DOMAIN k[e].pool : k[e].pool[i].page = o[1]} = {d}
  <2>1. t \in DOMAIN k[d].pool /\ k[d].pool[t].page = o[1]
    BY <1>6, <1>8, <1>10
  <2>2. ASSUME NEW e \in DOMAIN Classes, NEW i \in DOMAIN k[e].pool, k[e].pool[i].page = o[1]
        PROVE  e = d
    BY <1>9, <1>10, <2>2
  <2>3. QED
    BY <2>1, <2>2
<1>13. c = d
  BY <1>1, <1>11, <1>12, LeastOfOne DEF ClassOf
<1>14. {i \in DOMAIN k[c].pool : k[c].pool[i].page = o[1]} = {t}
  BY <1>6, <1>8, <1>9, <1>10, <1>13
<1>15. s = t
  BY <1>1, <1>11, <1>14, LeastOfOne DEF SlabOf
<1>16. o \in S => Classes[c].small
  <2>1. SUFFICES ASSUME o \in S
                 PROVE  Classes[c].small
    OBVIOUS
  <2>2. o \in SmallOf(F)
    BY <1>3, <2>1 DEF Possession
  <2>3. PICK y \in DOMAIN F : Classes[y[1]].small /\ F[y].page = o[1]
    BY <2>2 DEF SmallOf
  <2>4. y = x
    BY <1>3, <1>6, <2>3 DEF Apart
  <2>5. QED
    BY <1>8, <1>13, <2>3, <2>4
<1>17. QED
  BY <1>1, <1>5, <1>6, <1>8, <1>13, <1>15, <1>16

LEMMA ChangedUnmarked ==
  ASSUME NEW k \in Caches, NEW h, NEW c \in DOMAIN Classes, GoodRing(c, k[c]), NEW s \in 1..Len(k[c].pool),
         NEW i \in k[c].pool[s].used,
         Changed(k, h, c, [k[c].pool EXCEPT ![s] = Unmarked(@, i)], k[c].total_free + 1, k[c].total_using - 1)
  PROVE  GoodRing(c, h[c])
<1>1. /\ h[c] \in CacheRecords /\ k[c] \in CacheRecords /\ h[c].pool = [k[c].pool EXCEPT ![s] = Unmarked(@, i)]
      /\ h[c].total_free = k[c].total_free + 1 /\ h[c].total_using = k[c].total_using - 1
  BY ChangedIs
<1>2. PICK e \in CacheRecords : e = k[c]
  BY <1>1, Zenon
<1>3. PICK g \in CacheRecords : g = h[c]
  BY <1>1, Zenon
<1>4. /\ GoodRing(c, e) /\ s \in 1..Len(e.pool) /\ i \in e.pool[s].used
      /\ g.pool = [e.pool EXCEPT ![s] = Unmarked(@, i)]
      /\ g.total_free = e.total_free + 1 /\ g.total_using = e.total_using - 1
  BY <1>1, <1>2, <1>3, Zenon
<1>5. GoodRing(c, g)
  BY <1>4, RingUnmarked, ZenonT(60)
<1>6. QED
  BY <1>3, <1>5, Zenon

LEMMA ChangedAppended ==
  ASSUME NEW k \in Caches, NEW h, NEW c \in DOMAIN Classes, GoodRing(c, k[c]), NEW b \in SlabRecords,
         GoodSlab(b), ShapedFor(c, b), b.color_count = Classes[c].created, b.using_count = 0,
         Changed(k, h, c, Append(k[c].pool, b), k[c].total_free + b.color_count, k[c].total_using)
  PROVE  GoodRing(c, h[c])
<1>1. /\ h[c] \in CacheRecords /\ k[c] \in CacheRecords /\ h[c].pool = Append(k[c].pool, b)
      /\ h[c].total_free = k[c].total_free + b.color_count /\ h[c].total_using = k[c].total_using
  <2>1. h \in Caches
    BY Zenon DEF Changed
  <2>2. h[c] \in CacheRecords /\ k[c] \in CacheRecords
    BY <2>1 DEF Caches
  <2>3. QED
    BY <2>2, Zenon DEF Changed
<1>2. QED
  BY <1>1, RingAppended

LEMMA ChangedRemoved ==
  ASSUME NEW k \in Caches, NEW h, NEW c \in DOMAIN Classes, GoodRing(c, k[c]), NEW s \in 1..Len(k[c].pool),
         s # 1, k[c].pool[s].using_count = 0,
         Changed(k, h, c, RemoveAt(k[c].pool, s), k[c].total_free - k[c].pool[s].color_count, k[c].total_using)
  PROVE  GoodRing(c, h[c])
<1>1. /\ h[c] \in CacheRecords /\ k[c] \in CacheRecords /\ h[c].pool = RemoveAt(k[c].pool, s)
      /\ h[c].total_free = k[c].total_free - k[c].pool[s].color_count /\ h[c].total_using = k[c].total_using
  BY ChangedIs
<1>2. QED
  BY <1>1, RingRemoved

OldObject(k, h, O, S, o) == CacheSide(h, O \ {o}, S \ {o}) /\ PagesOf(Content(h)) = PagesOf(Content(k))

LEMMA CacheUnmark ==
  ASSUME NEW k \in Caches, NEW O, NEW S, CacheSide(k, O, S), NEW o \in O, o \in ObjectNames,
         NEW c \in DOMAIN Classes, NEW s \in 1..Len(k[c].pool), k[c].pool[s].page = o[1],
         NEW i, i = o[2], i \in k[c].pool[s].used, NEW h,
         Changed(k, h, c, [k[c].pool EXCEPT ![s] = Unmarked(@, i)], k[c].total_free + 1, k[c].total_using - 1)
  PROVE  OldObject(k, h, O, S, o)
<1>1. k[c].pool[s] \in SlabRecords
  BY ContentIs
<1>2. PICK b \in SlabRecords : b = k[c].pool[s]
  BY <1>1, Zenon
<1>3. i \in Nat /\ b.page \in Pages
  BY <1>2, SlabFields
<1>4. PICK n : n = Unmarked(b, i)
  OBVIOUS
<1>5. UnmarkedFacts(b, i, n)
  BY <1>3, <1>4, UnmarkedHas
<1>50. n.page = b.page /\ n.own = b.own /\ \A j : j \in n.used <=> j \in b.used /\ j # i
  BY <1>5, Zenon DEF UnmarkedFacts
<1>6. Changed(k, h, c, [k[c].pool EXCEPT ![s] = n], k[c].total_free + 1, k[c].total_using - 1)
  BY <1>2, <1>4
<1>7. PICK F : F = Content(k)
  OBVIOUS
<1>8. PICK G : G = Content(h)
  OBVIOUS
<1>9. PICK z : z = <<c, s>>
  OBVIOUS
<1>10. Swapped(F, G, z, n) /\ F[z] = b
  <2>1. Swapped(Content(k), Content(h), <<c, s>>, n) /\ Content(k)[<<c, s>>] = k[c].pool[s]
    BY <1>6, SwapContent, Zenon
  <2>2. QED
    BY <1>2, <1>7, <1>8, <1>9, <2>1, Zenon
<1>100. z \in DOMAIN F /\ z[1] = c
  <2>1. z \in DOMAIN F
    BY <1>10 DEF Swapped
  <2>2. QED
    BY <1>9, <2>1
<1>11. Apart(F) /\ Possession(UsedOf(F), SmallOf(F), OwnersOf(F), O, S)
  BY <1>7 DEF CacheSide
<1>12. PagesOf(G) = PagesOf(F) /\ OwnersOf(G) = OwnersOf(F) /\ Apart(G)
  <2>1. n.page = F[z].page /\ n.own = F[z].own
    BY <1>50, <1>10, Zenon
  <2>2. QED
    BY <1>10, <1>11, <2>1, SwapEffect, Zenon
<1>13. o[1] = n.page
  BY <1>2, <1>50
<1>14. UsedOf(G) = UsedOf(F) \ {o} /\ SmallOf(G) = SmallOf(F) \ {o}
  <2>1. n.page = F[z].page /\ \A j : j \in n.used <=> j \in F[z].used /\ j # o[2]
    BY <1>50, <1>10, Zenon
  <2>2. QED
    BY <1>10, <1>11, <1>13, <2>1, UnmarkEffect
<1>15. Possession(UsedOf(G), SmallOf(G), OwnersOf(G), O \ {o}, S \ {o})
  BY <1>11, <1>12, <1>14, PossessLess
<1>16. ASSUME NEW d \in DOMAIN Classes
       PROVE  GoodRing(d, h[d])
  <2>1. GoodRing(d, k[d])
    BY DEF CacheSide
  <2>2. CASE d = c
    <3>1. /\ h[c] \in CacheRecords /\ k[c] \in CacheRecords /\ h[c].pool = [k[c].pool EXCEPT ![s] = Unmarked(@, i)]
          /\ h[c].total_free = k[c].total_free + 1 /\ h[c].total_using = k[c].total_using - 1
      BY ChangedIs
    <3>2. GoodRing(c, k[c])
      BY <2>1, <2>2, Zenon
    <3>3. GoodRing(c, h[c])
      BY <3>2, ChangedUnmarked, Zenon
    <3>4. QED
      BY <2>2, <3>3, Zenon
  <2>3. CASE d # c
    <3>1. h[d] = k[d]
      BY <2>3, Zenon DEF Changed
    <3>2. QED
      BY <2>1, <3>1, Zenon
  <2>4. QED
    BY <2>2, <2>3
<1>17. CacheSide(h, O \ {o}, S \ {o})
  BY <1>8, <1>12, <1>15, <1>16 DEF CacheSide
<1>18. QED
  BY <1>7, <1>8, <1>12, <1>17, Zenon DEF OldObject

(* A slab with its own objects, that the class takes in, and one it drops. *)
NewSlab(c, b) ==
  /\ b \in SlabRecords /\ GoodSlab(b) /\ ShapedFor(c, b)
  /\ b.color_count = Classes[c].created /\ b.using_count = 0

Fresh(k, O, S, c, b) ==
  CacheSide(k, O, S) /\ NewSlab(c, b) /\ b.page \notin PagesOf(Content(k)) /\ Owns(b) \subseteq S

Joined(k, h, O, S, b) ==
  /\ CacheSide(h, O \ Owns(b), S \ Owns(b))
  /\ PagesOf(Content(h)) = PagesOf(Content(k)) \cup {b.page}

LEMMA CacheAppend ==
  ASSUME NEW k \in Caches, NEW O, NEW S, NEW c \in DOMAIN Classes, NEW b, Fresh(k, O, S, c, b), NEW h,
         Changed(k, h, c, Append(k[c].pool, b), k[c].total_free + b.color_count, k[c].total_using)
  PROVE  Joined(k, h, O, S, b)
<1>0. /\ b \in SlabRecords /\ GoodSlab(b) /\ ShapedFor(c, b)
      /\ b.color_count = Classes[c].created /\ b.using_count = 0
  BY DEF Fresh, NewSlab
<1>00. CacheSide(k, O, S) /\ b.page \notin PagesOf(Content(k)) /\ Owns(b) \subseteq S
  BY Zenon DEF Fresh
<1>1. b.used = {}
  BY <1>0, GoodSlabFacts
<1>2. b.page \in Pages
  BY <1>0, SlabFields
<1>3. PICK F : F = Content(k)
  OBVIOUS
<1>4. PICK G : G = Content(h)
  OBVIOUS
<1>5. PICK z : z = <<c, Len(k[c].pool) + 1>>
  OBVIOUS
<1>6. Extended(F, G, z, b)
  BY <1>3, <1>4, <1>5, AppendContent, Zenon
<1>7. Apart(F) /\ Possession(UsedOf(F), SmallOf(F), OwnersOf(F), O, S) /\ b.page \notin PagesOf(F)
  BY <1>00, <1>3 DEF CacheSide
<1>8. /\ PagesOf(G) = PagesOf(F) \cup {b.page} /\ OwnersOf(G) = OwnersOf(F) \cup OwnPairs(b)
      /\ Apart(G) /\ UsedOf(G) = UsedOf(F) /\ SmallOf(G) = SmallOf(F)
  BY <1>1, <1>2, <1>6, <1>7, AppendEffect
<1>9. PICK V : V = Owns(b)
  OBVIOUS
<1>10. PICK P : P = OwnPairs(b)
  OBVIOUS
<1>11. /\ V \subseteq S /\ \A w \in P : w[2] \in V
       /\ \A o \in V : \E w \in P : w[2] = o
       /\ \A v, w \in P : v[2] = w[2] => v = w
  BY <1>0, <1>00, <1>9, <1>10, OwnsIs
<1>12. Possession(UsedOf(F), SmallOf(F), OwnersOf(F) \cup P, O \ V, S \ V)
  BY <1>7, <1>11, PossessInside
<1>13. ASSUME NEW d \in DOMAIN Classes
       PROVE  GoodRing(d, h[d])
  <2>1. GoodRing(d, k[d])
    BY <1>00 DEF CacheSide
  <2>2. CASE d = c
    <3>1. GoodRing(c, k[c])
      BY <2>1, <2>2, Zenon
    <3>2. GoodRing(c, h[c])
      BY <1>0, <3>1, ChangedAppended, Zenon
    <3>3. QED
      BY <2>2, <3>2, Zenon
  <2>3. CASE d # c
    <3>1. h[d] = k[d]
      BY <2>3, Zenon DEF Changed
    <3>2. QED
      BY <2>1, <3>1, Zenon
  <2>4. QED
    BY <2>2, <2>3
<1>14. CacheSide(h, O \ V, S \ V)
  BY <1>4, <1>8, <1>10, <1>12, <1>13, Zenon DEF CacheSide
<1>15. QED
  BY <1>3, <1>4, <1>8, <1>9, <1>14, Zenon DEF Joined

LEMMA CacheRemove ==
  ASSUME NEW k \in Caches, NEW O, NEW S, CacheSide(k, O, S), NEW c \in DOMAIN Classes,
         NEW s \in 1..Len(k[c].pool), s # 1, NEW b, b = k[c].pool[s], b.using_count = 0, NEW h,
         Changed(k, h, c, RemoveAt(k[c].pool, s), k[c].total_free - k[c].pool[s].color_count, k[c].total_using)
  PROVE  /\ b \in SlabRecords /\ CacheSide(h, O \cup Owns(b), S \cup Owns(b)) /\ Owns(b) \cap O = {}
         /\ PagesOf(Content(h)) = PagesOf(Content(k)) \ {b.page} /\ b.page \in PagesOf(Content(k))
<1>0. b \in SlabRecords /\ GoodSlab(b) /\ ShapedFor(c, b)
  <2>1. b \in SlabRecords
    BY ContentIs
  <2>2. GoodRing(c, k[c])
    BY DEF CacheSide
  <2>3. QED
    BY <2>1, <2>2 DEF GoodRing
<1>1. b.used = {} /\ b.page \in Pages
  BY <1>0, GoodSlabFacts, SlabFields
<1>3. PICK F : F = Content(k)
  OBVIOUS
<1>4. PICK G : G = Content(h)
  OBVIOUS
<1>5. PICK z : z = <<c, s>>
  OBVIOUS
<1>6. Reduced(F, G, z) /\ F[z] = b
  <2>1. Reduced(Content(k), Content(h), <<c, s>>) /\ Content(k)[<<c, s>>] = k[c].pool[s]
    BY RemoveContent, Zenon
  <2>2. QED
    BY <1>3, <1>4, <1>5, <2>1, Zenon
<1>60. z \in DOMAIN F
  BY <1>6, Zenon DEF Reduced
<1>7. Apart(F) /\ Possession(UsedOf(F), SmallOf(F), OwnersOf(F), O, S)
  BY <1>3 DEF CacheSide
<1>8. /\ PagesOf(G) = PagesOf(F) \ {b.page} /\ b.page \in PagesOf(F)
      /\ OwnersOf(G) = OwnersOf(F) \ OwnPairs(b) /\ OwnPairs(b) \subseteq OwnersOf(F)
      /\ Apart(G) /\ UsedOf(G) = UsedOf(F) /\ SmallOf(G) = SmallOf(F)
  BY <1>1, <1>6, <1>60, <1>7, RemoveEffect, Zenon
<1>9. PICK V : V = Owns(b)
  OBVIOUS
<1>10. PICK P : P = OwnPairs(b)
  OBVIOUS
<1>11. Names(P, V)
  BY <1>0, <1>9, <1>10, OwnsIs DEF Names
<1>12. Possession(UsedOf(F), SmallOf(F), OwnersOf(F) \ P, O \cup V, S \cup V) /\ V \cap O = {}
  <2>1. P \subseteq OwnersOf(F)
    BY <1>8, <1>10
  <2>2. QED
    BY <1>7, <1>11, <2>1, PossessOutside, Zenon
<1>13. ASSUME NEW d \in DOMAIN Classes
       PROVE  GoodRing(d, h[d])
  <2>1. GoodRing(d, k[d])
    BY DEF CacheSide
  <2>2. CASE d = c
    <3>1. GoodRing(c, k[c]) /\ k[c].pool[s].using_count = 0
      BY <2>1, <2>2, Zenon
    <3>2. GoodRing(c, h[c])
      BY <3>1, ChangedRemoved, Zenon
    <3>3. QED
      BY <2>2, <3>2, Zenon
  <2>3. CASE d # c
    <3>1. h[d] = k[d]
      BY <2>3, Zenon DEF Changed
    <3>2. QED
      BY <2>1, <3>1, Zenon
  <2>4. QED
    BY <2>2, <2>3
<1>14. CacheSide(h, O \cup V, S \cup V)
  BY <1>4, <1>8, <1>10, <1>12, <1>13, Zenon DEF CacheSide
<1>15. QED
  BY <1>0, <1>3, <1>4, <1>8, <1>9, <1>12, <1>14, Zenon
-----------------------------------------------------------------------------
(* The whole: the memory m, of which callers hold the objects O, of small  *)
(* classes at least S, and the runs R, with pages L referenced beside the  *)
(* slabs' own.                                                             *)
SlabPages(m) == PagesOf(Content(m.cache))

Mem(m, O, S, R, L) ==
  /\ m \in Mems /\ CacheSide(m.cache, O, S)
  /\ PageSide(m, SlabPages(m), R, SlabPages(m) \cup L) /\ L \cap SlabPages(m) = {}

LEMMA SamePages ==
  ASSUME NEW m, NEW r, Same(m, r), NEW P, NEW R, NEW A, PageSide(m, P, R, A)
  PROVE  PageSide(r, P, R, A)
<1>1. /\ r.bits_map = m.bits_map /\ r.using = m.using /\ r.free = m.free
      /\ r.total_pages_link = m.total_pages_link /\ r.reference_count = m.reference_count
  BY DEF Same
<1>2. Owned(r.bits_map, P, R)
  BY <1>1 DEF PageSide
<1>3. Counted(r)
  BY <1>1 DEF PageSide, Counted
<1>4. Linked(r, A)
  BY <1>1 DEF PageSide, Linked
<1>5. QED
  BY <1>2, <1>3, <1>4 DEF PageSide

(* A page passes from a caller to a slab, and back.                        *)
LEMMA PageToSlab ==
  ASSUME NEW m, NEW P, NEW R, NEW A, PageSide(m, P, R, A), NEW p, <<p, 1>> \in R
  PROVE  PageSide(m, P \cup {p}, R \ {<<p, 1>>}, A) /\ p \in Nat /\ p \notin P /\ p \notin KernelPages
<1>1. Owned(m.bits_map, P, R)
  BY DEF PageSide
<1>2. Proper(<<p, 1>>) /\ \A a, c \in R : a # c => RunPages(a) \cap RunPages(c) = {}
  BY <1>1 DEF Owned
<1>3. PICK z \in ZoneIds : p \in Nat /\ RunPages(<<p, 1>>) \subseteq ZonePages(z)
  BY <1>2 DEF Proper
<1>4. p..(p + 1 - 1) = {p}
  BY <1>3
<1>5. RunPages(<<p, 1>>) = {p}
  BY <1>4 DEF RunPages
<1>6. RunSet(R \ {<<p, 1>>}) = RunSet(R) \ {p} /\ p \in RunSet(R)
  <2>1. RunSet(R \ {<<p, 1>>}) = RunSet(R) \ (p..(p + 1 - 1))
    BY <1>2, RunSetRemove
  <2>2. p \in RunSet(R)
    BY <1>5 DEF RunSet
  <2>3. QED
    BY <1>4, <2>1, <2>2
<1>7. p \notin P /\ p \notin KernelPages
  BY <1>1, <1>6 DEF Owned
<1>8. InZones(P \cup {p})
  BY <1>1, <1>3, <1>5 DEF Owned, InZones
<1>9. PICK Q : Q = RunSet(R)
  OBVIOUS
<1>10. PICK T : T = R \ {<<p, 1>>}
  OBVIOUS
<1>11. /\ m.bits_map = Holes \cup KernelPages \cup P \cup Q /\ P \cap Q = {} /\ KernelPages \cap (P \cup Q) = {}
       /\ p \in Q /\ RunSet(T) = Q \ {p}
  BY <1>1, <1>6, <1>9, <1>10 DEF Owned
<1>12. /\ m.bits_map = Holes \cup KernelPages \cup (P \cup {p}) \cup RunSet(T)
       /\ (P \cup {p}) \cap RunSet(T) = {} /\ KernelPages \cap ((P \cup {p}) \cup RunSet(T)) = {}
  BY <1>11
<1>13. (\A a, c \in T : a # c => RunPages(a) \cap RunPages(c) = {}) /\ \A run \in T : Proper(run)
  BY <1>1, <1>10 DEF Owned
<1>14. Owned(m.bits_map, P \cup {p}, T)
  BY <1>8, <1>12, <1>13 DEF Owned
<1>15. QED
  BY <1>3, <1>7, <1>10, <1>14 DEF PageSide

LEMMA PageFromSlab ==
  ASSUME NEW m, NEW P, NEW R, NEW A, PageSide(m, P, R, A), NEW p \in P
  PROVE  /\ PageSide(m, P \ {p}, R \cup {<<p, 1>>}, A) /\ <<p, 1>> \notin R
         /\ p \in Nat /\ p \notin KernelPages
<1>1. Owned(m.bits_map, P, R)
  BY DEF PageSide
<1>2. PICK z \in ZoneIds : p \in ZonePages(z)
  BY <1>1 DEF Owned, InZones
<1>3. p \in Nat
  BY <1>2, ZonePageFacts
<1>4. p..(p + 1 - 1) = {p}
  BY <1>3
<1>5. RunPages(<<p, 1>>) = {p}
  BY <1>4 DEF RunPages
<1>6. RunSet(R \cup {<<p, 1>>}) = RunSet(R) \cup {p}
  <2>1. RunSet(R \cup {<<p, 1>>}) = RunSet(R) \cup p..(p + 1 - 1)
    BY RunSetAdd, Zenon
  <2>2. QED
    BY <1>4, <2>1
<1>7. p \notin RunSet(R) /\ p \notin KernelPages
  BY <1>1 DEF Owned
<1>8. <<p, 1>> \notin R
  BY <1>5, <1>7 DEF RunSet
<1>9. PICK Q : Q = RunSet(R)
  OBVIOUS
<1>10. PICK T : T = R \cup {<<p, 1>>}
  OBVIOUS
<1>11. /\ m.bits_map = Holes \cup KernelPages \cup P \cup Q /\ P \cap Q = {} /\ KernelPages \cap (P \cup Q) = {}
       /\ RunSet(T) = Q \cup {p}
  BY <1>1, <1>6, <1>9, <1>10 DEF Owned
<1>12. /\ m.bits_map = Holes \cup KernelPages \cup (P \ {p}) \cup RunSet(T)
       /\ (P \ {p}) \cap RunSet(T) = {} /\ KernelPages \cap ((P \ {p}) \cup RunSet(T)) = {}
  BY <1>11
<1>13. \A run \in T : Proper(run)
  <2>1. Proper(<<p, 1>>)
    BY <1>2, <1>3, <1>5 DEF Proper
  <2>2. QED
    BY <1>1, <1>10, <2>1 DEF Owned
<1>14. \A a \in R : RunPages(a) \cap {p} = {}
  BY <1>7 DEF RunSet
<1>15. \A a, c \in T : a # c => RunPages(a) \cap RunPages(c) = {}
  <2>1. \A a, c \in R : a # c => RunPages(a) \cap RunPages(c) = {}
    BY <1>1 DEF Owned
  <2>2. QED
    BY <1>5, <1>10, <1>14, <2>1
<1>16. InZones(P \ {p})
  BY <1>1 DEF Owned, InZones
<1>17. Owned(m.bits_map, P \ {p}, T)
  BY <1>12, <1>13, <1>15, <1>16 DEF Owned
<1>18. QED
  BY <1>3, <1>7, <1>8, <1>10, <1>17 DEF PageSide

LEMMA MemTake ==
  ASSUME NEW m, NEW O, NEW S, NEW R, NEW L, Mem(m, O, S, R, L),
         NEW select \in {"ZONE_NORMAL", "ZONE_UNMAPED"}, NEW n \in Nat \ {0}, Serves(m, select, n) # 0,
         NEW z, z = Serves(m, select, n), NEW p, p = FoundPage(m, select, n),
         NEW r, r = alloc_pages(m, select, n)
  PROVE  Mem(r, O, S, R \cup {<<p, n>>}, L) /\ Taken(m, r, select, SlabPages(m), R, z, p, n)
<1>1. PICK P : P = SlabPages(m)
  OBVIOUS
<1>2. m \in Mems /\ PageSide(m, P, R, P \cup L) /\ L \cap P = {} /\ CacheSide(m.cache, O, S)
  BY <1>1 DEF Mem
<1>3. r \in Mems /\ PageSide(r, P, R \cup {<<p, n>>}, P \cup L) /\ Taken(m, r, select, P, R, z, p, n)
  BY <1>2, TakePages
<1>4. r.cache = m.cache
  BY <1>3 DEF Taken
<1>5. SlabPages(r) = P
  BY <1>1, <1>4 DEF SlabPages
<1>6. Mem(r, O, S, R \cup {<<p, n>>}, L)
  BY <1>2, <1>3, <1>4, <1>5 DEF Mem
<1>7. QED
  BY <1>1, <1>3, <1>6

LEMMA MemGive ==
  ASSUME NEW m, NEW O, NEW S, NEW R, NEW L, Mem(m, O, S, R, L), NEW p, NEW n, <<p, n>> \in R,
         NEW r, r = free_pages(m, p, n)
  PROVE  Mem(r, O, S, R \ {<<p, n>>}, L) /\ r.cache = m.cache
<1>1. PICK P : P = SlabPages(m)
  OBVIOUS
<1>2. m \in Mems /\ PageSide(m, P, R, P \cup L) /\ L \cap P = {} /\ CacheSide(m.cache, O, S)
  BY <1>1 DEF Mem
<1>3. r \in Mems /\ r.cache = m.cache /\ PageSide(r, P, R \ {<<p, n>>}, P \cup L)
  BY <1>2, GivePages
<1>4. SlabPages(r) = P
  BY <1>1, <1>3 DEF SlabPages
<1>5. QED
  BY <1>2, <1>3, <1>4 DEF Mem

(* A page for the kernel's own use, and its return with page_clean.        *)
LEMMA MemKernelPage ==
  ASSUME NEW m, NEW O, NEW S, NEW R, NEW L, Mem(m, O, S, R, L), HasPage(m),
         NEW p, p = FoundPage(m, "ZONE_NORMAL", 1), NEW r, r = KernelPage(m)
  PROVE  /\ Mem(r, O, S, R \cup {<<p, 1>>}, L \cup {p}) /\ r.cache = m.cache /\ r.free[1] = m.free[1] - 1
         /\ p \in Pages /\ p \notin SlabPages(m) /\ <<p, 1>> \notin R
<1>1. PICK a : a = alloc_pages(m, "ZONE_NORMAL", 1)
  OBVIOUS
<1>2. PICK z : z = Serves(m, "ZONE_NORMAL", 1)
  OBVIOUS
<1>3. Mem(a, O, S, R \cup {<<p, 1>>}, L) /\ Taken(m, a, "ZONE_NORMAL", SlabPages(m), R, z, p, 1)
  BY <1>1, <1>2, MemTake DEF HasPage
<1>4. /\ a.cache = m.cache /\ a.free[z] = m.free[z] - 1 /\ z \in {1} /\ z \in ZoneIds
      /\ p \in Nat /\ p..(p + 1 - 1) \subseteq ZonePages(z) /\ <<p, 1>> \notin R
      /\ p..(p + 1 - 1) \cap (KernelPages \cup SlabPages(m) \cup RunSet(R)) = {}
  BY <1>3, Zenon DEF Taken, Selected
<1>5. p \in p..(p + 1 - 1) /\ z = 1
  BY <1>4
<1>6. p \in ZonePages(z) /\ p \notin KernelPages /\ p \notin SlabPages(m)
  BY <1>4, <1>5
<1>7. PICK P : P = SlabPages(m)
  OBVIOUS
<1>8. PICK A : A = P \cup L
  OBVIOUS
<1>9. SlabPages(a) = P
  BY <1>4, <1>7 DEF SlabPages
<1>10. a \in Mems /\ CacheSide(a.cache, O, S) /\ PageSide(a, P, R \cup {<<p, 1>>}, A) /\ L \cap P = {}
  BY <1>3, <1>8, <1>9, Zenon DEF Mem
<1>11. r = page_init(a, p)
  BY <1>1 DEF KernelPage
<1>12. /\ r \in Mems /\ r.cache = a.cache /\ r.free = a.free
       /\ PageSide(r, P, R \cup {<<p, 1>>}, A \cup {p})
  BY <1>4, <1>6, <1>10, <1>11, ReferPage
<1>13. SlabPages(r) = P
  BY <1>9, <1>12 DEF SlabPages
<1>14. A \cup {p} = P \cup (L \cup {p}) /\ (L \cup {p}) \cap P = {}
  BY <1>6, <1>7, <1>8, <1>10
<1>15. Mem(r, O, S, R \cup {<<p, 1>>}, L \cup {p})
  BY <1>10, <1>12, <1>13, <1>14 DEF Mem
<1>16. p \in Pages
  BY <1>4, <1>6, ZonePageFacts
<1>17. QED
  BY <1>4, <1>5, <1>6, <1>12, <1>15, <1>16

LEMMA MemReturnPage ==
  ASSUME NEW m, NEW O, NEW S, NEW R, NEW L, Mem(m, O, S, R, L), NEW p, <<p, 1>> \in R, p \in L,
         NEW r, r = ReturnPage(m, p)
  PROVE  Mem(r, O, S, R \ {<<p, 1>>}, L \ {p}) /\ r.cache = m.cache
<1>1. PICK P : P = SlabPages(m)
  OBVIOUS
<1>2. PICK A : A = P \cup L
  OBVIOUS
<1>3. m \in Mems /\ PageSide(m, P, R, A) /\ L \cap P = {} /\ CacheSide(m.cache, O, S)
  BY <1>1, <1>2, Zenon DEF Mem
<1>4. p \in A /\ p \notin KernelPages
  BY <1>2, <1>3, PageToSlab
<1>5. PICK a : a = page_clean(m, p)
  OBVIOUS
<1>6. a \in Mems /\ a.cache = m.cache /\ PageSide(a, P, R, A \ {p})
  BY <1>3, <1>4, <1>5, ForgetPage
<1>7. SlabPages(a) = P
  BY <1>1, <1>6 DEF SlabPages
<1>8. A \ {p} = P \cup (L \ {p}) /\ (L \ {p}) \cap P = {}
  BY <1>2, <1>3
<1>9. Mem(a, O, S, R, L \ {p})
  BY <1>3, <1>6, <1>7, <1>8, Zenon DEF Mem
<1>10. r = free_pages(a, p, 1)
  BY <1>5 DEF ReturnPage
<1>11. Mem(r, O, S, R \ {<<p, 1>>}, L \ {p}) /\ r.cache = a.cache
  BY <1>9, <1>10, MemGive
<1>12. QED
  BY <1>6, <1>11

(* A slab made from a page and two objects of a caller.                    *)
Attached(m, r, O, S, R, L, c, b) ==
  /\ Mem(r, O \ Owns(b), S \ Owns(b), R \ {<<b.page, 1>>}, L \ {b.page})
  /\ SlabPages(r) = SlabPages(m) \cup {b.page}
  /\ Changed(m.cache, r.cache, c, Append(m.cache[c].pool, b), m.cache[c].total_free + b.color_count,
             m.cache[c].total_using)
  /\ r.free = m.free

LEMMA MemAddSlab ==
  ASSUME NEW m, NEW O, NEW S, NEW R, NEW L, Mem(m, O, S, R, L), NEW c \in DOMAIN Classes, NEW b, NewSlab(c, b),
         <<b.page, 1>> \in R, b.page \in L, Owns(b) \subseteq S, NEW r, r = AddSlab(m, c, b)
  PROVE  Attached(m, r, O, S, R, L, c, b)
<1>0. b \in SlabRecords
  BY DEF NewSlab
<1>1. PICK P : P = SlabPages(m)
  OBVIOUS
<1>2. PICK A : A = P \cup L
  OBVIOUS
<1>3. PICK p : p = b.page
  OBVIOUS
<1>4. m \in Mems /\ PageSide(m, P, R, A) /\ L \cap P = {} /\ CacheSide(m.cache, O, S)
  BY <1>1, <1>2, Zenon DEF Mem
<1>5. /\ Same(m, r) /\ (r.cache \in Caches => r \in Mems)
      /\ r.cache = Put(m.cache, c, Append(m.cache[c].pool, b), m.cache[c].total_free + b.color_count,
             m.cache[c].total_using)
  BY <1>4, AddSlabIs
<1>6. m.cache \in Caches /\ m.cache[c] \in CacheRecords
  BY <1>4, MemFields DEF Caches
<1>7. /\ Append(m.cache[c].pool, b) \in SlabRings /\ m.cache[c].total_free + b.color_count \in Int
      /\ m.cache[c].total_using \in Int
  BY <1>0, <1>6, RingFields, SlabFields DEF SlabRings
<1>8. r \in Mems /\ Changed(m.cache, r.cache, c, Append(m.cache[c].pool, b),
                            m.cache[c].total_free + b.color_count, m.cache[c].total_using)
  BY <1>4, <1>5, <1>7, PutIs, Zenon
<1>9. PageSide(r, P, R, A)
  BY <1>4, <1>5, SamePages
<1>10. PageSide(r, P \cup {p}, R \ {<<p, 1>>}, A)
  BY <1>3, <1>9, PageToSlab
<1>11. p \notin P /\ p \in L
  BY <1>3, <1>4
<1>12. PICK k : k = m.cache
  OBVIOUS
<1>13. PICK h : h = r.cache
  OBVIOUS
<1>14. PICK V : V = Owns(b)
  OBVIOUS
<1>15. k \in Caches /\ CacheSide(k, O, S) /\ b.page \notin PagesOf(Content(k))
       /\ Changed(k, h, c, Append(k[c].pool, b), k[c].total_free + b.color_count, k[c].total_using)
  BY <1>1, <1>3, <1>4, <1>6, <1>8, <1>11, <1>12, <1>13, Zenon DEF SlabPages
<1>150. Fresh(k, O, S, c, b)
  BY <1>15, Zenon DEF Fresh
<1>16. CacheSide(h, O \ Owns(b), S \ Owns(b)) /\ PagesOf(Content(h)) = PagesOf(Content(k)) \cup {b.page}
  <2>1. Joined(k, h, O, S, b)
    BY <1>15, <1>150, CacheAppend, Zenon
  <2>2. QED
    BY <2>1, Zenon DEF Joined
<1>17. SlabPages(r) = P \cup {p}
  BY <1>1, <1>3, <1>12, <1>13, <1>16, Zenon DEF SlabPages
<1>18. A = (P \cup {p}) \cup (L \ {p}) /\ (L \ {p}) \cap (P \cup {p}) = {}
  BY <1>2, <1>4, <1>11
<1>19. Mem(r, O \ V, S \ V, R \ {<<p, 1>>}, L \ {p})
  BY <1>8, <1>10, <1>13, <1>14, <1>16, <1>17, <1>18, Zenon DEF Mem
<1>20. r.free = m.free
  BY <1>5 DEF Same
<1>21. QED
  BY <1>1, <1>3, <1>8, <1>14, <1>17, <1>19, <1>20, Zenon DEF Attached

Dropped(m, r, O, S, R, L, c, s, b) ==
  /\ b \in SlabRecords /\ Owns(b) \cap O = {} /\ b.page \in SlabPages(m)
  /\ Mem(r, O \cup Owns(b), S \cup Owns(b), R \cup {<<b.page, 1>>}, L \cup {b.page})
  /\ SlabPages(r) = SlabPages(m) \ {b.page} /\ <<b.page, 1>> \notin R
  /\ Changed(m.cache, r.cache, c, RemoveAt(m.cache[c].pool, s),
             m.cache[c].total_free - m.cache[c].pool[s].color_count, m.cache[c].total_using)

LEMMA MemDropSlab ==
  ASSUME NEW m, NEW O, NEW S, NEW R, NEW L, Mem(m, O, S, R, L), NEW c \in DOMAIN Classes,
         NEW s \in 1..Len(m.cache[c].pool), s # 1, NEW b, b = m.cache[c].pool[s], b.using_count = 0,
         NEW r, r = DropSlab(m, c, s)
  PROVE  Dropped(m, r, O, S, R, L, c, s, b)
<1>1. PICK P : P = SlabPages(m)
  OBVIOUS
<1>2. PICK A : A = P \cup L
  OBVIOUS
<1>3. PICK p : p = b.page
  OBVIOUS
<1>4. m \in Mems /\ PageSide(m, P, R, A) /\ L \cap P = {} /\ CacheSide(m.cache, O, S)
  BY <1>1, <1>2, Zenon DEF Mem
<1>5. /\ Same(m, r) /\ (r.cache \in Caches => r \in Mems)
      /\ r.cache = Put(m.cache, c, RemoveAt(m.cache[c].pool, s),
             m.cache[c].total_free - m.cache[c].pool[s].color_count, m.cache[c].total_using)
  BY <1>4, DropSlabIs
<1>6. m.cache \in Caches /\ m.cache[c] \in CacheRecords
  BY <1>4, MemFields DEF Caches
<1>7. /\ RemoveAt(m.cache[c].pool, s) \in SlabRings
      /\ m.cache[c].total_free - m.cache[c].pool[s].color_count \in Int /\ m.cache[c].total_using \in Int
  <2>1. m.cache[c].pool \in Seq(SlabRecords) /\ m.cache[c].pool[s] \in SlabRecords
        /\ m.cache[c].total_free \in Int /\ m.cache[c].total_using \in Int
    BY <1>6, RingFields
  <2>2. RemoveAt(m.cache[c].pool, s) \in Seq(SlabRecords)
    BY <2>1, RemoveAtIs
  <2>3. m.cache[c].pool[s].color_count \in Int
    BY <2>1, SlabFields
  <2>4. QED
    BY <2>1, <2>2, <2>3 DEF SlabRings
<1>8. r \in Mems /\ Changed(m.cache, r.cache, c, RemoveAt(m.cache[c].pool, s),
                            m.cache[c].total_free - m.cache[c].pool[s].color_count, m.cache[c].total_using)
  BY <1>4, <1>5, <1>7, PutIs, Zenon
<1>9. PageSide(r, P, R, A)
  BY <1>4, <1>5, SamePages
<1>12. PICK k : k = m.cache
  OBVIOUS
<1>13. PICK h : h = r.cache
  OBVIOUS
<1>14. PICK V : V = Owns(b)
  OBVIOUS
<1>15. k \in Caches /\ CacheSide(k, O, S) /\ s \in 1..Len(k[c].pool) /\ b = k[c].pool[s]
       /\ Changed(k, h, c, RemoveAt(k[c].pool, s), k[c].total_free - k[c].pool[s].color_count, k[c].total_using)
  BY <1>4, <1>6, <1>8, <1>12, <1>13, Zenon
<1>16. /\ b \in SlabRecords /\ CacheSide(h, O \cup Owns(b), S \cup Owns(b)) /\ Owns(b) \cap O = {}
       /\ PagesOf(Content(h)) = PagesOf(Content(k)) \ {b.page} /\ b.page \in PagesOf(Content(k))
  BY <1>15, CacheRemove, Zenon
<1>17. SlabPages(r) = P \ {p} /\ p \in P
  BY <1>1, <1>3, <1>12, <1>13, <1>16, Zenon DEF SlabPages
<1>10. PageSide(r, P \ {p}, R \cup {<<p, 1>>}, A) /\ <<p, 1>> \notin R
  BY <1>9, <1>17, PageFromSlab
<1>18. A = (P \ {p}) \cup (L \cup {p}) /\ (L \cup {p}) \cap (P \ {p}) = {}
  BY <1>2, <1>4, <1>17
<1>19. Mem(r, O \cup V, S \cup V, R \cup {<<p, 1>>}, L \cup {p})
  BY <1>8, <1>10, <1>13, <1>14, <1>16, <1>17, <1>18, Zenon DEF Mem
<1>20. QED
  BY <1>1, <1>3, <1>8, <1>10, <1>14, <1>16, <1>17, <1>19, Zenon DEF Dropped
-----------------------------------------------------------------------------
(* An object given from a class that has one, and taken back.              *)
OtherRings(m, r, c) == \A d \in DOMAIN Classes : d # c => r.cache[d] = m.cache[d]

(* A page stays in the ring of its class as long as it is a slab's.        *)
Home(m, c, p) == \E s \in 1..Len(m.cache[c].pool) : m.cache[c].pool[s].page = p
Homes(m, r) == \A d \in DOMAIN Classes : \A p \in SlabPages(r) : Home(m, d, p) => Home(r, d, p)

FreeSlabs(m, c) == {s \in 1..Len(m.cache[c].pool) : m.cache[c].pool[s].free_count # 0}

Given(m, r, O, S, R, L, c, o) ==
  /\ o \in ObjectNames /\ o \notin O /\ o[1] \in SlabPages(m)
  /\ \E s \in FreeSlabs(m, c) : o[1] = m.cache[c].pool[s].page
  /\ Mem(r, O \cup {o}, S, R, L) /\ (Classes[c].small => Mem(r, O \cup {o}, S \cup {o}, R, L))
  /\ SlabPages(r) = SlabPages(m) /\ r.free = m.free /\ OtherRings(m, r, c) /\ Homes(m, r)
  /\ r.cache[c].total_free = m.cache[c].total_free - 1
  /\ Len(r.cache[c].pool) = Len(m.cache[c].pool)

LEMMA MemRing ==
  ASSUME NEW m, NEW O, NEW S, NEW R, NEW L, Mem(m, O, S, R, L), NEW c \in DOMAIN Classes
  PROVE  /\ m \in Mems /\ m.cache \in Caches /\ m.cache[c] \in CacheRecords /\ GoodRing(c, m.cache[c])
         /\ m.cache[c].total_free \in Nat /\ Len(m.cache[c].pool) \in Nat
         /\ DOMAIN m.cache[c].pool = 1..Len(m.cache[c].pool)
<1>1. m \in Mems /\ CacheSide(m.cache, O, S)
  BY DEF Mem
<1>2. m.cache \in Caches /\ m.cache[c] \in CacheRecords
  BY <1>1, MemFields DEF Caches
<1>3. GoodRing(c, m.cache[c])
  BY <1>1 DEF CacheSide
<1>4. m.cache[c].total_free \in Nat
  BY <1>2, <1>3, RingTotals
<1>5. QED
  BY <1>1, <1>2, <1>3, <1>4, RingFields

LEMMA SlabServes ==
  ASSUME NEW m, NEW O, NEW S, NEW R, NEW L, Mem(m, O, S, R, L), NEW c \in DOMAIN Classes, ~NeedsSlab(m, c),
         NEW s, s = SlabToUse(m, c)
  PROVE  /\ s \in FreeSlabs(m, c) /\ s \in 1..Len(m.cache[c].pool) /\ m.cache[c].pool[s] \in SlabRecords
         /\ Object(m, c, s)[1] = m.cache[c].pool[s].page
         /\ Object(m, c, s)[2] \in 0..(m.cache[c].pool[s].color_count - 1)
         /\ Object(m, c, s)[2] \notin m.cache[c].pool[s].used
<1>1. /\ m.cache[c] \in CacheRecords /\ GoodRing(c, m.cache[c])
      /\ DOMAIN m.cache[c].pool = 1..Len(m.cache[c].pool)
  BY MemRing
<1>2. m.cache[c].total_free # 0
  BY DEF NeedsSlab
<1>3. \E t \in 1..Len(m.cache[c].pool) : m.cache[c].pool[t].free_count # 0
  BY <1>1, <1>2, RingTotals
<1>4. PICK T : T = FreeSlabs(m, c)
  OBVIOUS
<1>5. T # {} /\ T \subseteq Nat /\ s = Least(T)
  BY <1>1, <1>3, <1>4 DEF FreeSlabs, SlabToUse
<1>6. s \in T
  BY <1>5, LeastIs
<1>7. s \in 1..Len(m.cache[c].pool) /\ m.cache[c].pool[s].free_count # 0
  BY <1>4, <1>6 DEF FreeSlabs
<1>8. m.cache[c].pool[s] \in SlabRecords /\ GoodSlab(m.cache[c].pool[s])
  BY <1>1, <1>7, RingFields DEF GoodRing
<1>9. PICK b \in SlabRecords : b = m.cache[c].pool[s]
  <2>1. m.cache[c].pool[s] \in SlabRecords
    BY <1>8, Zenon
  <2>2. QED
    BY <2>1, Zenon
<1>10. PICK U : U = (0..(b.color_count - 1)) \ b.used
  OBVIOUS
<1>11. U # {}
  BY <1>7, <1>8, <1>9, <1>10, GoodSlabFacts
<1>12. U \subseteq Nat
  BY <1>10, SlabFields
<1>13. Least(U) \in U
  BY <1>11, <1>12, LeastIs
<1>14. Object(m, c, s) = <<b.page, Least(U)>>
  BY <1>9, <1>10 DEF Object
<1>15. Object(m, c, s)[1] = b.page /\ Object(m, c, s)[2] \in 0..(b.color_count - 1) /\ Object(m, c, s)[2] \notin b.used
  BY <1>10, <1>13, <1>14
<1>16. QED
  BY <1>4, <1>6, <1>7, <1>8, <1>9, <1>15, Zenon

LEMMA HomeUnique ==
  ASSUME NEW m \in Mems, Apart(Content(m.cache)), NEW c \in DOMAIN Classes, NEW d \in DOMAIN Classes, NEW p,
         Home(m, c, p), Home(m, d, p)
  PROVE  c = d
<1>1. PICK k \in Caches : k = m.cache
  <2>1. m.cache \in Caches
    BY MemFields
  <2>2. QED
    BY <2>1, Zenon
<1>2. PICK s \in 1..Len(k[c].pool) : k[c].pool[s].page = p
  BY <1>1 DEF Home
<1>3. PICK t \in 1..Len(k[d].pool) : k[d].pool[t].page = p
  BY <1>1 DEF Home
<1>4. /\ <<c, s>> \in DOMAIN Content(k) /\ Content(k)[<<c, s>>] = k[c].pool[s]
      /\ <<d, t>> \in DOMAIN Content(k) /\ Content(k)[<<d, t>>] = k[d].pool[t]
  BY ContentIs
<1>5. <<c, s>> = <<d, t>>
  BY <1>1, <1>2, <1>3, <1>4 DEF Apart
<1>6. QED
  BY <1>5

LEMMA HomesSwapped ==
  ASSUME NEW m, NEW r, NEW c, OtherRings(m, r, c), Len(r.cache[c].pool) = Len(m.cache[c].pool),
         \A s \in 1..Len(m.cache[c].pool) : r.cache[c].pool[s].page = m.cache[c].pool[s].page
  PROVE  Homes(m, r)
BY DEF Homes, Home, OtherRings

LEMMA HomesAppended ==
  ASSUME NEW m, NEW r, NEW c, OtherRings(m, r, c), m.cache[c].pool \in Seq(SlabRecords), NEW b \in SlabRecords,
         r.cache[c].pool = Append(m.cache[c].pool, b)
  PROVE  Homes(m, r) /\ Home(r, c, b.page)
<1>1. PICK x \in Seq(SlabRecords) : x = m.cache[c].pool
  BY Zenon
<1>2. PICK y : y = r.cache[c].pool
  OBVIOUS
<1>3. Len(y) = Len(x) + 1 /\ Len(x) \in Nat /\ y[Len(x) + 1] = b /\ \A s \in 1..Len(x) : y[s] = x[s]
  BY <1>1, <1>2
<1>4. \A p : (\E s \in 1..Len(x) : x[s].page = p) => \E s \in 1..Len(y) : y[s].page = p
  BY <1>3
<1>5. \E s \in 1..Len(y) : y[s].page = b.page
  BY <1>3
<1>6. \A p : Home(m, c, p) => Home(r, c, p)
  BY <1>1, <1>2, <1>4 DEF Home
<1>7. \A d \in DOMAIN Classes : d # c => \A p : Home(m, d, p) => Home(r, d, p)
  BY DEF OtherRings, Home
<1>8. Home(r, c, b.page)
  BY <1>2, <1>5 DEF Home
<1>9. QED
  BY <1>6, <1>7, <1>8, Zenon DEF Homes

LEMMA HomesRemoved ==
  ASSUME NEW m, NEW r, NEW c, OtherRings(m, r, c), m.cache[c].pool \in Seq(SlabRecords),
         NEW s \in 1..Len(m.cache[c].pool), r.cache[c].pool = RemoveAt(m.cache[c].pool, s),
         m.cache[c].pool[s].page \notin SlabPages(r)
  PROVE  Homes(m, r)
<1>1. PICK x \in Seq(SlabRecords) : x = m.cache[c].pool
  BY Zenon
<1>2. PICK y : y = r.cache[c].pool
  OBVIOUS
<1>3. Thinned(x, y, s)
  BY <1>1, <1>2, RemoveAtHas
<1>4. \A j \in 1..Len(x) : j # s => \E i \in 1..Len(y) : y[i] = x[j]
  BY <1>3 DEF Thinned
<1>5. \A p \in SlabPages(r) : (\E j \in 1..Len(x) : x[j].page = p) => \E i \in 1..Len(y) : y[i].page = p
  BY <1>1, <1>4
<1>6. QED
  BY <1>1, <1>2, <1>5 DEF Homes, Home, OtherRings

LEMMA MemGiveObject ==
  ASSUME NEW m, NEW O, NEW S, NEW R, NEW L, Mem(m, O, S, R, L), NEW c \in DOMAIN Classes, ~NeedsSlab(m, c),
         NEW r, r = Give(m, c).mm, NEW o, o = Give(m, c).object
  PROVE  Given(m, r, O, S, R, L, c, o)
<1>1. PICK s : s = SlabToUse(m, c)
  OBVIOUS
<1>2. PICK i : i = Object(m, c, s)[2]
  OBVIOUS
<1>3. /\ s \in FreeSlabs(m, c) /\ s \in 1..Len(m.cache[c].pool) /\ m.cache[c].pool[s] \in SlabRecords
      /\ Object(m, c, s)[1] = m.cache[c].pool[s].page
      /\ i \in 0..(m.cache[c].pool[s].color_count - 1) /\ i \notin m.cache[c].pool[s].used
  BY <1>1, <1>2, SlabServes
<1>4. r = Mark(m, c, s) /\ o = Object(m, c, s)
  BY <1>1 DEF Give
<1>5. o = <<m.cache[c].pool[s].page, i>>
  <2>1. Object(m, c, s) = <<Object(m, c, s)[1], Object(m, c, s)[2]>>
    BY DEF Object
  <2>2. QED
    BY <1>2, <1>3, <1>4, <2>1, Zenon
<1>6. /\ m \in Mems /\ m.cache \in Caches /\ m.cache[c] \in CacheRecords
      /\ m.cache[c].total_free \in Nat /\ DOMAIN m.cache[c].pool = 1..Len(m.cache[c].pool)
  BY MemRing
<1>7. PICK q : q = [m.cache[c].pool EXCEPT ![s] = Marked(@, i)]
  OBVIOUS
<1>8. PICK f : f = m.cache[c].total_free - 1
  OBVIOUS
<1>9. PICK u : u = m.cache[c].total_using + 1
  OBVIOUS
<1>10. Same(m, r) /\ (r.cache \in Caches => r \in Mems) /\ r.cache = Put(m.cache, c, q, f, u)
  BY <1>2, <1>3, <1>4, <1>6, <1>7, <1>8, <1>9, MarkIs
<1>11. q \in SlabRings /\ f \in Int /\ u \in Int
  <2>1. m.cache[c].pool \in Seq(SlabRecords) /\ m.cache[c].total_free \in Int /\ m.cache[c].total_using \in Int
    BY <1>6, RingFields
  <2>2. i \in Nat
    BY <1>3, SlabFields
  <2>3. MarkedFacts(m.cache[c].pool[s], i, Marked(m.cache[c].pool[s], i))
    BY <1>3, <2>2, MarkedHas
  <2>4. Marked(m.cache[c].pool[s], i) \in SlabRecords
    BY <2>3, Zenon DEF MarkedFacts
  <2>5. q \in Seq(SlabRecords)
    <3>1. PICK x \in Seq(SlabRecords) : x = m.cache[c].pool
      BY <2>1
    <3>2. PICK n \in SlabRecords : n = Marked(m.cache[c].pool[s], i)
      BY <2>4
    <3>3. s \in 1..Len(x) /\ q = [x EXCEPT ![s] = n]
      BY <1>3, <1>7, <3>1, <3>2
    <3>4. QED
      BY <3>3
  <2>6. QED
    BY <1>8, <1>9, <2>1, <2>5 DEF SlabRings
<1>12. r \in Mems /\ Changed(m.cache, r.cache, c, q, f, u)
  BY <1>6, <1>10, <1>11, PutIs, Zenon
<1>13. CacheSide(m.cache, O, S)
  BY DEF Mem
<1>14. /\ o \notin O /\ o \in ObjectNames /\ CacheSide(r.cache, O \cup {o}, S)
       /\ (Classes[c].small => CacheSide(r.cache, O \cup {o}, S \cup {o}))
       /\ PagesOf(Content(r.cache)) = PagesOf(Content(m.cache)) /\ o[1] \in PagesOf(Content(m.cache))
  <2>1. PICK k \in Caches : k = m.cache
    BY <1>6
  <2>2. PICK h : h = r.cache
    OBVIOUS
  <2>3. CacheSide(k, O, S) /\ s \in 1..Len(k[c].pool) /\ i \in 0..(k[c].pool[s].color_count - 1)
        /\ i \notin k[c].pool[s].used /\ o = <<k[c].pool[s].page, i>>
    BY <1>3, <1>5, <1>13, <2>1
  <2>4. Changed(k, h, c, [k[c].pool EXCEPT ![s] = Marked(@, i)], k[c].total_free - 1, k[c].total_using + 1)
    BY <1>7, <1>8, <1>9, <1>12, <2>1, <2>2, Zenon
  <2>5. NewObject(k, h, O, S, c, o)
    BY <2>3, <2>4, CacheMark
  <2>6. QED
    BY <2>1, <2>2, <2>5, Zenon DEF NewObject
<1>15. SlabPages(r) = SlabPages(m)
  BY <1>14 DEF SlabPages
<1>16. PageSide(r, SlabPages(r), R, SlabPages(r) \cup L) /\ L \cap SlabPages(r) = {}
  BY <1>10, <1>15, SamePages DEF Mem
<1>17. Mem(r, O \cup {o}, S, R, L) /\ (Classes[c].small => Mem(r, O \cup {o}, S \cup {o}, R, L))
  BY <1>12, <1>14, <1>16, Zenon DEF Mem
<1>18. OtherRings(m, r, c) /\ r.cache[c].total_free = m.cache[c].total_free - 1 /\ r.cache[c].pool = q
  BY <1>8, <1>12, Zenon DEF Changed, OtherRings
<1>19. Len(r.cache[c].pool) = Len(m.cache[c].pool)
  <2>1. m.cache[c].pool \in Seq(SlabRecords)
    BY <1>6, RingFields
  <2>2. QED
    BY <1>7, <1>18, <2>1
<1>20. o[1] = m.cache[c].pool[s].page /\ r.free = m.free
  BY <1>3, <1>4, <1>10 DEF Same
<1>21. o[1] \in SlabPages(m)
  BY <1>14 DEF SlabPages
<1>22. \A t \in 1..Len(m.cache[c].pool) : r.cache[c].pool[t].page = m.cache[c].pool[t].page
  <2>1. PICK x \in Seq(SlabRecords) : x = m.cache[c].pool
    <3>1. m.cache[c].pool \in Seq(SlabRecords)
      BY <1>6, RingFields
    <3>2. QED
      BY <3>1, Zenon
  <2>2. i \in Nat
    BY <1>3, SlabFields
  <2>3. MarkedFacts(m.cache[c].pool[s], i, Marked(m.cache[c].pool[s], i))
    BY <1>3, <2>2, MarkedHas
  <2>4. Marked(x[s], i).page = x[s].page
    BY <2>1, <2>3, Zenon DEF MarkedFacts
  <2>5. q = [x EXCEPT ![s] = Marked(@, i)]
    BY <1>7, <2>1
  <2>6. QED
    BY <1>18, <2>1, <2>4, <2>5
<1>23. Homes(m, r)
  BY <1>18, <1>19, <1>22, HomesSwapped
<1>24. QED
  BY <1>3, <1>14, <1>15, <1>17, <1>18, <1>19, <1>20, <1>21, <1>23, Zenon DEF Given

UnmarkedTo(m, r, c, s, i) ==
  /\ Same(m, r) /\ (r.cache \in Caches => r \in Mems)
  /\ r.cache = Put(m.cache, c, [m.cache[c].pool EXCEPT ![s] = Unmarked(@, i)],
                   m.cache[c].total_free + 1, m.cache[c].total_using - 1)

LEMMA UnmarkDoes ==
  ASSUME NEW m \in Mems, NEW c \in DOMAIN Classes, NEW s \in DOMAIN m.cache[c].pool, NEW o, NEW i, i = o[2]
  PROVE  UnmarkedTo(m, Unmark(m, c, s, o), c, s, i)
<1>1. LET r == Unmark(m, c, s, o) IN
           /\ Same(m, r) /\ (r.cache \in Caches => r \in Mems)
           /\ r.cache = Put(m.cache, c, [m.cache[c].pool EXCEPT ![s] = Unmarked(@, i)],
                  m.cache[c].total_free + 1, m.cache[c].total_using - 1)
  BY UnmarkIs
<1>2. QED
  BY <1>1, Zenon DEF UnmarkedTo

TakenBack(m, r, O, S, R, L, c, s, o) ==
  /\ o \in ObjectNames /\ c \in DOMAIN Classes /\ s \in 1..Len(m.cache[c].pool) /\ (o \in S => Classes[c].small)
  /\ s \in 1..Len(r.cache[c].pool) /\ r.cache[c].pool[s].page = o[1]
  /\ Mem(r, O \ {o}, S \ {o}, R, L)
  /\ SlabPages(r) = SlabPages(m) /\ OtherRings(m, r, c) /\ Homes(m, r) /\ Home(m, c, o[1])
  /\ r.cache[c].total_free = m.cache[c].total_free + 1
  /\ Len(r.cache[c].pool) = Len(m.cache[c].pool)

LEMMA MemTakeBack ==
  ASSUME NEW m, NEW O, NEW S, NEW R, NEW L, Mem(m, O, S, R, L), NEW o \in O,
         NEW c, c = ClassOf(m, o), NEW s, s = SlabOf(m, c, o), NEW r, r = Unmark(m, c, s, o)
  PROVE  TakenBack(m, r, O, S, R, L, c, s, o)
<1>1. m \in Mems /\ CacheSide(m.cache, O, S)
  BY DEF Mem
<1>2. /\ c \in DOMAIN Classes /\ s \in 1..Len(m.cache[c].pool) /\ o \in ObjectNames
      /\ m.cache[c].pool[s].page = o[1] /\ o[2] \in m.cache[c].pool[s].used
      /\ (o \in S => Classes[c].small)
  BY <1>1, CacheFinds
<1>3. PICK i : i = o[2]
  OBVIOUS
<1>6. /\ m.cache \in Caches /\ m.cache[c] \in CacheRecords
      /\ m.cache[c].total_free \in Nat /\ DOMAIN m.cache[c].pool = 1..Len(m.cache[c].pool)
  BY <1>2, MemRing
<1>7. PICK q : q = [m.cache[c].pool EXCEPT ![s] = Unmarked(@, i)]
  OBVIOUS
<1>8. PICK f : f = m.cache[c].total_free + 1
  OBVIOUS
<1>9. PICK u : u = m.cache[c].total_using - 1
  OBVIOUS
<1>10. Same(m, r) /\ (r.cache \in Caches => r \in Mems) /\ r.cache = Put(m.cache, c, q, f, u)
  <2>1. m \in Mems /\ c \in DOMAIN Classes /\ s \in DOMAIN m.cache[c].pool
    BY <1>1, <1>2, <1>6
  <2>2. UnmarkedTo(m, r, c, s, i)
    BY <1>3, <2>1, UnmarkDoes
  <2>3. QED
    BY <1>7, <1>8, <1>9, <2>2, Zenon DEF UnmarkedTo
<1>11. PICK b \in SlabRecords : b = m.cache[c].pool[s]
  <2>1. m.cache[c].pool[s] \in SlabRecords
    BY <1>2, <1>6, RingFields
  <2>2. QED
    BY <2>1, Zenon
<1>12. PICK n : n = Unmarked(b, i)
  OBVIOUS
<1>13. n \in SlabRecords /\ n.page = b.page
  <2>1. i \in Nat
    BY <1>2, <1>3, <1>11, SlabFields
  <2>2. UnmarkedFacts(b, i, n)
    BY <1>12, <2>1, UnmarkedHas
  <2>3. QED
    BY <2>2, Zenon DEF UnmarkedFacts
<1>14. PICK x \in Seq(SlabRecords) : x = m.cache[c].pool
  <2>1. m.cache[c].pool \in Seq(SlabRecords)
    BY <1>6, RingFields
  <2>2. QED
    BY <2>1, Zenon
<1>15. s \in 1..Len(x) /\ q = [x EXCEPT ![s] = n]
  BY <1>2, <1>7, <1>11, <1>12, <1>14
<1>16. q \in Seq(SlabRecords) /\ Len(q) = Len(x) /\ q[s] = n
  BY <1>13, <1>15
<1>17. q \in SlabRings /\ f \in Int /\ u \in Int
  BY <1>6, <1>8, <1>9, <1>16, RingFields DEF SlabRings
<1>18. r \in Mems /\ Changed(m.cache, r.cache, c, q, f, u)
  BY <1>1, <1>2, <1>10, <1>17, PutIs, Zenon
<1>19. CacheSide(r.cache, O \ {o}, S \ {o}) /\ PagesOf(Content(r.cache)) = PagesOf(Content(m.cache))
  <2>1. PICK k \in Caches : k = m.cache
    BY <1>6
  <2>2. PICK h : h = r.cache
    OBVIOUS
  <2>3. CacheSide(k, O, S) /\ s \in 1..Len(k[c].pool) /\ k[c].pool[s].page = o[1] /\ i \in k[c].pool[s].used
    BY <1>1, <1>2, <1>3, <2>1
  <2>4. Changed(k, h, c, [k[c].pool EXCEPT ![s] = Unmarked(@, i)], k[c].total_free + 1, k[c].total_using - 1)
    BY <1>7, <1>8, <1>9, <1>18, <2>1, <2>2, Zenon
  <2>5. OldObject(k, h, O, S, o)
    BY <1>2, <1>3, <2>3, <2>4, CacheUnmark
  <2>6. QED
    BY <2>1, <2>2, <2>5, Zenon DEF OldObject
<1>20. SlabPages(r) = SlabPages(m)
  BY <1>19 DEF SlabPages
<1>21. PageSide(r, SlabPages(r), R, SlabPages(r) \cup L) /\ L \cap SlabPages(r) = {}
  BY <1>10, <1>20, SamePages DEF Mem
<1>22. Mem(r, O \ {o}, S \ {o}, R, L)
  BY <1>18, <1>19, <1>21, Zenon DEF Mem
<1>23. OtherRings(m, r, c) /\ r.cache[c].total_free = m.cache[c].total_free + 1 /\ r.cache[c].pool = q
  BY <1>8, <1>18, Zenon DEF Changed, OtherRings
<1>24. /\ Len(r.cache[c].pool) = Len(m.cache[c].pool) /\ s \in 1..Len(r.cache[c].pool)
       /\ r.cache[c].pool[s].page = o[1]
  BY <1>2, <1>11, <1>13, <1>14, <1>15, <1>16, <1>23
<1>25. \A t \in 1..Len(m.cache[c].pool) : r.cache[c].pool[t].page = m.cache[c].pool[t].page
  BY <1>11, <1>12, <1>13, <1>14, <1>15, <1>23
<1>26. Homes(m, r) /\ Home(m, c, o[1])
  BY <1>2, <1>23, <1>24, <1>25, HomesSwapped DEF Home
<1>27. QED
  BY <1>2, <1>20, <1>22, <1>23, <1>24, <1>26, Zenon DEF TakenBack

(* An empty slab leaves its class, which keeps half a slab's objects.      *)
Released(m, r, O, S, R, L, c, b) ==
  /\ b \in SlabRecords /\ ShapedFor(c, b) /\ Owns(b) \cap O = {}
  /\ Mem(r, O \cup Owns(b), S \cup Owns(b), R, L)
  /\ SlabPages(r) = SlabPages(m) \ {b.page} /\ b.page \in SlabPages(m) /\ OtherRings(m, r, c) /\ Homes(m, r)
  /\ m.cache[c].total_free > Classes[c].created
  /\ r.cache[c].total_free = m.cache[c].total_free - Classes[c].created /\ r.cache[c].total_free > 0

LEMMA HalfMore ==
  ASSUME NEW n \in Nat \ {0, 1}
  PROVE  (n * 3) \div 2 > n
OBVIOUS

LEMMA ClassFacts ==
  ASSUME NEW c \in DOMAIN Classes
  PROVE  /\ Classes[c].small \in BOOLEAN /\ Classes[c].created \in Nat \ {0, 1} /\ Classes[c].first \in Nat
         /\ Classes[c].map \in DOMAIN Classes /\ c \in Nat
         /\ (Classes[c].small \/ Classes[Classes[c].map].small)
<1>1. /\ Classes \in Seq([small : BOOLEAN, first : Nat, created : Nat \ {0, 1}, map : Nat])
      /\ Classes[c].map \in DOMAIN Classes /\ (Classes[c].small \/ Classes[Classes[c].map].small)
  BY MemoryAssumption
<1>2. c \in 1..Len(Classes) /\ Len(Classes) \in Nat
  BY <1>1
<1>3. Classes[c] \in [small : BOOLEAN, first : Nat, created : Nat \ {0, 1}, map : Nat]
  BY <1>1, <1>2, ElementOfSeq, Zenon
<1>4. QED
  BY <1>1, <1>2, <1>3

LEMMA MemRelease ==
  ASSUME NEW m, NEW O, NEW S, NEW R, NEW L, Mem(m, O, S, R, L), NEW c \in DOMAIN Classes,
         NEW s \in 1..Len(m.cache[c].pool), ToRelease(m, c, s), NEW b, b = m.cache[c].pool[s],
         NEW r, r = ReturnPage(DropSlab(m, c, s), b.page)
  PROVE  Released(m, r, O, S, R, L, c, b)
<1>1. /\ s # 1 /\ b.using_count = 0 /\ m.cache[c].total_free >= (b.color_count * 3) \div 2
  BY DEF ToRelease
<1>2. /\ m.cache \in Caches /\ m.cache[c] \in CacheRecords /\ GoodRing(c, m.cache[c])
      /\ m.cache[c].total_free \in Nat
  BY MemRing
<1>3. ShapedFor(c, b) /\ b.color_count = Classes[c].created
  BY <1>1, <1>2 DEF GoodRing
<1>4. PICK n \in Nat \ {0, 1} : n = Classes[c].created
  <2>1. Classes[c].created \in Nat \ {0, 1}
    BY ClassFacts
  <2>2. QED
    BY <2>1, Zenon
<1>5. m.cache[c].total_free > n
  <2>1. (n * 3) \div 2 > n /\ (n * 3) \div 2 \in Int
    BY HalfMore
  <2>2. m.cache[c].total_free >= (n * 3) \div 2
    BY <1>1, <1>3, <1>4
  <2>3. QED
    BY <1>2, <2>1, <2>2
<1>6. PICK a : a = DropSlab(m, c, s)
  OBVIOUS
<1>7. PICK p : p = b.page
  OBVIOUS
<1>8. PICK V : V = Owns(b)
  OBVIOUS
<1>9. /\ b \in SlabRecords /\ V \cap O = {} /\ p \in SlabPages(m)
      /\ Mem(a, O \cup V, S \cup V, R \cup {<<p, 1>>}, L \cup {p})
      /\ SlabPages(a) = SlabPages(m) \ {p} /\ <<p, 1>> \notin R
      /\ Changed(m.cache, a.cache, c, RemoveAt(m.cache[c].pool, s),
                 m.cache[c].total_free - m.cache[c].pool[s].color_count, m.cache[c].total_using)
  <2>1. Dropped(m, a, O, S, R, L, c, s, b)
    BY <1>1, <1>6, MemDropSlab
  <2>2. QED
    BY <1>7, <1>8, <2>1, Zenon DEF Dropped
<1>10. L \cap SlabPages(m) = {}
  BY DEF Mem
<1>11. (R \cup {<<p, 1>>}) \ {<<p, 1>>} = R /\ (L \cup {p}) \ {p} = L
  BY <1>9, <1>10
<1>12. PICK T : T = R \cup {<<p, 1>>}
  OBVIOUS
<1>13. PICK M : M = L \cup {p}
  OBVIOUS
<1>14. Mem(a, O \cup V, S \cup V, T, M) /\ <<p, 1>> \in T /\ p \in M /\ r = ReturnPage(a, p)
  BY <1>6, <1>7, <1>9, <1>12, <1>13
<1>15. Mem(r, O \cup V, S \cup V, T \ {<<p, 1>>}, M \ {p}) /\ r.cache = a.cache
  BY <1>14, MemReturnPage
<1>16. Mem(r, O \cup V, S \cup V, R, L)
  BY <1>11, <1>12, <1>13, <1>15, Zenon
<1>17. SlabPages(r) = SlabPages(m) \ {p}
  BY <1>9, <1>15 DEF SlabPages
<1>18. OtherRings(m, r, c) /\ r.cache[c].total_free = m.cache[c].total_free - b.color_count
  BY <1>9, <1>15, Zenon DEF Changed, OtherRings
<1>19. r.cache[c].total_free = m.cache[c].total_free - n /\ r.cache[c].total_free > 0
  BY <1>2, <1>3, <1>4, <1>5, <1>18
<1>20. Homes(m, r)
  <2>1. m.cache[c].pool \in Seq(SlabRecords) /\ r.cache[c].pool = RemoveAt(m.cache[c].pool, s)
    BY <1>2, <1>9, <1>15, RingFields DEF Changed
  <2>2. m.cache[c].pool[s].page \notin SlabPages(r)
    BY <1>7, <1>17
  <2>3. QED
    BY <1>18, <2>1, <2>2, HomesRemoved
<1>21. QED
  BY <1>3, <1>4, <1>5, <1>7, <1>8, <1>9, <1>16, <1>17, <1>18, <1>19, <1>20, Zenon DEF Released
-----------------------------------------------------------------------------
(* kfree leaves a class that had free objects with some, and one that      *)
(* loses a slab too.                                                       *)
Kept(m, r) ==
  \A c \in DOMAIN Classes :
    /\ m.cache[c].total_free > 0 => r.cache[c].total_free > 0
    /\ Len(r.cache[c].pool) < Len(m.cache[c].pool) => r.cache[c].total_free > 0

LEMMA KeptOne ==
  ASSUME NEW m, NEW r, NEW c, OtherRings(m, r, c), r.cache[c].total_free > 0,
         \A d \in DOMAIN Classes : Len(m.cache[d].pool) \in Nat
  PROVE  Kept(m, r)
<1>1. ASSUME NEW d \in DOMAIN Classes, d # c
      PROVE  r.cache[d] = m.cache[d] /\ Len(m.cache[d].pool) \in Nat
  BY <1>1 DEF OtherRings
<1>2. QED
  BY <1>1 DEF Kept

LEMMA KeptMore ==
  ASSUME NEW m, NEW a, NEW r, Kept(m, a), Kept(a, r),
         \A d \in DOMAIN Classes : Len(m.cache[d].pool) \in Nat /\ Len(a.cache[d].pool) \in Nat /\ Len(r.cache[d].pool) \in Nat
  PROVE  Kept(m, r)
<1>1. ASSUME NEW c \in DOMAIN Classes, Len(r.cache[c].pool) < Len(m.cache[c].pool)
      PROVE  r.cache[c].total_free > 0
  <2>1. PICK x \in Nat : x = Len(m.cache[c].pool)
    OBVIOUS
  <2>2. PICK y \in Nat : y = Len(a.cache[c].pool)
    OBVIOUS
  <2>3. PICK z \in Nat : z = Len(r.cache[c].pool)
    OBVIOUS
  <2>4. y < x \/ z < y
    BY <1>1, <2>1, <2>2, <2>3
  <2>5. QED
    BY <2>1, <2>2, <2>3, <2>4 DEF Kept
<1>2. \A c \in DOMAIN Classes : m.cache[c].total_free > 0 => r.cache[c].total_free > 0
  BY DEF Kept
<1>3. QED
  BY <1>1, <1>2 DEF Kept

LEMMA HomesMore ==
  ASSUME NEW m, NEW a, NEW r, Homes(m, a), Homes(a, r), SlabPages(r) \subseteq SlabPages(a)
  PROVE  Homes(m, r)
BY DEF Homes

Back(m, r, O, S, R, L, o) ==
  /\ o \in ObjectNames /\ Mem(r, O \ {o}, S \ {o}, R, L)
  /\ Homes(m, r) /\ Kept(m, r)
  /\ SlabPages(r) = SlabPages(m) \/ SlabPages(r) = SlabPages(m) \ {o[1]}
  /\ \E c \in DOMAIN Classes :
       /\ Home(m, c, o[1]) /\ OtherRings(m, r, c) /\ r.cache[c].total_free <= m.cache[c].total_free + 1
       /\ SlabPages(r) # SlabPages(m) => m.cache[c].total_free + 1 > Classes[c].created

LEMMA MemFreeSmall ==
  ASSUME NEW m, NEW O, NEW S, NEW R, NEW L, Mem(m, O, S, R, L), NEW o \in S, NEW r, r = FreeSmall(m, o)
  PROVE  Back(m, r, O, S, R, L, o)
<1>1. o \in O
  BY DEF Mem, CacheSide, Possession
<1>2. PICK c : c = ClassOf(m, o)
  OBVIOUS
<1>3. PICK s : s = SlabOf(m, c, o)
  OBVIOUS
<1>4. PICK a : a = Unmark(m, c, s, o)
  OBVIOUS
<1>5. TakenBack(m, a, O, S, R, L, c, s, o)
  BY <1>1, <1>2, <1>3, <1>4, MemTakeBack
<1>6. /\ o \in ObjectNames /\ c \in DOMAIN Classes /\ Classes[c].small
      /\ s \in 1..Len(a.cache[c].pool) /\ a.cache[c].pool[s].page = o[1]
      /\ Mem(a, O \ {o}, S \ {o}, R, L) /\ SlabPages(a) = SlabPages(m) /\ OtherRings(m, a, c)
      /\ Homes(m, a) /\ Home(m, c, o[1]) /\ a.cache[c].total_free = m.cache[c].total_free + 1
      /\ Len(a.cache[c].pool) = Len(m.cache[c].pool)
  BY <1>5, Zenon DEF TakenBack
<1>7. m.cache[c].total_free \in Nat /\ \A d \in DOMAIN Classes : Len(m.cache[d].pool) \in Nat
  BY <1>6, MemRing
<1>8. r = IF ToRelease(a, c, s) THEN ReturnPage(DropSlab(a, c, s), a.cache[c].pool[s].page) ELSE a
  BY <1>2, <1>3, <1>4, Zenon DEF FreeSmall
<1>9. CASE ToRelease(a, c, s)
  <2>1. PICK b : b = a.cache[c].pool[s]
    OBVIOUS
  <2>2. r = ReturnPage(DropSlab(a, c, s), b.page)
    BY <1>8, <1>9, <2>1
  <2>3. PICK O1 : O1 = O \ {o}
    OBVIOUS
  <2>4. PICK S1 : S1 = S \ {o}
    OBVIOUS
  <2>5. Mem(a, O1, S1, R, L)
    BY <1>6, <2>3, <2>4
  <2>6. Released(a, r, O1, S1, R, L, c, b)
    BY <1>6, <1>9, <2>1, <2>2, <2>5, MemRelease
  <2>7. /\ b \in SlabRecords /\ ShapedFor(c, b) /\ Mem(r, O1 \cup Owns(b), S1 \cup Owns(b), R, L)
        /\ SlabPages(r) = SlabPages(a) \ {b.page} /\ OtherRings(a, r, c) /\ Homes(a, r)
        /\ a.cache[c].total_free > Classes[c].created
        /\ r.cache[c].total_free = a.cache[c].total_free - Classes[c].created /\ r.cache[c].total_free > 0
    BY <2>6, Zenon DEF Released
  <2>8. Owns(b) = {}
    BY <1>6, <2>7, OwnsIs DEF ShapedFor
  <2>9. O1 \cup Owns(b) = O1 /\ S1 \cup Owns(b) = S1
    BY <2>8
  <2>10. Mem(r, O \ {o}, S \ {o}, R, L)
    BY <2>3, <2>4, <2>7, <2>9, Zenon
  <2>11. SlabPages(r) = SlabPages(m) \ {o[1]}
    BY <1>6, <2>1, <2>7
  <2>12. OtherRings(m, r, c)
    BY <1>6, <2>7 DEF OtherRings
  <2>13. Homes(m, r)
    BY <1>6, <2>7, <2>11, HomesMore
  <2>14. Kept(m, r)
    BY <1>7, <2>7, <2>12, KeptOne
  <2>15. r.cache[c].total_free <= m.cache[c].total_free + 1 /\ m.cache[c].total_free + 1 > Classes[c].created
    <3>1. Classes[c].created \in Nat
      BY <1>6, ClassFacts
    <3>2. QED
      BY <1>6, <1>7, <2>7, <3>1
  <2>16. QED
    BY <1>6, <2>10, <2>11, <2>12, <2>13, <2>14, <2>15, Zenon DEF Back
<1>10. CASE ~ToRelease(a, c, s)
  <2>1. r = a
    BY <1>8, <1>10
  <2>2. a.cache[c].total_free > 0 /\ a.cache[c].total_free <= m.cache[c].total_free + 1
    BY <1>6, <1>7
  <2>3. Kept(m, a)
    BY <1>6, <1>7, <2>2, KeptOne
  <2>4. QED
    BY <1>6, <2>1, <2>2, <2>3, Zenon DEF Back
<1>11. QED
  BY <1>9, <1>10
-----------------------------------------------------------------------------
(* A slab for a class without free objects: the next object is its first.  *)
Added(m, r, O, S, R, L, c, b) ==
  /\ Mem(r, O \ Owns(b), S \ Owns(b), R \ {<<b.page, 1>>}, L \ {b.page})
  /\ SlabPages(r) = SlabPages(m) \cup {b.page} /\ b.page \notin SlabPages(m)
  /\ OtherRings(m, r, c) /\ Homes(m, r) /\ r.free = m.free
  /\ r.cache[c].total_free = Classes[c].created
  /\ Len(r.cache[c].pool) = Len(m.cache[c].pool) + 1
  /\ \A s \in FreeSlabs(r, c) : r.cache[c].pool[s].page = b.page

LEMMA MemAdd ==
  ASSUME NEW m, NEW O, NEW S, NEW R, NEW L, Mem(m, O, S, R, L), NEW c \in DOMAIN Classes, NeedsSlab(m, c),
         NEW b, NewSlab(c, b), <<b.page, 1>> \in R, b.page \in L, Owns(b) \subseteq S, NEW r, r = AddSlab(m, c, b)
  PROVE  Added(m, r, O, S, R, L, c, b)
<1>1. b \in SlabRecords /\ b.color_count = Classes[c].created /\ Classes[c].created \in Nat
  BY ClassFacts DEF NewSlab
<1>2. /\ m.cache \in Caches /\ m.cache[c] \in CacheRecords /\ GoodRing(c, m.cache[c])
      /\ m.cache[c].total_free = 0
  BY MemRing DEF NeedsSlab
<1>3. /\ Mem(r, O \ Owns(b), S \ Owns(b), R \ {<<b.page, 1>>}, L \ {b.page})
      /\ SlabPages(r) = SlabPages(m) \cup {b.page} /\ r.free = m.free
      /\ Changed(m.cache, r.cache, c, Append(m.cache[c].pool, b), m.cache[c].total_free + b.color_count,
                 m.cache[c].total_using)
  <2>1. Attached(m, r, O, S, R, L, c, b)
    BY MemAddSlab
  <2>2. QED
    BY <2>1, Zenon DEF Attached
<1>4. /\ r.cache[c].pool = Append(m.cache[c].pool, b) /\ OtherRings(m, r, c)
      /\ r.cache[c].total_free = m.cache[c].total_free + b.color_count
  BY <1>3, Zenon DEF Changed, OtherRings
<1>5. r.cache[c].total_free = Classes[c].created
  BY <1>1, <1>2, <1>4
<1>6. b.page \notin SlabPages(m)
  BY DEF Mem
<1>7. PICK x \in Seq(SlabRecords) : x = m.cache[c].pool
  <2>1. m.cache[c].pool \in Seq(SlabRecords)
    BY <1>2, RingFields
  <2>2. QED
    BY <2>1, Zenon
<1>8. Homes(m, r)
  BY <1>1, <1>4, <1>7, HomesAppended
<1>9. PICK y : y = r.cache[c].pool
  OBVIOUS
<1>10. /\ Len(y) = Len(x) + 1 /\ Len(x) \in Nat /\ y[Len(x) + 1] = b
       /\ \A s \in 1..Len(x) : y[s] = x[s]
  <2>1. y = Append(x, b)
    BY <1>4, <1>7, <1>9, Zenon
  <2>2. QED
    BY <1>1, <2>1
<1>11. \A s \in 1..Len(x) : x[s].free_count = 0
  <2>1. \A s \in 1..Len(x) : x[s] \in SlabRecords /\ GoodSlab(x[s])
    BY <1>2, <1>7, ElementOfSeq DEF GoodRing
  <2>2. \A s \in 1..Len(x) : x[s].free_count \in Nat
    BY <2>1, GoodSlabFacts
  <2>3. \A s \in 1..Len(m.cache[c].pool) : m.cache[c].pool[s].free_count <= m.cache[c].total_free
    BY <1>2, RingTotals
  <2>4. \A s \in 1..Len(x) : x[s].free_count <= 0
    BY <1>2, <1>7, <2>3
  <2>5. QED
    BY <2>2, <2>4
<1>12. \A s \in 1..Len(y) : y[s].free_count # 0 => y[s].page = b.page
  BY <1>10, <1>11
<1>13. \A s \in FreeSlabs(r, c) : r.cache[c].pool[s].page = b.page
  BY <1>9, <1>12 DEF FreeSlabs
<1>14. Len(r.cache[c].pool) = Len(m.cache[c].pool) + 1
  BY <1>7, <1>9, <1>10
<1>15. QED
  BY <1>3, <1>4, <1>5, <1>6, <1>8, <1>13, <1>14, Zenon DEF Added

FreshSlab(c, b, p, x) == NewSlab(c, b) /\ b.page = p /\ b.own = x

LEMMA NewSlabIs ==
  ASSUME NEW p \in Pages, NEW c \in DOMAIN Classes, NEW x, NEW b, b = Slab(p, Classes[c].created, x),
         x \in Seq(ObjectNames), ShapedFor(c, b)
  PROVE  FreshSlab(c, b, p, x)
<1>1. PICK n \in Nat : n = Classes[c].created
  <2>1. Classes[c].created \in Nat
    BY ClassFacts
  <2>2. QED
    BY <2>1, Zenon
<1>2. b = [page |-> p, used |-> {}, using_count |-> 0, free_count |-> n, color_count |-> n, own |-> x]
  BY <1>1 DEF Slab
<1>3. b \in SlabRecords
  BY <1>2 DEF SlabRecords
<1>4. b.used = {} /\ b.using_count = 0 /\ b.free_count = n /\ b.color_count = n /\ b.page = p /\ b.own = x
  BY <1>2
<1>5. Cardinality({}) = 0
  BY FS_EmptySet
<1>6. GoodSlab(b)
  BY <1>4, <1>5 DEF GoodSlab
<1>7. QED
  BY <1>1, <1>3, <1>4, <1>6 DEF NewSlab, FreshSlab

(* kmalloc_create for a small class.                                       *)
Made(m, r, O, S, R, L, c, p) ==
  /\ Mem(r, O, S, R, L \ {p})
  /\ SlabPages(r) = SlabPages(m) \cup {p} /\ p \notin SlabPages(m)
  /\ OtherRings(m, r, c) /\ Homes(m, r) /\ r.free[1] = m.free[1] - 1
  /\ r.cache[c].total_free = Classes[c].created
  /\ Len(r.cache[c].pool) = Len(m.cache[c].pool) + 1
  /\ \A s \in FreeSlabs(r, c) : r.cache[c].pool[s].page = p

LEMMA MemCreateSmall ==
  ASSUME NEW m, NEW O, NEW S, NEW R, NEW L, Mem(m, O, S, R, L), NEW c \in DOMAIN Classes, NeedsSlab(m, c),
         Classes[c].small, HasPage(m), NEW r, r = CreateSmall(m, c)
  PROVE  Made(m, r, O, S, R, L, c, FoundPage(m, "ZONE_NORMAL", 1))
<1>1. PICK p : p = FoundPage(m, "ZONE_NORMAL", 1)
  OBVIOUS
<1>2. PICK a : a = KernelPage(m)
  OBVIOUS
<1>3. PICK b : b = Slab(p, Classes[c].created, <<>>)
  OBVIOUS
<1>4. PICK T : T = R \cup {<<p, 1>>}
  OBVIOUS
<1>5. PICK M : M = L \cup {p}
  OBVIOUS
<1>6. /\ Mem(a, O, S, T, M) /\ a.cache = m.cache /\ a.free[1] = m.free[1] - 1
      /\ p \in Pages /\ p \notin SlabPages(m) /\ <<p, 1>> \notin R
  BY <1>1, <1>2, <1>4, <1>5, MemKernelPage
<1>7. b.own = <<>>
  BY <1>3 DEF Slab
<1>8. <<>> \in Seq(ObjectNames) /\ ShapedFor(c, b)
  BY <1>7 DEF ShapedFor
<1>9. NewSlab(c, b) /\ b.page = p
  <2>1. PICK x \in Seq(ObjectNames) : x = <<>>
    BY <1>8, Zenon
  <2>2. b = Slab(p, Classes[c].created, x)
    BY <1>3, <2>1, Zenon
  <2>3. FreshSlab(c, b, p, x)
    BY <1>6, <1>8, <2>2, NewSlabIs
  <2>4. QED
    BY <2>3, Zenon DEF FreshSlab
<1>10. Owns(b) = {}
  BY <1>7, <1>8, <1>9, OwnsIs DEF NewSlab
<1>11. NeedsSlab(a, c) /\ r = AddSlab(a, c, b) /\ <<b.page, 1>> \in T /\ b.page \in M /\ Owns(b) \subseteq S
  BY <1>1, <1>2, <1>3, <1>4, <1>5, <1>6, <1>9, <1>10 DEF NeedsSlab, CreateSmall
<1>12. Added(a, r, O, S, T, M, c, b)
  BY <1>6, <1>9, <1>11, MemAdd
<1>13. /\ Mem(r, O \ Owns(b), S \ Owns(b), T \ {<<b.page, 1>>}, M \ {b.page})
       /\ SlabPages(r) = SlabPages(a) \cup {b.page}
       /\ OtherRings(a, r, c) /\ Homes(a, r) /\ r.free = a.free
       /\ r.cache[c].total_free = Classes[c].created
       /\ Len(r.cache[c].pool) = Len(a.cache[c].pool) + 1
       /\ \A s \in FreeSlabs(r, c) : r.cache[c].pool[s].page = b.page
  BY <1>12, Zenon DEF Added
<1>14. O \ Owns(b) = O /\ S \ Owns(b) = S /\ T \ {<<b.page, 1>>} = R /\ M \ {b.page} = L \ {p}
  BY <1>4, <1>5, <1>6, <1>9, <1>10
<1>15. Mem(r, O, S, R, L \ {p})
  BY <1>13, <1>14, Zenon
<1>16. SlabPages(a) = SlabPages(m)
  BY <1>6 DEF SlabPages
<1>17. OtherRings(m, r, c) /\ Homes(m, r)
  BY <1>6, <1>13 DEF OtherRings, Homes, Home
<1>18. Made(m, r, O, S, R, L, c, p)
  BY <1>6, <1>9, <1>13, <1>15, <1>16, <1>17 DEF Made
<1>19. QED
  BY <1>1, <1>18
-----------------------------------------------------------------------------
(* kmalloc for a small class that does not fail.                           *)
Got(m, r, O, S, R, L, c, o) ==
  /\ o \in ObjectNames /\ o \notin O
  /\ Mem(r, O \cup {o}, S \cup {o}, R, L \ {o[1]})
  /\ SlabPages(r) = SlabPages(m) \cup {o[1]}
  /\ OtherRings(m, r, c) /\ Homes(m, r) /\ Home(r, c, o[1])
  /\ r.cache[c].total_free = (IF m.cache[c].total_free = 0 THEN Classes[c].created ELSE m.cache[c].total_free) - 1
  /\ m.cache[c].total_free # 0 => o[1] \in SlabPages(m)
  /\ Len(r.cache[c].pool) >= Len(m.cache[c].pool)
  /\ r.free[1] = m.free[1] - (IF m.cache[c].total_free = 0 THEN 1 ELSE 0)

LEMMA MemAllocSmall ==
  ASSUME NEW m, NEW O, NEW S, NEW R, NEW L, Mem(m, O, S, R, L), NEW c \in DOMAIN Classes, Classes[c].small,
         ~Refused(m, c), NEW r, r = AllocSmall(m, c).mm, NEW o, o = AllocSmall(m, c).object
  PROVE  Got(m, r, O, S, R, L, c, o)
<1>1. PICK a : a = ReadySmall(m, c)
  OBVIOUS
<1>2. r = Give(a, c).mm /\ o = Give(a, c).object
  BY <1>1 DEF AllocSmall
<1>3. m.cache[c].total_free \in Nat /\ m \in Mems /\ m.free[1] \in Int /\ Len(m.cache[c].pool) \in Nat
  <2>1. m.cache[c].total_free \in Nat /\ m \in Mems /\ Len(m.cache[c].pool) \in Nat
    BY MemRing
  <2>2. m.free \in ZoneNumbers /\ 1 \in ZoneIds
    BY <2>1, MemFields, ZoneFacts
  <2>3. m.free[1] \in Int
    BY <2>2 DEF ZoneNumbers
  <2>4. QED
    BY <2>1, <2>3
<1>4. CASE ~NeedsSlab(m, c)
  <2>1. a = m
    BY <1>1, <1>4 DEF ReadySmall
  <2>2. Given(m, r, O, S, R, L, c, o)
    BY <1>2, <1>4, <2>1, MemGiveObject
  <2>3. /\ o \in ObjectNames /\ o \notin O /\ o[1] \in SlabPages(m)
        /\ \E s \in FreeSlabs(m, c) : o[1] = m.cache[c].pool[s].page
        /\ Mem(r, O \cup {o}, S \cup {o}, R, L)
        /\ SlabPages(r) = SlabPages(m) /\ r.free = m.free /\ OtherRings(m, r, c) /\ Homes(m, r)
        /\ r.cache[c].total_free = m.cache[c].total_free - 1
        /\ Len(r.cache[c].pool) = Len(m.cache[c].pool)
    BY <2>2, Zenon DEF Given
  <2>4. Home(m, c, o[1])
    BY <2>3 DEF FreeSlabs, Home
  <2>5. Home(r, c, o[1])
    BY <2>3, <2>4 DEF Homes
  <2>6. L \cap SlabPages(m) = {}
    BY DEF Mem
  <2>7. L \ {o[1]} = L /\ SlabPages(m) \cup {o[1]} = SlabPages(m)
    BY <2>3, <2>6
  <2>8. m.cache[c].total_free # 0
    BY <1>4 DEF NeedsSlab
  <2>9. /\ r.cache[c].total_free = (IF m.cache[c].total_free = 0 THEN Classes[c].created ELSE m.cache[c].total_free) - 1
        /\ r.free[1] = m.free[1] - (IF m.cache[c].total_free = 0 THEN 1 ELSE 0)
        /\ Len(r.cache[c].pool) >= Len(m.cache[c].pool)
    BY <1>3, <2>3, <2>8
  <2>10. Mem(r, O \cup {o}, S \cup {o}, R, L \ {o[1]}) /\ SlabPages(r) = SlabPages(m) \cup {o[1]}
    BY <2>3, <2>7, Zenon
  <2>11. QED
    BY <2>3, <2>5, <2>9, <2>10, Zenon DEF Got
<1>5. CASE NeedsSlab(m, c)
  <2>1. a = CreateSmall(m, c) /\ HasPage(m) /\ m.cache[c].total_free = 0
    BY <1>1, <1>5 DEF ReadySmall, Refused, NeedsSlab
  <2>2. PICK p : p = FoundPage(m, "ZONE_NORMAL", 1)
    OBVIOUS
  <2>3. Made(m, a, O, S, R, L, c, p)
    BY <1>5, <2>1, <2>2, MemCreateSmall
  <2>4. PICK M : M = L \ {p}
    OBVIOUS
  <2>5. /\ Mem(a, O, S, R, M)
        /\ SlabPages(a) = SlabPages(m) \cup {p} /\ p \notin SlabPages(m)
        /\ OtherRings(m, a, c) /\ Homes(m, a) /\ a.free[1] = m.free[1] - 1
        /\ a.cache[c].total_free = Classes[c].created
        /\ Len(a.cache[c].pool) = Len(m.cache[c].pool) + 1
        /\ \A s \in FreeSlabs(a, c) : a.cache[c].pool[s].page = p
    BY <2>3, <2>4, Zenon DEF Made
  <2>6. Classes[c].created \in Nat \ {0, 1}
    BY ClassFacts
  <2>7. ~NeedsSlab(a, c)
    BY <2>5, <2>6 DEF NeedsSlab
  <2>8. Given(a, r, O, S, R, M, c, o)
    BY <1>2, <2>5, <2>7, MemGiveObject
  <2>9. /\ o \in ObjectNames /\ o \notin O
        /\ \E s \in FreeSlabs(a, c) : o[1] = a.cache[c].pool[s].page
        /\ Mem(r, O \cup {o}, S \cup {o}, R, M)
        /\ SlabPages(r) = SlabPages(a) /\ r.free = a.free /\ OtherRings(a, r, c) /\ Homes(a, r)
        /\ r.cache[c].total_free = a.cache[c].total_free - 1
        /\ Len(r.cache[c].pool) = Len(a.cache[c].pool)
    BY <2>8, Zenon DEF Given
  <2>10. o[1] = p
    BY <2>5, <2>9
  <2>11. Home(a, c, o[1])
    BY <2>9 DEF FreeSlabs, Home
  <2>12. p \in SlabPages(r)
    BY <2>5, <2>9
  <2>13. Home(r, c, o[1])
    BY <2>9, <2>10, <2>11, <2>12 DEF Homes
  <2>14. Homes(m, r) /\ OtherRings(m, r, c)
    BY <2>5, <2>9, HomesMore DEF OtherRings
  <2>15. Mem(r, O \cup {o}, S \cup {o}, R, L \ {o[1]}) /\ SlabPages(r) = SlabPages(m) \cup {o[1]}
    BY <2>4, <2>5, <2>9, <2>10
  <2>16. /\ r.cache[c].total_free = (IF m.cache[c].total_free = 0 THEN Classes[c].created ELSE m.cache[c].total_free) - 1
         /\ r.free[1] = m.free[1] - (IF m.cache[c].total_free = 0 THEN 1 ELSE 0)
         /\ Len(r.cache[c].pool) >= Len(m.cache[c].pool)
         /\ (m.cache[c].total_free # 0 => o[1] \in SlabPages(m))
    BY <1>3, <2>1, <2>5, <2>9
  <2>17. QED
    BY <2>9, <2>13, <2>14, <2>15, <2>16, Zenon DEF Got
<1>6. QED
  BY <1>4, <1>5
-----------------------------------------------------------------------------
(* What of a memory's side holds of every memory.                          *)
LEMMA MemLess ==
  ASSUME NEW m, NEW O, NEW S, NEW R, NEW L, Mem(m, O, S, R, L), NEW T, T \subseteq S
  PROVE  Mem(m, O, T, R, L)
BY DEF Mem, CacheSide, Possession

LEMMA MemApart ==
  ASSUME NEW m, NEW O, NEW S, NEW R, NEW L, Mem(m, O, S, R, L), NEW p, <<p, 1>> \in R
  PROVE  p \notin SlabPages(m) /\ p \notin KernelPages /\ p \in Pages
<1>1. Owned(m.bits_map, SlabPages(m), R)
  BY DEF Mem, PageSide
<1>2. Proper(<<p, 1>>)
  BY <1>1 DEF Owned
<1>3. PICK z \in ZoneIds : p \in Nat /\ RunPages(<<p, 1>>) \subseteq ZonePages(z)
  BY <1>2 DEF Proper
<1>4. p \in RunPages(<<p, 1>>)
  BY <1>3 DEF RunPages
<1>5. p \in RunSet(R)
  BY <1>4 DEF RunSet
<1>6. p \in ZonePages(z)
  BY <1>3, <1>4
<1>7. p \in Pages
  BY <1>6, ZonePageFacts
<1>8. QED
  BY <1>1, <1>5, <1>7 DEF Owned

LEMMA NoPage ==
  ASSUME NEW m, NEW O, NEW S, NEW R, NEW L, Mem(m, O, S, R, L), ~HasPage(m)
  PROVE  m.free[1] \in Nat /\ m.free[1] < 1
<1>1. 1 \in ZoneIds
  BY ZoneFacts
<1>2. m.free[1] \in Nat /\ m.free[1] = Cardinality(ZonePages(1) \ m.bits_map) - 1
  BY <1>1 DEF Mem, PageSide, Counted
<1>3. SUFFICES ASSUME ~ (m.free[1] < 1)
               PROVE  FALSE
  BY <1>2
<1>4. ZonePages(1) \ m.bits_map # {}
  <2>1. Cardinality({}) = 0
    BY FS_EmptySet
  <2>2. QED
    BY <1>2, <1>3, <2>1
<1>5. PICK p \in ZonePages(1) : p \notin m.bits_map
  BY <1>4
<1>6. m.free[1] >= 1
  BY <1>2, <1>3
<1>7. QED
  BY <1>5, <1>6, FreePageServes

Grows(m, r) == \A d \in DOMAIN Classes : Len(m.cache[d].pool) <= Len(r.cache[d].pool)

LEMMA GrowsOne ==
  ASSUME NEW m, NEW r, NEW c, OtherRings(m, r, c), Len(r.cache[c].pool) >= Len(m.cache[c].pool),
         \A d \in DOMAIN Classes : Len(m.cache[d].pool) \in Nat
  PROVE  Grows(m, r)
<1>1. ASSUME NEW d \in DOMAIN Classes
      PROVE  Len(m.cache[d].pool) <= Len(r.cache[d].pool)
  <2>1. CASE d = c
    BY <2>1
  <2>2. CASE d # c
    <3>1. r.cache[d] = m.cache[d] /\ Len(m.cache[d].pool) \in Nat
      BY <2>2 DEF OtherRings
    <3>2. QED
      BY <3>1
  <2>3. QED
    BY <2>1, <2>2
<1>2. QED
  BY <1>1 DEF Grows

Rings(m) == \A d \in DOMAIN Classes : Len(m.cache[d].pool) \in Nat /\ m.cache[d].total_free \in Nat

LEMMA MemRings ==
  ASSUME NEW m, NEW O, NEW S, NEW R, NEW L, Mem(m, O, S, R, L)
  PROVE  Rings(m)
BY MemRing DEF Rings

LEMMA GrowsMore ==
  ASSUME NEW m, NEW a, NEW r, Rings(m), Rings(a), Rings(r), Grows(m, a), Grows(a, r)
  PROVE  Grows(m, r)
<1>1. ASSUME NEW d \in DOMAIN Classes
      PROVE  Len(m.cache[d].pool) <= Len(r.cache[d].pool)
  <2>1. PICK x \in Nat : x = Len(m.cache[d].pool)
    BY DEF Rings
  <2>2. PICK y \in Nat : y = Len(a.cache[d].pool)
    BY DEF Rings
  <2>3. PICK z \in Nat : z = Len(r.cache[d].pool)
    BY DEF Rings
  <2>4. x <= y /\ y <= z
    BY <2>1, <2>2, <2>3 DEF Grows
  <2>5. QED
    BY <2>1, <2>3, <2>4
<1>2. QED
  BY <1>1 DEF Grows

LEMMA GotGrows ==
  ASSUME NEW m, NEW r, NEW O, NEW S, NEW R, NEW L, NEW c \in DOMAIN Classes, NEW o, Rings(m),
         Got(m, r, O, S, R, L, c, o)
  PROVE  Grows(m, r) /\ Rings(r)
<1>1. OtherRings(m, r, c) /\ Len(r.cache[c].pool) >= Len(m.cache[c].pool) /\ Mem(r, O \cup {o}, S \cup {o}, R, L \ {o[1]})
  BY Zenon DEF Got
<1>2. \A d \in DOMAIN Classes : Len(m.cache[d].pool) \in Nat
  BY DEF Rings
<1>3. QED
  BY <1>1, <1>2, GrowsOne, MemRings
-----------------------------------------------------------------------------
(* A page for a large class, its structure and its map.                    *)
Short(m, c) == IF m.cache[c].total_free = 0 THEN 1 ELSE 0

Stage(m, r, O, S, R, L, p, a) ==
  /\ a \in ObjectNames /\ a \notin O /\ p \in Pages /\ p \notin SlabPages(r) /\ <<p, 1>> \notin R
  /\ Mem(r, O \cup {a}, S \cup {a}, R \cup {<<p, 1>>}, (L \ {a[1]}) \cup {p})
  /\ SlabPages(r) = SlabPages(m) \cup {a[1]} /\ OtherRings(m, r, SlabClass) /\ Homes(m, r)
  /\ Rings(r) /\ Grows(m, r) /\ r.free[1] = m.free[1] - 1 - Short(m, SlabClass)

LEMMA MemStructure ==
  ASSUME NEW m, NEW O, NEW S, NEW R, NEW L, Mem(m, O, S, R, L), HasPage(m),
         ~Refused(KernelPage(m), SlabClass)
  PROVE  Stage(m, Structure(m).mm, O, S, R, L, FoundPage(m, "ZONE_NORMAL", 1), Structure(m).object)
<1>1. PICK p : p = FoundPage(m, "ZONE_NORMAL", 1)
  OBVIOUS
<1>2. PICK k : k = KernelPage(m)
  OBVIOUS
<1>3. PICK T : T = R \cup {<<p, 1>>}
  OBVIOUS
<1>4. PICK M : M = L \cup {p}
  OBVIOUS
<1>5. /\ Mem(k, O, S, T, M) /\ k.cache = m.cache /\ k.free[1] = m.free[1] - 1
      /\ p \in Pages /\ p \notin SlabPages(m) /\ <<p, 1>> \notin R
  BY <1>1, <1>2, <1>3, <1>4, MemKernelPage
<1>6. PICK r : r = Structure(m).mm
  OBVIOUS
<1>7. PICK a : a = Structure(m).object
  OBVIOUS
<1>8. r = AllocSmall(k, SlabClass).mm /\ a = AllocSmall(k, SlabClass).object
  BY <1>2, <1>6, <1>7 DEF Structure
<1>9. SlabClass \in DOMAIN Classes /\ Classes[SlabClass].small /\ ~Refused(k, SlabClass)
  BY <1>2, MemoryAssumption
<1>10. Got(k, r, O, S, T, M, SlabClass, a)
  BY <1>5, <1>8, <1>9, MemAllocSmall
<1>11. /\ a \in ObjectNames /\ a \notin O
       /\ Mem(r, O \cup {a}, S \cup {a}, T, M \ {a[1]})
       /\ SlabPages(r) = SlabPages(k) \cup {a[1]}
       /\ OtherRings(k, r, SlabClass) /\ Homes(k, r)
       /\ Len(r.cache[SlabClass].pool) >= Len(k.cache[SlabClass].pool)
       /\ r.free[1] = k.free[1] - (IF k.cache[SlabClass].total_free = 0 THEN 1 ELSE 0)
  BY <1>10, Zenon DEF Got
<1>12. p \notin SlabPages(r)
  <2>1. <<p, 1>> \in T
    BY <1>3
  <2>2. Mem(r, O \cup {a}, S \cup {a}, T, M \ {a[1]})
    BY <1>11
  <2>3. QED
    BY <2>1, <2>2, MemApart
<1>13. SlabPages(k) = SlabPages(m)
  BY <1>5 DEF SlabPages
<1>14. M \ {a[1]} = (L \ {a[1]}) \cup {p}
  BY <1>4, <1>11, <1>12
<1>15. Mem(r, O \cup {a}, S \cup {a}, R \cup {<<p, 1>>}, (L \ {a[1]}) \cup {p})
  BY <1>3, <1>11, <1>14, Zenon
<1>16. OtherRings(m, r, SlabClass) /\ Homes(m, r) /\ SlabPages(r) = SlabPages(m) \cup {a[1]}
  BY <1>5, <1>11, <1>13 DEF OtherRings, Homes, Home
<1>17. Rings(k) /\ Rings(m)
  BY <1>5, MemRings
<1>18. Grows(k, r) /\ Rings(r)
  BY <1>9, <1>10, <1>17, GotGrows
<1>19. Grows(m, r)
  BY <1>5, <1>18 DEF Grows
<1>20. r.free[1] = m.free[1] - 1 - Short(m, SlabClass)
  BY <1>5, <1>11 DEF Short
<1>21. Stage(m, r, O, S, R, L, p, a)
  BY <1>5, <1>11, <1>12, <1>15, <1>16, <1>18, <1>19, <1>20, Zenon DEF Stage
<1>22. QED
  BY <1>1, <1>6, <1>7, <1>21

Ripe(m, r, O, S, R, L, c) ==
  /\ Mem(r, O, S, R, L \ SlabPages(r)) /\ SlabPages(m) \subseteq SlabPages(r)
  /\ ~NeedsSlab(r, c) /\ Grows(m, r)

LEMMA MemCreateLarge ==
  ASSUME NEW m, NEW O, NEW S, NEW R, NEW L, Mem(m, O, S, R, L), NEW c \in DOMAIN Classes, NeedsSlab(m, c),
         ~Classes[c].small, HasPage(m), ~LargeFails(m, c), NEW r, r = CreateLarge(m, c)
  PROVE  Ripe(m, r, O, S, R, L, c)
<1>1. PICK p : p = FoundPage(m, "ZONE_NORMAL", 1)
  OBVIOUS
<1>2. PICK k : k = Structure(m).mm
  OBVIOUS
<1>3. PICK a : a = Structure(m).object
  OBVIOUS
<1>4. PICK d : d = Classes[c].map
  OBVIOUS
<1>5. d \in DOMAIN Classes /\ Classes[d].small /\ c # d /\ c # SlabClass
  BY <1>4, ClassFacts, MemoryAssumption
<1>6. ~Refused(KernelPage(m), SlabClass) /\ ~Refused(k, d)
  BY <1>2, <1>4 DEF LargeFails
<1>7. Stage(m, k, O, S, R, L, p, a)
  BY <1>1, <1>2, <1>3, <1>6, MemStructure
<1>8. PICK O1 : O1 = O \cup {a}
  OBVIOUS
<1>9. PICK S1 : S1 = S \cup {a}
  OBVIOUS
<1>10. PICK T : T = R \cup {<<p, 1>>}
  OBVIOUS
<1>11. PICK M : M = (L \ {a[1]}) \cup {p}
  OBVIOUS
<1>12. /\ a \in ObjectNames /\ a \notin O /\ p \in Pages /\ <<p, 1>> \notin R
       /\ Mem(k, O1, S1, T, M)
       /\ SlabPages(k) = SlabPages(m) \cup {a[1]} /\ OtherRings(m, k, SlabClass)
       /\ Rings(k) /\ Grows(m, k)
  BY <1>7, <1>8, <1>9, <1>10, <1>11, Zenon DEF Stage
<1>13. PICK n : n = AllocSmall(k, d).mm
  OBVIOUS
<1>14. PICK b : b = AllocSmall(k, d).object
  OBVIOUS
<1>15. Got(k, n, O1, S1, T, M, d, b)
  BY <1>5, <1>6, <1>12, <1>13, <1>14, MemAllocSmall
<1>16. PICK O2 : O2 = O1 \cup {b}
  OBVIOUS
<1>17. PICK S2 : S2 = S1 \cup {b}
  OBVIOUS
<1>18. PICK N : N = M \ {b[1]}
  OBVIOUS
<1>19. /\ b \in ObjectNames /\ b \notin O1 /\ Mem(n, O2, S2, T, N)
       /\ SlabPages(n) = SlabPages(k) \cup {b[1]} /\ OtherRings(k, n, d)
  BY <1>15, <1>16, <1>17, <1>18, Zenon DEF Got
<1>20. Grows(k, n) /\ Rings(n)
  BY <1>5, <1>12, <1>15, GotGrows
<1>21. PICK e : e = Slab(p, Classes[c].created, <<a, b>>)
  OBVIOUS
<1>22. PICK y \in Seq(ObjectNames) : y = <<a, b>>
  <2>1. <<a, b>> \in Seq(ObjectNames)
    BY <1>12, <1>19
  <2>2. QED
    BY <2>1, Zenon
<1>23. e.own = y /\ a # b
  BY <1>8, <1>19, <1>21, <1>22 DEF Slab
<1>24. ShapedFor(c, e)
  BY <1>12, <1>19, <1>22, <1>23 DEF ShapedFor
<1>25. NewSlab(c, e) /\ e.page = p /\ e \in SlabRecords
  <2>1. e = Slab(p, Classes[c].created, y)
    BY <1>21, <1>22, Zenon
  <2>2. FreshSlab(c, e, p, y)
    BY <1>12, <1>24, <2>1, NewSlabIs
  <2>3. QED
    BY <2>2, Zenon DEF FreshSlab, NewSlab
<1>26. Owns(e) = {a, b}
  BY <1>12, <1>19, <1>22, <1>23, <1>24, <1>25, OwnsIs
<1>27. <<p, 1>> \in T
  BY <1>10
<1>28. p \notin SlabPages(n)
  BY <1>19, <1>27, MemApart
<1>29. p \in N
  BY <1>11, <1>18, <1>19, <1>28
<1>30. NeedsSlab(n, c) /\ r = AddSlab(n, c, e)
  <2>1. n.cache[c] = m.cache[c]
    BY <1>5, <1>12, <1>19 DEF OtherRings
  <2>2. r = AddSlab(n, c, e)
    BY <1>1, <1>3, <1>4, <1>2, <1>13, <1>14, <1>21 DEF CreateLarge, Map
  <2>3. QED
    BY <2>1, <2>2 DEF NeedsSlab
<1>31. Added(n, r, O2, S2, T, N, c, e)
  <2>1. <<e.page, 1>> \in T /\ e.page \in N /\ Owns(e) \subseteq S2
    BY <1>9, <1>17, <1>25, <1>26, <1>27, <1>29
  <2>2. QED
    BY <1>19, <1>25, <1>30, <2>1, MemAdd
<1>32. /\ Mem(r, O2 \ Owns(e), S2 \ Owns(e), T \ {<<e.page, 1>>}, N \ {e.page})
       /\ SlabPages(r) = SlabPages(n) \cup {e.page} /\ OtherRings(n, r, c)
       /\ r.cache[c].total_free = Classes[c].created
       /\ Len(r.cache[c].pool) = Len(n.cache[c].pool) + 1
  BY <1>31, Zenon DEF Added
<1>33. S \subseteq O /\ L \cap SlabPages(m) = {}
  BY DEF Mem, CacheSide, Possession
<1>34. O2 \ Owns(e) = O /\ S2 \ Owns(e) = S
  BY <1>8, <1>9, <1>12, <1>16, <1>17, <1>19, <1>26, <1>33
<1>35. T \ {<<e.page, 1>>} = R
  BY <1>10, <1>12, <1>25
<1>36. SlabPages(r) = SlabPages(m) \cup {a[1], b[1], p}
  BY <1>12, <1>19, <1>25, <1>32
<1>37. N \ {e.page} = L \ SlabPages(r)
  BY <1>11, <1>18, <1>25, <1>33, <1>36
<1>38. Mem(r, O, S, R, L \ SlabPages(r))
  BY <1>32, <1>34, <1>35, <1>37, Zenon
<1>39. ~NeedsSlab(r, c)
  BY <1>32, ClassFacts DEF NeedsSlab
<1>40. Grows(n, r) /\ Rings(r) /\ Rings(m)
  <2>1. Rings(r) /\ Rings(m)
    BY <1>38, MemRings
  <2>2. \A f \in DOMAIN Classes : Len(n.cache[f].pool) \in Nat
    BY <1>20 DEF Rings
  <2>3. Len(r.cache[c].pool) >= Len(n.cache[c].pool)
    BY <1>32, <2>2
  <2>4. QED
    BY <1>32, <2>1, <2>2, <2>3, GrowsOne
<1>41. Grows(m, r)
  <2>1. Grows(m, n)
    BY <1>12, <1>20, <1>40, GrowsMore
  <2>2. QED
    BY <1>20, <1>40, <2>1, GrowsMore
<1>42. QED
  BY <1>36, <1>38, <1>39, <1>41 DEF Ripe
-----------------------------------------------------------------------------
(* kmalloc and kfree as a whole.                                           *)
Obtained(m, r, O, S, R, L, o) ==
  /\ o \in ObjectNames /\ o \notin O /\ Mem(r, O \cup {o}, S, R, L \ SlabPages(r)) /\ Grows(m, r)

LEMMA MemKmalloc ==
  ASSUME NEW m, NEW O, NEW S, NEW R, NEW L, Mem(m, O, S, R, L), NEW c \in DOMAIN Classes,
         ~Refused(m, c), ~Breaks(m, c), NEW r, r = Alloc(m, c).mm, NEW o, o = Alloc(m, c).object
  PROVE  Obtained(m, r, O, S, R, L, o)
<1>1. Rings(m)
  BY MemRings
<1>2. CASE Classes[c].small
  <2>1. Ready(m, c) = ReadySmall(m, c)
    BY <1>2 DEF Ready, ReadySmall
  <2>2. r = AllocSmall(m, c).mm /\ o = AllocSmall(m, c).object
    BY <2>1 DEF Alloc, AllocSmall
  <2>3. Got(m, r, O, S, R, L, c, o)
    BY <1>2, <2>1, <2>2, MemAllocSmall
  <2>4. /\ o \in ObjectNames /\ o \notin O /\ Mem(r, O \cup {o}, S \cup {o}, R, L \ {o[1]})
        /\ SlabPages(r) = SlabPages(m) \cup {o[1]}
    BY <2>3, Zenon DEF Got
  <2>5. L \cap SlabPages(m) = {}
    BY DEF Mem
  <2>6. L \ {o[1]} = L \ SlabPages(r)
    BY <2>4, <2>5
  <2>7. PICK S1 : S1 = S \cup {o}
    OBVIOUS
  <2>8. PICK O1 : O1 = O \cup {o}
    OBVIOUS
  <2>9. PICK M : M = L \ {o[1]}
    OBVIOUS
  <2>10. Mem(r, O1, S1, R, M) /\ S \subseteq S1
    BY <2>4, <2>7, <2>8, <2>9
  <2>11. Mem(r, O1, S, R, M)
    BY <2>10, MemLess
  <2>12. Grows(m, r)
    BY <1>1, <2>3, GotGrows
  <2>13. QED
    BY <2>4, <2>6, <2>8, <2>9, <2>11, <2>12, Zenon DEF Obtained
<1>3. CASE ~Classes[c].small
  <2>1. PICK a : a = Ready(m, c)
    OBVIOUS
  <2>2. Ripe(m, a, O, S, R, L, c)
    <3>1. CASE NeedsSlab(m, c)
      <4>1. a = CreateLarge(m, c) /\ HasPage(m) /\ ~LargeFails(m, c)
        BY <1>3, <2>1, <3>1 DEF Ready, Refused, Breaks
      <4>2. QED
        BY <1>3, <3>1, <4>1, MemCreateLarge
    <3>2. CASE ~NeedsSlab(m, c)
      <4>1. a = m
        BY <2>1, <3>2 DEF Ready
      <4>2. L \ SlabPages(m) = L
        BY DEF Mem
      <4>3. Grows(m, m)
        BY <1>1 DEF Grows, Rings
      <4>4. Mem(m, O, S, R, L \ SlabPages(m))
        BY <4>2
      <4>5. QED
        BY <3>2, <4>1, <4>3, <4>4 DEF Ripe
    <3>3. QED
      BY <3>1, <3>2
  <2>3. PICK M : M = L \ SlabPages(a)
    OBVIOUS
  <2>4. Mem(a, O, S, R, M) /\ ~NeedsSlab(a, c) /\ Grows(m, a)
    BY <2>2, <2>3, Zenon DEF Ripe
  <2>5. Given(a, r, O, S, R, M, c, o)
    <3>1. r = Give(a, c).mm /\ o = Give(a, c).object
      BY <2>1 DEF Alloc
    <3>2. QED
      BY <2>4, <3>1, MemGiveObject
  <2>6. /\ o \in ObjectNames /\ o \notin O /\ Mem(r, O \cup {o}, S, R, M)
        /\ SlabPages(r) = SlabPages(a) /\ OtherRings(a, r, c)
        /\ Len(r.cache[c].pool) = Len(a.cache[c].pool)
    BY <2>5, Zenon DEF Given
  <2>7. Rings(a) /\ Rings(r)
    BY <2>4, <2>6, MemRings
  <2>8. Grows(a, r)
    <3>1. \A d \in DOMAIN Classes : Len(a.cache[d].pool) \in Nat
      BY <2>7 DEF Rings
    <3>2. Len(r.cache[c].pool) >= Len(a.cache[c].pool)
      BY <2>6, <3>1
    <3>3. QED
      BY <2>6, <3>1, <3>2, GrowsOne
  <2>9. Grows(m, r)
    BY <1>1, <2>4, <2>7, <2>8, GrowsMore
  <2>10. M = L \ SlabPages(r)
    BY <2>3, <2>6
  <2>11. QED
    BY <2>6, <2>9, <2>10, Zenon DEF Obtained
<1>4. QED
  BY <1>2, <1>3

(* Too few pages for a slab and what it needs.                             *)
LEMMA MemFree ==
  ASSUME NEW m, NEW O, NEW S, NEW R, NEW L, Mem(m, O, S, R, L)
  PROVE  m.free[1] \in Int
<1>1. m.free \in ZoneNumbers /\ 1 \in ZoneIds
  BY MemFields, ZoneFacts DEF Mem
<1>2. QED
  BY <1>1 DEF ZoneNumbers

LEMMA MemWild ==
  ASSUME NEW m, NEW O, NEW S, NEW R, NEW L, Mem(m, O, S, R, L), NEW c \in DOMAIN Classes, Breaks(m, c)
  PROVE  m.free[1] < 2 + Short(m, SlabClass)
<1>1. m.free[1] \in Int /\ HasPage(m) /\ LargeFails(m, c) /\ Short(m, SlabClass) \in {0, 1}
  BY MemFree DEF Breaks, Short
<1>2. PICK p : p = FoundPage(m, "ZONE_NORMAL", 1)
  OBVIOUS
<1>3. CASE Refused(KernelPage(m), SlabClass)
  <2>1. PICK k : k = KernelPage(m)
    OBVIOUS
  <2>2. Mem(k, O, S, R \cup {<<p, 1>>}, L \cup {p}) /\ k.free[1] = m.free[1] - 1
    BY <1>1, <1>2, <2>1, MemKernelPage
  <2>3. ~HasPage(k)
    BY <1>3, <2>1 DEF Refused
  <2>4. k.free[1] \in Nat /\ k.free[1] < 1
    BY <2>2, <2>3, NoPage
  <2>5. QED
    BY <1>1, <2>2, <2>4
<1>4. CASE ~Refused(KernelPage(m), SlabClass)
  <2>1. PICK k : k = Structure(m).mm
    OBVIOUS
  <2>2. PICK a : a = Structure(m).object
    OBVIOUS
  <2>3. Stage(m, k, O, S, R, L, p, a)
    BY <1>1, <1>2, <1>4, <2>1, <2>2, MemStructure
  <2>4. /\ Mem(k, O \cup {a}, S \cup {a}, R \cup {<<p, 1>>}, (L \ {a[1]}) \cup {p})
        /\ k.free[1] = m.free[1] - 1 - Short(m, SlabClass)
    BY <2>3, Zenon DEF Stage
  <2>5. ~HasPage(k)
    BY <1>1, <1>4, <2>1 DEF LargeFails, Refused
  <2>6. k.free[1] \in Nat /\ k.free[1] < 1
    BY <2>4, <2>5, NoPage
  <2>7. QED
    BY <1>1, <2>4, <2>6
<1>5. QED
  BY <1>3, <1>4

Freed(m, r, O, S, R, L, o) ==
  Mem(r, O \ {o}, S \ {o}, R, L) /\ Kept(m, r) /\ SlabPages(r) \subseteq SlabPages(m)

LEMMA MemKfree ==
  ASSUME NEW m, NEW O, NEW S, NEW R, NEW L, Mem(m, O, S, R, L), NEW o \in O, NEW r, r = Free(m, o)
  PROVE  Freed(m, r, O, S, R, L, o)
<1>1. PICK c : c = ClassOf(m, o)
  OBVIOUS
<1>2. PICK s : s = SlabOf(m, c, o)
  OBVIOUS
<1>3. PICK a : a = Unmark(m, c, s, o)
  OBVIOUS
<1>4. PICK O1 : O1 = O \ {o}
  OBVIOUS
<1>5. PICK S1 : S1 = S \ {o}
  OBVIOUS
<1>6. TakenBack(m, a, O, S, R, L, c, s, o)
  BY <1>1, <1>2, <1>3, MemTakeBack
<1>7. /\ c \in DOMAIN Classes /\ s \in 1..Len(a.cache[c].pool)
      /\ Mem(a, O1, S1, R, L) /\ SlabPages(a) = SlabPages(m) /\ OtherRings(m, a, c)
      /\ a.cache[c].total_free = m.cache[c].total_free + 1
      /\ Len(a.cache[c].pool) = Len(m.cache[c].pool)
  BY <1>4, <1>5, <1>6, Zenon DEF TakenBack
<1>8. Rings(m) /\ Rings(a)
  BY <1>7, MemRings
<1>9. Kept(m, a)
  <2>1. m.cache[c].total_free \in Nat /\ \A d \in DOMAIN Classes : Len(m.cache[d].pool) \in Nat
    BY <1>7, <1>8 DEF Rings
  <2>2. a.cache[c].total_free > 0
    BY <1>7, <2>1
  <2>3. QED
    BY <1>7, <2>1, <2>2, KeptOne
<1>10. PICK b : b = a.cache[c].pool[s]
  OBVIOUS
<1>11. PICK k : k = ReturnPage(DropSlab(a, c, s), b.page)
  OBVIOUS
<1>12. r = IF ToRelease(a, c, s) THEN FreeObjects(k, b.own) ELSE a
  BY <1>1, <1>2, <1>3, <1>10, <1>11, Zenon DEF Free
<1>13. CASE ~ToRelease(a, c, s)
  BY <1>4, <1>5, <1>7, <1>9, <1>12, <1>13 DEF Freed
<1>14. CASE ToRelease(a, c, s)
  <2>1. Released(a, k, O1, S1, R, L, c, b)
    BY <1>7, <1>10, <1>11, <1>14, MemRelease
  <2>2. PICK O2 : O2 = O1 \cup Owns(b)
    OBVIOUS
  <2>3. PICK S2 : S2 = S1 \cup Owns(b)
    OBVIOUS
  <2>4. /\ b \in SlabRecords /\ ShapedFor(c, b) /\ Owns(b) \cap O1 = {}
        /\ Mem(k, O2, S2, R, L) /\ SlabPages(k) = SlabPages(a) \ {b.page}
        /\ OtherRings(a, k, c) /\ k.cache[c].total_free > 0
    BY <2>1, <2>2, <2>3, Zenon DEF Released
  <2>5. Rings(k)
    BY <2>4, MemRings
  <2>6. Kept(a, k)
    <3>1. \A d \in DOMAIN Classes : Len(a.cache[d].pool) \in Nat
      BY <1>8 DEF Rings
    <3>2. QED
      BY <2>4, <3>1, KeptOne
  <2>7. Kept(m, k)
    BY <1>8, <1>9, <2>5, <2>6, KeptMore DEF Rings
  <2>8. SlabPages(k) \subseteq SlabPages(m)
    BY <1>7, <2>4
  <2>9. CASE b.own = <<>>
    <3>1. r = k
      BY <1>12, <1>14, <2>9 DEF FreeObjects
    <3>2. Owns(b) = {}
      BY <2>4, <2>9, OwnsIs
    <3>3. O2 = O \ {o} /\ S2 = S \ {o}
      BY <1>4, <1>5, <2>2, <2>3, <3>2
    <3>4. Mem(r, O \ {o}, S \ {o}, R, L)
      BY <2>4, <3>1, <3>3, Zenon
    <3>5. QED
      BY <2>7, <2>8, <3>1, <3>4 DEF Freed
  <2>10. CASE b.own # <<>>
    <3>1. PICK x, y \in ObjectNames : x # y /\ b.own = <<x, y>>
      BY <2>4, <2>10, Zenon DEF ShapedFor
    <3>2. Owns(b) = {x, y}
      BY <2>4, <3>1, OwnsIs, Zenon
    <3>3. PICK n : n = FreeSmall(k, y)
      OBVIOUS
    <3>4. r = FreeSmall(n, x)
      <4>1. b.own[1] = x /\ b.own[2] = y
        BY <3>1
      <4>2. QED
        BY <1>12, <1>14, <2>10, <3>3, <4>1 DEF FreeObjects
    <3>5. PICK O3 : O3 = O2 \ {y}
      OBVIOUS
    <3>6. PICK S3 : S3 = S2 \ {y}
      OBVIOUS
    <3>7. x \in S3 /\ y \in S2
      BY <2>3, <3>1, <3>2, <3>6
    <3>8. Back(k, n, O2, S2, R, L, y)
      BY <2>4, <3>3, <3>7, MemFreeSmall
    <3>9. /\ Mem(n, O3, S3, R, L) /\ Kept(k, n)
          /\ SlabPages(n) = SlabPages(k) \/ SlabPages(n) = SlabPages(k) \ {y[1]}
      BY <3>5, <3>6, <3>8, Zenon DEF Back
    <3>10. Back(n, r, O3, S3, R, L, x)
      BY <3>4, <3>7, <3>9, MemFreeSmall
    <3>11. /\ Mem(r, O3 \ {x}, S3 \ {x}, R, L) /\ Kept(n, r)
           /\ SlabPages(r) = SlabPages(n) \/ SlabPages(r) = SlabPages(n) \ {x[1]}
      BY <3>10, Zenon DEF Back
    <3>12. S1 \subseteq O1
      BY <1>7 DEF Mem, CacheSide, Possession
    <3>13. O3 \ {x} = O1 /\ S3 \ {x} = S1
      BY <2>2, <2>3, <2>4, <3>2, <3>5, <3>6, <3>12
    <3>14. Mem(r, O \ {o}, S \ {o}, R, L)
      BY <1>4, <1>5, <3>11, <3>13, Zenon
    <3>15. SlabPages(r) \subseteq SlabPages(m)
      BY <2>8, <3>9, <3>11
    <3>16. Rings(n) /\ Rings(r)
      BY <3>9, <3>14, MemRings
    <3>17. Kept(m, n)
      BY <1>8, <2>5, <2>7, <3>9, <3>16, KeptMore DEF Rings
    <3>18. Kept(m, r)
      BY <1>8, <3>11, <3>16, <3>17, KeptMore DEF Rings
    <3>19. QED
      BY <3>14, <3>15, <3>18, Zenon DEF Freed
  <2>11. QED
    BY <2>9, <2>10
<1>15. QED
  BY <1>13, <1>14
=============================================================================
