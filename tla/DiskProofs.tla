---------------------------- MODULE DiskProofs ----------------------------
(***************************************************************************)
(* The disk driver: what its queue is at every assignment of its writers,  *)
(* and that a caller of one sector that is alone waits to the end.         *)
(***************************************************************************)
EXTENDS Disk, FunctionTheorems, FiniteSetTheorems, SequenceTheorems,
        WellFoundedInduction, TLAPS

(* Any set of numbers has a least one.                                     *)
Before == {w \in Nat \X Nat : w[1] < w[2]}

LEMMA BeforeWellFounded == IsWellFoundedOn(Before, Nat)
<1>1. Before = OpToRel(<, Nat)
  BY DEF Before, OpToRel
<1>2. QED
  BY Zenon, <1>1, NatLessThanWellFounded

LEMMA LeastExists ==
  ASSUME NEW S, S \subseteq Nat, S # {}
  PROVE  \E m \in S : \A x \in S : m <= x
<1>1. PICK m \in S : \A x \in S : ~ <<x, m>> \in Before
  BY BeforeWellFounded, WFMin
<1>2. ASSUME NEW x \in S
      PROVE  m <= x
  <2>1. m \in Nat /\ x \in Nat /\ (<<x, m>> \in Before <=> x < m)
    BY DEF Before
  <2>2. QED
    BY <1>1, <2>1
<1>3. QED
  BY <1>2
-----------------------------------------------------------------------------
(* The line of nodes from a head: At is the head again after its end.      *)
At(head, s, i) == IF i \in 1..Len(s) THEN s[i] ELSE head

(* next leads along the line s and back to the head.                       *)
Along(h, head, s) ==
  \A i \in 1..Len(s) : h.next[s[i]] = At(head, s, i + 1)

(* Walk is defined by recursion: the function it takes exists, and each of *)
(* its values is the next of the one before.                               *)
Walks(f, h, head, n) ==
  f = [i \in 0..n |-> IF i = 0 THEN h.next[head] ELSE h.next[f[i - 1]]]

LEMMA WalkExists ==
  ASSUME NEW h, NEW head, NEW n \in Nat
  PROVE  \E f : Walks(f, h, head, n)
<1>1. PICK bad : bad = {m \in Nat : ~ \E f : Walks(f, h, head, m)}
  OBVIOUS
<1>2. SUFFICES ASSUME bad # {}
               PROVE  FALSE
  BY <1>1
<1>3. PICK m \in bad : \A k \in bad : m <= k
  BY <1>1, <1>2, LeastExists
<1>4. m \in Nat /\ ~ \E f : Walks(f, h, head, m)
  BY <1>1, <1>3
<1>5. CASE m = 0
  <2>1. PICK f : f = [i \in 0..0 |-> h.next[head]]
    OBVIOUS
  <2>2. \A i \in 0..0 : i = 0
    OBVIOUS
  <2>3. Walks(f, h, head, 0)
    BY <2>1, <2>2, Zenon DEF Walks
  <2>4. QED
    BY <1>4, <1>5, <2>3
<1>6. CASE m # 0
  <2>1. m - 1 \in Nat /\ m - 1 \notin bad
    BY <1>3, <1>4, <1>6
  <2>2. PICK f : Walks(f, h, head, m - 1)
    BY <1>1, <2>1
  <2>3. PICK g : g = [i \in 0..m |-> IF i = 0 THEN h.next[head] ELSE h.next[f[i - 1]]]
    OBVIOUS
  <2>4. ASSUME NEW i \in 0..(m - 1)
        PROVE  g[i] = f[i]
    <3>1. i \in 0..m
      BY <1>4
    <3>2. g[i] = IF i = 0 THEN h.next[head] ELSE h.next[f[i - 1]]
      BY <2>3, <3>1, Zenon
    <3>3. f[i] = IF i = 0 THEN h.next[head] ELSE h.next[f[i - 1]]
      BY <2>2, Zenon DEF Walks
    <3>4. QED
      BY <3>2, <3>3
  <2>5. ASSUME NEW i \in 0..m
        PROVE  g[i] = IF i = 0 THEN h.next[head] ELSE h.next[g[i - 1]]
    <3>1. g[i] = IF i = 0 THEN h.next[head] ELSE h.next[f[i - 1]]
      BY <2>3, Zenon
    <3>2. i # 0 => g[i - 1] = f[i - 1]
      <4>1. i # 0 => i - 1 \in 0..(m - 1)
        BY <1>4
      <4>2. QED
        BY <2>4, <4>1, Zenon
    <3>3. QED
      BY <3>1, <3>2, Zenon
  <2>6. Walks(g, h, head, m)
    BY <2>3, <2>5, Zenon DEF Walks
  <2>7. QED
    BY <1>4, <2>6
<1>7. QED
  BY <1>5, <1>6

LEMMA WalkSteps ==
  ASSUME NEW h, NEW head, NEW n \in Nat
  PROVE  /\ DOMAIN Walk(h, head, n) = 0..n
         /\ Walk(h, head, n)[0] = h.next[head]
         /\ \A i \in 1..n : Walk(h, head, n)[i] = h.next[Walk(h, head, n)[i - 1]]
<1>1. PICK w : w = Walk(h, head, n)
  OBVIOUS
<1>2. w = CHOOSE f : f = [i \in 0..n |-> IF i = 0 THEN h.next[head] ELSE h.next[f[i - 1]]]
  BY <1>1 DEF Walk
<1>3. w = CHOOSE f : Walks(f, h, head, n)
  BY <1>2 DEF Walks
<1>4. Walks(w, h, head, n)
  BY <1>3, WalkExists
<1>5. 0 \in 0..n /\ \A i \in 1..n : i \in 0..n /\ i # 0
  OBVIOUS
<1>6. DOMAIN w = 0..n /\ w[0] = h.next[head] /\ \A i \in 1..n : w[i] = h.next[w[i - 1]]
  <2>1. DOMAIN w = 0..n
    BY <1>4, Zenon DEF Walks
  <2>2. \A i \in 0..n : w[i] = IF i = 0 THEN h.next[head] ELSE h.next[w[i - 1]]
    BY <1>4, Zenon DEF Walks
  <2>3. QED
    BY <1>5, <2>1, <2>2, Zenon
<1>7. QED
  BY <1>1, <1>6

(* A walk that begins at the j-th node of a line follows the line.         *)
LEMMA WalkAlong ==
  ASSUME NEW h, NEW head, NEW n \in Nat, NEW S, NEW s \in Seq(S), Along(h, head, s),
         NEW j \in 1..(Len(s) + 1), h.next[head] = At(head, s, j)
  PROVE  \A d \in 0..n : j + d <= Len(s) + 1 => Walk(h, head, n)[d] = At(head, s, j + d)
<1>0. Len(s) \in Nat /\ j \in Nat
  OBVIOUS
<1>1. PICK bad : bad = {d \in 0..n : j + d <= Len(s) + 1 /\ Walk(h, head, n)[d] # At(head, s, j + d)}
  OBVIOUS
<1>2. SUFFICES ASSUME bad # {}
               PROVE  FALSE
  BY <1>1
<1>3. bad \subseteq Nat
  BY <1>1
<1>4. PICK m \in bad : \A k \in bad : m <= k
  BY <1>2, <1>3, LeastExists
<1>5. m \in 0..n /\ j + m <= Len(s) + 1 /\ Walk(h, head, n)[m] # At(head, s, j + m)
  BY <1>1, <1>4
<1>6. CASE m = 0
  <2>1. j + 0 = j
    BY <1>0
  <2>2. QED
    BY <1>5, <1>6, <2>1, WalkSteps
<1>7. CASE m # 0
  <2>1. m \in 1..n /\ m - 1 \in 0..n /\ (j + m) - 1 = j + (m - 1) /\ j + (m - 1) <= Len(s)
        /\ j + (m - 1) \in 1..Len(s) /\ (j + (m - 1)) + 1 = j + m /\ ~(m <= m - 1)
    BY <1>0, <1>5, <1>7
  <2>2. m - 1 \notin bad /\ j + (m - 1) <= Len(s) + 1
    BY <1>0, <1>4, <2>1
  <2>3. Walk(h, head, n)[m - 1] = At(head, s, j + (m - 1))
    BY <1>1, <2>1, <2>2
  <2>4. At(head, s, j + (m - 1)) = s[j + (m - 1)]
    BY <2>1 DEF At
  <2>5. Walk(h, head, n)[m] = h.next[s[j + (m - 1)]]
    BY <2>1, <2>3, <2>4, WalkSteps
  <2>6. h.next[s[j + (m - 1)]] = At(head, s, (j + (m - 1)) + 1)
    BY <2>1, Zenon DEF Along
  <2>7. QED
    BY <1>5, <2>1, <2>5, <2>6
<1>8. QED
  BY <1>6, <1>7

(* It never leaves the line and the head.                                  *)
LEMMA WalkStays ==
  ASSUME NEW h, NEW head, NEW n \in Nat, NEW S, NEW s \in Seq(S), Along(h, head, s),
         NEW j \in 1..(Len(s) + 1), h.next[head] = At(head, s, j)
  PROVE  \A d \in 0..n : \E i \in 1..(Len(s) + 1) : Walk(h, head, n)[d] = At(head, s, i)
<1>0. Len(s) \in Nat /\ j \in Nat
  OBVIOUS
<1>1. PICK bad : bad = {d \in 0..n : ~ \E i \in 1..(Len(s) + 1) : Walk(h, head, n)[d] = At(head, s, i)}
  OBVIOUS
<1>2. SUFFICES ASSUME bad # {}
               PROVE  FALSE
  BY <1>1
<1>3. bad \subseteq Nat
  BY <1>1
<1>4. PICK m \in bad : \A k \in bad : m <= k
  BY <1>2, <1>3, LeastExists
<1>5. m \in 0..n /\ ~ \E i \in 1..(Len(s) + 1) : Walk(h, head, n)[m] = At(head, s, i)
  BY <1>1, <1>4
<1>6. m # 0
  BY <1>5, WalkSteps
<1>7. m \in 1..n /\ m - 1 \in 0..n /\ ~(m <= m - 1)
  BY <1>5, <1>6
<1>8. PICK i \in 1..(Len(s) + 1) : Walk(h, head, n)[m - 1] = At(head, s, i)
  BY <1>1, <1>4, <1>7
<1>9. Walk(h, head, n)[m] = h.next[At(head, s, i)]
  BY <1>7, <1>8, WalkSteps
<1>10. CASE i \in 1..Len(s)
  <2>1. At(head, s, i) = s[i] /\ i + 1 \in 1..(Len(s) + 1)
    BY <1>0, <1>10 DEF At
  <2>2. Walk(h, head, n)[m] = At(head, s, i + 1)
    BY <1>9, <1>10, <2>1 DEF Along
  <2>3. QED
    BY <1>5, <2>1, <2>2
<1>11. CASE i \notin 1..Len(s)
  BY <1>5, <1>9, <1>11 DEF At
<1>12. QED
  BY <1>10, <1>11
(* The disk's queue q as the heap has it: forth along next, back along     *)
(* prev.                                                                   *)
Forth(h, q) == Along(h, 0, q) /\ h.next[0] = At(0, q, 1)

Back(h, q) ==
  /\ h.prev[0] = At(0, q, Len(q))
  /\ \A i \in 1..Len(q) : h.prev[q[i]] = At(0, q, i - 1)

Apart(q) == \A i, k \in 1..Len(q) : q[i] = q[k] => i = k

Places == {"idle", "add1", "add2", "add3", "add4", "load", "store", "flag", "test",
           "take", "del1", "del2", "unload", "unstore", "busy", "wait"}
Several == {r \in 1..Len(sectors) : sectors[r] > 1}

DiskShape ==
  /\ TypeOK
  /\ at \in [Callers -> Places] /\ reg \in [Callers -> Int]
  /\ sectors \in Seq(1..MaxSectors) /\ Len(sectors) <= MaxRequests
  /\ ended \subseteq 1..Len(sectors) /\ order \in Seq(1..Len(sectors))
  /\ clash \in BOOLEAN /\ crashed \in BOOLEAN
  /\ disk.left > 0 \/ disk.drq =>
       disk.node \in 1..Len(sectors) /\ disk.left + (IF disk.drq THEN 1 ELSE 0) <= sectors[disk.node]
  /\ crashed => Several # {}
  /\ early \subseteq company \cup Several

OneSubmits == \A c, d \in Callers : Submitting(c) /\ Submitting(d) => c = d

(* Whose request is which, whatever is in use.                             *)
Adding(c) == at[c] \in {"add1", "add2", "add3", "add4"}
Known(c) ==
  /\ at[c] # "idle" => node[c] \in 1..Len(sectors)
  /\ Submitting(c) => node[c] = Len(sectors)
  /\ Adding(c) => node[c] \in Live /\ \A i \in 1..Len(order) : order[i] # node[c]
  /\ at[c] \in {"load", "store"} => node[c] \in Live
  /\ at[c] = "take" => in_using = NULL
  /\ at[c] \notin {"idle", "add1", "add2", "add3", "add4", "load", "store", "flag"}
       /\ node[c] \notin ended \cup company \cup Several => disk_flags = 1

Started == \E c \in Callers : Taking(c) \/ at[c] = "busy"    \* in use, without its command
Idle == disk.left = 0 /\ ~disk.drq /\ ~irq
Doing(r) ==
  /\ disk.node = r
  /\ (disk.left = 1 /\ ~disk.drq /\ ~irq) \/ (disk.left = 0 /\ disk.drq /\ irq)

DriveOK == Several = {} => IF in_using \in {NULL, 0} \/ Started THEN Idle ELSE Doing(in_using)

LoneRequest(r) ==
  /\ r \in ended => r \in moved
  /\ r \notin ended =>
       /\ r = Len(sectors) /\ Live = {r}
       /\ IF in_using = r /\ ~Started THEN Doing(r) ELSE Idle
Lonely == \A r \in 1..Len(sectors) : r \notin company /\ r \notin Several => LoneRequest(r)

OrderOK == Apart(order) /\ \A i \in 1..Len(order) : order[i] \in Live

Works == {"load", "store", "flag", "test", "take"}    \* who works on what it queued
CallerOK(c) ==
  /\ at[c] \in {"load", "store"} => Queued # <<>> /\ Queued[Len(Queued)] = node[c]
  /\ at[c] = "store" => reg[c] = block_request_count
  /\ at[c] = "unstore" => reg[c] = 1
  /\ at[c] \in {"flag", "test"} =>
       (order = <<>> /\ late # {}) \/ (order # <<>> /\ order[Len(order)] = node[c])
  /\ at[c] = "take" => order # <<>> \/ late # {}
  /\ Taking(c) => in_using = node[c] /\ Len(order) = 1
  /\ at[c] = "busy" => \/ in_using = node[c] /\ Len(order) = 1
                       \/ in_using = NULL /\ order = <<>> /\ Several # {} /\ node[c] \in ended

InUse ==
  /\ in_using # NULL => order # <<>> /\ in_using = order[1]
  /\ in_using = NULL /\ order # <<>> =>
       /\ Len(order) = 1
       /\ \E c \in Callers : at[c] \in Works /\ order[1] = node[c]

Half(c) == at[c] \in {"add3", "add4"}     \* linked by next, not yet by prev
Deleting(c) == at[c] \in {"del1", "del2"}
Lists ==
  /\ (\A c \in Callers : ~Half(c) /\ ~Deleting(c)) => Forth(heap, Queued)
  /\ \A c \in Callers : Half(c) => Forth(heap, Append(Queued, node[c]))
  /\ (\A c \in Callers : ~Deleting(c)) => Back(heap, Queued)
  /\ \A c \in Callers : at[c] = "add2" => heap.next[node[c]] = 0
  /\ \A c \in Callers : at[c] = "add4" => heap.prev[node[c]] = At(0, Queued, Len(Queued))
  /\ \A c \in Callers : Deleting(c) =>
       /\ heap.next[0] = node[c] /\ heap.next[node[c]] = 0 /\ heap.prev[node[c]] = 0
       /\ heap.prev[0] = IF at[c] = "del1" THEN node[c] ELSE 0

Counted ==
  block_request_count =
    IF Counting THEN Len(Queued) - 1
    ELSE IF \E c \in Callers : Taking(c) THEN Len(Queued) + 1 ELSE Len(Queued)

(* The same as the one who submits sees it.                                *)
UseOf(c) ==
  /\ in_using # NULL => order # <<>> /\ in_using = order[1]
  /\ in_using = NULL /\ order # <<>> => Len(order) = 1 /\ at[c] \in Works /\ order[1] = node[c]

ListsOf(c) ==
  /\ ~Half(c) /\ ~Deleting(c) => Forth(heap, Queued)
  /\ Half(c) => Forth(heap, Append(Queued, node[c]))
  /\ ~Deleting(c) => Back(heap, Queued)
  /\ at[c] = "add2" => heap.next[node[c]] = 0
  /\ at[c] = "add4" => heap.prev[node[c]] = At(0, Queued, Len(Queued))
  /\ Deleting(c) =>
       /\ heap.next[0] = node[c] /\ heap.next[node[c]] = 0 /\ heap.prev[node[c]] = 0
       /\ heap.prev[0] = IF at[c] = "del1" THEN node[c] ELSE 0

CountOf(c) ==
  block_request_count =
    IF at[c] \in {"load", "store"} THEN Len(Queued) - 1
    ELSE IF Taking(c) THEN Len(Queued) + 1 ELSE Len(Queued)

OneQueue(c) == OrderOK /\ CallerOK(c) /\ UseOf(c) /\ ListsOf(c) /\ CountOf(c)

QueueWork == OrderOK /\ (\A c \in Callers : CallerOK(c)) /\ InUse /\ Lists /\ Counted

DiskWork ==
  /\ OneSubmits /\ (\A c \in Callers : Known(c)) /\ DriveOK /\ Lonely
  /\ in_using = 0 => late # {}
  /\ in_using # 0 => QueueWork

DiskInv == DiskShape /\ (~clash => DiskWork)
-----------------------------------------------------------------------------
LEMMA DiskNumbers ==
  /\ MaxRequests \in Nat /\ MaxSectors \in Nat /\ NULL \notin Nodes /\ Nodes = 0..MaxRequests /\ 0 \in Nodes
  /\ \A n \in Nodes : n \in Nat
BY DiskAssumption DEF Nodes

Heaps == [next : [Nodes -> Nodes], prev : [Nodes -> Nodes]]
Numbers1 == Nodes \ {0}

Set(h, field, n, v) == [h EXCEPT ![field] = [@ EXCEPT ![n] = v]]

(* A pointer that the queue does not look at.                              *)
LEMMA SetNext ==
  ASSUME NEW h \in Heaps, NEW q \in Seq(Numbers1), NEW n \in Nodes, NEW v \in Nodes
  PROVE  /\ Set(h, "next", n, v) \in Heaps /\ Set(h, "next", n, v).prev = h.prev /\ Set(h, "next", n, v).next[n] = v
         /\ \A m \in Nodes : m # n => Set(h, "next", n, v).next[m] = h.next[m]
         /\ n # 0 /\ (\A i \in 1..Len(q) : q[i] # n) /\ Forth(h, q) => Forth(Set(h, "next", n, v), q)
         /\ Back(h, q) => Back(Set(h, "next", n, v), q)
<1>0. PICK g : g = Set(h, "next", n, v)
  OBVIOUS
<1>1. /\ h.next \in [Nodes -> Nodes] /\ h.prev \in [Nodes -> Nodes]
      /\ g.next = [h.next EXCEPT ![n] = v] /\ g.prev = h.prev /\ g \in Heaps
  BY <1>0 DEF Heaps, Set
<1>2. g.next[n] = v /\ \A m \in Nodes : m # n => g.next[m] = h.next[m]
  BY <1>1
<1>3. \A i \in 1..Len(q) : q[i] \in Nodes
  BY DEF Numbers1
<1>4. 0 \in Nodes
  BY DiskNumbers
<1>5. ASSUME n # 0, \A i \in 1..Len(q) : q[i] # n, Forth(h, q)
      PROVE  Forth(g, q)
  BY <1>2, <1>3, <1>4, <1>5 DEF Forth, Along
<1>6. Back(h, q) => Back(g, q)
  BY <1>1 DEF Back
<1>7. QED
  BY <1>0, <1>1, <1>2, <1>5, <1>6

LEMMA SetPrev ==
  ASSUME NEW h \in Heaps, NEW q \in Seq(Numbers1), NEW n \in Nodes, NEW v \in Nodes
  PROVE  /\ Set(h, "prev", n, v) \in Heaps /\ Set(h, "prev", n, v).next = h.next /\ Set(h, "prev", n, v).prev[n] = v
         /\ \A m \in Nodes : m # n => Set(h, "prev", n, v).prev[m] = h.prev[m]
         /\ n # 0 /\ (\A i \in 1..Len(q) : q[i] # n) /\ Back(h, q) => Back(Set(h, "prev", n, v), q)
         /\ Forth(h, q) => Forth(Set(h, "prev", n, v), q)
<1>0. PICK g : g = Set(h, "prev", n, v)
  OBVIOUS
<1>1. /\ h.next \in [Nodes -> Nodes] /\ h.prev \in [Nodes -> Nodes]
      /\ g.prev = [h.prev EXCEPT ![n] = v] /\ g.next = h.next /\ g \in Heaps
  BY <1>0 DEF Heaps, Set
<1>2. g.prev[n] = v /\ \A m \in Nodes : m # n => g.prev[m] = h.prev[m]
  BY <1>1
<1>3. \A i \in 1..Len(q) : q[i] \in Nodes
  BY DEF Numbers1
<1>4. 0 \in Nodes
  BY DiskNumbers
<1>5. ASSUME n # 0, \A i \in 1..Len(q) : q[i] # n, Back(h, q)
      PROVE  Back(g, q)
  BY <1>2, <1>3, <1>4, <1>5 DEF Back
<1>6. Forth(h, q) => Forth(g, q)
  BY <1>1 DEF Forth, Along
<1>7. QED
  BY <1>0, <1>1, <1>2, <1>5, <1>6

(* The last node of the queue, or the head.                                *)
LEMMA Appended ==
  ASSUME NEW q \in Seq(Numbers1), NEW n \in Numbers1
  PROVE  /\ Append(q, n) \in Seq(Numbers1) /\ Len(Append(q, n)) = Len(q) + 1 /\ Len(q) \in Nat
         /\ \A i \in 1..Len(q) : Append(q, n)[i] = q[i]
         /\ Append(q, n)[Len(q) + 1] = n
         /\ At(0, Append(q, n), Len(q) + 1) = n /\ At(0, Append(q, n), Len(q) + 2) = 0
         /\ \A i \in 0..Len(q) : At(0, Append(q, n), i) = At(0, q, i)
         /\ At(0, q, Len(q) + 1) = 0 /\ At(0, q, 0) = 0
<1>1. /\ Append(q, n) \in Seq(Numbers1) /\ Len(Append(q, n)) = Len(q) + 1 /\ Len(q) \in Nat
      /\ \A i \in 1..Len(q) : Append(q, n)[i] = q[i]
      /\ Append(q, n)[Len(q) + 1] = n
  OBVIOUS
<1>2. Len(q) + 1 \in 1..(Len(q) + 1) /\ Len(q) + 2 \notin 1..(Len(q) + 1) /\ Len(q) + 1 \notin 1..Len(q) /\ 0 \notin 1..Len(q) /\ 0 \notin 1..(Len(q) + 1)
  BY <1>1
<1>3. \A i \in 0..Len(q) : i \in 1..Len(q) \/ i = 0
  BY <1>1
<1>4. \A i \in 1..Len(q) : i \in 1..(Len(q) + 1)
  BY <1>1
<1>5. QED
  BY <1>1, <1>2, <1>3, <1>4 DEF At

LEMMA LastIs ==
  ASSUME NEW q \in Seq(Numbers1)
  PROVE  /\ Len(q) \in Nat
         /\ Len(q) = 0 => At(0, q, Len(q)) = 0 /\ At(0, q, 1) = 0
         /\ Len(q) # 0 => Len(q) \in 1..Len(q) /\ 1 \in 1..Len(q)
                          /\ At(0, q, Len(q)) = q[Len(q)] /\ At(0, q, 1) = q[1]
         /\ At(0, q, Len(q)) \in Nodes
<1>1. Len(q) \in Nat /\ \A i \in 1..Len(q) : q[i] \in Nodes
  BY DEF Numbers1
<1>2. Len(q) # 0 => Len(q) \in 1..Len(q) /\ 1 \in 1..Len(q)
  BY <1>1
<1>3. Len(q) = 0 => Len(q) \notin 1..Len(q) /\ 1 \notin 1..Len(q)
  BY <1>1
<1>4. QED
  BY <1>1, <1>2, <1>3, DiskNumbers DEF At

(* list_add_to_before: the second assignment links the node forth, the     *)
(* last one back.                                                          *)
LEMMA LinkForth ==
  ASSUME NEW h \in Heaps, NEW q \in Seq(Numbers1), Apart(q), NEW n \in Numbers1,
         \A i \in 1..Len(q) : q[i] # n,
         Forth(h, q), Back(h, q), h.next[n] = 0,
         NEW g, g = Set(h, "next", h.prev[0], n)
  PROVE  Forth(g, Append(q, n)) /\ Back(g, q)
<1>1. h.prev[0] = At(0, q, Len(q)) /\ At(0, q, Len(q)) \in Nodes /\ n \in Nodes /\ n # 0
  BY LastIs DEF Back, Numbers1
<1>2. PICK l \in Nodes : l = h.prev[0]
  BY <1>1
<1>3. /\ g \in Heaps /\ g.prev = h.prev /\ g.next[l] = n
      /\ \A m \in Nodes : m # l => g.next[m] = h.next[m]
      /\ Back(g, q)
  <2>1. g = Set(h, "next", l, n) /\ l \in Nodes /\ n \in Nodes /\ h \in Heaps /\ q \in Seq(Numbers1)
    BY <1>1, <1>2
  <2>2. /\ Set(h, "next", l, n) \in Heaps /\ Set(h, "next", l, n).prev = h.prev
        /\ Set(h, "next", l, n).next[l] = n
        /\ \A m \in Nodes : m # l => Set(h, "next", l, n).next[m] = h.next[m]
        /\ Back(h, q) => Back(Set(h, "next", l, n), q)
    BY <1>1, SetNext
  <2>3. QED
    BY <2>1, <2>2, Zenon
<1>4. \A i \in 1..Len(q) : q[i] \in Nodes /\ q[i] # 0
  BY DEF Numbers1
<1>5. /\ Len(Append(q, n)) = Len(q) + 1 /\ Len(q) \in Nat
      /\ \A i \in 1..Len(q) : Append(q, n)[i] = q[i]
      /\ Append(q, n)[Len(q) + 1] = n
      /\ At(0, Append(q, n), Len(q) + 1) = n /\ At(0, Append(q, n), Len(q) + 2) = 0
      /\ \A i \in 0..Len(q) : At(0, Append(q, n), i) = At(0, q, i)
  BY Appended
<1>6. l # n
  BY <1>1, <1>2, LastIs
<1>7. ASSUME NEW i \in 1..(Len(q) + 1)
      PROVE  g.next[Append(q, n)[i]] = At(0, Append(q, n), i + 1)
  <2>1. CASE i = Len(q) + 1
    <3>1. g.next[n] = 0
      BY <1>1, <1>3, <1>6
    <3>2. i + 1 = Len(q) + 2
      BY <1>5, <2>1
    <3>3. QED
      BY <1>5, <2>1, <3>1, <3>2
  <2>2. CASE i = Len(q) /\ i # 0
    <3>1. i \in 1..Len(q) /\ q[i] = l
      BY <1>1, <1>2, <2>2, LastIs
    <3>2. QED
      BY <1>3, <1>5, <2>2, <3>1
  <2>3. CASE i < Len(q)
    <3>1. i \in 1..Len(q) /\ i + 1 \in 1..Len(q) /\ i + 1 \in 0..Len(q) /\ Len(q) \in 1..Len(q) /\ Len(q) # 0
      BY <1>5, <2>3
    <3>2. q[i] # l
      BY <1>1, <1>2, <2>3, <3>1, LastIs DEF Apart
    <3>3. g.next[q[i]] = At(0, q, i + 1)
      BY <1>3, <1>4, <3>1, <3>2 DEF Forth, Along
    <3>4. QED
      BY <1>5, <3>1, <3>3
  <2>4. QED
    BY <1>5, <2>1, <2>2, <2>3
<1>8. g.next[0] = At(0, Append(q, n), 1)
  <2>1. CASE Len(q) = 0
    <3>0. Len(q) = 0 => At(0, q, Len(q)) = 0
      BY LastIs
    <3>1. l = 0 /\ Len(q) + 1 = 1
      BY <1>1, <1>2, <2>1, <3>0
    <3>2. QED
      BY <1>3, <1>5, <3>1
  <2>2. CASE Len(q) # 0
    <3>1. l # 0 /\ 1 \in 0..Len(q)
      BY <1>1, <1>2, <1>4, <1>5, <2>2, LastIs
    <3>2. QED
      BY <1>3, <1>5, <3>1, DiskNumbers DEF Forth
  <2>3. QED
    BY <2>1, <2>2
<1>9. QED
  BY <1>3, <1>5, <1>7, <1>8 DEF Forth, Along

LEMMA LinkBack ==
  ASSUME NEW h \in Heaps, NEW q \in Seq(Numbers1), NEW n \in Numbers1,
         Back(h, q), h.prev[n] = At(0, q, Len(q)),
         NEW g, g = Set(h, "prev", 0, n)
  PROVE  Back(g, Append(q, n))
<1>1. n \in Nodes /\ n # 0 /\ 0 \in Nodes
  BY DiskNumbers DEF Numbers1
<1>2. /\ g.prev[0] = n
      /\ \A m \in Nodes : m # 0 => g.prev[m] = h.prev[m]
  BY <1>1, SetPrev
<1>3. \A i \in 1..Len(q) : q[i] \in Nodes /\ q[i] # 0
  BY DEF Numbers1
<1>4. /\ Len(Append(q, n)) = Len(q) + 1 /\ Len(q) \in Nat
      /\ \A i \in 1..Len(q) : Append(q, n)[i] = q[i]
      /\ Append(q, n)[Len(q) + 1] = n
      /\ At(0, Append(q, n), Len(q) + 1) = n
      /\ \A i \in 0..Len(q) : At(0, Append(q, n), i) = At(0, q, i)
  BY Appended
<1>5. ASSUME NEW i \in 1..(Len(q) + 1)
      PROVE  g.prev[Append(q, n)[i]] = At(0, Append(q, n), i - 1)
  <2>1. CASE i = Len(q) + 1
    <3>1. i - 1 = Len(q) /\ Len(q) \in 0..Len(q)
      BY <1>4, <2>1
    <3>2. QED
      BY <1>1, <1>2, <1>4, <2>1, <3>1
  <2>2. CASE i # Len(q) + 1
    <3>1. i \in 1..Len(q) /\ i - 1 \in 0..Len(q)
      BY <1>4, <2>2
    <3>2. g.prev[q[i]] = At(0, q, i - 1)
      BY <1>2, <1>3, <3>1 DEF Back
    <3>3. QED
      BY <1>4, <3>1, <3>2
  <2>3. QED
    BY <2>1, <2>2
<1>6. QED
  BY <1>2, <1>4, <1>5 DEF Back

(* list_del of the first.                                                  *)
LEMMA TailIs ==
  ASSUME NEW S, NEW q \in Seq(S), q # <<>>
  PROVE  /\ Tail(q) \in Seq(S) /\ Len(q) \in Nat /\ Len(q) > 0 /\ Len(Tail(q)) = Len(q) - 1 /\ Head(q) = q[1]
         /\ 1 \in 1..Len(q) /\ \A i \in 1..(Len(q) - 1) : Tail(q)[i] = q[i + 1] /\ i + 1 \in 1..Len(q)
<1>1. Len(q) \in Nat /\ Len(q) > 0 /\ Tail(q) \in Seq(S) /\ Len(Tail(q)) = Len(q) - 1 /\ Head(q) = q[1]
  OBVIOUS
<1>2. 1 \in 1..Len(q) /\ \A i \in 1..(Len(q) - 1) : i + 1 \in 1..Len(q)
  BY <1>1
<1>3. \A i \in 1..(Len(q) - 1) : Tail(q)[i] = q[i + 1]
  BY <1>1
<1>4. QED
  BY <1>1, <1>2, <1>3

LEMMA TailAt ==
  ASSUME NEW q \in Seq(Numbers1), q # <<>>
  PROVE  \A i \in 1..Len(q) : At(0, Tail(q), i) = At(0, q, i + 1)
<1> SUFFICES ASSUME NEW i \in 1..Len(q)
             PROVE  At(0, Tail(q), i) = At(0, q, i + 1)
  OBVIOUS
<1>0. Len(q) \in Nat
  OBVIOUS
<1>1. /\ Len(q) \in Nat /\ Len(q) > 0 /\ Len(Tail(q)) = Len(q) - 1
      /\ \A k \in 1..(Len(q) - 1) : Tail(q)[k] = q[k + 1] /\ k + 1 \in 1..Len(q)
  BY TailIs
<1>2. CASE i = Len(q)
  <2>1. i \notin 1..(Len(q) - 1) /\ i + 1 \notin 1..Len(q)
    BY <1>1, <1>2
  <2>2. QED
    BY <1>1, <2>1 DEF At
<1>3. CASE i # Len(q)
  <2>1. i \in 1..(Len(q) - 1)
    BY <1>0, <1>3
  <2>2. QED
    BY <1>1, <2>1 DEF At
<1>4. QED
  BY <1>2, <1>3

LEMMA DeleteFirst ==
  ASSUME NEW h \in Heaps, NEW q \in Seq(Numbers1), Apart(q), q # <<>>, Forth(h, q), Back(h, q)
  PROVE  /\ h.next[0] = q[1]
         /\ list_del(h, h.next[0]) \in Heaps
         /\ Forth(list_del(h, h.next[0]), Tail(q)) /\ Back(list_del(h, h.next[0]), Tail(q))
<1>1. /\ Len(q) \in Nat /\ Len(q) > 0 /\ 1 \in 1..Len(q)
      /\ Tail(q) \in Seq(Numbers1) /\ Len(Tail(q)) = Len(q) - 1
      /\ \A i \in 1..(Len(q) - 1) : Tail(q)[i] = q[i + 1] /\ i + 1 \in 1..Len(q)
  BY TailIs
<1>2. \A i \in 1..Len(q) : q[i] \in Nodes /\ q[i] # 0
  BY DEF Numbers1
<1>3. PICK n \in Nodes : n = q[1] /\ n # 0
  BY <1>1, <1>2
<1>4. h.next[0] = n
  BY <1>1, <1>3 DEF Forth, At
<1>5. h.prev[n] = 0
  <2>1. h.prev[n] = At(0, q, 1 - 1) /\ 1 - 1 = 0 /\ 0 \notin 1..Len(q)
    BY <1>1, <1>3 DEF Back
  <2>2. QED
    BY <2>1 DEF At
<1>6. PICK y \in Nodes : y = h.next[n]
  BY <1>3 DEF Heaps
<1>7. y = At(0, q, 2)
  <2>1. 1 + 1 = 2
    OBVIOUS
  <2>2. QED
    BY <1>1, <1>3, <1>6, <2>1 DEF Forth, Along
<1>8. y # n
  BY <1>1, <1>3, <1>7 DEF At, Apart
<1>9. PICK g : g = list_del(h, n)
  OBVIOUS
<1>10. /\ h.next \in [Nodes -> Nodes] /\ h.prev \in [Nodes -> Nodes] /\ 0 \in Nodes
  BY DiskNumbers DEF Heaps
<1>11. g.prev = [h.prev EXCEPT ![y] = 0] /\ g.next = [h.next EXCEPT ![0] = y] /\ g = [next |-> g.next, prev |-> g.prev]
  <2>1. [h.prev EXCEPT ![y] = 0][n] = 0
    BY <1>3, <1>5, <1>8, <1>10
  <2>2. QED
    BY <1>5, <1>6, <1>9, <2>1 DEF list_del
<1>12. /\ g \in Heaps /\ g.next[0] = y /\ \A m \in Nodes : m # 0 => g.next[m] = h.next[m]
       /\ g.prev[y] = 0 /\ \A m \in Nodes : m # y => g.prev[m] = h.prev[m]
  <2>1. g.next \in [Nodes -> Nodes] /\ g.prev \in [Nodes -> Nodes]
    BY <1>6, <1>10, <1>11
  <2>2. g \in Heaps
    BY <1>11, <2>1 DEF Heaps
  <2>3. QED
    BY <1>6, <1>10, <1>11, <2>2
<1>13. \A i \in 1..Len(q) : At(0, Tail(q), i) = At(0, q, i + 1)
  BY TailAt
<1>14. Forth(g, Tail(q))
  <2>1. ASSUME NEW i \in 1..(Len(q) - 1)
        PROVE  g.next[Tail(q)[i]] = At(0, Tail(q), i + 1)
    <3>1. Tail(q)[i] = q[i + 1] /\ i + 1 \in 1..Len(q)
      BY <1>1
    <3>2. g.next[q[i + 1]] = At(0, q, (i + 1) + 1)
      BY <1>2, <1>12, <3>1 DEF Forth, Along
    <3>3. QED
      BY <1>13, <3>1, <3>2
  <2>2. g.next[0] = At(0, Tail(q), 1)
    <3>1. At(0, Tail(q), 1) = At(0, q, 1 + 1) /\ 1 + 1 = 2
      BY <1>1, <1>13
    <3>2. QED
      BY <1>7, <1>12, <3>1
  <2>3. QED
    BY <1>1, <2>1, <2>2 DEF Forth, Along
<1>15. Back(g, Tail(q))
  <2>1. ASSUME NEW i \in 1..(Len(q) - 1)
        PROVE  g.prev[Tail(q)[i]] = At(0, Tail(q), i - 1)
    <3>1. Tail(q)[i] = q[i + 1] /\ i + 1 \in 1..Len(q)
      BY <1>1
    <3>2. CASE i = 1
      <4>1. q[i + 1] = y
        BY <1>7, <3>1, <3>2 DEF At
      <4>2. i - 1 \notin 1..Len(Tail(q))
        BY <1>1, <3>2
      <4>3. QED
        BY <1>12, <3>1, <4>1, <4>2 DEF At
    <3>3. CASE i # 1
      <4>1. i - 1 \in 1..Len(q) /\ i \in 1..Len(q) /\ (i - 1) + 1 = i /\ (i + 1) - 1 = i /\ 2 \in 1..Len(q) /\ i + 1 # 2
        BY <1>1, <3>3
      <4>2. q[i + 1] # y
        BY <1>7, <3>1, <4>1 DEF At, Apart
      <4>3. g.prev[q[i + 1]] = At(0, q, i)
        BY <1>2, <1>12, <3>1, <4>1, <4>2 DEF Back
      <4>4. At(0, Tail(q), i - 1) = At(0, q, i)
        BY <1>13, <4>1
      <4>5. QED
        BY <3>1, <4>3, <4>4
    <3>4. QED
      BY <3>2, <3>3
  <2>2. g.prev[0] = At(0, Tail(q), Len(Tail(q)))
    <3>1. CASE Len(q) = 1
      <4>1. Len(Tail(q)) = 0 /\ 2 \notin 1..1 /\ 0 \notin 1..0
        BY <1>1, <3>1
      <4>3. y = 0 /\ Len(Tail(q)) \notin 1..Len(Tail(q))
        BY <1>7, <3>1, <4>1, Zenon DEF At
      <4>2. QED
        BY <1>12, <4>3 DEF At
    <3>2. CASE Len(q) # 1
      <4>1. 2 \in 1..Len(q) /\ Len(q) - 1 \in 1..Len(q) /\ (Len(q) - 1) + 1 = Len(q) /\ Len(q) \in 1..Len(q)
        BY <1>1, <3>2
      <4>2. y # 0
        BY <1>2, <1>7, <4>1 DEF At
      <4>3. g.prev[0] = q[Len(q)]
        BY <1>10, <1>12, <4>1, <4>2 DEF Back, At
      <4>4. QED
        BY <1>1, <1>13, <4>1, <4>3 DEF At
    <3>3. QED
      BY <3>1, <3>2
  <2>3. QED
    BY <1>1, <2>1, <2>2 DEF Back
<1>16. QED
  BY <1>3, <1>4, <1>9, <1>12, <1>14, <1>15
LEMMA RemovesFirst ==
  ASSUME NEW S, NEW q \in Seq(S), q # <<>>, Apart(q)
  PROVE  RemoveFirst(q, q[1]) = Tail(q)
<1>1. Len(q) \in Nat /\ Len(q) > 0 /\ 1 \in 1..Len(q)
  BY TailIs
<1>2. PICK I : I = {i \in 1..Len(q) : q[i] = q[1]}
  OBVIOUS
<1>3. I = {1}
  BY <1>1, <1>2 DEF Apart
<1>4. Min(I) = 1
  <2>1. \A x : x \in I /\ (\A y \in I : x =< y) <=> x = 1
    BY <1>3
  <2>2. QED
    BY <2>1 DEF Min
<1>5. RemoveFirst(q, q[1]) = RemoveAt(q, 1)
  BY <1>1, <1>2, <1>3, <1>4 DEF RemoveFirst, SelectInSeq
<1>6. RemoveAt(q, 1) = SubSeq(q, 1, 0) \o SubSeq(q, 2, Len(q))
  <2>1. 1 - 1 = 0 /\ 1 + 1 = 2
    OBVIOUS
  <2>2. QED
    BY <2>1, Zenon DEF RemoveAt
<1>7. SubSeq(q, 1, 0) = <<>>
  BY <1>1
<1>8. SubSeq(q, 2, Len(q)) = Tail(q)
  BY <1>1
<1>9. QED
  BY <1>5, <1>6, <1>7, <1>8

LEMMA TailOfAppend ==
  ASSUME NEW S, NEW q \in Seq(S), q # <<>>, NEW n \in S
  PROVE  Tail(Append(q, n)) = Append(Tail(q), n)
OBVIOUS

LEMMA DelHeaps ==
  ASSUME NEW h \in Heaps, NEW n \in Nodes
  PROVE  list_del(h, n) \in Heaps
<1>1. h.next \in [Nodes -> Nodes] /\ h.prev \in [Nodes -> Nodes]
  BY DEF Heaps
<1>2. PICK back \in [Nodes -> Nodes] : back = [h.prev EXCEPT ![h.next[n]] = h.prev[n]]
  BY <1>1
<1>3. PICK forth \in [Nodes -> Nodes] : forth = [h.next EXCEPT ![back[n]] = h.next[n]]
  BY <1>1, <1>2
<1>4. list_del(h, n) = [next |-> forth, prev |-> back]
  BY <1>2, <1>3 DEF list_del
<1>5. QED
  BY <1>4 DEF Heaps
-----------------------------------------------------------------------------
LEMMA QueueOK ==
  ASSUME DiskInv, ~clash, in_using # 0
  PROVE  /\ Queued \in Seq(1..Len(sectors)) /\ Queued \in Seq(Numbers1) /\ Apart(Queued) /\ Len(Queued) \in Nat
         /\ order \in Seq(1..Len(sectors)) /\ order \in Seq(Numbers1) /\ Len(order) \in Nat
         /\ in_using = NULL => Queued = order
         /\ in_using # NULL => /\ order # <<>> /\ in_using = order[1] /\ Queued = Tail(order)
                               /\ 1 \in 1..Len(order)
                               /\ \A i \in 1..Len(Queued) : Queued[i] # in_using
                               /\ \A i \in 1..Len(order) : i = 1 \/ \E k \in 1..Len(Queued) : Queued[k] = order[i]
         /\ \A i \in 1..Len(Queued) : /\ Queued[i] \in Live
                                      /\ \E k \in 1..Len(order) : Queued[i] = order[k]
         /\ \A i \in 1..Len(order) : order[i] \in Live
         /\ Live \subseteq 1..Len(sectors) /\ Len(sectors) \in Nat /\ 1..Len(sectors) \subseteq Numbers1
<1>1. DiskShape /\ OrderOK /\ InUse
  BY DEF DiskInv, DiskWork, QueueWork
<1>2. Len(sectors) \in Nat /\ 1..Len(sectors) \subseteq Numbers1 /\ Live \subseteq 1..Len(sectors)
  BY <1>1, DiskNumbers DEF DiskShape, Numbers1, Live
<1>3. order \in Seq(1..Len(sectors)) /\ Len(order) \in Nat
  BY <1>1 DEF DiskShape
<1>4. order \in Seq(Numbers1)
  BY <1>2, <1>3
<1>5. Apart(order) /\ \A i \in 1..Len(order) : order[i] \in Live
  BY <1>1 DEF OrderOK
<1>6. CASE in_using = NULL
  BY <1>2, <1>3, <1>4, <1>5, <1>6 DEF Queued
<1>7. CASE in_using # NULL
  <2>1. order # <<>> /\ in_using = order[1] /\ Queued = Tail(order)
    BY <1>1, <1>7 DEF InUse, Queued
  <2>2. /\ Tail(order) \in Seq(1..Len(sectors)) /\ Len(order) > 0 /\ Len(Tail(order)) = Len(order) - 1 /\ 1 \in 1..Len(order)
        /\ \A i \in 1..(Len(order) - 1) : Tail(order)[i] = order[i + 1] /\ i + 1 \in 1..Len(order)
    BY <1>3, <2>1, TailIs
  <2>3. Tail(order) \in Seq(Numbers1) /\ Len(Tail(order)) \in Nat
    BY <1>2, <2>2
  <2>4. Apart(Queued)
    BY <1>3, <1>5, <2>1, <2>2 DEF Apart
  <2>5. \A i \in 1..Len(Queued) : Queued[i] # in_using
    BY <1>3, <1>5, <2>1, <2>2 DEF Apart
  <2>6. ASSUME NEW i \in 1..Len(order), i # 1
        PROVE  \E k \in 1..Len(Queued) : Queued[k] = order[i]
    <3>1. i - 1 \in 1..(Len(order) - 1) /\ (i - 1) + 1 = i
      BY <1>3, <2>6
    <3>2. QED
      BY <2>1, <2>2, <3>1
  <2>7. QED
    BY <1>2, <1>3, <1>4, <1>5, <1>7, <2>1, <2>2, <2>3, <2>4, <2>5, <2>6
<1>8. QED
  BY <1>6, <1>7

LEMMA InitDisk ==
  Init => DiskInv
<1> SUFFICES ASSUME Init
             PROVE  DiskInv
  OBVIOUS
<1> USE DEF Init, history, queue, drive
<1>1. 0 \in Nodes /\ MaxSectors \in Nat /\ MaxRequests \in Nat /\ NULL \notin Nodes
  BY DiskNumbers
<1>2. heap.next = [n \in Nodes |-> n] /\ heap.prev = [n \in Nodes |-> n] /\ heap \in Heaps
  BY DEF Unlinked, Heaps
<1>3. heap.next[0] = 0 /\ heap.prev[0] = 0
  BY <1>1, <1>2
<1>4. TypeOK
  BY <1>1, <1>2 DEF TypeOK, Heaps
<1>5. DiskShape
  <2>1. at \in [Callers -> Places] /\ reg \in [Callers -> Int]
    BY DEF Places
  <2>2. sectors \in Seq(1..MaxSectors) /\ Len(sectors) = 0 /\ 0 <= MaxRequests /\ order \in Seq(1..Len(sectors))
    BY <1>1
  <2>3. ~(disk.left > 0 \/ disk.drq)
    OBVIOUS
  <2>4. QED
    BY <1>4, <2>1, <2>2, <2>3 DEF DiskShape
<1>6. Queued = <<>> /\ Live = {} /\ Len(Queued) = 0 /\ At(0, Queued, 1) = 0 /\ At(0, Queued, Len(Queued)) = 0
  BY DEF Queued, Live, At
<1>7. /\ \A c \in Callers : /\ at[c] = "idle" /\ ~Submitting(c) /\ ~Half(c) /\ ~Deleting(c) /\ ~Taking(c)
                             /\ CallerOK(c) /\ Known(c)
      /\ ~Started
  BY DEF Submitting, Half, Deleting, Taking, CallerOK, Known, Adding, Started
<1>8. Forth(heap, Queued) /\ Back(heap, Queued)
  BY <1>3, <1>6 DEF Forth, Back, Along
<1>9. Lists
  BY <1>7, <1>8 DEF Lists
<1>10. Counted /\ InUse /\ OrderOK /\ OneSubmits
  BY <1>6, <1>7 DEF Counted, Counting, InUse, OrderOK, Apart, OneSubmits
<1>12. Lonely /\ DriveOK
  BY DEF Lonely, DriveOK, Idle, drive
<1>11. QED
  BY <1>1, <1>5, <1>7, <1>9, <1>10, <1>12 DEF DiskInv, DiskWork, QueueWork


(* A caller's step moves it and nobody else.                               *)
LEMMA StepIs ==
  ASSUME DiskInv, NEW c \in Callers, NEW from, NEW to \in Places, Step(c, from, to)
  PROVE  /\ DiskShape /\ DiskWork /\ ~clash /\ ~crashed
         /\ at[c] = from /\ at'[c] = to /\ at' \in [Callers -> Places]
         /\ \A d \in Callers : d # c => at'[d] = at[d]
BY DEF DiskInv, DiskShape, Step

(* The one who submits is alone with it.                                   *)
LEMMA OthersWait ==
  ASSUME DiskInv, ~clash, NEW c \in Callers, Submitting(c)
  PROVE  \A d \in Callers : d # c => at[d] \in {"idle", "wait"}
BY DEF DiskInv, DiskWork, OneSubmits, Submitting

(* What the queue is to the one who submits, before its step and after.    *)
LEMMA OfOne ==
  ASSUME DiskInv, ~clash, in_using # 0, NEW c \in Callers, Submitting(c)
  PROVE  OneQueue(c)
<1>1. QueueWork /\ \A d \in Callers : d # c => at[d] \in {"idle", "wait"}
  BY OthersWait DEF DiskInv, DiskWork
<1>2. \A d \in Callers : d # c => ~Half(d) /\ ~Deleting(d) /\ ~Taking(d) /\ at[d] \notin Works /\ at[d] \notin {"load", "store"}
  BY <1>1 DEF Half, Deleting, Taking, Works
<1>3. UseOf(c)
  BY <1>1, <1>2 DEF QueueWork, InUse, UseOf
<1>4. ListsOf(c)
  BY <1>1, <1>2 DEF QueueWork, Lists, ListsOf
<1>5. (Counting <=> at[c] \in {"load", "store"}) /\ ((\E d \in Callers : Taking(d)) <=> Taking(c))
  BY <1>2 DEF Counting
<1>6. CountOf(c)
  BY <1>1, <1>5 DEF QueueWork, Counted, CountOf
<1>7. QED
  BY <1>1, <1>3, <1>4, <1>6 DEF QueueWork, OneQueue

LEMMA ToOne ==
  ASSUME NEW c \in Callers, \A d \in Callers : d # c => at'[d] \in {"idle", "wait"}, OneQueue(c)'
  PROVE  QueueWork'
<1>2. \A d \in Callers : d # c => /\ ~(Half(d)') /\ ~(Deleting(d)') /\ ~(Taking(d)') /\ at'[d] \notin Works
                                  /\ at'[d] \notin {"load", "store", "flag", "test", "busy", "unstore", "take", "add2", "add4"}
  BY DEF Half, Deleting, Taking, Works
<1>3. InUse'
  BY <1>2 DEF OneQueue, InUse, UseOf
<1>4. Lists'
  BY <1>2 DEF OneQueue, Lists, ListsOf
<1>5. (Counting' <=> at'[c] \in {"load", "store"}) /\ ((\E d \in Callers : Taking(d)') <=> Taking(c)')
  BY <1>2 DEF Counting
<1>6. Counted'
  BY <1>5 DEF OneQueue, Counted, CountOf
<1>7. ASSUME NEW d \in Callers
      PROVE  CallerOK(d)'
  <2>1. CASE d = c
    BY <2>1 DEF OneQueue
  <2>2. CASE d # c
    BY <1>2, <2>2 DEF CallerOK
  <2>3. QED
    BY <2>1, <2>2
<1>8. QED
  BY <1>3, <1>4, <1>6, <1>7 DEF QueueWork, OneQueue

(* A step after which the same is queued, of a caller that does not work   *)
(* on the queue, or of the disk.                                           *)
LEMMA Quiet ==
  ASSUME DiskInv, ~clash, in_using # 0, UNCHANGED <<heap, in_using, block_request_count, order>>,
         \A d \in Callers : \/ at'[d] = at[d] /\ node'[d] = node[d] /\ reg'[d] = reg[d]
                            \/ at[d] \in {"idle", "wait", "add1", "busy"} /\ at'[d] \in {"idle", "wait", "add1"},
         Live \subseteq Live', Several \subseteq Several', late \subseteq late', ended \subseteq ended'
  PROVE  QueueWork'
<1>1. QueueWork /\ Queued' = Queued
  BY DEF DiskInv, DiskWork, Queued
<1>2. OrderOK'
  BY <1>1 DEF QueueWork, OrderOK, Apart
<1>3. ASSUME NEW d \in Callers
      PROVE  /\ Half(d) <=> Half(d)'
             /\ Deleting(d) <=> Deleting(d)'
             /\ Taking(d) <=> Taking(d)'
             /\ at[d] \in Works <=> at'[d] \in Works
             /\ at[d] \in {"load", "store"} <=> at'[d] \in {"load", "store"}
             /\ Half(d) \/ Deleting(d) \/ Taking(d) \/ at[d] \in Works \/ at[d] \in {"add2", "add4"}
                  => at'[d] = at[d] /\ node'[d] = node[d] /\ reg'[d] = reg[d]
             /\ at'[d] \in {"add2", "add4"} => at[d] \in {"add2", "add4"}
  BY DEF Half, Deleting, Taking, Works
<1>4. ASSUME NEW d \in Callers
      PROVE  CallerOK(d)'
  BY <1>1 DEF QueueWork, CallerOK, Taking, Works
<1>5. InUse'
  BY <1>1, <1>3 DEF QueueWork, InUse
<1>6. Lists'
  <2>1. (Forth(heap, Queued) => Forth(heap, Queued)') /\ (Back(heap, Queued) => Back(heap, Queued)')
    BY <1>1 DEF Forth, Back, Along, At
  <2>2. ASSUME NEW d \in Callers, Half(d)'
        PROVE  Forth(heap, Append(Queued, node[d]))'
    <3>1. Half(d) /\ node'[d] = node[d]
      BY <1>3, <2>2
    <3>2. Forth(heap, Append(Queued, node[d]))
      BY <1>1, <3>1 DEF QueueWork, Lists
    <3>3. QED
      BY <1>1, <3>1, <3>2 DEF Forth, Along, At
  <2>3. At(0, Queued, Len(Queued))' = At(0, Queued, Len(Queued))
    BY <1>1 DEF At
  <2>4. QED
    BY <1>1, <1>3, <2>1, <2>2, <2>3 DEF QueueWork, Lists
<1>7. Counted'
  BY <1>1, <1>3 DEF QueueWork, Counted, Counting
<1>8. QED
  BY <1>2, <1>4, <1>5, <1>6, <1>7 DEF QueueWork

(* What the drive is at, and whose request is alone, when neither changes. *)
LEMMA DriveStays ==
  ASSUME DiskInv, ~clash, UNCHANGED <<in_using, disk, irq, ended, moved, sectors, company>>, Started' <=> Started
  PROVE  DriveOK' /\ Lonely' /\ Live' = Live /\ Several' = Several
<1>1. DriveOK /\ Lonely
  BY DEF DiskInv, DiskWork
<1>2. Live' = Live /\ Several' = Several /\ (Idle' <=> Idle) /\ \A r : Doing(r)' <=> Doing(r)
  BY DEF Live, Several, Idle, Doing
<1>3. DriveOK'
  BY <1>1, <1>2 DEF DriveOK
<1>4. Lonely'
  BY <1>1, <1>2 DEF Lonely, LoneRequest
<1>5. QED
  BY <1>2, <1>3, <1>4

(* A step within submit, whatever it does to the queue.                    *)
LEMMA SubmitMoves ==
  ASSUME DiskInv, NEW c \in Callers, NEW from \in Places \ {"idle", "wait"}, NEW to \in Places \ {"idle"}, Step(c, from, to),
         UNCHANGED <<node, sectors, disk, irq, ended, moved, early, company, late, clash, crashed>>,
         heap' \in Heaps, in_using' \in Nodes \cup {NULL}, block_request_count' \in Int,
         disk_flags' \in {disk_flags, 1}, reg' \in [Callers -> Int], order' \in Seq(1..Len(sectors)),
         to \in {"add1", "add2", "add3", "add4"} => Adding(c) /\ order' = order,
         to \in {"load", "store"} => Adding(c) \/ from = "load",
         from = "flag" => disk_flags' = 1,
         to = "take" => in_using' = NULL,
         from \in {"add1", "add2", "add3", "add4", "load", "store"} =>
           to \in {"add1", "add2", "add3", "add4", "load", "store", "flag"}
  PROVE  /\ DiskShape /\ DiskWork /\ ~clash /\ ~clash' /\ at[c] = from /\ at'[c] = to /\ Submitting(c)
         /\ \A d \in Callers : d # c => at[d] \in {"idle", "wait"} /\ at'[d] = at[d] /\ at'[d] \in {"idle", "wait"}
         /\ DiskShape' /\ OneSubmits' /\ (\A d \in Callers : Known(d)')
         /\ Live' = Live /\ Several' = Several
<1>1. /\ DiskShape /\ DiskWork /\ ~clash /\ at[c] = from /\ at'[c] = to /\ at' \in [Callers -> Places]
      /\ \A d \in Callers : d # c => at'[d] = at[d]
  BY StepIs
<1>2. Submitting(c)
  BY <1>1 DEF Submitting
<1>3. \A d \in Callers : d # c => at[d] \in {"idle", "wait"} /\ at'[d] = at[d] /\ at'[d] \in {"idle", "wait"}
  BY <1>1, <1>2, OthersWait
<1>4. OneSubmits'
  BY <1>1, <1>3 DEF OneSubmits, Submitting
<1>5. Live' = Live /\ Several' = Several
  BY DEF Live, Several
<1>6. DiskShape'
  <2>1. TypeOK'
    BY <1>1 DEF DiskShape, TypeOK, Heaps
  <2>2. QED
    BY <1>1, <1>5, <2>1 DEF DiskShape
<1>7. ASSUME NEW d \in Callers
      PROVE  Known(d)'
  <2>1. Known(d)
    BY <1>1 DEF DiskWork
  <2>2. CASE d # c
    BY <1>3, <1>5, <2>1, <2>2 DEF Known, Submitting, Adding
  <2>3. CASE d = c
    <3>1. node[c] \in 1..Len(sectors) /\ node[c] = Len(sectors)
      BY <1>1, <1>2, <2>1, <2>3 DEF Known
    <3>2. Adding(c)' => node[c] \in Live /\ order' = order /\ \A i \in 1..Len(order) : order[i] # node[c]
      BY <1>1, <2>1, <2>3 DEF Known, Adding
    <3>3. at'[c] \in {"load", "store"} => node[c] \in Live
      BY <1>1, <2>1, <2>3 DEF Known
    <3>4. at'[c] \notin {"idle", "add1", "add2", "add3", "add4", "load", "store", "flag"}
            /\ node[c] \notin ended \cup company \cup Several => disk_flags' = 1
      BY <1>1, <2>1, <2>3 DEF Known
    <3>5. QED
      BY <1>1, <1>5, <2>3, <3>1, <3>2, <3>3, <3>4 DEF Known
  <2>4. QED
    BY <2>2, <2>3
<1>8. QED
  BY <1>1, <1>2, <1>3, <1>4, <1>5, <1>6, <1>7
-----------------------------------------------------------------------------
(* The four assignments of list_add_to_before, one by one.                 *)
LEMMA LinkIs ==
  ASSUME DiskInv, NEW c \in Callers, NEW from \in {"add1", "add2", "add3", "add4"}, NEW to \in {"add2", "add3", "add4", "load"},
         from = "add4" <=> to = "load",
         NEW field, NEW n, NEW v, Link(c, from, to, field, n, v), Set(heap, field, n, v) \in Heaps
  PROVE  /\ DiskWork /\ ~clash /\ ~clash' /\ at[c] = from /\ at'[c] = to /\ Submitting(c)
         /\ \A d \in Callers : d # c => at'[d] \in {"idle", "wait"}
         /\ heap' = Set(heap, field, n, v) /\ heap \in Heaps
         /\ UNCHANGED <<in_using, block_request_count, node, reg, sectors, ended, late>>
         /\ order' = IF from = "add4" THEN Append(order, node[c]) ELSE order
         /\ Live' = Live /\ node[c] \in Live
         /\ DiskShape' /\ OneSubmits' /\ (\A d \in Callers : Known(d)') /\ DriveOK' /\ Lonely'
<1>1. /\ Step(c, from, to) /\ from \in Places \ {"idle", "wait"} /\ to \in Places \ {"idle"}
      /\ UNCHANGED <<in_using, block_request_count, disk_flags, node, reg, sectors, disk, irq,
                     ended, moved, early, company, late, clash, crashed>>
      /\ order' = IF from = "add4" THEN Append(order, node[c]) ELSE order
      /\ heap' = Set(heap, field, n, v)
  BY DEF Link, Set, Places, drive
<1>2. DiskShape /\ DiskWork /\ ~clash /\ at[c] = from /\ Adding(c)
  BY <1>1, StepIs DEF Adding
<1>3. node[c] \in Live /\ Live \subseteq 1..Len(sectors)
  BY <1>2 DEF DiskWork, Known, Live
<1>4. order' \in Seq(1..Len(sectors))
  <2>1. PICK r \in 1..Len(sectors) : r = node[c]
    BY <1>3
  <2>2. order \in Seq(1..Len(sectors)) /\ order' \in {order, Append(order, r)}
    BY <1>1, <1>2, <2>1 DEF DiskShape
  <2>3. Append(order, r) \in Seq(1..Len(sectors))
    BY <2>1, <2>2
  <2>4. QED
    BY <2>2, <2>3
<1>5. heap \in Heaps /\ block_request_count \in Int /\ in_using \in Nodes \cup {NULL} /\ reg \in [Callers -> Int]
  BY <1>2 DEF DiskShape, TypeOK, Heaps
<1>6. /\ ~clash' /\ at'[c] = to /\ Submitting(c)
      /\ \A d \in Callers : d # c => at[d] \in {"idle", "wait"} /\ at'[d] \in {"idle", "wait"}
      /\ DiskShape' /\ OneSubmits' /\ (\A d \in Callers : Known(d)')
      /\ Live' = Live
  BY <1>1, <1>2, <1>4, <1>5, SubmitMoves
<1>7. ~Started /\ ~Started'
  BY <1>1, <1>2, <1>6 DEF Started, Taking
<1>8. DriveOK' /\ Lonely'
  BY <1>1, <1>2, <1>7, DriveStays
<1>9. QED
  BY <1>1, <1>2, <1>3, <1>5, <1>6, <1>8

(* The request it links, before it is on the queue.                        *)
LEMMA LinkFacts ==
  ASSUME DiskInv, ~clash, NEW c \in Callers, Adding(c)
  PROVE  /\ node[c] \in Numbers1 /\ node[c] \in Nodes /\ node[c] # 0 /\ node[c] \in 1..Len(sectors)
         /\ heap \in Heaps /\ 0 \in Nodes /\ heap.prev[0] \in Nodes
         /\ \A i \in 1..Len(order) : order[i] # node[c]
         /\ in_using # 0 =>
              /\ \A i \in 1..Len(Queued) : Queued[i] # node[c]
              /\ OneQueue(c)
              /\ Back(heap, Queued)
              /\ ~Half(c) => Forth(heap, Queued)
              /\ Half(c) => Forth(heap, Append(Queued, node[c]))
              /\ block_request_count = Len(Queued)
              /\ in_using = NULL => order = <<>>
<1>1. DiskWork /\ DiskShape /\ Known(c) /\ Submitting(c)
  BY DEF DiskInv, DiskWork, Submitting, Adding
<1>2. node[c] \in 1..Len(sectors) /\ \A i \in 1..Len(order) : order[i] # node[c]
  BY <1>1 DEF Known, Adding
<1>3. node[c] \in Numbers1 /\ node[c] \in Nodes /\ node[c] # 0
  BY <1>1, <1>2, DiskNumbers DEF Numbers1, DiskShape
<1>4. heap \in Heaps /\ 0 \in Nodes
  BY <1>1, DiskNumbers DEF DiskShape, TypeOK, Heaps
<1>5. heap.prev[0] \in Nodes
  BY <1>4 DEF Heaps
<1>6. ASSUME in_using # 0
      PROVE  /\ \A i \in 1..Len(Queued) : Queued[i] # node[c]
             /\ OneQueue(c)
             /\ Back(heap, Queued)
             /\ ~Half(c) => Forth(heap, Queued)
             /\ Half(c) => Forth(heap, Append(Queued, node[c]))
             /\ block_request_count = Len(Queued)
             /\ in_using = NULL => order = <<>>
  <2>1. OneQueue(c)
    BY <1>1, <1>6, OfOne
  <2>2. \A i \in 1..Len(Queued) : Queued[i] # node[c]
    BY <1>2, <1>6, QueueOK
  <2>3. ~Deleting(c) /\ ~Taking(c) /\ at[c] \notin {"load", "store"} /\ at[c] \notin Works
    BY DEF Adding, Deleting, Taking, Works
  <2>4. QED
    BY <2>1, <2>2, <2>3 DEF OneQueue, ListsOf, CountOf, UseOf
<1>7. QED
  BY <1>1, <1>2, <1>3, <1>4, <1>5, <1>6

LEMMA SetInHeaps ==
  ASSUME NEW h \in Heaps, NEW n \in Nodes, NEW v \in Nodes
  PROVE  /\ Set(h, "next", n, v) \in Heaps /\ Set(h, "next", n, v).prev = h.prev /\ Set(h, "next", n, v).next[n] = v
         /\ Set(h, "prev", n, v) \in Heaps /\ Set(h, "prev", n, v).next = h.next /\ Set(h, "prev", n, v).prev[n] = v
         /\ \A m \in Nodes : m # n => Set(h, "prev", n, v).prev[m] = h.prev[m]
<1>1. h.next \in [Nodes -> Nodes] /\ h.prev \in [Nodes -> Nodes]
  BY DEF Heaps
<1>2. Set(h, "next", n, v) \in Heaps /\ Set(h, "next", n, v).prev = h.prev /\ Set(h, "next", n, v).next[n] = v
  <2>1. PICK g : g = Set(h, "next", n, v)
    OBVIOUS
  <2>2. g.next = [h.next EXCEPT ![n] = v] /\ g.prev = h.prev /\ g \in Heaps
    BY <1>1, <2>1 DEF Heaps, Set
  <2>3. QED
    BY <1>1, <2>1, <2>2
<1>3. /\ Set(h, "prev", n, v) \in Heaps /\ Set(h, "prev", n, v).next = h.next /\ Set(h, "prev", n, v).prev[n] = v
      /\ \A m \in Nodes : m # n => Set(h, "prev", n, v).prev[m] = h.prev[m]
  <2>1. PICK g : g = Set(h, "prev", n, v)
    OBVIOUS
  <2>2. g.prev = [h.prev EXCEPT ![n] = v] /\ g.next = h.next /\ g \in Heaps
    BY <1>1, <2>1 DEF Heaps, Set
  <2>3. QED
    BY <1>1, <2>1, <2>2
<1>4. QED
  BY <1>2, <1>3

LEMMA Add1 ==
  ASSUME DiskInv, NEW c \in Callers, Link(c, "add1", "add2", "next", node[c], 0)
  PROVE  DiskInv'
<1>1. ~clash /\ at[c] = "add1" /\ Adding(c) /\ ~Half(c)
  BY DEF Link, Step, Adding, Half
<1>2. PICK n \in Numbers1 : n = node[c] /\ n \in Nodes /\ n # 0 /\ heap \in Heaps /\ 0 \in Nodes
  BY <1>1, LinkFacts
<1>3. Set(heap, "next", n, 0) \in Heaps
  BY <1>2, SetInHeaps
<1>4. /\ DiskWork /\ ~clash' /\ at'[c] = "add2" /\ \A d \in Callers : d # c => at'[d] \in {"idle", "wait"}
      /\ heap' = Set(heap, "next", n, 0)
      /\ UNCHANGED <<in_using, block_request_count, node, reg, sectors, ended, late, order>>
      /\ Live' = Live
      /\ DiskShape' /\ OneSubmits' /\ (\A d \in Callers : Known(d)') /\ DriveOK' /\ Lonely'
  BY <1>2, <1>3, LinkIs
<1>5. ASSUME in_using # 0
      PROVE  QueueWork'
  <2>1. PICK q \in Seq(Numbers1) : q = Queued
    BY <1>1, <1>5, QueueOK
  <2>2. (\A i \in 1..Len(q) : q[i] # n) /\ Forth(heap, q) /\ Back(heap, q) /\ OneQueue(c)
        /\ block_request_count = Len(Queued) /\ (in_using = NULL => order = <<>>)
    BY <1>1, <1>2, <1>5, <2>1, LinkFacts
  <2>3. PICK h \in Heaps : h = Set(heap, "next", n, 0) /\ h.next[n] = 0 /\ Forth(h, q) /\ Back(h, q)
    BY <1>2, <2>2, SetNext
  <2>4. Queued' = Queued
    BY <1>4 DEF Queued
  <2>5. OrderOK' /\ CallerOK(c)' /\ UseOf(c)' /\ CountOf(c)'
    BY <1>4, <2>2, <2>4 DEF OneQueue, OrderOK, Apart, CallerOK, Taking, UseOf, CountOf
  <2>6. ListsOf(c)'
    <3>1. (Forth(heap, Queued) /\ Back(heap, Queued))'
      BY <1>4, <2>1, <2>3, <2>4 DEF Forth, Back, Along, At
    <3>2. QED
      BY <1>2, <1>4, <2>3, <3>1 DEF ListsOf, Half, Deleting
  <2>7. QED
    BY <1>4, <2>5, <2>6, ToOne DEF OneQueue
<1>6. QED
  BY <1>4, <1>5 DEF DiskInv, DiskWork

LEMMA Add2 ==
  ASSUME DiskInv, NEW c \in Callers, Link(c, "add2", "add3", "next", heap.prev[0], node[c])
  PROVE  DiskInv'
<1>1. ~clash /\ at[c] = "add2" /\ Adding(c) /\ ~Half(c)
  BY DEF Link, Step, Adding, Half
<1>2. PICK n \in Numbers1 : n = node[c] /\ n \in Nodes /\ n # 0 /\ heap \in Heaps /\ 0 \in Nodes
  BY <1>1, LinkFacts
<1>3. heap.prev[0] \in Nodes
  BY <1>1, LinkFacts
<1>4. Set(heap, "next", heap.prev[0], n) \in Heaps
  BY <1>2, <1>3, SetInHeaps
<1>5. /\ DiskWork /\ ~clash' /\ at'[c] = "add3" /\ \A d \in Callers : d # c => at'[d] \in {"idle", "wait"}
      /\ heap' = Set(heap, "next", heap.prev[0], n)
      /\ UNCHANGED <<in_using, block_request_count, node, reg, sectors, ended, late, order>>
      /\ Live' = Live
      /\ DiskShape' /\ OneSubmits' /\ (\A d \in Callers : Known(d)') /\ DriveOK' /\ Lonely'
  BY <1>2, <1>4, LinkIs
<1>6. ASSUME in_using # 0
      PROVE  QueueWork'
  <2>1. PICK q \in Seq(Numbers1) : q = Queued /\ Apart(q)
    BY <1>1, <1>6, QueueOK
  <2>2. (\A i \in 1..Len(q) : q[i] # n) /\ Forth(heap, q) /\ Back(heap, q) /\ OneQueue(c)
        /\ block_request_count = Len(Queued) /\ (in_using = NULL => order = <<>>)
    BY <1>1, <1>2, <1>6, <2>1, LinkFacts
  <2>3. heap.next[n] = 0
    BY <1>1, <1>2, <2>2 DEF OneQueue, ListsOf
  <2>4. PICK h : h = Set(heap, "next", heap.prev[0], n)
    OBVIOUS
  <2>5. Forth(h, Append(q, n)) /\ Back(h, q)
    BY <1>2, <2>1, <2>2, <2>3, <2>4, LinkForth
  <2>6. Queued' = Queued
    BY <1>5 DEF Queued
  <2>7. OrderOK' /\ CallerOK(c)' /\ UseOf(c)' /\ CountOf(c)'
    BY <1>5, <2>2, <2>6 DEF OneQueue, OrderOK, Apart, CallerOK, Taking, UseOf, CountOf
  <2>8. ListsOf(c)'
    <3>1. Half(c)' /\ ~(Deleting(c)')
      BY <1>5 DEF Half, Deleting
    <3>2. Forth(heap, Append(Queued, node[c]))' /\ Back(heap, Queued)'
      BY <1>2, <1>5, <2>1, <2>4, <2>5, <2>6 DEF Forth, Back, Along, At
    <3>3. QED
      BY <1>5, <3>1, <3>2 DEF ListsOf
  <2>9. QED
    BY <1>5, <2>7, <2>8, ToOne DEF OneQueue
<1>7. QED
  BY <1>5, <1>6 DEF DiskInv, DiskWork

LEMMA Add3 ==
  ASSUME DiskInv, NEW c \in Callers, Link(c, "add3", "add4", "prev", node[c], heap.prev[0])
  PROVE  DiskInv'
<1>1. ~clash /\ at[c] = "add3" /\ Adding(c) /\ Half(c)
  BY DEF Link, Step, Adding, Half
<1>2. PICK n \in Numbers1 : n = node[c] /\ n \in Nodes /\ n # 0 /\ heap \in Heaps /\ 0 \in Nodes
  BY <1>1, LinkFacts
<1>3. PICK p \in Nodes : p = heap.prev[0]
  BY <1>1, LinkFacts
<1>4. Set(heap, "prev", n, p) \in Heaps
  BY <1>2, <1>3, SetInHeaps
<1>5. /\ DiskWork /\ ~clash' /\ at'[c] = "add4" /\ \A d \in Callers : d # c => at'[d] \in {"idle", "wait"}
      /\ heap' = Set(heap, "prev", n, p)
      /\ UNCHANGED <<in_using, block_request_count, node, reg, sectors, ended, late, order>>
      /\ Live' = Live
      /\ DiskShape' /\ OneSubmits' /\ (\A d \in Callers : Known(d)') /\ DriveOK' /\ Lonely'
  BY <1>2, <1>3, <1>4, LinkIs
<1>6. ASSUME in_using # 0
      PROVE  QueueWork'
  <2>1. PICK q \in Seq(Numbers1) : q = Queued
    BY <1>1, <1>6, QueueOK
  <2>2. (\A i \in 1..Len(q) : q[i] # n) /\ Forth(heap, Append(q, n)) /\ Back(heap, q) /\ OneQueue(c)
        /\ block_request_count = Len(Queued) /\ (in_using = NULL => order = <<>>)
    BY <1>1, <1>2, <1>6, <2>1, LinkFacts
  <2>3. p = At(0, q, Len(q))
    BY <1>3, <2>2 DEF Back
  <2>4. PICK h \in Heaps : h = Set(heap, "prev", n, p) /\ h.prev[n] = p /\ h.next = heap.next /\ Back(h, q)
    <3>1. /\ Set(heap, "prev", n, p) \in Heaps /\ Set(heap, "prev", n, p).next = heap.next
          /\ Set(heap, "prev", n, p).prev[n] = p
          /\ \A m \in Nodes : m # n => Set(heap, "prev", n, p).prev[m] = heap.prev[m]
          /\ n # 0 /\ (\A i \in 1..Len(q) : q[i] # n) /\ Back(heap, q) => Back(Set(heap, "prev", n, p), q)
          /\ Forth(heap, q) => Forth(Set(heap, "prev", n, p), q)
      <4>1. heap \in Heaps /\ q \in Seq(Numbers1) /\ n \in Nodes /\ p \in Nodes
        BY <1>2, <1>3, <2>1
      <4>2. QED
        BY <4>1, SetPrev
    <3>2. QED
      BY <1>2, <2>2, <3>1, Zenon
  <2>5. Forth(h, Append(q, n))
    BY <2>2, <2>4 DEF Forth, Along
  <2>6. Queued' = Queued
    BY <1>5 DEF Queued
  <2>7. OrderOK' /\ CallerOK(c)' /\ UseOf(c)' /\ CountOf(c)'
    BY <1>5, <2>2, <2>6 DEF OneQueue, OrderOK, Apart, CallerOK, Taking, UseOf, CountOf
  <2>8. ListsOf(c)'
    <3>1. Half(c)' /\ ~(Deleting(c)')
      BY <1>5 DEF Half, Deleting
    <3>2. Forth(heap, Append(Queued, node[c]))' /\ Back(heap, Queued)'
      BY <1>2, <1>5, <2>1, <2>4, <2>5, <2>6 DEF Forth, Back, Along, At
    <3>3. (heap.prev[node[c]] = At(0, Queued, Len(Queued)))'
      BY <1>2, <1>5, <2>1, <2>3, <2>4, <2>6 DEF At
    <3>4. QED
      BY <1>5, <3>1, <3>2, <3>3 DEF ListsOf
  <2>9. QED
    BY <1>5, <2>7, <2>8, ToOne DEF OneQueue
<1>7. QED
  BY <1>5, <1>6 DEF DiskInv, DiskWork

(* With the last one the request is on the queue.                          *)
LEMMA Add4 ==
  ASSUME DiskInv, NEW c \in Callers, Link(c, "add4", "load", "prev", 0, node[c])
  PROVE  DiskInv'
<1>1. ~clash /\ at[c] = "add4" /\ Adding(c) /\ Half(c)
  BY DEF Link, Step, Adding, Half
<1>2. PICK n \in Numbers1 : n = node[c] /\ n \in Nodes /\ n # 0 /\ n \in 1..Len(sectors) /\ heap \in Heaps /\ 0 \in Nodes
  BY <1>1, LinkFacts
<1>3. Set(heap, "prev", 0, n) \in Heaps
  BY <1>2, SetInHeaps
<1>4. /\ DiskWork /\ ~clash' /\ at'[c] = "load" /\ \A d \in Callers : d # c => at'[d] \in {"idle", "wait"}
      /\ heap' = Set(heap, "prev", 0, n)
      /\ UNCHANGED <<in_using, block_request_count, node, reg, sectors, ended, late>>
      /\ order' = Append(order, n)
      /\ Live' = Live /\ n \in Live
      /\ DiskShape' /\ OneSubmits' /\ (\A d \in Callers : Known(d)') /\ DriveOK' /\ Lonely'
  BY <1>2, <1>3, LinkIs
<1>5. ASSUME in_using # 0
      PROVE  QueueWork'
  <2>1. PICK q \in Seq(Numbers1) : q = Queued /\ Len(q) \in Nat
    BY <1>1, <1>5, QueueOK
  <2>2. (\A i \in 1..Len(q) : q[i] # n) /\ Forth(heap, Append(q, n)) /\ Back(heap, q) /\ OneQueue(c)
        /\ block_request_count = Len(q) /\ (in_using = NULL => order = <<>>)
        /\ \A i \in 1..Len(order) : order[i] # n
    BY <1>1, <1>2, <1>5, <2>1, LinkFacts
  <2>3. heap.prev[n] = At(0, q, Len(q))
    BY <1>1, <1>2, <2>1, <2>2 DEF OneQueue, ListsOf
  <2>4. PICK h \in Heaps : h = Set(heap, "prev", 0, n) /\ h.next = heap.next
    BY <1>2, <2>1, <2>2, SetPrev
  <2>5. Back(h, Append(q, n))
    BY <1>2, <2>1, <2>2, <2>3, <2>4, LinkBack
  <2>6. Forth(h, Append(q, n))
    BY <2>2, <2>4 DEF Forth, Along
  <2>7. PICK m \in Nat : m = Len(order) /\ order \in Seq(1..Len(sectors))
    BY <1>1, <1>5, QueueOK
  <2>8. /\ Len(order') = m + 1 /\ order'[m + 1] = n
        /\ \A i \in 1..m : order'[i] = order[i]
        /\ \A i \in 1..(m + 1) : i = m + 1 \/ i \in 1..m
        /\ m + 1 \in 1..(m + 1) /\ \A i \in 1..m : i \in 1..(m + 1)
    BY <1>2, <1>4, <2>7
  <2>9. OrderOK'
    <3>1. \A i \in 1..m : order[i] \in Live
      BY <2>2, <2>7 DEF OneQueue, OrderOK
    <3>2. \A i, k \in 1..m : order[i] = order[k] => i = k
      BY <2>2, <2>7 DEF OneQueue, OrderOK, Apart
    <3>3. \A i, k \in 1..(m + 1) : order'[i] = order'[k] => i = k
      <4>1. SUFFICES ASSUME NEW i \in 1..(m + 1), NEW k \in 1..(m + 1), order'[i] = order'[k]
                     PROVE  i = k
        OBVIOUS
      <4>2. \A j \in 1..m : order'[j] # n
        BY <2>2, <2>7, <2>8
      <4>3. QED
        BY <2>8, <3>2, <4>1, <4>2
    <3>4. \A i \in 1..(m + 1) : order'[i] \in Live'
      BY <1>4, <2>8, <3>1
    <3>5. QED
      BY <2>8, <3>3, <3>4 DEF OrderOK, Apart
  <2>10. Queued' = Append(q, n)
    <3>1. CASE in_using = NULL
      BY <1>4, <2>1, <3>1 DEF Queued
    <3>2. CASE in_using # NULL
      <4>1. order # <<>> /\ q = Tail(order) /\ order \in Seq(1..Len(sectors))
        BY <1>1, <1>5, <2>1, <3>2, QueueOK
      <4>2. Tail(Append(order, n)) = Append(Tail(order), n)
        BY <1>2, <4>1, TailOfAppend
      <4>3. QED
        BY <1>4, <3>2, <4>1, <4>2 DEF Queued
    <3>3. QED
      BY <3>1, <3>2
  <2>11. Append(q, n) # <<>> /\ Len(Append(q, n)) = Len(q) + 1 /\ Append(q, n)[Len(q) + 1] = n
    BY <2>1
  <2>12. UseOf(c)'
    <3>1. order # <<>> => order' # <<>> /\ order'[1] = order[1]
      <4>1. order # <<>> => 1 \in 1..m
        BY <2>7
      <4>2. order' # <<>>
        BY <1>2, <1>4, <2>7
      <4>3. QED
        BY <2>8, <4>1, <4>2
    <3>2. in_using = NULL => Len(order') = 1 /\ order'[1] = n
      BY <1>4, <2>2
    <3>3. at'[c] \in Works
      BY <1>4 DEF Works
    <3>4. QED
      BY <1>2, <1>4, <2>2, <3>1, <3>2, <3>3 DEF OneQueue, UseOf
  <2>13. CallerOK(c)'
    BY <1>2, <1>4, <2>10, <2>11 DEF CallerOK, Taking
  <2>14. ListsOf(c)'
    <3>1. (Forth(heap, Queued) /\ Back(heap, Queued))'
      BY <1>4, <2>4, <2>5, <2>6, <2>10 DEF Forth, Back, Along, At
    <3>2. QED
      BY <1>4, <3>1 DEF ListsOf, Half, Deleting
  <2>15. CountOf(c)'
    <3>1. (Len(q) + 1) - 1 = Len(q)
      BY <2>1
    <3>2. QED
      BY <1>4, <2>2, <2>10, <2>11, <3>1 DEF CountOf
  <2>16. QED
    BY <1>4, <2>9, <2>12, <2>13, <2>14, <2>15, ToOne DEF OneQueue
<1>6. QED
  BY <1>4, <1>5 DEF DiskInv, DiskWork
-----------------------------------------------------------------------------
(* With one request in order and in use, none is queued; and the last one  *)
(* queued is the last in order.                                            *)
LEMMA TakesOnly ==
  ASSUME DiskInv, ~clash, in_using # 0, NEW c \in Callers, in_using = node[c], Len(order) = 1
  PROVE  Queued = <<>> /\ Len(Queued) = 0
<1>0. in_using # NULL
  BY DiskNumbers DEF DiskInv, DiskShape, TypeOK
<1>1. PICK o \in Seq(1..Len(sectors)) : o = order /\ Queued = Tail(o) /\ o # <<>>
  BY <1>0, QueueOK
<1>2. Len(Tail(o)) = 0 /\ Tail(o) \in Seq(1..Len(sectors))
  BY <1>1, TailIs
<1>3. Tail(o) = <<>>
  BY <1>2, EmptySeq
<1>4. QED
  BY <1>1, <1>2, <1>3

LEMMA LastOf ==
  ASSUME DiskInv, ~clash, in_using # 0, Queued # <<>>
  PROVE  order # <<>> /\ order[Len(order)] = Queued[Len(Queued)]
<1>1. CASE in_using = NULL
  BY <1>1, QueueOK
<1>2. CASE in_using # NULL
  <2>1. PICK o \in Seq(1..Len(sectors)) : o = order /\ Queued = Tail(o) /\ o # <<>>
    BY <1>2, QueueOK
  <2>2. Len(o) \in Nat /\ Len(o) > 0 /\ Len(Tail(o)) = Len(o) - 1 /\ \A i \in 1..(Len(o) - 1) : Tail(o)[i] = o[i + 1]
    BY <2>1, TailIs
  <2>3. Len(Tail(o)) # 0
    <3>1. Tail(o) \in Seq(1..Len(sectors)) /\ Tail(o) # <<>>
      BY <2>1, TailIs
    <3>2. QED
      BY <3>1, EmptySeq
  <2>4. Len(o) - 1 \in 1..(Len(o) - 1) /\ (Len(o) - 1) + 1 = Len(o)
    <3>1. PICK k \in Nat : k = Len(o) /\ k > 0
      BY <2>2
    <3>2. k - 1 # 0
      BY <2>2, <2>3, <3>1
    <3>3. QED
      BY <3>1, <3>2
  <2>5. QED
    BY <2>1, <2>2, <2>4
<1>3. QED
  BY <1>1, <1>2
-----------------------------------------------------------------------------
(* count++ and count--, the flag, the test and list_del: steps of submit   *)
(* on a queue that is linked.                                              *)
LEMMA SubmitsOn ==
  ASSUME DiskInv, NEW c \in Callers,
         NEW from \in {"load", "store", "flag", "test", "del1", "del2", "unload", "unstore"},
         NEW to \in {"store", "flag", "test", "take", "del2", "unload", "unstore", "busy", "wait"},
         Step(c, from, to),
         heap' \in Heaps, reg' \in [Callers -> Int], block_request_count' \in Int,
         disk_flags' = IF from = "flag" THEN 1 ELSE disk_flags,
         UNCHANGED <<in_using, node, sectors, disk, irq, order, ended, moved, early, company, late, clash, crashed>>,
         to = "store" => from = "load",
         to = "take" => in_using = NULL,
         from \in {"load", "store"} => to \in {"store", "flag"},
         from \in {"load", "store", "flag", "test"} => to \notin {"del2", "unload", "unstore", "busy"},
         from \in {"del1", "del2", "unload", "unstore"} => to \in {"del2", "unload", "unstore", "busy"},
         in_using # 0 => CallerOK(c)' /\ UseOf(c)' /\ ListsOf(c)' /\ CountOf(c)'
  PROVE  DiskInv'
<1>1. from \in Places \ {"idle", "wait"} /\ to \in Places \ {"idle"}
  BY DEF Places
<1>2. DiskShape /\ DiskWork /\ ~clash /\ at[c] = from
  BY <1>1, StepIs
<1>3. in_using' \in Nodes \cup {NULL} /\ order' \in Seq(1..Len(sectors)) /\ disk_flags' \in {disk_flags, 1}
  BY <1>2 DEF DiskShape, TypeOK
<1>4. /\ ~clash' /\ at'[c] = to /\ Submitting(c)
      /\ \A d \in Callers : d # c => at[d] \in {"idle", "wait"} /\ at'[d] \in {"idle", "wait"}
      /\ DiskShape' /\ OneSubmits' /\ (\A d \in Callers : Known(d)')
      /\ Live' = Live
  BY <1>1, <1>3, SubmitMoves
<1>5. Started' <=> Started
  <2>1. (Taking(c)' \/ at'[c] = "busy") <=> (Taking(c) \/ at[c] = "busy")
    BY <1>2, <1>4 DEF Taking
  <2>2. \A d \in Callers : d # c => ~(Taking(d)' \/ at'[d] = "busy") /\ ~(Taking(d) \/ at[d] = "busy")
    BY <1>4 DEF Taking
  <2>3. QED
    BY <2>1, <2>2 DEF Started
<1>6. DriveOK' /\ Lonely'
  BY <1>2, <1>5, DriveStays
<1>7. ASSUME in_using # 0
      PROVE  QueueWork'
  <2>1. OrderOK
    BY <1>2, <1>7 DEF DiskWork, QueueWork
  <2>2. OrderOK'
    BY <1>4, <2>1 DEF OrderOK, Apart
  <2>3. QED
    BY <1>4, <1>7, <2>2, ToOne DEF OneQueue
<1>8. QED
  BY <1>2, <1>4, <1>6, <1>7 DEF DiskInv, DiskWork

(* Lists as they are when nothing of them has changed.                     *)
LEMMA SameLists ==
  ASSUME NEW c \in Callers, ~Half(c), ~Deleting(c), ~(Half(c)'), ~(Deleting(c)'), at'[c] \notin {"add2", "add4"},
         ListsOf(c), heap' = heap, Queued' = Queued
  PROVE  ListsOf(c)'
<1>1. (Forth(heap, Queued) /\ Back(heap, Queued))'
  BY DEF ListsOf, Forth, Back, Along, At
<1>2. QED
  BY <1>1 DEF ListsOf

LEMMA Loads ==
  ASSUME DiskInv, NEW c \in Callers, LoadCount(c)
  PROVE  DiskInv'
<1>1. /\ reg' = [reg EXCEPT ![c] = block_request_count]
      /\ UNCHANGED <<heap, in_using, block_request_count, disk_flags, node, sectors, disk, irq,
                     order, ended, moved, early, company, late, clash, crashed>>
      /\ Step(c, "load", "store") \/ Step(c, "unload", "unstore")
  BY DEF LoadCount, queue, drive, history
<1>2. DiskShape /\ ~clash
  BY <1>1 DEF DiskInv, Step
<1>3. reg' \in [Callers -> Int] /\ reg'[c] = block_request_count /\ block_request_count' \in Int /\ heap' \in Heaps
  BY <1>1, <1>2 DEF DiskShape, TypeOK, Heaps
<1>4. Queued' = Queued
  BY <1>1 DEF Queued
<1>5. CASE Step(c, "load", "store")
  <2>1. at[c] = "load" /\ at'[c] = "store" /\ Submitting(c)
    BY <1>5, StepIs DEF Places, Submitting
  <2>2. ASSUME in_using # 0
        PROVE  CallerOK(c)' /\ UseOf(c)' /\ ListsOf(c)' /\ CountOf(c)'
    <3>1. OneQueue(c)
      BY <1>2, <2>1, <2>2, OfOne
    <3>2. ListsOf(c)'
      BY <1>1, <1>4, <2>1, <3>1, SameLists DEF OneQueue, Half, Deleting
    <3>3. QED
      BY <1>1, <1>3, <1>4, <2>1, <3>1, <3>2 DEF OneQueue, CallerOK, Taking, UseOf, CountOf, Works
  <2>3. QED
    BY <1>1, <1>3, <1>5, <2>2, SubmitsOn
<1>6. CASE Step(c, "unload", "unstore")
  <2>1. at[c] = "unload" /\ at'[c] = "unstore" /\ Submitting(c)
    BY <1>6, StepIs DEF Places, Submitting
  <2>2. ASSUME in_using # 0
        PROVE  CallerOK(c)' /\ UseOf(c)' /\ ListsOf(c)' /\ CountOf(c)'
    <3>1. OneQueue(c)
      BY <1>2, <2>1, <2>2, OfOne
    <3>2. ListsOf(c)'
      BY <1>1, <1>4, <2>1, <3>1, SameLists DEF OneQueue, Half, Deleting
    <3>3. in_using = node[c] /\ Len(order) = 1 /\ block_request_count = Len(Queued) + 1
      BY <2>1, <3>1 DEF OneQueue, CallerOK, Taking, CountOf
    <3>4. Len(Queued) = 0
      BY <1>2, <2>1, <2>2, <3>1, <3>3, TakesOnly
    <3>5. QED
      BY <1>1, <1>3, <1>4, <2>1, <3>1, <3>2, <3>3, <3>4 DEF OneQueue, CallerOK, Taking, UseOf, CountOf, Works
  <2>3. QED
    BY <1>1, <1>3, <1>6, <2>2, SubmitsOn
<1>7. QED
  BY <1>1, <1>5, <1>6

LEMMA Stores ==
  ASSUME DiskInv, NEW c \in Callers, StoreCount(c)
  PROVE  DiskInv'
<1>1. /\ reg' = [reg EXCEPT ![c] = 0]
      /\ UNCHANGED <<heap, in_using, disk_flags, node, sectors, disk, irq,
                     order, ended, moved, early, company, late, clash, crashed>>
      /\ \/ Step(c, "store", "flag") /\ block_request_count' = reg[c] + 1
         \/ Step(c, "unstore", "busy") /\ block_request_count' = reg[c] - 1
  BY DEF StoreCount, drive, history
<1>2. DiskShape /\ ~clash
  BY <1>1 DEF DiskInv, Step
<1>3. reg' \in [Callers -> Int] /\ reg[c] \in Int /\ block_request_count' \in Int /\ heap' \in Heaps
  BY <1>1, <1>2 DEF DiskShape, TypeOK, Heaps
<1>4. Queued' = Queued
  BY <1>1 DEF Queued
<1>5. CASE Step(c, "store", "flag") /\ block_request_count' = reg[c] + 1
  <2>1. at[c] = "store" /\ at'[c] = "flag" /\ Submitting(c)
    BY <1>5, StepIs DEF Places, Submitting
  <2>2. ASSUME in_using # 0
        PROVE  CallerOK(c)' /\ UseOf(c)' /\ ListsOf(c)' /\ CountOf(c)'
    <3>1. OneQueue(c)
      BY <1>2, <2>1, <2>2, OfOne
    <3>2. ListsOf(c)'
      BY <1>1, <1>4, <2>1, <3>1, SameLists DEF OneQueue, Half, Deleting
    <3>3. reg[c] = block_request_count /\ block_request_count = Len(Queued) - 1 /\ Queued # <<>> /\ Queued[Len(Queued)] = node[c]
      BY <2>1, <3>1 DEF OneQueue, CallerOK, CountOf
    <3>4. Len(Queued) \in Nat
      BY <1>2, <2>2, QueueOK
    <3>5. order # <<>> /\ order[Len(order)] = node[c]
      BY <1>2, <2>2, <3>3, LastOf
    <3>6. block_request_count' = Len(Queued)
      BY <1>5, <3>3, <3>4
    <3>7. QED
      BY <1>1, <1>4, <2>1, <3>1, <3>2, <3>5, <3>6 DEF OneQueue, CallerOK, Taking, UseOf, CountOf, Works
  <2>3. QED
    BY <1>1, <1>3, <1>5, <2>2, SubmitsOn
<1>6. CASE Step(c, "unstore", "busy") /\ block_request_count' = reg[c] - 1
  <2>1. at[c] = "unstore" /\ at'[c] = "busy" /\ Submitting(c)
    BY <1>6, StepIs DEF Places, Submitting
  <2>2. ASSUME in_using # 0
        PROVE  CallerOK(c)' /\ UseOf(c)' /\ ListsOf(c)' /\ CountOf(c)'
    <3>1. OneQueue(c)
      BY <1>2, <2>1, <2>2, OfOne
    <3>2. ListsOf(c)'
      BY <1>1, <1>4, <2>1, <3>1, SameLists DEF OneQueue, Half, Deleting
    <3>3. in_using = node[c] /\ Len(order) = 1 /\ reg[c] = 1
      BY <2>1, <3>1 DEF OneQueue, CallerOK, Taking
    <3>4. Len(Queued) = 0
      BY <1>2, <2>1, <2>2, <3>1, <3>3, TakesOnly
    <3>5. block_request_count' = 0
      BY <1>6, <3>3
    <3>6. QED
      BY <1>1, <1>4, <2>1, <3>1, <3>2, <3>3, <3>4, <3>5 DEF OneQueue, CallerOK, Taking, UseOf, CountOf, Works
  <2>3. QED
    BY <1>1, <1>3, <1>6, <2>2, SubmitsOn
<1>7. QED
  BY <1>1, <1>5, <1>6

LEMMA Flags ==
  ASSUME DiskInv, NEW c \in Callers, SetFlag(c)
  PROVE  DiskInv'
<1>1. /\ Step(c, "flag", "test") /\ disk_flags' = 1
      /\ UNCHANGED <<heap, in_using, block_request_count, node, reg, sectors, disk, irq,
                     order, ended, moved, early, company, late, clash, crashed>>
  BY DEF SetFlag, queue, drive, history
<1>2. DiskShape /\ ~clash
  BY <1>1 DEF DiskInv, Step
<1>3. reg' \in [Callers -> Int] /\ block_request_count' \in Int /\ heap' \in Heaps
  BY <1>1, <1>2 DEF DiskShape, TypeOK, Heaps
<1>4. Queued' = Queued
  BY <1>1 DEF Queued
<1>5. at[c] = "flag" /\ at'[c] = "test" /\ Submitting(c)
  BY <1>1, StepIs DEF Places, Submitting
<1>6. ASSUME in_using # 0
      PROVE  CallerOK(c)' /\ UseOf(c)' /\ ListsOf(c)' /\ CountOf(c)'
  <2>1. OneQueue(c)
    BY <1>2, <1>5, <1>6, OfOne
  <2>2. ListsOf(c)'
    BY <1>1, <1>4, <1>5, <2>1, SameLists DEF OneQueue, Half, Deleting
  <2>3. QED
    BY <1>1, <1>4, <1>5, <2>1, <2>2 DEF OneQueue, CallerOK, Taking, UseOf, CountOf, Works
<1>7. QED
  BY <1>1, <1>3, <1>6, SubmitsOn

LEMMA Tests ==
  ASSUME DiskInv, NEW c \in Callers, TestInUsing(c)
  PROVE  DiskInv'
<1>1. /\ Step(c, "test", IF in_using = NULL THEN "take" ELSE "wait")
      /\ UNCHANGED <<heap, in_using, block_request_count, disk_flags, node, reg, sectors, disk, irq,
                     order, ended, moved, early, company, late, clash, crashed>>
  BY DEF TestInUsing, queue, drive, history
<1>2. DiskShape /\ ~clash
  BY <1>1 DEF DiskInv, Step
<1>3. reg' \in [Callers -> Int] /\ block_request_count' \in Int /\ heap' \in Heaps
  BY <1>1, <1>2 DEF DiskShape, TypeOK, Heaps
<1>4. Queued' = Queued
  BY <1>1 DEF Queued
<1>5. PICK to \in {"take", "wait"} : to = IF in_using = NULL THEN "take" ELSE "wait"
  OBVIOUS
<1>6. at[c] = "test" /\ at'[c] = to /\ Submitting(c) /\ Step(c, "test", to)
  BY <1>1, <1>5, StepIs DEF Places, Submitting
<1>7. ASSUME in_using # 0
      PROVE  CallerOK(c)' /\ UseOf(c)' /\ ListsOf(c)' /\ CountOf(c)'
  <2>1. OneQueue(c)
    BY <1>2, <1>6, <1>7, OfOne
  <2>2. ListsOf(c)'
    BY <1>1, <1>4, <1>6, <2>1, SameLists DEF OneQueue, Half, Deleting
  <2>3. CallerOK(c)'
    BY <1>1, <1>5, <1>6, <2>1 DEF OneQueue, CallerOK, Taking
  <2>4. UseOf(c)' /\ CountOf(c)'
    BY <1>1, <1>4, <1>5, <1>6, <2>1 DEF OneQueue, Taking, UseOf, CountOf, Works
  <2>5. QED
    BY <2>2, <2>3, <2>4
<1>8. QED
  BY <1>1, <1>3, <1>5, <1>6, <1>7, SubmitsOn

LEMMA Deletes ==
  ASSUME DiskInv, NEW c \in Callers, cmd_out_del(c)
  PROVE  DiskInv'
<1>1. /\ UNCHANGED <<in_using, block_request_count, disk_flags, node, reg, sectors, disk, irq,
                     order, ended, moved, early, company, late, clash, crashed>>
      /\ \/ /\ Step(c, "del1", "del2")
            /\ heap' = [heap EXCEPT !.prev[heap.next[in_using]] = heap.prev[in_using]]
         \/ /\ Step(c, "del2", "unload")
            /\ heap' = [heap EXCEPT !.next[heap.prev[in_using]] = heap.next[in_using]]
  BY DEF cmd_out_del, drive, history
<1>2. DiskShape /\ DiskWork /\ ~clash
  BY <1>1 DEF DiskInv, Step
<1>3. reg' \in [Callers -> Int] /\ block_request_count' \in Int /\ heap \in Heaps /\ 0 \in Nodes
  BY <1>1, <1>2, DiskNumbers DEF DiskShape, TypeOK, Heaps
<1>4. Queued' = Queued
  BY <1>1 DEF Queued
<1>5. at[c] \in {"del1", "del2"} /\ Submitting(c)
  BY <1>1 DEF Step, Submitting
<1>6. ASSUME in_using # 0
      PROVE  /\ OneQueue(c) /\ in_using = node[c] /\ node[c] \in Nodes /\ Len(order) = 1 /\ Queued = <<>> /\ Len(Queued) = 0
             /\ heap.next[0] = node[c] /\ heap.next[node[c]] = 0 /\ heap.prev[node[c]] = 0
  <2>1. OneQueue(c)
    BY <1>2, <1>5, <1>6, OfOne
  <2>2. in_using = node[c] /\ Len(order) = 1 /\ heap.next[0] = node[c] /\ heap.next[node[c]] = 0 /\ heap.prev[node[c]] = 0
    BY <1>5, <2>1 DEF OneQueue, CallerOK, Taking, ListsOf, Deleting
  <2>3. Len(Queued) = 0 /\ Queued = <<>>
    BY <1>2, <1>5, <1>6, <2>1, <2>2, TakesOnly
  <2>4. node[c] \in Nodes
    BY <1>2 DEF DiskShape, TypeOK
  <2>5. QED
    BY <2>1, <2>2, <2>3, <2>4
<1>7. in_using \in Nodes
  BY <1>3, <1>6
<1>8. PICK n \in Nodes, x \in Nodes, y \in Nodes : n = in_using /\ x = heap.next[n] /\ y = heap.prev[n]
  BY <1>3, <1>7 DEF Heaps
<1>9. CASE /\ Step(c, "del1", "del2")
           /\ heap' = [heap EXCEPT !.prev[heap.next[in_using]] = heap.prev[in_using]]
  <2>1. at[c] = "del1" /\ at'[c] = "del2"
    BY <1>9, StepIs DEF Places
  <2>2. heap' = Set(heap, "prev", x, y)
    BY <1>8, <1>9 DEF Set
  <2>3. heap' \in Heaps /\ heap'.next = heap.next /\ heap'.prev[x] = y /\ \A m \in Nodes : m # x => heap'.prev[m] = heap.prev[m]
    <3>2. /\ Set(heap, "prev", x, y) \in Heaps /\ Set(heap, "prev", x, y).next = heap.next /\ Set(heap, "prev", x, y).prev[x] = y
          /\ \A m \in Nodes : m # x => Set(heap, "prev", x, y).prev[m] = heap.prev[m]
      BY <1>3, SetInHeaps
    <3>3. QED
      BY <2>2, <3>2
  <2>4. ASSUME in_using # 0
        PROVE  CallerOK(c)' /\ UseOf(c)' /\ ListsOf(c)' /\ CountOf(c)'
    <3>1. x = 0 /\ y = 0 /\ heap'.prev[0] = 0 /\ heap'.prev[node[c]] = 0
      BY <1>6, <1>8, <2>3, <2>4
    <3>2. ListsOf(c)'
      BY <1>1, <1>6, <2>1, <2>3, <2>4, <3>1 DEF ListsOf, Half, Deleting
    <3>3. QED
      BY <1>1, <1>4, <1>6, <2>1, <2>4, <3>2 DEF OneQueue, CallerOK, Taking, UseOf, CountOf, Works
  <2>5. QED
    BY <1>1, <1>3, <1>9, <2>3, <2>4, SubmitsOn
<1>10. CASE /\ Step(c, "del2", "unload")
            /\ heap' = [heap EXCEPT !.next[heap.prev[in_using]] = heap.next[in_using]]
  <2>1. at[c] = "del2" /\ at'[c] = "unload"
    BY <1>10, StepIs DEF Places
  <2>2. heap' = Set(heap, "next", y, x)
    BY <1>8, <1>10 DEF Set
  <2>3. heap' \in Heaps /\ heap'.prev = heap.prev /\ heap'.next[y] = x
    <3>2. Set(heap, "next", y, x) \in Heaps /\ Set(heap, "next", y, x).prev = heap.prev /\ Set(heap, "next", y, x).next[y] = x
      BY <1>3, SetInHeaps
    <3>3. QED
      BY <2>2, <3>2
  <2>4. ASSUME in_using # 0
        PROVE  CallerOK(c)' /\ UseOf(c)' /\ ListsOf(c)' /\ CountOf(c)'
    <3>1. heap'.next[0] = 0
      BY <1>6, <1>8, <2>3, <2>4
    <3>2. heap.prev[0] = 0
      BY <1>6, <2>1, <2>4 DEF OneQueue, ListsOf, Deleting
    <3>3. At(0, <<>>, 1) = 0 /\ At(0, <<>>, 0) = 0 /\ Len(<<>>) = 0
      BY DEF At
    <3>4. (Forth(heap, Queued) /\ Back(heap, Queued))'
      BY <1>4, <1>6, <2>3, <2>4, <3>1, <3>2, <3>3 DEF Forth, Back, Along
    <3>5. ListsOf(c)'
      BY <2>1, <3>4 DEF ListsOf, Half, Deleting
    <3>6. QED
      BY <1>1, <1>4, <1>6, <2>1, <2>4, <3>5 DEF OneQueue, CallerOK, Taking, UseOf, CountOf, Works
  <2>5. QED
    BY <1>1, <1>3, <1>10, <2>3, <2>4, SubmitsOn
<1>11. QED
  BY <1>1, <1>9, <1>10
-----------------------------------------------------------------------------
(* cmd_out takes the caller's own request, or the head of an empty queue.  *)
LEMMA Takes ==
  ASSUME DiskInv, NEW c \in Callers, cmd_out_take(c)
  PROVE  DiskInv'
<1>1. /\ Step(c, "take", "del1") /\ in_using' = heap.next[0]
      /\ UNCHANGED <<heap, block_request_count, disk_flags, node, reg, sectors, disk, irq,
                     order, ended, moved, early, company, late, clash, crashed>>
  BY DEF cmd_out_take, drive, history
<1>2. /\ DiskShape /\ DiskWork /\ ~clash /\ at[c] = "take" /\ at'[c] = "del1" /\ Submitting(c)
  BY <1>1, StepIs DEF Places, Submitting
<1>3. /\ "take" \in Places \ {"idle", "wait"} /\ "del1" \in Places \ {"idle"} /\ heap' \in Heaps
      /\ reg' \in [Callers -> Int] /\ block_request_count' \in Int /\ order' \in Seq(1..Len(sectors))
      /\ in_using' \in Nodes /\ disk_flags' \in {disk_flags, 1} /\ 0 \in Nodes /\ NULL \notin Nodes
  BY <1>1, <1>2, DiskNumbers DEF DiskShape, TypeOK, Heaps, Places
<1>4. /\ ~clash' /\ \A d \in Callers : d # c => at[d] \in {"idle", "wait"} /\ at'[d] \in {"idle", "wait"}
      /\ DiskShape' /\ OneSubmits' /\ (\A d \in Callers : Known(d)')
      /\ Live' = Live /\ Several' = Several
  BY <1>1, <1>3, SubmitMoves
<1>5. Started'
  BY <1>2 DEF Started, Taking
<1>6. /\ in_using = NULL
      /\ Idle' <=> Idle
      /\ \A r : Doing(r)' <=> Doing(r)
  BY <1>1, <1>2 DEF DiskWork, Known, Idle, Doing
<1>7. in_using # 0
  BY <1>3, <1>6
<1>8. DriveOK'
  BY <1>2, <1>4, <1>5, <1>6, <1>7 DEF DiskWork, DriveOK
<1>9. Lonely'
  <2>1. SUFFICES ASSUME NEW r \in 1..Len(sectors), r \notin company, r \notin Several
                 PROVE  LoneRequest(r)'
    BY <1>1, <1>4 DEF Lonely
  <2>2. LoneRequest(r)
    BY <1>2, <2>1 DEF DiskWork, Lonely
  <2>3. r \in Nodes /\ r # 0
    BY <1>2, <2>1, DiskNumbers DEF DiskShape
  <2>4. in_using # r
    BY <1>3, <1>6, <2>3
  <2>5. QED
    BY <1>1, <1>4, <1>5, <1>6, <2>2, <2>4 DEF LoneRequest
<1>10. QED
  <2>1. OneQueue(c) /\ in_using = NULL /\ Queued = order
    BY <1>2, <1>6, <1>7, OfOne DEF Queued
  <2>2. Forth(heap, order) /\ Back(heap, order) /\ block_request_count = Len(order) /\ (order # <<>> \/ late # {})
    BY <1>2, <2>1 DEF OneQueue, ListsOf, Half, Deleting, CountOf, Taking, CallerOK
  <2>3. CASE order = <<>>
    <3>1. in_using' = 0
      BY <1>1, <2>2, <2>3 DEF Forth, At
    <3>2. QED
      BY <1>1, <1>4, <1>8, <1>9, <2>2, <2>3, <3>1 DEF DiskInv, DiskWork
  <2>4. CASE order # <<>>
    <3>1. Len(order) = 1 /\ order[1] = node[c]
      BY <2>1, <2>4 DEF OneQueue, UseOf
    <3>2. PICK n \in 1..Len(sectors) : n = node[c] /\ n # 0 /\ n \in Nodes
      <4>1. node[c] \in 1..Len(sectors) /\ node[c] \in Nodes
        BY <1>2 DEF DiskWork, Known, DiskShape, TypeOK
      <4>2. QED
        BY <4>1
    <3>3. /\ heap.next[0] = n /\ heap.next[n] = 0 /\ heap.prev[0] = n /\ heap.prev[n] = 0
      <4>1. At(0, order, 1) = n /\ At(0, order, 2) = 0 /\ At(0, order, 0) = 0 /\ 1 \in 1..Len(order) /\ 1 + 1 = 2 /\ 1 - 1 = 0
        BY <3>1, <3>2 DEF At
      <4>2. QED
        BY <2>2, <3>1, <3>2, <4>1 DEF Forth, Along, Back
    <3>4. in_using' = n /\ Queued' = Tail(order) /\ n # NULL
      BY <1>1, <1>3, <3>2, <3>3 DEF Queued
    <3>5. Len(Tail(order)) = 0
      <4>1. PICK o \in Seq(1..Len(sectors)) : o = order
        BY <1>2 DEF DiskShape
      <4>2. Len(Tail(o)) = Len(o) - 1
        BY <2>4, <4>1, TailIs
      <4>3. QED
        BY <3>1, <4>1, <4>2
    <3>6. OrderOK' /\ UseOf(c)' /\ CallerOK(c)'
      BY <1>1, <1>2, <1>4, <2>1, <2>4, <3>1, <3>2, <3>4 DEF OneQueue, OrderOK, Apart, UseOf, CallerOK, Taking, Works
    <3>7. CountOf(c)'
      BY <1>1, <1>2, <2>2, <3>1, <3>4, <3>5 DEF CountOf, Taking
    <3>8. ListsOf(c)'
      BY <1>1, <1>2, <3>2, <3>3 DEF ListsOf, Half, Deleting
    <3>9. QueueWork'
      BY <1>4, <3>6, <3>7, <3>8, ToOne DEF OneQueue
    <3>10. QED
      BY <1>4, <1>8, <1>9, <3>2, <3>4, <3>9 DEF DiskInv, DiskWork
  <2>5. QED
    BY <2>3, <2>4

(* The command, once the drive is not busy.                                *)
LEMMA Commands ==
  ASSUME DiskInv, NEW c \in Callers, cmd_out_command(c)
  PROVE  DiskInv'
<1>1. /\ Step(c, "busy", "wait") /\ ~Busy
      /\ disk' = IF in_using = 0 THEN disk ELSE Command(node[c])
      /\ UNCHANGED <<heap, in_using, block_request_count, disk_flags, node, reg, sectors, irq,
                     order, ended, moved, early, company, late, clash, crashed>>
  BY DEF cmd_out_command, queue, history
<1>2. /\ DiskShape /\ DiskWork /\ ~clash /\ ~clash' /\ at[c] = "busy" /\ at'[c] = "wait" /\ Submitting(c)
      /\ at' \in [Callers -> Places] /\ \A d \in Callers : d # c => at'[d] = at[d]
  BY <1>1, StepIs DEF Places, Submitting
<1>3. \A d \in Callers : d # c => at[d] \in {"idle", "wait"}
  BY <1>2, OthersWait
<1>4. Live' = Live /\ Several' = Several
  BY <1>1 DEF Live, Several
<1>5. PICK n \in 1..Len(sectors) : n = node[c] /\ n = Len(sectors) /\ n \in Nodes /\ n # 0 /\ n # NULL
                                   /\ sectors[n] \in 1..MaxSectors
  <2>1. node[c] \in 1..Len(sectors) /\ node[c] = Len(sectors) /\ node[c] \in Nodes
    BY <1>2 DEF DiskWork, Known, DiskShape, TypeOK
  <2>2. sectors \in Seq(1..MaxSectors)
    BY <1>2 DEF DiskShape
  <2>3. sectors[node[c]] \in 1..MaxSectors
    BY <2>1, <2>2, ElementOfSeq
  <2>4. QED
    BY <2>1, <2>3, DiskNumbers
<1>6. disk' = IF in_using = 0 THEN disk ELSE [node |-> n, left |-> sectors[n], drq |-> FALSE]
  BY <1>1, <1>5 DEF Command
<1>7. DiskShape'
  <2>1. TypeOK'
    <3>1. disk' \in [node : Nodes, left : 0..MaxSectors, drq : BOOLEAN]
      <4>1. CASE in_using = 0
        BY <1>2, <1>6, <4>1 DEF DiskShape, TypeOK
      <4>2. CASE in_using # 0
        <5>1. sectors[n] \in 0..MaxSectors
          BY <1>5, DiskNumbers
        <5>2. QED
          BY <1>5, <1>6, <4>2, <5>1
      <4>3. QED
        BY <4>1, <4>2
    <3>2. QED
      BY <1>1, <1>2, <3>1 DEF DiskShape, TypeOK
  <2>2. (disk.left > 0 \/ disk.drq =>
           disk.node \in 1..Len(sectors) /\ disk.left + (IF disk.drq THEN 1 ELSE 0) <= sectors[disk.node])'
    BY <1>1, <1>2, <1>5, <1>6, DiskNumbers DEF DiskShape
  <2>3. QED
    BY <1>1, <1>2, <1>4, <2>1, <2>2 DEF DiskShape
<1>8. OneSubmits' /\ \A d \in Callers : Known(d)'
  <2>1. OneSubmits'
    BY <1>2, <1>3 DEF OneSubmits, Submitting
  <2>2. ASSUME NEW d \in Callers
        PROVE  Known(d)'
    BY <1>1, <1>2, <1>3, <1>4 DEF DiskWork, Known, Submitting, Adding
  <2>3. QED
    BY <2>1, <2>2
<1>9. Started /\ ~Started'
  BY <1>2, <1>3 DEF Started, Taking
<1>10. in_using # 0 => \/ in_using = n
                       \/ in_using = NULL /\ Several # {} /\ n \in ended
  BY <1>2, <1>5, OfOne DEF OneQueue, CallerOK
<1>11. DriveOK'
  <2>1. SUFFICES ASSUME Several = {}
                 PROVE  IF in_using \in {NULL, 0} THEN Idle' ELSE Doing(in_using)'
    BY <1>1, <1>4, <1>9 DEF DriveOK
  <2>2. Idle
    BY <1>2, <1>9, <2>1 DEF DiskWork, DriveOK
  <2>3. CASE in_using = 0
    BY <1>1, <2>2, <2>3 DEF Idle
  <2>4. CASE in_using # 0
    <3>1. in_using = n /\ sectors[n] = 1
      BY <1>5, <1>10, <2>1, <2>4, DiskNumbers DEF Several
    <3>2. QED
      BY <1>1, <1>5, <1>6, <2>2, <3>1 DEF Idle, Doing
  <2>5. QED
    BY <2>3, <2>4
<1>12. Lonely'
  <2>1. SUFFICES ASSUME NEW r \in 1..Len(sectors), r \notin company, r \notin Several
                 PROVE  LoneRequest(r)'
    BY <1>1, <1>4 DEF Lonely
  <2>2. LoneRequest(r) /\ sectors[r] <= 1
    <3>1. sectors \in Seq(1..MaxSectors)
      BY <1>2 DEF DiskShape
    <3>2. sectors[r] \in 1..MaxSectors
      BY <2>1, <3>1, ElementOfSeq
    <3>3. QED
      BY <1>2, <2>1, <3>2, DiskNumbers DEF DiskWork, Lonely, Several
  <2>3. CASE r \in ended
    BY <1>1, <2>2, <2>3 DEF LoneRequest
  <2>4. CASE r \notin ended
    <3>1. r = n /\ Live = {r} /\ Idle
      BY <1>5, <1>9, <2>2, <2>4 DEF LoneRequest
    <3>2. CASE in_using = 0
      BY <1>1, <1>4, <1>5, <2>2, <2>4, <3>1, <3>2 DEF LoneRequest, Idle
    <3>3. CASE in_using # 0
      <4>1. in_using = r /\ sectors[r] = 1
        BY <1>5, <1>10, <2>2, <2>4, <3>1, <3>3, DiskNumbers
      <4>2. Doing(r)'
        BY <1>1, <1>5, <1>6, <3>1, <3>3, <4>1 DEF Idle, Doing
      <4>3. QED
        BY <1>1, <1>4, <1>5, <1>9, <2>4, <3>1, <4>1, <4>2 DEF LoneRequest
    <3>4. QED
      BY <3>2, <3>3
  <2>5. QED
    BY <2>3, <2>4
<1>13. ASSUME in_using # 0
       PROVE  QueueWork'
  <2>1. \A d \in Callers : \/ at'[d] = at[d] /\ node'[d] = node[d] /\ reg'[d] = reg[d]
                           \/ at[d] \in {"idle", "wait", "add1", "busy"} /\ at'[d] \in {"idle", "wait", "add1"}
    BY <1>1, <1>2
  <2>2. QED
    BY <1>1, <1>2, <1>4, <1>13, <2>1, Quiet
<1>14. QED
  BY <1>1, <1>2, <1>7, <1>8, <1>11, <1>12, <1>13 DEF DiskInv, DiskWork

LEMMA Waits ==
  ASSUME DiskInv, NEW c \in Callers, wait_for_finish(c)
  PROVE  DiskInv'
<1>1. /\ Step(c, "wait", "idle") /\ disk_flags = 0
      /\ early' = IF node[c] \in moved THEN early ELSE early \union {node[c]}
      /\ node' = [node EXCEPT ![c] = 0]
      /\ UNCHANGED <<heap, in_using, block_request_count, disk_flags, reg, sectors, disk, irq,
                     order, ended, moved, company, late, clash, crashed>>
  BY DEF wait_for_finish, queue, drive
<1>2. /\ DiskShape /\ DiskWork /\ ~clash /\ ~clash' /\ at[c] = "wait" /\ at'[c] = "idle"
      /\ at' \in [Callers -> Places] /\ \A d \in Callers : d # c => at'[d] = at[d]
  BY <1>1, StepIs DEF Places
<1>3. node' \in [Callers -> Nodes] /\ \A d \in Callers : d # c => node'[d] = node[d]
  BY <1>1, <1>2, DiskNumbers DEF DiskShape, TypeOK
<1>4. \A d \in Callers : Submitting(d)' => Submitting(d) /\ d # c
  BY <1>2 DEF Submitting
<1>5. OneSubmits'
  BY <1>2, <1>4 DEF DiskWork, OneSubmits
<1>6. Started' <=> Started
  <2>1. \A d \in Callers : (Taking(d)' \/ at'[d] = "busy") <=> (Taking(d) \/ at[d] = "busy")
    BY <1>2 DEF Taking
  <2>2. QED
    BY <2>1 DEF Started
<1>7. DriveOK' /\ Lonely' /\ Live' = Live /\ Several' = Several
  BY <1>1, <1>2, <1>6, DriveStays
<1>8. node[c] \in moved \/ node[c] \in company \cup Several
  <2>1. node[c] \in 1..Len(sectors) /\ (node[c] \notin ended \cup company \cup Several => disk_flags = 1)
    BY <1>2 DEF DiskWork, Known
  <2>2. node[c] \notin company /\ node[c] \notin Several => LoneRequest(node[c])
    BY <1>2, <2>1 DEF DiskWork, Lonely
  <2>3. QED
    BY <1>1, <2>1, <2>2 DEF LoneRequest
<1>9. DiskShape'
  <2>1. TypeOK'
    BY <1>1, <1>2, <1>3 DEF DiskShape, TypeOK
  <2>2. QED
    BY <1>1, <1>2, <1>7, <1>8, <2>1 DEF DiskShape
<1>10. ASSUME NEW d \in Callers
       PROVE  Known(d)'
  <2>1. CASE d = c
    BY <1>2, <2>1 DEF Known, Submitting, Adding
  <2>2. CASE d # c
    BY <1>1, <1>2, <1>3, <1>7, <2>2 DEF DiskWork, Known, Submitting, Adding
  <2>3. QED
    BY <2>1, <2>2
<1>11. ASSUME in_using # 0
       PROVE  QueueWork'
  <2>1. \A d \in Callers : \/ at'[d] = at[d] /\ node'[d] = node[d] /\ reg'[d] = reg[d]
                           \/ at[d] \in {"idle", "wait", "add1", "busy"} /\ at'[d] \in {"idle", "wait", "add1"}
    BY <1>1, <1>2, <1>3
  <2>2. QED
    BY <1>1, <1>2, <1>7, <1>11, <2>1, Quiet
<1>12. QED
  BY <1>1, <1>2, <1>5, <1>7, <1>9, <1>10, <1>11 DEF DiskInv, DiskWork
(* The drive's next sector.                                                *)
LEMMA SectorsReady ==
  ASSUME DiskInv, SectorReady
  PROVE  DiskInv'
<1>1. /\ ~clash /\ ~crashed /\ disk.left > 0 /\ ~disk.drq
      /\ disk' = [disk EXCEPT !.left = @ - 1, !.drq = TRUE] /\ irq' = TRUE
      /\ UNCHANGED <<heap, in_using, block_request_count, disk_flags, at, node, reg, sectors,
                     order, ended, moved, early, company, late, clash, crashed>>
  BY DEF SectorReady, Busy, Ready, queue, history
<1>2. DiskShape /\ DiskWork
  BY <1>1 DEF DiskInv
<1>3. Live' = Live /\ Several' = Several /\ ~Idle /\ (Started' <=> Started)
  BY <1>1 DEF Live, Several, Idle, Started, Taking
<1>4. /\ disk \in [node : Nodes, left : 0..MaxSectors, drq : BOOLEAN] /\ MaxSectors \in Nat
      /\ disk'.node = disk.node /\ disk'.left = disk.left - 1 /\ disk'.drq = TRUE
      /\ disk' \in [node : Nodes, left : 0..MaxSectors, drq : BOOLEAN]
  <2>1. disk \in [node : Nodes, left : 0..MaxSectors, drq : BOOLEAN] /\ MaxSectors \in Nat
    BY <1>2, DiskNumbers DEF DiskShape, TypeOK
  <2>2. disk.left - 1 \in 0..MaxSectors
    BY <1>1, <2>1
  <2>3. QED
    BY <1>1, <2>1, <2>2
<1>5. DiskShape'
  <2>1. TypeOK'
    BY <1>1, <1>2, <1>4 DEF DiskShape, TypeOK
  <2>2. disk.node \in 1..Len(sectors) /\ (disk.left - 1) + 1 <= sectors[disk.node]
    <3>1. disk.node \in 1..Len(sectors) /\ disk.left + 0 <= sectors[disk.node]
      BY <1>1, <1>2 DEF DiskShape
    <3>2. disk.left \in Int /\ (disk.left - 1) + 1 = disk.left + 0
      BY <1>4
    <3>3. QED
      BY <3>1, <3>2
  <2>3. QED
    BY <1>1, <1>2, <1>3, <1>4, <2>1, <2>2 DEF DiskShape
<1>6. \A r : Doing(r) => Doing(r)'
  BY <1>1, <1>4 DEF Doing
<1>7. DriveOK'
  BY <1>1, <1>2, <1>3, <1>6 DEF DiskWork, DriveOK
<1>8. Lonely'
  BY <1>1, <1>2, <1>3, <1>6 DEF DiskWork, Lonely, LoneRequest
<1>9. OneSubmits' /\ \A d \in Callers : Known(d)'
  BY <1>1, <1>2, <1>3 DEF DiskWork, OneSubmits, Submitting, Known, Adding
<1>10. in_using # 0 => QueueWork'
  BY <1>1, <1>3, Quiet
<1>11. QED
  BY <1>1, <1>2, <1>5, <1>7, <1>8, <1>9, <1>10 DEF DiskInv, DiskWork

LEMMA MakesRequest ==
  ASSUME DiskInv, NEW c \in Callers, make_request(c)
  PROVE  DiskInv'
<1>1. /\ Step(c, "idle", "add1") /\ Len(sectors) < MaxRequests
      /\ node' = [node EXCEPT ![c] = Len(sectors) + 1]
      /\ company' = IF Live = {} /\ disk.left = 0 /\ ~disk.drq /\ ~irq THEN company
                    ELSE company \union Live \union {Len(sectors) + 1}
      /\ clash' = (clash \/ \E d \in Callers : Submitting(d))
      /\ UNCHANGED <<heap, in_using, block_request_count, disk_flags, reg, disk, irq,
                     order, ended, moved, early, late, crashed>>
      /\ \E s \in 1..MaxSectors : sectors' = Append(sectors, s)
  BY DEF make_request, queue, drive
<1>2. /\ DiskShape /\ DiskWork /\ ~clash /\ at[c] = "idle" /\ at'[c] = "add1"
      /\ at' \in [Callers -> Places] /\ \A d \in Callers : d # c => at'[d] = at[d]
  BY <1>1, StepIs DEF Places
<1>3. PICK n \in Nat : n = Len(sectors) + 1 /\ n \in Nodes /\ n \notin 1..Len(sectors) /\ Len(sectors) \in Nat
                       /\ 1..Len(sectors) \subseteq 1..n /\ n \in 1..n /\ n - 1 = Len(sectors)
                       /\ 1..n = 1..Len(sectors) \cup {n} /\ n # 0
  <2>1. Len(sectors) \in Nat
    BY <1>2 DEF DiskShape
  <2>2. QED
    BY <1>1, <2>1, DiskNumbers
<1>4. /\ sectors' \in Seq(1..MaxSectors) /\ Len(sectors') = n
      /\ \A r \in 1..Len(sectors) : sectors'[r] = sectors[r]
  BY <1>1, <1>2, <1>3 DEF DiskShape
<1>5. /\ ended \subseteq 1..Len(sectors) /\ n \notin ended
      /\ Live' = Live \cup {n} /\ Several \subseteq Several' /\ Live \subseteq 1..Len(sectors)
  BY <1>1, <1>2, <1>3, <1>4 DEF DiskShape, Live, Several
<1>6. company \subseteq company'
  BY <1>1
<1>7. node' \in [Callers -> Nodes] /\ node'[c] = n /\ \A d \in Callers : d # c => node'[d] = node[d]
  BY <1>1, <1>2, <1>3 DEF DiskShape, TypeOK
<1>8. DiskShape'
  <2>1. TypeOK'
    BY <1>1, <1>2, <1>7 DEF DiskShape, TypeOK
  <2>2. order' \in Seq(1..Len(sectors')) /\ ended' \subseteq 1..Len(sectors') /\ Len(sectors') <= MaxRequests
    BY <1>1, <1>2, <1>3, <1>4, DiskNumbers DEF DiskShape
  <2>3. (disk.left > 0 \/ disk.drq =>
           disk.node \in 1..Len(sectors) /\ disk.left + (IF disk.drq THEN 1 ELSE 0) <= sectors[disk.node])'
    <3>1. disk.left > 0 \/ disk.drq =>
            disk.node \in 1..Len(sectors) /\ disk.left + (IF disk.drq THEN 1 ELSE 0) <= sectors[disk.node]
      BY <1>2 DEF DiskShape
    <3>2. \A r \in 1..Len(sectors) : r \in 1..Len(sectors')
      BY <1>3, <1>4
    <3>3. QED
      BY <1>1, <1>4, <3>1, <3>2
  <2>4. clash' \in BOOLEAN /\ crashed' \in BOOLEAN /\ reg' \in [Callers -> Int]
        /\ (crashed' => Several' # {}) /\ early' \subseteq company' \cup Several'
    BY <1>1, <1>2, <1>5, <1>6 DEF DiskShape
  <2>5. QED
    BY <1>2, <1>4, <2>1, <2>2, <2>3, <2>4 DEF DiskShape
<1>9. SUFFICES ASSUME ~clash'
               PROVE  DiskWork'
  BY <1>8 DEF DiskInv
<1>10. /\ \A d \in Callers : ~Submitting(d) /\ at[d] \in {"idle", "wait"}
       /\ \A d \in Callers : d # c => at'[d] \in {"idle", "wait"}
  BY <1>1, <1>2, <1>9 DEF Submitting
<1>11. OneSubmits' /\ ~Started /\ ~Started'
  BY <1>2, <1>10 DEF OneSubmits, Submitting, Started, Taking
<1>12. ASSUME NEW d \in Callers
       PROVE  Known(d)'
  <2>1. CASE d = c
    <3>1. order \in Seq(1..Len(sectors))
      BY <1>2 DEF DiskShape
    <3>2. \A i \in 1..Len(order) : order[i] # n
      BY <1>3, <3>1
    <3>3. QED
      BY <1>1, <1>2, <1>3, <1>4, <1>5, <1>7, <2>1, <3>2 DEF Known, Submitting, Adding
  <2>2. CASE d # c
    <3>1. Known(d)
      BY <1>2 DEF DiskWork
    <3>2. QED
      BY <1>1, <1>2, <1>3, <1>4, <1>5, <1>6, <1>7, <1>10, <2>2, <3>1 DEF Known, Submitting, Adding
  <2>3. QED
    BY <2>1, <2>2
<1>13. DriveOK'
  BY <1>1, <1>2, <1>5, <1>11 DEF DiskWork, DriveOK, Idle, Doing
<1>14. Lonely'
  <2>1. SUFFICES ASSUME NEW r \in 1..n, r \notin company', r \notin Several'
                 PROVE  LoneRequest(r)'
    BY <1>4 DEF Lonely
  <2>2. CASE r = n
    <3>1. Live = {} /\ Idle
      BY <1>1, <1>3, <2>1, <2>2 DEF Idle
    <3>2. in_using # n
      <4>1. CASE in_using \in {0, NULL}
        BY <1>3, <4>1, DiskNumbers
      <4>2. CASE in_using \notin {0, NULL}
        <5>1. in_using = order[1] /\ 1 \in 1..Len(order) /\ order[1] \in Live
          BY <1>2, <4>2, QueueOK
        <5>2. QED
          BY <3>1, <5>1
      <4>3. QED
        BY <4>1, <4>2
    <3>3. QED
      BY <1>1, <1>4, <1>5, <2>2, <3>1, <3>2 DEF LoneRequest, Idle
  <2>3. CASE r # n
    <3>1. r \in 1..Len(sectors) /\ r \notin company /\ r \notin Several
      BY <1>3, <1>5, <1>6, <2>1, <2>3
    <3>2. r \notin Live
      BY <1>1, <2>1
    <3>3. r \in ended /\ r \in moved
      BY <1>2, <3>1, <3>2 DEF DiskWork, Lonely, LoneRequest, Live
    <3>4. QED
      BY <1>1, <3>3 DEF LoneRequest
  <2>4. QED
    BY <2>2, <2>3
<1>15. in_using # 0 => QueueWork'
  <2>1. \A d \in Callers : \/ at'[d] = at[d] /\ node'[d] = node[d] /\ reg'[d] = reg[d]
                           \/ at[d] \in {"idle", "wait", "add1", "busy"} /\ at'[d] \in {"idle", "wait", "add1"}
    BY <1>1, <1>2, <1>7
  <2>2. Live \subseteq Live' /\ late \subseteq late' /\ ended \subseteq ended'
    BY <1>1, <1>5
  <2>3. QED
    BY <1>1, <1>2, <1>5, <2>1, <2>2, Quiet
<1>16. QED
  BY <1>1, <1>2, <1>11, <1>12, <1>13, <1>14, <1>15 DEF DiskWork
-----------------------------------------------------------------------------
(* The handler's condition and effect; what it ends.                       *)
LEMMA Ends ==
  ASSUME DiskInv, disk_handler, in_using \in Nodes \ {0}
  PROVE  /\ DiskShape /\ DiskWork /\ ~clash /\ irq /\ in_using # 0 /\ in_using # NULL /\ QueueWork
         /\ UNCHANGED <<at, node, reg, sectors, company, early, crashed>>
         /\ ended' = ended \cup {in_using} /\ order' = Queued /\ disk_flags' = 0
         /\ moved' = IF disk.drq /\ disk.left = 0 THEN moved \cup {disk.node} ELSE moved
         /\ IF block_request_count # 0 THEN cmd_out
            ELSE /\ in_using' = NULL
                 /\ disk' = [disk EXCEPT !.drq = FALSE] /\ irq' = FALSE
                 /\ UNCHANGED <<heap, block_request_count>>
         /\ late' = IF \E c \in Callers : at[c] \in {"flag", "test"} /\ node[c] = in_using
                    THEN late \cup {in_using} ELSE late
         /\ clash' \in BOOLEAN
         /\ ~clash' => \A c \in Callers :
              /\ at[c] \notin {"take", "del1", "del2", "unload", "unstore"}
              /\ block_request_count # 0 => at[c] \notin {"add2", "add3", "add4", "store"}
         /\ in_using \in Live /\ Live' = Live \ {in_using} /\ Several' = Several
         /\ Several = {} => ~Started /\ Doing(in_using) /\ disk.left = 0 /\ disk.drq
<1>1. /\ ~clash /\ irq /\ end_request
      /\ late' = IF \E c \in Callers : at[c] \in {"flag", "test"} /\ node[c] = in_using
                 THEN late \cup {in_using} ELSE late
      /\ clash' = (clash \/ \E c \in Callers :
                     \/ at[c] \in {"take", "del1", "del2", "unload", "unstore"}
                     \/ block_request_count # 0 /\ at[c] \in {"add2", "add3", "add4", "store"})
      /\ UNCHANGED <<at, node, reg, sectors, company, early, crashed>>
  BY DEF disk_handler
<1>2. DiskShape /\ DiskWork /\ in_using # 0 /\ in_using # NULL /\ QueueWork
  BY <1>1, DiskNumbers DEF DiskInv, DiskWork
<1>3. order' = Queued
  <2>1. PICK o \in Seq(1..Len(sectors)) : o = order /\ Queued = Tail(o) /\ o # <<>> /\ in_using = o[1]
    BY <1>1, <1>2, QueueOK
  <2>2. Apart(o)
    BY <1>2, <2>1 DEF QueueWork, OrderOK
  <2>3. RemoveFirst(o, o[1]) = Tail(o)
    BY <2>1, <2>2, RemovesFirst
  <2>4. QED
    BY <1>1, <2>1, <2>3 DEF end_request
<1>4. in_using \in Live
  BY <1>1, <1>2, QueueOK
<1>5. Live' = Live \ {in_using} /\ Several' = Several
  BY <1>1 DEF end_request, Live, Several
<1>6. Several = {} => ~Started /\ Doing(in_using) /\ disk.left = 0 /\ disk.drq
  BY <1>1, <1>2 DEF DiskWork, DriveOK, Idle, Doing
<1>7. QED
  BY <1>1, <1>2, <1>3, <1>4, <1>5, <1>6 DEF end_request

(* What the head of the queue leads to is the head or a request.           *)
LEMMA HeadLeads ==
  ASSUME DiskInv, ~clash, in_using # 0
  PROVE  heap.next[0] = 0 \/ heap.next[0] \in 1..Len(sectors)
<1>1. DiskWork /\ Lists /\ Queued \in Seq(1..Len(sectors))
  BY QueueOK DEF DiskInv, DiskWork, QueueWork
<1>2. \A c \in Callers : Half(c) \/ Deleting(c) => node[c] \in 1..Len(sectors)
  BY <1>1 DEF DiskWork, Known, Half, Deleting
<1>3. ASSUME NEW q \in Seq(1..Len(sectors))
      PROVE  At(0, q, 1) = 0 \/ At(0, q, 1) \in 1..Len(sectors)
  BY ElementOfSeq DEF At
<1>4. CASE \E c \in Callers : Half(c)
  <2>1. PICK c \in Callers : Half(c)
    BY <1>4
  <2>2. Append(Queued, node[c]) \in Seq(1..Len(sectors)) /\ heap.next[0] = At(0, Append(Queued, node[c]), 1)
    BY <1>1, <1>2, <2>1 DEF Lists, Forth
  <2>3. QED
    BY <1>3, <2>2
<1>5. CASE \E c \in Callers : Deleting(c)
  BY <1>1, <1>2, <1>5 DEF Lists
<1>6. CASE \A c \in Callers : ~Half(c) /\ ~Deleting(c)
  BY <1>1, <1>3, <1>6 DEF Lists, Forth
<1>7. QED
  BY <1>4, <1>5, <1>6

LEMMA EndsShape ==
  ASSUME DiskInv, disk_handler, in_using \in Nodes \ {0}
  PROVE  DiskShape'
<1>1. /\ DiskShape /\ DiskWork /\ ~clash /\ in_using # 0 /\ in_using # NULL
      /\ UNCHANGED <<at, node, reg, sectors, company, early, crashed>>
      /\ ended' = ended \cup {in_using} /\ order' = Queued /\ disk_flags' = 0
      /\ clash' \in BOOLEAN /\ in_using \in Live /\ Several' = Several
      /\ IF block_request_count # 0 THEN cmd_out
         ELSE /\ in_using' = NULL
              /\ disk' = [disk EXCEPT !.drq = FALSE] /\ irq' = FALSE
              /\ UNCHANGED <<heap, block_request_count>>
  BY Ends
<1>2. Queued \in Seq(1..Len(sectors)) /\ in_using \in 1..Len(sectors)
  BY <1>1, QueueOK DEF Live
<1>3. PICK n \in Nodes : n = heap.next[0] /\ (n = 0 \/ n \in 1..Len(sectors))
  <2>1. heap.next[0] \in Nodes
    BY <1>1, DiskNumbers DEF DiskShape, TypeOK
  <2>2. QED
    BY <1>1, <2>1, HeadLeads
<1>4. /\ disk \in [node : Nodes, left : 0..MaxSectors, drq : BOOLEAN] /\ MaxSectors \in Nat
      /\ disk.left \in Nat /\ disk.left <= MaxSectors
      /\ disk.left > 0 \/ disk.drq =>
           disk.node \in 1..Len(sectors) /\ disk.left + (IF disk.drq THEN 1 ELSE 0) <= sectors[disk.node]
      /\ sectors \in Seq(1..MaxSectors)
  BY <1>1, DiskNumbers DEF DiskShape, TypeOK
<1>5. \A r \in 1..Len(sectors) : sectors[r] \in Nat /\ sectors[r] <= MaxSectors
  <2>1. \A r \in 1..Len(sectors) : sectors[r] \in 1..MaxSectors
    BY <1>4, ElementOfSeq
  <2>2. QED
    BY <1>4, <2>1
<1>6. DEFINE Fits(d) ==
        /\ d \in [node : Nodes, left : 0..MaxSectors, drq : BOOLEAN]
        /\ d.left > 0 \/ d.drq =>
             d.node \in 1..Len(sectors) /\ d.left + (IF d.drq THEN 1 ELSE 0) <= sectors[d.node]
<1>7. Fits([disk EXCEPT !.drq = FALSE])
  <2>1. PICK e : e = [disk EXCEPT !.drq = FALSE]
    OBVIOUS
  <2>2. /\ e \in [node : Nodes, left : 0..MaxSectors, drq : BOOLEAN]
        /\ e.node = disk.node /\ e.left = disk.left /\ e.drq = FALSE
    BY <1>4, <2>1
  <2>3. disk.left > 0 => disk.node \in 1..Len(sectors) /\ disk.left + 0 <= sectors[disk.node]
    <3>1. disk.left > 0 => disk.node \in 1..Len(sectors) /\ sectors[disk.node] \in Nat
      BY <1>4, <1>5
    <3>2. QED
      BY <1>4, <3>1
  <2>4. Fits(e)
    BY <2>2, <2>3
  <2>5. QED
    BY <2>1, <2>4
<1>8. disk.left > 0 => Fits(Ready)
  <2>1. SUFFICES ASSUME disk.left > 0
                 PROVE  Fits(Ready)
    OBVIOUS
  <2>2. PICK e : e = Ready
    OBVIOUS
  <2>3. disk.left - 1 \in 0..MaxSectors
    BY <1>4, <2>1
  <2>4. /\ e \in [node : Nodes, left : 0..MaxSectors, drq : BOOLEAN]
        /\ e.node = disk.node /\ e.left = disk.left - 1 /\ e.drq = TRUE
    BY <1>4, <2>2, <2>3 DEF Ready
  <2>5. disk.node \in 1..Len(sectors) /\ sectors[disk.node] \in Nat
    BY <1>4, <1>5, <2>1
  <2>6. (disk.left - 1) + 1 <= sectors[disk.node]
    BY <1>4, <2>1, <2>5
  <2>7. Fits(e)
    BY <2>4, <2>5, <2>6
  <2>8. QED
    BY <2>2, <2>7
<1>9. n # 0 => Fits(Command(n))
  <2>1. SUFFICES ASSUME n # 0
                 PROVE  Fits(Command(n))
    OBVIOUS
  <2>2. PICK l \in Nat : l = sectors[n] /\ l <= MaxSectors /\ n \in 1..Len(sectors)
    BY <1>3, <1>5, <2>1
  <2>3. PICK e : e = [node |-> n, left |-> l, drq |-> FALSE]
    OBVIOUS
  <2>4. e \in [node : Nodes, left : 0..MaxSectors, drq : BOOLEAN] /\ e.left + 0 <= l
    BY <1>4, <2>2, <2>3
  <2>5. Fits(e)
    BY <2>2, <2>3, <2>4
  <2>6. QED
    BY <2>2, <2>3, <2>5 DEF Command
<1>10. /\ Fits(disk') /\ irq' \in BOOLEAN /\ in_using' \in Nodes \cup {NULL}
       /\ heap' \in Heaps /\ block_request_count' \in Int
  <2>1. CASE block_request_count # 0
    <3>1. /\ in_using' = n /\ heap' = list_del(heap, n) /\ block_request_count' = block_request_count - 1
          /\ irq' = (disk.left > 0)
          /\ disk' = IF n = 0 THEN (IF disk.left > 0 THEN Ready ELSE [disk EXCEPT !.drq = FALSE]) ELSE Command(n)
      BY <1>1, <1>3, <2>1 DEF cmd_out
    <3>2. list_del(heap, n) \in Heaps
      BY <1>1, DelHeaps DEF DiskShape, TypeOK, Heaps
    <3>3. block_request_count \in Int
      BY <1>1 DEF DiskShape, TypeOK
    <3>4. Fits(disk')
      <4>1. CASE n # 0
        BY <1>9, <3>1, <4>1, Zenon
      <4>2. CASE n = 0 /\ disk.left > 0
        BY <1>8, <3>1, <4>2, Zenon
      <4>3. CASE n = 0 /\ ~(disk.left > 0)
        BY <1>7, <3>1, <4>3, Zenon
      <4>4. QED
        BY <4>1, <4>2, <4>3
    <3>5. QED
      BY <3>1, <3>2, <3>3, <3>4
  <2>2. CASE block_request_count = 0
    <3>1. disk' = [disk EXCEPT !.drq = FALSE] /\ irq' = FALSE /\ in_using' = NULL /\ UNCHANGED <<heap, block_request_count>>
      BY <1>1, <2>2
    <3>2. Fits(disk')
      BY <1>7, <3>1, Zenon
    <3>3. heap \in Heaps /\ block_request_count \in Int
      BY <1>1 DEF DiskShape, TypeOK, Heaps
    <3>4. QED
      BY <3>1, <3>2, <3>3
  <2>3. QED
    BY <2>1, <2>2
<1>11. TypeOK'
  BY <1>1, <1>10 DEF DiskShape, TypeOK, Heaps
<1>12. QED
  BY <1>1, <1>2, <1>10, <1>11 DEF DiskShape

(* The queue when the handler comes to it in time: how much is on it, and  *)
(* what is left.                                                           *)
LEMMA EndsNext ==
  ASSUME DiskInv, disk_handler, in_using \in Nodes \ {0}, ~clash', NEW k, k = Len(Queued)
  PROVE  /\ k \in Nat /\ Queued \in Seq(Numbers1)
         /\ block_request_count = IF Counting THEN k - 1 ELSE k
         /\ \A c \in Callers : at[c] \in {"load", "store"} => Queued # <<>> /\ Queued[k] = node[c]
         /\ block_request_count = 0 =>
              /\ in_using' = NULL /\ Queued' = Queued /\ UNCHANGED <<heap, block_request_count>>
              /\ disk' = [disk EXCEPT !.drq = FALSE] /\ irq' = FALSE
         /\ block_request_count # 0 =>
              /\ Queued # <<>> /\ k > 0 /\ in_using' = Queued[1] /\ Queued[1] \in Live /\ Queued[1] # 0 /\ Queued[1] # NULL
              /\ Queued' = Tail(Queued) /\ Len(Queued') = k - 1
              /\ \A i \in 1..(k - 1) : Queued'[i] = Queued[i + 1]
              /\ Forth(heap', Tail(Queued)) /\ Back(heap', Tail(Queued))
              /\ block_request_count' = block_request_count - 1
              /\ disk' = Command(Queued[1]) /\ irq' = (disk.left > 0)
<1>1. /\ DiskShape /\ DiskWork /\ ~clash /\ in_using # 0 /\ in_using # NULL /\ QueueWork
      /\ order' = Queued
      /\ IF block_request_count # 0 THEN cmd_out
         ELSE /\ in_using' = NULL
              /\ disk' = [disk EXCEPT !.drq = FALSE] /\ irq' = FALSE
              /\ UNCHANGED <<heap, block_request_count>>
      /\ \A c \in Callers :
           /\ at[c] \notin {"take", "del1", "del2", "unload", "unstore"}
           /\ block_request_count # 0 => at[c] \notin {"add2", "add3", "add4", "store"}
  BY Ends
<1>2. PICK q \in Seq(Numbers1) : /\ q = Queued /\ Apart(q) /\ Len(q) \in Nat /\ k = Len(q)
                                 /\ \A i \in 1..k : q[i] \in Live
  BY <1>1, QueueOK
<1>3. \A c \in Callers : ~Taking(c) /\ ~Deleting(c)
  BY <1>1 DEF Taking, Deleting
<1>4. block_request_count = IF Counting THEN k - 1 ELSE k
  BY <1>1, <1>2, <1>3 DEF QueueWork, Counted
<1>5. \A c \in Callers : at[c] \in {"load", "store"} => q # <<>> /\ q[k] = node[c]
  BY <1>1, <1>2 DEF QueueWork, CallerOK
<1>6. block_request_count # 0 => q # <<>>
  <2>1. Counting => q # <<>>
    BY <1>5 DEF Counting
  <2>2. q = <<>> => Len(q) = 0
    OBVIOUS
  <2>3. QED
    BY <1>2, <1>4, <2>1, <2>2
<1>7. ASSUME block_request_count = 0
      PROVE  /\ in_using' = NULL /\ Queued' = Queued /\ UNCHANGED <<heap, block_request_count>>
             /\ disk' = [disk EXCEPT !.drq = FALSE] /\ irq' = FALSE
  <2>1. /\ in_using' = NULL /\ UNCHANGED <<heap, block_request_count>>
        /\ disk' = [disk EXCEPT !.drq = FALSE] /\ irq' = FALSE
    BY <1>1, <1>7
  <2>2. QED
    BY <1>1, <2>1 DEF Queued
<1>8. ASSUME block_request_count # 0
      PROVE  /\ q # <<>> /\ k > 0 /\ in_using' = q[1] /\ q[1] \in Live /\ q[1] # 0 /\ q[1] # NULL
             /\ Queued' = Tail(q) /\ Len(Tail(q)) = k - 1
             /\ \A i \in 1..(k - 1) : Tail(q)[i] = q[i + 1]
             /\ Forth(heap', Tail(q)) /\ Back(heap', Tail(q))
             /\ block_request_count' = block_request_count - 1
             /\ disk' = Command(q[1]) /\ irq' = (disk.left > 0)
  <2>1. q # <<>>
    BY <1>6, <1>8
  <2>2. /\ Len(q) > 0 /\ Len(Tail(q)) = Len(q) - 1 /\ 1 \in 1..Len(q)
        /\ \A i \in 1..(Len(q) - 1) : Tail(q)[i] = q[i + 1]
    BY <2>1, TailIs
  <2>3. q[1] \in Live /\ q[1] # 0 /\ q[1] # NULL
    <3>1. q[1] \in Numbers1 /\ q[1] \in Live
      BY <1>2, <2>2
    <3>2. QED
      BY <3>1, DiskNumbers DEF Numbers1
  <2>4. Forth(heap, q) /\ Back(heap, q) /\ heap \in Heaps
    <3>1. \A c \in Callers : ~Half(c)
      BY <1>1, <1>8 DEF Half
    <3>2. Forth(heap, Queued) /\ Back(heap, Queued)
      BY <1>1, <1>3, <3>1 DEF QueueWork, Lists
    <3>3. heap \in Heaps
      BY <1>1 DEF DiskShape, TypeOK, Heaps
    <3>4. QED
      BY <1>2, <3>2, <3>3
  <2>5. /\ heap.next[0] = q[1]
        /\ Forth(list_del(heap, heap.next[0]), Tail(q)) /\ Back(list_del(heap, heap.next[0]), Tail(q))
    BY <1>2, <2>1, <2>4, DeleteFirst
  <2>6. cmd_out
    BY <1>1, <1>8
  <2>7. /\ in_using' = q[1] /\ heap' = list_del(heap, heap.next[0]) /\ block_request_count' = block_request_count - 1
        /\ disk' = Command(q[1]) /\ irq' = (disk.left > 0)
    <3>1. q[1] # 0 /\ heap.next[0] = q[1]
      BY <2>3, <2>5
    <3>2. QED
      BY <2>6, <3>1 DEF cmd_out
  <2>8. Queued' = Tail(q)
    <3>1. in_using' # NULL
      BY <2>3, <2>7
    <3>2. Queued' = Tail(order')
      BY <3>1 DEF Queued
    <3>3. QED
      BY <1>1, <1>2, <3>2
  <2>9. Forth(heap', Tail(q)) /\ Back(heap', Tail(q))
    BY <2>5, <2>7
  <2>10. QED
    BY <1>2, <2>1, <2>2, <2>3, <2>7, <2>8, <2>9
<1>9. QED
  BY <1>2, <1>4, <1>5, <1>7, <1>8

(* Whose request is which, and what the drive is at, after the handler.    *)
LEMMA EndsKnown ==
  ASSUME DiskInv, disk_handler, in_using \in Nodes \ {0}, ~clash'
  PROVE  /\ OneSubmits' /\ (\A c \in Callers : Known(c)') /\ DriveOK' /\ Lonely' /\ OrderOK'
         /\ in_using' # 0
<1>1. /\ DiskShape /\ DiskWork /\ ~clash /\ irq /\ in_using # 0 /\ in_using # NULL /\ QueueWork
      /\ UNCHANGED <<at, node, reg, sectors, company, early, crashed>>
      /\ ended' = ended \cup {in_using} /\ order' = Queued /\ disk_flags' = 0
      /\ moved' = IF disk.drq /\ disk.left = 0 THEN moved \cup {disk.node} ELSE moved
      /\ \A c \in Callers : at[c] \notin {"take", "del1", "del2", "unload", "unstore"}
      /\ in_using \in Live /\ Live' = Live \ {in_using} /\ Several' = Several
      /\ Several = {} => ~Started /\ Doing(in_using) /\ disk.left = 0 /\ disk.drq
  BY Ends
<1>2. /\ in_using = order[1] /\ 1 \in 1..Len(order) /\ Live \subseteq 1..Len(sectors)
      /\ Apart(Queued)
      /\ \A i \in 1..Len(Queued) : /\ Queued[i] # in_using /\ Queued[i] \in Live
                                   /\ \E k \in 1..Len(order) : Queued[i] = order[k]
  BY <1>1, QueueOK
<1>3. PICK k : k = Len(Queued)
  OBVIOUS
<1>4. /\ k \in Nat
      /\ \A c \in Callers : at[c] \in {"load", "store"} => Queued # <<>> /\ Queued[k] = node[c]
      /\ block_request_count = 0 =>
              /\ in_using' = NULL
              /\ disk' = [disk EXCEPT !.drq = FALSE] /\ irq' = FALSE
      /\ block_request_count # 0 =>
              /\ in_using' = Queued[1] /\ Queued[1] \in Live /\ Queued[1] # 0 /\ Queued[1] # NULL
              /\ disk' = Command(Queued[1]) /\ irq' = (disk.left > 0)
  BY <1>3, EndsNext
<1>5. in_using' # 0
  BY <1>4, DiskNumbers
<1>6. OneSubmits'
  BY <1>1 DEF DiskWork, OneSubmits, Submitting
<1>7. OrderOK'
  BY <1>1, <1>2 DEF OrderOK
<1>8. ASSUME NEW c \in Callers
      PROVE  Known(c)'
  <2>1. Known(c)
    BY <1>1 DEF DiskWork
  <2>2. Adding(c) => node[c] # in_using /\ \A i \in 1..Len(Queued) : Queued[i] # node[c]
    BY <1>2, <2>1 DEF Known
  <2>3. at[c] \in {"load", "store"} => node[c] # in_using
    <3>1. ASSUME at[c] \in {"load", "store"}
          PROVE  node[c] # in_using
      <4>1. Queued # <<>> /\ Queued[k] = node[c]
        BY <1>4, <3>1
      <4>2. k # 0
        <5>1. PICK q \in Seq(1..Len(sectors)) : q = Queued
          BY <1>1, QueueOK
        <5>2. q # <<>> => Len(q) # 0
          BY EmptySeq
        <5>3. QED
          BY <1>3, <4>1, <5>1, <5>2
      <4>3. k \in 1..k
        BY <1>4, <4>2
      <4>4. QED
        BY <1>2, <1>3, <4>1, <4>3
    <3>2. QED
      BY <3>1
  <2>4. ~(/\ at[c] \notin {"idle", "add1", "add2", "add3", "add4", "load", "store", "flag"}
          /\ node[c] \notin ended' \cup company \cup Several)
    <3>1. SUFFICES ASSUME at[c] # "idle", node[c] \notin ended', node[c] \notin company, node[c] \notin Several
                   PROVE  FALSE
      OBVIOUS
    <3>2. node[c] \in 1..Len(sectors) /\ node[c] \notin ended /\ node[c] # in_using
      BY <1>1, <2>1, <3>1 DEF Known
    <3>3. Live = {node[c]}
      BY <1>1, <3>1, <3>2 DEF DiskWork, Lonely, LoneRequest
    <3>4. QED
      BY <1>1, <3>2, <3>3
  <2>5. QED
    BY <1>1, <2>1, <2>2, <2>3, <2>4 DEF Known, Submitting, Adding
<1>9. Started' <=> Started
  BY <1>1 DEF Started, Taking
<1>10. disk \in [node : Nodes, left : 0..MaxSectors, drq : BOOLEAN]
  BY <1>1 DEF DiskShape, TypeOK
<1>11. DriveOK'
  <2>1. SUFFICES ASSUME Several = {}
                 PROVE  IF in_using' \in {NULL, 0} THEN Idle' ELSE Doing(in_using)'
    BY <1>1, <1>9 DEF DriveOK
  <2>2. disk.left = 0 /\ disk.drq
    BY <1>1, <2>1
  <2>3. CASE block_request_count = 0
    <3>1. disk'.left = 0 /\ ~disk'.drq
      BY <1>4, <1>10, <2>2, <2>3
    <3>2. QED
      BY <1>4, <2>3, <3>1 DEF Idle
  <2>4. CASE block_request_count # 0
    <3>1. PICK n \in 1..Len(sectors) : n = Queued[1]
      BY <1>2, <1>4, <2>4
    <3>2. sectors[n] = 1
      <4>1. sectors \in Seq(1..MaxSectors)
        BY <1>1 DEF DiskShape
      <4>2. sectors[n] \in 1..MaxSectors
        BY <4>1, ElementOfSeq
      <4>3. QED
        BY <2>1, <4>2, DiskNumbers DEF Several
    <3>3. disk' = [node |-> n, left |-> 1, drq |-> FALSE] /\ irq' = FALSE
      <4>1. disk' = Command(n) /\ irq' = (disk.left > 0)
        BY <1>4, <2>4, <3>1, Zenon
      <4>2. disk' = [node |-> n, left |-> 1, drq |-> FALSE]
        BY <3>2, <4>1 DEF Command
      <4>3. (disk.left > 0) = FALSE
        BY <2>2
      <4>4. QED
        BY <4>1, <4>2, <4>3, Zenon
    <3>4. Doing(n)'
      BY <3>3 DEF Doing
    <3>5. Doing(in_using)' /\ in_using' \notin {NULL, 0}
      BY <1>4, <2>4, <3>1, <3>3 DEF Doing
    <3>6. QED
      BY <3>5
  <2>5. QED
    BY <2>3, <2>4
<1>12. Lonely'
  <2>1. SUFFICES ASSUME NEW r \in 1..Len(sectors), r \notin company, r \notin Several
                 PROVE  r \in ended' /\ r \in moved'
    BY <1>1 DEF Lonely, LoneRequest
  <2>2. LoneRequest(r)
    BY <1>1, <2>1 DEF DiskWork, Lonely
  <2>3. CASE r \in ended
    BY <1>1, <2>2, <2>3 DEF LoneRequest
  <2>4. CASE r \notin ended
    <3>1. in_using = r /\ IF ~Started THEN Doing(r) ELSE Idle
      BY <1>1, <2>2, <2>4 DEF LoneRequest
    <3>2. disk.node = r /\ disk.drq /\ disk.left = 0
      BY <1>1, <3>1 DEF Doing, Idle
    <3>3. QED
      BY <1>1, <3>1, <3>2
  <2>5. QED
    BY <2>3, <2>4
<1>13. QED
  BY <1>5, <1>6, <1>7, <1>8, <1>11, <1>12

(* The queue as the handler leaves it, and what the callers know of it.    *)
LEMMA EndsQueue ==
  ASSUME DiskInv, disk_handler, in_using \in Nodes \ {0}, ~clash'
  PROVE  QueueWork'
<1>1. /\ DiskShape /\ DiskWork /\ ~clash /\ irq /\ in_using # 0 /\ in_using # NULL /\ QueueWork
      /\ UNCHANGED <<at, node, reg, sectors>>
      /\ ended' = ended \cup {in_using} /\ order' = Queued
      /\ late' = IF \E c \in Callers : at[c] \in {"flag", "test"} /\ node[c] = in_using
                 THEN late \cup {in_using} ELSE late
      /\ \A c \in Callers :
           /\ at[c] \notin {"take", "del1", "del2", "unload", "unstore"}
           /\ block_request_count # 0 => at[c] \notin {"add2", "add3", "add4", "store"}
      /\ Several' = Several
      /\ Several = {} => ~Started
  BY Ends
<1>2. PICK k : k = Len(Queued)
  OBVIOUS
<1>3. /\ k \in Nat /\ Queued \in Seq(Numbers1)
      /\ block_request_count = IF Counting THEN k - 1 ELSE k
      /\ \A c \in Callers : at[c] \in {"load", "store"} => Queued # <<>> /\ Queued[k] = node[c]
      /\ block_request_count = 0 =>
           in_using' = NULL /\ Queued' = Queued /\ UNCHANGED <<heap, block_request_count>>
      /\ block_request_count # 0 =>
           /\ Queued # <<>> /\ k > 0 /\ in_using' = Queued[1] /\ Queued[1] # NULL
           /\ Queued' = Tail(Queued) /\ Len(Queued') = k - 1
           /\ \A i \in 1..(k - 1) : Queued'[i] = Queued[i + 1]
           /\ Forth(heap', Tail(Queued)) /\ Back(heap', Tail(Queued))
           /\ block_request_count' = block_request_count - 1
  BY <1>1, <1>2, EndsNext
<1>4. OrderOK'
  BY EndsKnown
<1>5. \A c \in Callers : /\ ~Taking(c) /\ ~Deleting(c) /\ ~(Taking(c)') /\ ~(Deleting(c)')
                         /\ Half(c)' <=> Half(c)
  BY <1>1 DEF Taking, Deleting, Half
<1>6. Counting' <=> Counting
  BY <1>1 DEF Counting
<1>7. Queued # <<>> <=> k # 0
  <2>1. PICK q \in Seq(Numbers1) : q = Queued
    BY <1>3
  <2>2. q = <<>> <=> Len(q) = 0
    BY EmptySeq
  <2>3. QED
    BY <1>2, <2>1, <2>2
<1>8. Counted'
  <2>1. CASE block_request_count = 0
    BY <1>2, <1>3, <1>5, <1>6, <2>1 DEF Counted
  <2>2. CASE block_request_count # 0
    <3>1. block_request_count' = IF Counting THEN (k - 1) - 1 ELSE k - 1
      BY <1>3, <2>2
    <3>2. QED
      BY <1>3, <1>5, <1>6, <2>2, <3>1 DEF Counted
  <2>3. QED
    BY <2>1, <2>2
<1>9. Lists'
  <2>1. CASE block_request_count = 0
    <3>1. Lists /\ heap' = heap /\ Queued' = Queued /\ at' = at /\ node' = node
      BY <1>1, <1>3, <2>1 DEF QueueWork
    <3>2. QED
      BY <3>1 DEF Lists, Forth, Back, Along, At, Half, Deleting
  <2>2. CASE block_request_count # 0
    <3>1. \A c \in Callers : at'[c] \notin {"add2", "add3", "add4"}
      BY <1>1, <2>2
    <3>2. Queued' = Tail(Queued) /\ Forth(heap', Tail(Queued)) /\ Back(heap', Tail(Queued))
      BY <1>3, <2>2
    <3>3. (Forth(heap, Queued) /\ Back(heap, Queued))'
      BY <3>2 DEF Forth, Back, Along, At
    <3>4. QED
      BY <1>5, <3>1, <3>3 DEF Lists, Half
  <2>3. QED
    BY <2>1, <2>2
<1>10. InUse'
  <2>1. CASE block_request_count = 0
    <3>1. in_using' = NULL /\ order' = Queued
      BY <1>1, <1>3, <2>1
    <3>2. SUFFICES ASSUME Queued # <<>>
                   PROVE  Len(Queued) = 1 /\ \E c \in Callers : at[c] \in Works /\ Queued[1] = node[c]
      BY <1>1, <3>1 DEF InUse
    <3>3. k = 1 /\ Counting
      BY <1>3, <1>7, <2>1, <3>2
    <3>4. PICK c \in Callers : at[c] \in {"load", "store"}
      BY <3>3 DEF Counting
    <3>5. QED
      BY <1>2, <1>3, <3>3, <3>4 DEF Works
  <2>2. CASE block_request_count # 0
    BY <1>1, <1>3, <2>2 DEF InUse
  <2>3. QED
    BY <2>1, <2>2
<1>11. ASSUME NEW c \in Callers
       PROVE  CallerOK(c)'
  <2>1. CallerOK(c) /\ at'[c] = at[c] /\ node'[c] = node[c] /\ reg'[c] = reg[c]
    BY <1>1 DEF QueueWork
  <2>2. at[c] \in {"load", "store"} => Queued' # <<>> /\ Queued'[Len(Queued')] = node[c]
    <3>1. SUFFICES ASSUME at[c] \in {"load", "store"}
                   PROVE  Queued' # <<>> /\ Queued'[Len(Queued')] = node[c]
      OBVIOUS
    <3>2. Queued # <<>> /\ Queued[k] = node[c] /\ Counting
      BY <1>3, <3>1 DEF Counting
    <3>3. CASE block_request_count = 0
      BY <1>2, <1>3, <3>2, <3>3
    <3>4. CASE block_request_count # 0
      <4>1. k - 1 # 0 /\ k > 0
        BY <1>3, <3>2, <3>4
      <4>2. k - 1 \in 1..(k - 1) /\ (k - 1) + 1 = k
        BY <1>3, <4>1
      <4>3. Len(Queued') = k - 1 /\ Queued'[k - 1] = Queued[k]
        BY <1>3, <3>4, <4>2
      <4>4. Queued' # <<>>
        <5>1. Queued' = <<>> => Len(Queued') = 0
          OBVIOUS
        <5>2. QED
          BY <4>1, <4>3, <5>1
      <4>5. QED
        BY <3>2, <4>3, <4>4
    <3>5. QED
      BY <3>3, <3>4
  <2>3. at[c] = "store" => reg[c] = block_request_count'
    BY <1>1, <1>3, <2>1 DEF CallerOK
  <2>4. at[c] \in {"flag", "test"} =>
          (order' = <<>> /\ late' # {}) \/ (order' # <<>> /\ order'[Len(order')] = node[c])
    <3>1. SUFFICES ASSUME at[c] \in {"flag", "test"}
                   PROVE  (Queued = <<>> /\ late' # {}) \/ (Queued # <<>> /\ Queued[k] = node[c])
      BY <1>1, <1>2
    <3>2. PICK o \in Seq(Numbers1) : o = order /\ o # <<>> /\ in_using = o[1] /\ Queued = Tail(o)
      BY <1>1, QueueOK
    <3>3. o[Len(o)] = node[c]
      BY <2>1, <3>1, <3>2 DEF CallerOK
    <3>4. Len(o) \in Nat /\ Len(o) > 0 /\ k = Len(o) - 1 /\ \A i \in 1..(Len(o) - 1) : Queued[i] = o[i + 1]
      BY <1>2, <3>2, TailIs
    <3>5. CASE k = 0
      <4>1. Queued = <<>> /\ in_using = node[c]
        BY <1>7, <3>2, <3>3, <3>4, <3>5
      <4>2. in_using \in late'
        BY <1>1, <3>1, <4>1
      <4>3. QED
        BY <4>1, <4>2
    <3>6. CASE k # 0
      <4>1. k \in 1..(Len(o) - 1) /\ k + 1 = Len(o)
        BY <1>3, <3>4, <3>6
      <4>2. QED
        BY <1>7, <3>3, <3>4, <3>6, <4>1
    <3>7. QED
      BY <3>5, <3>6
  <2>5. at[c] = "busy" => in_using' = NULL /\ order' = <<>> /\ Several # {} /\ node[c] \in ended'
    <3>1. SUFFICES ASSUME at[c] = "busy"
                   PROVE  in_using' = NULL /\ order' = <<>> /\ Several # {} /\ node[c] \in ended'
      OBVIOUS
    <3>2. in_using = node[c] /\ Len(order) = 1
      BY <1>1, <2>1, <3>1 DEF CallerOK
    <3>3. Queued = <<>> /\ k = 0
      BY <1>1, <1>2, <3>2, TakesOnly
    <3>4. ~Counting
      <4>1. \A d \in Callers : d # c => at[d] \in {"idle", "wait"}
        BY <1>1, <3>1, OthersWait DEF Submitting
      <4>2. QED
        BY <3>1, <4>1 DEF Counting
    <3>5. Started
      BY <3>1 DEF Started
    <3>6. QED
      BY <1>1, <1>3, <3>2, <3>3, <3>4, <3>5
  <2>6. QED
    BY <1>1, <1>5, <2>1, <2>2, <2>3, <2>4, <2>5 DEF CallerOK
<1>12. QED
  BY <1>4, <1>8, <1>9, <1>10, <1>11 DEF QueueWork

LEMMA Handles ==
  ASSUME DiskInv, disk_handler
  PROVE  DiskInv'
<1>1. CASE in_using \in Nodes \ {0}
  <2>1. DiskShape'
    BY <1>1, EndsShape
  <2>2. ASSUME ~clash'
        PROVE  DiskWork'
    <3>1. OneSubmits' /\ (\A c \in Callers : Known(c)') /\ DriveOK' /\ Lonely' /\ in_using' # 0
      BY <1>1, <2>2, EndsKnown
    <3>2. QueueWork'
      BY <1>1, <2>2, EndsQueue
    <3>3. QED
      BY <3>1, <3>2 DEF DiskWork
  <2>3. QED
    BY <2>1, <2>2 DEF DiskInv
<1>2. CASE in_using \notin Nodes \ {0}
  <2>1. /\ DiskShape /\ DiskWork /\ ~clash /\ irq
        /\ UNCHANGED <<at, node, reg, sectors, company, early>>
        /\ UNCHANGED <<heap, in_using, block_request_count, disk_flags, disk, irq, order, ended, moved, late, clash>>
    BY <1>2 DEF disk_handler, queue, drive, DiskInv
  <2>2. in_using \in {NULL, 0}
    BY <1>2, <2>1 DEF DiskShape, TypeOK
  <2>3. Several # {}
    BY <2>1, <2>2 DEF DiskWork, DriveOK, Idle
  <2>4. Started' <=> Started
    BY <2>1 DEF Started, Taking
  <2>5. DriveOK' /\ Lonely' /\ Live' = Live /\ Several' = Several
    BY <2>1, <2>4, DriveStays
  <2>6. DiskShape'
    <3>1. TypeOK'
      BY <2>1 DEF DiskShape, TypeOK
    <3>2. crashed' \in BOOLEAN
      BY <1>2 DEF disk_handler
    <3>3. QED
      BY <2>1, <2>3, <2>5, <3>1, <3>2 DEF DiskShape
  <2>7. OneSubmits' /\ \A c \in Callers : Known(c)'
    BY <2>1, <2>5 DEF DiskWork, OneSubmits, Submitting, Known, Adding
  <2>8. in_using # 0 => QueueWork'
    BY <2>1, <2>5, Quiet
  <2>9. QED
    BY <2>1, <2>5, <2>6, <2>7, <2>8 DEF DiskInv, DiskWork
<1>3. QED
  BY <1>1, <1>2
-----------------------------------------------------------------------------
LEMMA DiskStutters ==
  ASSUME DiskInv, UNCHANGED vars
  PROVE  DiskInv'
<1>1. UNCHANGED <<heap, in_using, block_request_count, disk_flags, at, node, reg, sectors, disk, irq,
                  order, ended, moved, early, company, late, clash, crashed>>
  BY DEF vars, queue, drive, history
<1>2. Live' = Live /\ Several' = Several /\ (Started' <=> Started)
  BY <1>1 DEF Live, Several, Started, Taking
<1>3. DiskShape'
  BY <1>1, <1>2 DEF DiskInv, DiskShape, TypeOK
<1>4. ASSUME ~clash
      PROVE  DiskWork'
  <2>1. DriveOK' /\ Lonely'
    BY <1>1, <1>2, <1>4, DriveStays
  <2>2. DiskWork
    BY <1>4 DEF DiskInv
  <2>3. OneSubmits' /\ \A c \in Callers : Known(c)'
    BY <1>1, <1>2, <2>2 DEF DiskWork, OneSubmits, Submitting, Known, Adding
  <2>4. in_using # 0 => QueueWork'
    BY <1>1, <1>2, <1>4, Quiet
  <2>5. QED
    BY <1>1, <2>1, <2>2, <2>3, <2>4 DEF DiskWork
<1>5. QED
  BY <1>1, <1>3, <1>4 DEF DiskInv

LEMMA DiskStep ==
  DiskInv /\ [Next]_vars => DiskInv'
<1> SUFFICES ASSUME DiskInv, [Next]_vars
             PROVE  DiskInv'
  OBVIOUS
<1>1. CASE disk_handler
  BY <1>1, Handles
<1>2. CASE SectorReady
  BY <1>2, SectorsReady
<1>3. CASE UNCHANGED vars
  BY <1>3, DiskStutters
<1>4. ASSUME NEW c \in Callers, make_request(c) \/ Caller(c) \/ Spin(c)
      PROVE  DiskInv'
  <2>1. CASE make_request(c)
    BY <2>1, MakesRequest
  <2>2. CASE Caller(c)
    <3>1. CASE AddToBefore(c)
      BY <3>1, Add1, Add2, Add3, Add4 DEF AddToBefore
    <3>2. CASE LoadCount(c) \/ StoreCount(c) \/ SetFlag(c) \/ TestInUsing(c)
      BY <3>2, Loads, Stores, Flags, Tests
    <3>3. CASE cmd_out_take(c) \/ cmd_out_del(c) \/ cmd_out_command(c) \/ wait_for_finish(c)
      BY <3>3, Takes, Deletes, Commands, Waits
    <3>4. QED
      BY <2>2, <3>1, <3>2, <3>3 DEF Caller
  <2>3. CASE Spin(c)
    BY <2>3, DiskStutters DEF Spin
  <2>4. QED
    BY <1>4, <2>1, <2>2, <2>3
<1>5. CASE Done
  BY <1>5, DiskStutters DEF Done
<1>6. QED
  BY <1>1, <1>2, <1>3, <1>4, <1>5 DEF Next

(* The queue by its pointers, the request in use, what each caller knows   *)
(* of its own, what the drive works on and who was alone: what disk.c      *)
(* keeps as long as no two that write the queue meet, for any number of    *)
(* callers, requests and sectors, with cmd_out statement by statement      *)
(* under the interrupts of a request that was ended too soon.              *)
THEOREM DiskInvariant == Spec => []DiskInv
<1>1. QED
  BY InitDisk, DiskStep, PTL DEF Spec

(* Walked along next from the head, the queue is the requests not ended,   *)
(* oldest first, and the count says how many; a submit that starts the     *)
(* disk takes its own request; an interrupt that finds no request in use   *)
(* comes from a request of several sectors; and cmd_out takes the head for *)
(* a request only when one ended before its own submit asked for in_using. *)
THEOREM DiskQueueIsInOrder == Spec => []QueueIsInOrder
<1>1. DiskInv => QueueIsInOrder
  <2> SUFFICES ASSUME DiskInv
               PROVE  QueueIsInOrder
    OBVIOUS
  <2>1. /\ TypeOK /\ (crashed => \E r \in 1..Len(sectors) : sectors[r] > 1)
        /\ ~clash => (in_using = 0 => late # {})
    BY DEF DiskInv, DiskShape, DiskWork, Several
  <2>2. SUFFICES ASSUME ~clash, in_using # 0
                 PROVE  /\ in_using # NULL => order # <<>> /\ in_using = Head(order)
                        /\ \A c \in Callers : Taking(c) => in_using = node[c]
                        /\ ~Linking =>
                             /\ \A i \in 0..Len(Queued) :
                                  Walk(heap, 0, Len(Queued))[i] = IF i = Len(Queued) THEN 0 ELSE Queued[i + 1]
                             /\ block_request_count =
                                  IF Counting THEN Len(Queued) - 1
                                  ELSE IF Uncounting THEN Len(Queued) + 1 ELSE Len(Queued)
    BY <2>1 DEF QueueIsInOrder
  <2>3. QueueWork
    BY <2>2 DEF DiskInv, DiskWork
  <2>4. in_using # NULL => order # <<>> /\ in_using = Head(order)
    <3>1. PICK o \in Seq(Numbers1) : o = order
      BY <2>2, QueueOK
    <3>2. in_using # NULL => o # <<>> /\ in_using = o[1]
      BY <2>2, <3>1, QueueOK
    <3>3. QED
      BY <3>1, <3>2, TailIs
  <2>5. \A c \in Callers : Taking(c) => in_using = node[c]
    BY <2>3 DEF QueueWork, CallerOK
  <2>6. ASSUME ~Linking
        PROVE  /\ \A i \in 0..Len(Queued) :
                    Walk(heap, 0, Len(Queued))[i] = IF i = Len(Queued) THEN 0 ELSE Queued[i + 1]
               /\ block_request_count =
                    IF Counting THEN Len(Queued) - 1
                    ELSE IF Uncounting THEN Len(Queued) + 1 ELSE Len(Queued)
    <3>1. /\ \A c \in Callers : ~Half(c) /\ ~Deleting(c)
          /\ (\E c \in Callers : Taking(c)) <=> Uncounting
      BY <2>6 DEF Linking, Half, Deleting, Taking, Uncounting
    <3>2. Forth(heap, Queued)
      BY <2>3, <3>1 DEF QueueWork, Lists
    <3>3. PICK q \in Seq(Numbers1) : q = Queued /\ Len(q) \in Nat
      BY <2>2, QueueOK
    <3>4. Along(heap, 0, q) /\ heap.next[0] = At(0, q, 1) /\ 1 \in 1..(Len(q) + 1)
      BY <3>2, <3>3 DEF Forth
    <3>5. \A d \in 0..Len(q) : 1 + d <= Len(q) + 1 => Walk(heap, 0, Len(q))[d] = At(0, q, 1 + d)
      BY <3>3, <3>4, WalkAlong
    <3>6. ASSUME NEW i \in 0..Len(q)
          PROVE  Walk(heap, 0, Len(q))[i] = IF i = Len(q) THEN 0 ELSE q[i + 1]
      <4>1. 1 + i <= Len(q) + 1 /\ 1 + i = i + 1 /\ (i = Len(q) <=> i + 1 \notin 1..Len(q))
        BY <3>3
      <4>2. Walk(heap, 0, Len(q))[i] = At(0, q, i + 1)
        BY <3>5, <4>1
      <4>3. QED
        BY <4>1, <4>2 DEF At
    <3>7. Counted
      BY <2>3 DEF QueueWork
    <3>8. QED
      BY <3>1, <3>3, <3>6, <3>7 DEF Counted
  <2>7. QED
    BY <2>4, <2>5, <2>6
<1>2. QED
  BY <1>1, DiskInvariant, PTL

(* Whoever was alone with its request, and with the drive, waits until all *)
(* of it has been moved, unless the request had several sectors.           *)
THEOREM WhoeverIsAloneWaits == Spec => []AloneWaitsToTheEnd
<1>1. DiskInv => AloneWaitsToTheEnd
  BY DEF DiskInv, DiskShape, AloneWaitsToTheEnd, Several
<1>2. QED
  BY <1>1, DiskInvariant, PTL
=============================================================================
