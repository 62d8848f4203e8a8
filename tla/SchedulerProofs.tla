-------------------------- MODULE SchedulerProofs --------------------------
(***************************************************************************)
(* The scheduler for any number of CPUs and of forkers, and any slice.     *)
(*                                                                         *)
(* The inductive invariant follows the four assignments that link a child: *)
(* for each step of its fork it says what the next and prev pointers of    *)
(* the queue head and of the child are, before and after the child has     *)
(* been taken.  What keeps it is that a fork whose child has been taken    *)
(* never goes on (its CPU has left the idle task for good), and that other *)
(* CPUs write a child's pointers only where crossed says so.               *)
(***************************************************************************)
EXTENDS Scheduler, TLAPS

LinkedNodes == Children \cup {InitList}

(* The queue of c and its child, as far as the fork of c has got.          *)
HeadAlone(c) == links.next[Queue(c)] = Queue(c) /\ links.prev[Queue(c)] = Queue(c)

HalfLinked(c) ==
  /\ links.next[Queue(c)] = Child(c) /\ links.next[Child(c)] = Queue(c)
  /\ taken[c] = 0 => links.prev[Queue(c)] = Queue(c)

LinkedBack(c) ==
  /\ links.next[Queue(c)] = Child(c) /\ links.next[Child(c)] = Queue(c)
  /\ links.prev[Queue(c)] = Queue(c) /\ links.prev[Child(c)] = Queue(c)

OnQueue(c) ==
  /\ links.next[Queue(c)] = Child(c) /\ links.next[Child(c)] = Queue(c)
  /\ links.prev[Queue(c)] = Child(c) /\ links.prev[Child(c)] = Queue(c)

QueueOK(c) ==
  /\ c \notin Forkers => HeadAlone(c) /\ taken[c] = 0
  /\ c \in Forkers =>
       /\ fork[c] \notin {"link3", "link4", "count", "done"} => HeadAlone(c) /\ taken[c] = 0
       /\ fork[c] = "link2" => links.next[Child(c)] = Queue(c)
       /\ fork[c] = "link3" => HalfLinked(c)
       /\ fork[c] # "link3" => taken[c] <= 1
       /\ fork[c] = "link4" /\ taken[c] = 0 => LinkedBack(c)
       /\ fork[c] \in {"count", "done"} /\ taken[c] = 0 => OnQueue(c)
       /\ fork[c] \in {"link4", "count", "done"} /\ taken[c] = 1 => HeadAlone(c)
       /\ fork[c] \in {"link1", "link2", "link3", "link4"} => tmp[c] = Queue(c)
       /\ fork[c] \notin {"link4", "count", "done"} => links.prev[Child(c)] \in LinkedNodes

(* A fork whose child has been taken does not go on.                       *)
ForkOver(c) == taken[c] > 0 => at[c] \in Ends \/ current[c] = Child(c)

CpuOK(c) ==
  /\ QueueOK(c)
  /\ ForkOver(c)
  /\ current[c] \in {Idle(c), Child(c)}
  /\ at[c] # "wild"
  /\ fork[c] # "link3" \/ taken[c] = 0 => count[c] = 1 + Counted(c) - taken[c]
  /\ at[c] = "divide" => fork[c] \in {"link3", "link4", "count"}
  /\ at[c] = "idle" /\ c \in Forkers => taken[c] > 0 \/ fork[c] \in NotLinked

(* A reschedule finds no time left in the slice; a count that has come     *)
(* down to 0 is never divided by again.                                    *)
SliceOK(c) ==
  /\ c \notin Forkers => fork[c] = "done"
  /\ need[c] => slice[c] <= 0
  /\ count[c] <= 0 => slice[c] < 0 \/ at[c] \in Ends
  /\ current[c] = Idle(c) /\ at[c] \notin Ends => count[c] >= 1

SchedulerInv ==
  /\ TypeOK
  /\ \A c \in CPUs : SliceOK(c)
  /\ ~crossed => /\ links.prev[InitList] \in LinkedNodes
                 /\ \A c \in CPUs : CpuOK(c)
-----------------------------------------------------------------------------
(* Nodes, heaps and the four assignments of list_add_to_before.            *)
Heaps == [next : [Nodes -> Nodes], prev : [Nodes -> Nodes]]

(* The nodes of the CPUs are different nodes.                              *)
LEMMA NodesDiffer ==
  /\ \A c \in CPUs : {Idle(c), Child(c), Queue(c)} \subseteq Nodes
  /\ \A c, d \in CPUs : /\ Queue(c) # Child(d) /\ Queue(c) # Idle(d) /\ Child(c) # Idle(d)
                        /\ c # d => Child(c) # Child(d) /\ Queue(c) # Queue(d)
  /\ Forkers \subseteq CPUs /\ BSP \in CPUs /\ InitList \in Nodes
  /\ LinkedNodes \subseteq Nodes
  /\ \A c \in Forkers : Child(c) \in LinkedNodes
  /\ \A c \in CPUs : Queue(c) \notin LinkedNodes /\ InitList # Child(c)
  BY SchedulerAssumption DEF Idle, Child, Queue, Nodes, InitList, LinkedNodes, Children

(* What each assignment of list_add_to_before does to a heap.              *)
LEMMA AddBefore ==
  ASSUME NEW h \in Heaps, NEW entry \in Nodes, NEW add \in Nodes
  PROVE  /\ list_add_to_before(h, entry, add, 1)
              = [next |-> [h.next EXCEPT ![add] = entry], prev |-> h.prev]
         /\ list_add_to_before(h, entry, add, 2)
              = [next |-> [h.next EXCEPT ![h.prev[entry]] = add], prev |-> h.prev]
         /\ list_add_to_before(h, entry, add, 3)
              = [next |-> h.next, prev |-> [h.prev EXCEPT ![add] = h.prev[entry]]]
         /\ list_add_to_before(h, entry, add, 4)
              = [next |-> h.next, prev |-> [h.prev EXCEPT ![entry] = add]]
         /\ \A k \in 1..4 : list_add_to_before(h, entry, add, k) \in Heaps
<1>1. h = [next |-> h.next, prev |-> h.prev] /\ h.next \in [Nodes -> Nodes]
      /\ h.prev \in [Nodes -> Nodes]
  BY DEF Heaps
<1>2. list_add_to_before(h, entry, add, 1)
        = [next |-> [h.next EXCEPT ![add] = entry], prev |-> h.prev]
  BY <1>1 DEF list_add_to_before
<1>3. list_add_to_before(h, entry, add, 2)
        = [next |-> [h.next EXCEPT ![h.prev[entry]] = add], prev |-> h.prev]
  BY <1>1 DEF list_add_to_before
<1>4. list_add_to_before(h, entry, add, 3)
        = [next |-> h.next, prev |-> [h.prev EXCEPT ![add] = h.prev[entry]]]
  BY <1>1 DEF list_add_to_before
<1>5. list_add_to_before(h, entry, add, 4)
        = [next |-> h.next, prev |-> [h.prev EXCEPT ![entry] = add]]
  BY <1>1 DEF list_add_to_before
<1>6. \A k \in 1..4 : k = 1 \/ k = 2 \/ k = 3 \/ k = 4
  OBVIOUS
<1>. QED  BY <1>1, <1>2, <1>3, <1>4, <1>5, <1>6 DEF Heaps

(* list_del makes the two neighbours point at each other.                  *)
LEMMA Deleted ==
  ASSUME NEW h \in Heaps, NEW n \in Nodes
  PROVE  /\ list_del(h, n) \in Heaps
         /\ list_del(h, n).prev = [h.prev EXCEPT ![h.next[n]] = h.prev[n]]
         /\ h.next[n] # n =>
              list_del(h, n).next = [h.next EXCEPT ![h.prev[n]] = h.next[n]]
<1>1. h.next \in [Nodes -> Nodes] /\ h.prev \in [Nodes -> Nodes]
  BY DEF Heaps
<1>. DEFINE back == [h.prev EXCEPT ![h.next[n]] = h.prev[n]]
<1>2. back \in [Nodes -> Nodes] /\ (h.next[n] # n => back[n] = h.prev[n])
  BY <1>1
<1>3. list_del(h, n) = [next |-> [h.next EXCEPT ![back[n]] = h.next[n]], prev |-> back]
  BY DEF list_del
<1>. HIDE DEF back
<1>4. list_del(h, n) \in Heaps
  BY <1>1, <1>2, <1>3 DEF Heaps
<1>5. list_del(h, n).prev = back
      /\ list_del(h, n).next = [h.next EXCEPT ![back[n]] = h.next[n]]
  BY <1>3
<1>. QED  BY <1>2, <1>4, <1>5 DEF back
-----------------------------------------------------------------------------
(* The steps of a fork.                                                    *)

(* A step of a fork is made by a forker whose child nobody has taken.      *)
LEMMA ForkerSteps ==
  ASSUME SchedulerInv, NEW c \in CPUs, ForkStep(c)
  PROVE  /\ c \in Forkers /\ fork[c] \in DOMAIN Then /\ fork'[c] = Then[fork[c]]
         /\ \A d \in CPUs \ {c} : fork'[d] = fork[d]
         /\ fork' \in [CPUs -> Steps]
         /\ ~crossed' => ~crossed /\ ~Crosses(c) /\ taken[c] = 0
<1>1. fork[c] \in DOMAIN Then /\ c \in Forkers /\ fork \in [CPUs -> Steps]
  BY DEF SchedulerInv, TypeOK, SliceOK, ForkStep, Steps
<1>2. Then[fork[c]] \in Steps
  BY <1>1 DEF Then, Steps
<1>3. ~crossed' => ~crossed /\ ~Crosses(c)
  BY DEF ForkStep
<1>4. ASSUME ~crossed PROVE taken[c] = 0
  BY <1>4, NodesDiffer DEF SchedulerInv, TypeOK, CpuOK, ForkOver, ForkStep, Ends
<1>. QED  BY <1>1, <1>2, <1>3, <1>4 DEF ForkStep

(* It disturbs nothing that the slices rest on.                            *)
LEMMA ForkKeepsSlices ==
  ASSUME SchedulerInv, NEW c \in CPUs, ForkStep(c),
         count' \in [CPUs -> Int], \A d \in CPUs : count'[d] >= count[d]
  PROVE  \A d \in CPUs : SliceOK(d)'
<1>. SUFFICES ASSUME NEW d \in CPUs PROVE SliceOK(d)'
  OBVIOUS
<1>1. SliceOK(d) /\ count[d] \in Int /\ count'[d] \in Int /\ count'[d] >= count[d]
  BY DEF SchedulerInv, TypeOK
<1>2. d \notin Forkers => fork'[d] = "done"
  BY <1>1, ForkerSteps DEF SliceOK
<1>3. at'[d] = at[d] /\ need'[d] = need[d] /\ slice'[d] = slice[d] /\ current'[d] = current[d]
  BY DEF ForkStep, blocks
<1>. QED  BY <1>1, <1>2, <1>3 DEF SliceOK, Idle

(* What the step of one fork leaves alone of another CPU's queue.          *)
LEMMA ForkKeepsOthers ==
  ASSUME SchedulerInv, NEW c \in CPUs, ForkStep(c), ~crossed', NEW d \in CPUs \ {c},
         links'.next[Queue(d)] = links.next[Queue(d)],
         links'.prev[Queue(d)] = links.prev[Queue(d)],
         links'.prev[Child(d)] \in LinkedNodes \cup {links.prev[Child(d)]},
         count'[d] = count[d], tmp'[d] = tmp[d]
  PROVE  CpuOK(d)'
<1>1. CpuOK(d) /\ SliceOK(d) /\ fork[d] \in Steps
  BY ForkerSteps DEF SchedulerInv, TypeOK
<1>2. /\ fork'[d] = fork[d] /\ taken'[d] = taken[d] /\ current'[d] = current[d]
      /\ at'[d] = at[d]
  BY ForkerSteps DEF ForkStep
<1>3. d \in Forkers /\ fork[d] \in Linking =>
        links'.next[Child(d)] = links.next[Child(d)]
        /\ links'.prev[Child(d)] = links.prev[Child(d)]
  BY ForkerSteps DEF Crosses
<1>4. d \notin Forkers => QueueOK(d)'
  BY <1>1, <1>2 DEF CpuOK, QueueOK, HeadAlone, Queue
<1>5. ASSUME d \in Forkers, fork[d] \in Linking PROVE QueueOK(d)'
  BY <1>1, <1>2, <1>3, <1>5 DEF CpuOK, QueueOK, HeadAlone, HalfLinked, LinkedBack, OnQueue,
     Queue, Child, LinkedNodes, Linking
<1>6. ASSUME d \in Forkers, fork[d] \notin Linking PROVE QueueOK(d)'
  <2>1. fork[d] \notin {"link2", "link3", "link4", "count", "done"}
    BY <1>6 DEF Linking
  <2>2. HeadAlone(d)' /\ taken'[d] = 0
    BY <1>1, <1>2, <1>6, <2>1 DEF CpuOK, QueueOK, HeadAlone, Queue
  <2>3. links'.prev[Child(d)] \in LinkedNodes
    BY <1>1, <1>6, <2>1 DEF CpuOK, QueueOK
  <2>4. fork[d] = "link1" => tmp'[d] = Queue(d)
    BY <1>1, <1>6 DEF CpuOK, QueueOK
  <2>. QED  BY <1>2, <1>6, <2>1, <2>2, <2>3, <2>4 DEF QueueOK, LinkedNodes, Queue, Child
<1>. QED  BY <1>1, <1>2, <1>4, <1>5, <1>6
          DEF CpuOK, ForkOver, Counted, Idle, Child, Ends, NotLinked

(* What is left to show of a step of a fork: its own queue, and the nodes  *)
(* it writes.                                                              *)
LEMMA ForkKeeps ==
  ASSUME SchedulerInv, NEW c \in CPUs, ForkStep(c),
         links' \in Heaps, tmp' \in [CPUs -> Nodes], count' \in [CPUs -> Int],
         \A d \in CPUs : count'[d] >= count[d],
         \A d \in CPUs \ {c} : count'[d] = count[d] /\ tmp'[d] = tmp[d],
         ~crossed' =>
           /\ links'.prev[InitList] \in LinkedNodes
           /\ \A d \in CPUs \ {c} :
                /\ links'.next[Queue(d)] = links.next[Queue(d)]
                /\ links'.prev[Queue(d)] = links.prev[Queue(d)]
                /\ links'.prev[Child(d)] \in LinkedNodes \cup {links.prev[Child(d)]}
           /\ QueueOK(c)'
           /\ count'[c] = 1 + Counted(c)' - taken[c]
  PROVE  SchedulerInv'
<1>1. \A d \in CPUs : SliceOK(d)'
  BY ForkKeepsSlices
<1>2. TypeOK'
  <2>1. crossed' \in BOOLEAN
    BY DEF SchedulerInv, TypeOK, ForkStep
  <2>. QED  BY <2>1, ForkerSteps DEF SchedulerInv, TypeOK, ForkStep, blocks, Heaps
<1>3. ASSUME ~crossed' PROVE \A d \in CPUs \ {c} : CpuOK(d)'
  BY <1>3, ForkKeepsOthers
<1>4. ASSUME ~crossed' PROVE CpuOK(c)'
  <2>1. CpuOK(c) /\ taken[c] = 0 /\ at[c] = "task" /\ taken'[c] = taken[c]
        /\ at'[c] = at[c] /\ current'[c] = current[c]
    BY <1>4, ForkerSteps DEF SchedulerInv, ForkStep
  <2>. QED  BY <1>4, <2>1 DEF CpuOK, ForkOver, Counted, Idle, Child
<1>. QED  BY <1>1, <1>2, <1>3, <1>4 DEF SchedulerInv

(* A step that writes the pointers of the shared list or of a child, and   *)
(* makes them point at such a node, leaves every queue head alone.         *)
LEMMA LinkedWrites ==
  ASSUME links \in Heaps, links.prev[InitList] \in LinkedNodes,
         NEW w \in LinkedNodes, NEW u \in LinkedNodes, NEW v \in LinkedNodes,
         links'.next \in {links.next, [links.next EXCEPT ![w] = u]},
         links'.prev \in {links.prev, [links.prev EXCEPT ![w] = v]}
  PROVE  /\ links'.prev[InitList] \in LinkedNodes
         /\ \A d \in CPUs : /\ links'.next[Queue(d)] = links.next[Queue(d)]
                            /\ links'.prev[Queue(d)] = links.prev[Queue(d)]
                            /\ links'.prev[Child(d)] \in LinkedNodes \cup {links.prev[Child(d)]}
<1>1. links.next \in [Nodes -> Nodes] /\ links.prev \in [Nodes -> Nodes]
  BY DEF Heaps
<1>2. \A n \in Nodes : /\ n # w => links'.next[n] = links.next[n] /\ links'.prev[n] = links.prev[n]
                       /\ n = w => links'.prev[n] \in {v, links.prev[n]}
  BY <1>1
<1>3. \A d \in CPUs : Queue(d) \in Nodes /\ Child(d) \in Nodes /\ Queue(d) # w
  BY NodesDiffer
<1>4. InitList \in Nodes
  BY NodesDiffer
<1>. QED  BY <1>2, <1>3, <1>4

(* task_init empties the list of init_task_union, do_fork the child's.     *)
LEMMA InitNodesKeeps ==
  ASSUME SchedulerInv, NEW c \in CPUs, InitNodes(c)
  PROVE  SchedulerInv'
<1>. DEFINE n == IF fork[c] = "reset" THEN InitList ELSE Child(c)
<1>1. ForkStep(c) /\ fork[c] \in {"reset", "copy"} /\ count' = count /\ tmp' = tmp
      /\ links' = list_init(links, n)
  BY DEF InitNodes
<1>2. c \in Forkers /\ fork'[c] \in {"copy", "join1"} /\ InitList \in LinkedNodes
  BY <1>1, ForkerSteps DEF Then, LinkedNodes
<1>3. n \in LinkedNodes /\ n \in Nodes
  BY <1>2, NodesDiffer
<1>. HIDE DEF n
<1>4. links \in Heaps /\ links' \in Heaps
      /\ links'.next = [links.next EXCEPT ![n] = n]
      /\ links'.prev = [links.prev EXCEPT ![n] = n]
  BY <1>1, <1>3 DEF SchedulerInv, TypeOK, Heaps, list_init
<1>5. ASSUME ~crossed'
      PROVE  /\ links'.prev[InitList] \in LinkedNodes
             /\ \A d \in CPUs : /\ links'.next[Queue(d)] = links.next[Queue(d)]
                                /\ links'.prev[Queue(d)] = links.prev[Queue(d)]
                                /\ links'.prev[Child(d)] \in LinkedNodes \cup {links.prev[Child(d)]}
  <2>1. ~crossed
    BY <1>1, <1>5, ForkerSteps
  <2>2. links.prev[InitList] \in LinkedNodes
    BY <2>1 DEF SchedulerInv
  <2>. QED  BY <1>3, <1>4, <2>2, LinkedWrites
<1>6. ASSUME ~crossed' PROVE QueueOK(c)' /\ count'[c] = 1 + Counted(c)' - taken[c]
  <2>1. ~crossed /\ taken[c] = 0
    BY <1>1, <1>6, ForkerSteps
  <2>2. CpuOK(c) /\ taken' = taken
    BY <1>1, <2>1 DEF SchedulerInv, ForkStep
  <2>3. HeadAlone(c) /\ count[c] = 1 /\ links.prev[Child(c)] \in LinkedNodes
    BY <1>1, <1>2, <2>1, <2>2 DEF CpuOK, QueueOK, Counted
  <2>4. HeadAlone(c)' /\ links'.prev[Child(c)] \in LinkedNodes
    BY <1>5, <1>6, <2>3 DEF HeadAlone, Queue
  <2>. QED  BY <1>1, <1>2, <2>1, <2>2, <2>3, <2>4 DEF QueueOK, Counted, LinkedNodes, Queue, Child
<1>7. tmp' \in [CPUs -> Nodes] /\ count' \in [CPUs -> Int]
      /\ \A d \in CPUs : count'[d] >= count[d]
  BY <1>1 DEF SchedulerInv, TypeOK
<1>. QED  BY <1>1, <1>4, <1>5, <1>6, <1>7, ForkKeeps

(* do_fork links the child into the list that the two forks share.         *)
LEMMA JoinKeeps ==
  ASSUME SchedulerInv, NEW c \in CPUs, JoinInitList(c)
  PROVE  SchedulerInv'
<1>1. ForkStep(c) /\ count' = count /\ tmp' = tmp /\ links \in Heaps
  BY DEF JoinInitList, SchedulerInv, TypeOK, Heaps
<1>2. PICK k \in 1..4 : fork[c] = Join[k]
                        /\ links' = list_add_to_before(links, InitList, Child(c), k)
  BY DEF JoinInitList
<1>3. k \in {1, 2, 3, 4} /\ fork[c] \in {"join1", "join2", "join3", "join4"}
  BY <1>2 DEF Join
<1>4. c \in Forkers /\ fork'[c] \in {"join2", "join3", "join4", "scan"}
  BY <1>1, <1>3, ForkerSteps DEF Then
<1>5. Child(c) \in Nodes /\ Child(c) \in LinkedNodes /\ InitList \in Nodes
      /\ InitList \in LinkedNodes
  BY <1>4, NodesDiffer DEF LinkedNodes
<1>6. links' \in Heaps
  BY <1>1, <1>2, <1>5, AddBefore
<1>7. ASSUME ~crossed'
      PROVE  /\ links'.prev[InitList] \in LinkedNodes
             /\ \A d \in CPUs : /\ links'.next[Queue(d)] = links.next[Queue(d)]
                                /\ links'.prev[Queue(d)] = links.prev[Queue(d)]
                                /\ links'.prev[Child(d)] \in LinkedNodes \cup {links.prev[Child(d)]}
  <2>1. ~crossed
    BY <1>1, <1>7, ForkerSteps
  <2>2. links.prev[InitList] \in LinkedNodes
    BY <2>1 DEF SchedulerInv
  <2>3. CASE k = 1
    <3>1. links' = [next |-> [links.next EXCEPT ![Child(c)] = InitList], prev |-> links.prev]
      BY <1>1, <1>2, <1>5, <2>3, AddBefore
    <3>2. links'.next = [links.next EXCEPT ![Child(c)] = InitList] /\ links'.prev = links.prev
      BY <3>1
    <3>. QED  BY <1>1, <1>5, <2>2, <3>2, LinkedWrites
  <2>4. CASE k = 2
    <3>1. links' = [next |-> [links.next EXCEPT ![links.prev[InitList]] = Child(c)],
                    prev |-> links.prev]
      BY <1>1, <1>2, <1>5, <2>4, AddBefore
    <3>2. links'.next = [links.next EXCEPT ![links.prev[InitList]] = Child(c)]
          /\ links'.prev = links.prev
      BY <3>1
    <3>. QED  BY <1>1, <1>5, <2>2, <3>2, LinkedWrites
  <2>5. CASE k = 3
    <3>1. links' = [next |-> links.next,
                    prev |-> [links.prev EXCEPT ![Child(c)] = links.prev[InitList]]]
      BY <1>1, <1>2, <1>5, <2>5, AddBefore
    <3>2. links'.prev = [links.prev EXCEPT ![Child(c)] = links.prev[InitList]]
          /\ links'.next = links.next
      BY <3>1
    <3>. QED  BY <1>1, <1>5, <2>2, <3>2, LinkedWrites
  <2>6. CASE k = 4
    <3>1. links' = [next |-> links.next, prev |-> [links.prev EXCEPT ![InitList] = Child(c)]]
      BY <1>1, <1>2, <1>5, <2>6, AddBefore
    <3>2. links'.prev = [links.prev EXCEPT ![InitList] = Child(c)] /\ links'.next = links.next
      BY <3>1
    <3>. QED  BY <1>1, <1>5, <2>2, <3>2, LinkedWrites
  <2>. QED  BY <1>3, <2>3, <2>4, <2>5, <2>6
<1>8. ASSUME ~crossed' PROVE QueueOK(c)' /\ count'[c] = 1 + Counted(c)' - taken[c]
  <2>1. ~crossed /\ taken[c] = 0
    BY <1>1, <1>8, ForkerSteps
  <2>2. CpuOK(c) /\ taken' = taken
    BY <1>1, <2>1 DEF SchedulerInv, ForkStep
  <2>3. HeadAlone(c) /\ count[c] = 1 /\ links.prev[Child(c)] \in LinkedNodes
    BY <1>3, <1>4, <2>1, <2>2 DEF CpuOK, QueueOK, Counted
  <2>4. HeadAlone(c)' /\ links'.prev[Child(c)] \in LinkedNodes
    BY <1>7, <1>8, <2>3 DEF HeadAlone, Queue
  <2>. QED  BY <1>1, <1>4, <2>1, <2>2, <2>3, <2>4 DEF QueueOK, Counted, LinkedNodes, Queue, Child
<1>9. tmp' \in [CPUs -> Nodes] /\ count' \in [CPUs -> Int]
      /\ \A d \in CPUs : count'[d] >= count[d]
  BY <1>1 DEF SchedulerInv, TypeOK
<1>. QED  BY <1>1, <1>6, <1>7, <1>8, <1>9, ForkKeeps

(* A step that writes only the pointers of c's own queue head and child.   *)
LEMMA OwnWrites ==
  ASSUME links \in Heaps, links.prev[InitList] \in LinkedNodes, NEW c \in CPUs,
         NEW w \in {Queue(c), Child(c)}, NEW u \in Nodes, NEW v \in Nodes,
         links'.next \in {links.next, [links.next EXCEPT ![w] = u]},
         links'.prev \in {links.prev, [links.prev EXCEPT ![w] = v]}
  PROVE  /\ links'.prev[InitList] \in LinkedNodes
         /\ \A d \in CPUs \ {c} :
              /\ links'.next[Queue(d)] = links.next[Queue(d)]
              /\ links'.prev[Queue(d)] = links.prev[Queue(d)]
              /\ links'.prev[Child(d)] \in LinkedNodes \cup {links.prev[Child(d)]}
<1>1. links.next \in [Nodes -> Nodes] /\ links.prev \in [Nodes -> Nodes]
  BY DEF Heaps
<1>2. \A n \in Nodes : n # w => links'.next[n] = links.next[n] /\ links'.prev[n] = links.prev[n]
  BY <1>1
<1>3. \A d \in CPUs \ {c} : /\ Queue(d) \in Nodes /\ Child(d) \in Nodes
                            /\ Queue(d) # w /\ Child(d) # w
  BY NodesDiffer
<1>4. InitList \in Nodes /\ InitList # w
  BY NodesDiffer DEF LinkedNodes
<1>. QED  BY <1>2, <1>3, <1>4

(* insert_task_queue finds the place of the child.                         *)
LEMMA ScanKeeps ==
  ASSUME SchedulerInv, NEW c \in CPUs, Scan(c)
  PROVE  SchedulerInv'
<1>1. ForkStep(c) /\ fork[c] = "scan" /\ count' = count /\ links' = links /\ links \in Heaps
      /\ tmp' = [tmp EXCEPT ![c] = links.next[Queue(c)]]
  BY DEF Scan, SchedulerInv, TypeOK, Heaps
<1>2. c \in Forkers /\ fork'[c] = "link1"
  BY <1>1, ForkerSteps DEF Then
<1>3. links.next[Queue(c)] \in Nodes /\ tmp \in [CPUs -> Nodes] /\ count \in [CPUs -> Int]
  BY <1>1, NodesDiffer DEF Heaps, SchedulerInv, TypeOK
<1>4. ASSUME ~crossed' PROVE QueueOK(c)' /\ count'[c] = 1 + Counted(c)' - taken[c]
  <2>1. ~crossed /\ taken[c] = 0
    BY <1>1, <1>4, ForkerSteps
  <2>2. CpuOK(c) /\ taken' = taken
    BY <1>1, <2>1 DEF SchedulerInv, ForkStep
  <2>3. HeadAlone(c) /\ count[c] = 1 /\ links.prev[Child(c)] \in LinkedNodes
    BY <1>1, <1>2, <2>1, <2>2 DEF CpuOK, QueueOK, Counted
  <2>4. tmp'[c] = Queue(c)
    BY <1>1, <1>3, <2>3 DEF HeadAlone
  <2>. QED  BY <1>1, <1>2, <2>1, <2>2, <2>3, <2>4
            DEF QueueOK, HeadAlone, Counted, LinkedNodes, Queue, Child
<1>5. ~crossed' => links'.prev[InitList] \in LinkedNodes
  BY <1>1, ForkerSteps DEF SchedulerInv
<1>6. \A d \in CPUs : count'[d] >= count[d]
  BY <1>1, <1>3
<1>7. tmp' \in [CPUs -> Nodes] /\ \A d \in CPUs \ {c} : tmp'[d] = tmp[d]
  BY <1>1, <1>3
<1>. QED  BY <1>1, <1>3, <1>4, <1>5, <1>6, <1>7, ForkKeeps

(* insert_task_queue counts the child it has linked.                       *)
LEMMA CountKeeps ==
  ASSUME SchedulerInv, NEW c \in CPUs, CountTask(c)
  PROVE  SchedulerInv'
<1>1. ForkStep(c) /\ fork[c] = "count" /\ links' = links /\ links \in Heaps /\ tmp' = tmp
      /\ count' = [count EXCEPT ![c] = @ + 1]
  BY DEF CountTask, SchedulerInv, TypeOK, Heaps
<1>2. c \in Forkers /\ fork'[c] = "done"
  BY <1>1, ForkerSteps DEF Then
<1>3. tmp \in [CPUs -> Nodes] /\ count \in [CPUs -> Int]
  BY DEF SchedulerInv, TypeOK
<1>4. ASSUME ~crossed' PROVE QueueOK(c)' /\ count'[c] = 1 + Counted(c)' - taken[c]
  <2>1. ~crossed /\ taken[c] = 0
    BY <1>1, <1>4, ForkerSteps
  <2>2. CpuOK(c) /\ taken' = taken
    BY <1>1, <2>1 DEF SchedulerInv, ForkStep
  <2>3. OnQueue(c) /\ count[c] = 1
    BY <1>1, <1>2, <2>1, <2>2 DEF CpuOK, QueueOK, Counted
  <2>. QED  BY <1>1, <1>2, <1>3, <2>1, <2>2, <2>3
            DEF QueueOK, OnQueue, Counted, LinkedNodes, Queue, Child
<1>5. ~crossed' => links'.prev[InitList] \in LinkedNodes
  BY <1>1, ForkerSteps DEF SchedulerInv
<1>6. count' \in [CPUs -> Int] /\ \A d \in CPUs : count'[d] >= count[d]
  BY <1>1, <1>3
<1>7. \A d \in CPUs \ {c} : count'[d] = count[d]
  BY <1>1, <1>3
<1>. QED  BY <1>1, <1>3, <1>4, <1>5, <1>6, <1>7, ForkKeeps

(* insert_task_queue links the child, pointer by pointer.                  *)
LEMMA LinkKeeps ==
  ASSUME SchedulerInv, NEW c \in CPUs, Link(c)
  PROVE  SchedulerInv'
<1>1. ForkStep(c) /\ count' = count /\ tmp' = tmp /\ links \in Heaps
      /\ tmp \in [CPUs -> Nodes] /\ count \in [CPUs -> Int]
  BY DEF Link, SchedulerInv, TypeOK, Heaps
<1>2. PICK k \in 1..4 : fork[c] = LinkSteps[k]
                        /\ links' = list_add_to_before(links, tmp[c], Child(c), k)
  BY DEF Link
<1>3. k \in {1, 2, 3, 4} /\ (k = 1 => fork[c] = "link1") /\ (k = 2 => fork[c] = "link2")
      /\ (k = 3 => fork[c] = "link3") /\ (k = 4 => fork[c] = "link4")
  BY <1>2 DEF LinkSteps
<1>4. c \in Forkers /\ fork'[c] = Then[fork[c]]
  BY <1>1, ForkerSteps
<1>5. Child(c) \in Nodes /\ Queue(c) \in Nodes /\ tmp[c] \in Nodes /\ Child(c) # Queue(c)
  BY <1>1, NodesDiffer
<1>6. links' \in Heaps
  BY <1>1, <1>2, <1>5, AddBefore
<1>7. ASSUME ~crossed'
      PROVE  /\ links'.prev[InitList] \in LinkedNodes
             /\ \A d \in CPUs \ {c} :
                  /\ links'.next[Queue(d)] = links.next[Queue(d)]
                  /\ links'.prev[Queue(d)] = links.prev[Queue(d)]
                  /\ links'.prev[Child(d)] \in LinkedNodes \cup {links.prev[Child(d)]}
             /\ QueueOK(c)' /\ count'[c] = 1 + Counted(c)' - taken[c]
  <2>1. ~crossed /\ taken[c] = 0
    BY <1>1, <1>7, ForkerSteps
  <2>2. CpuOK(c) /\ taken' = taken /\ links.prev[InitList] \in LinkedNodes
    BY <1>1, <2>1 DEF SchedulerInv, ForkStep
  <2>3. QueueOK(c) /\ count[c] = 1 /\ tmp[c] = Queue(c)
    BY <1>3, <1>4, <2>1, <2>2 DEF CpuOK, QueueOK, Counted
  <2>4. links.next \in [Nodes -> Nodes] /\ links.prev \in [Nodes -> Nodes]
    BY <1>1 DEF Heaps
  <2>5. links' = list_add_to_before(links, Queue(c), Child(c), k)
    BY <1>2, <2>3
  <2>6. CASE k = 1
    <3>1. links' = [next |-> [links.next EXCEPT ![Child(c)] = Queue(c)], prev |-> links.prev]
      BY <1>1, <1>5, <2>5, <2>6, AddBefore
    <3>2. links'.next = [links.next EXCEPT ![Child(c)] = Queue(c)] /\ links'.prev = links.prev
          /\ fork'[c] = "link2"
      BY <1>3, <1>4, <2>6, <3>1 DEF Then
    <3>3. HeadAlone(c)' /\ links'.next[Child(c)] = Queue(c)
          /\ links'.prev[Child(c)] \in LinkedNodes
      BY <1>3, <1>4, <1>5, <2>3, <2>4, <2>6, <3>2 DEF QueueOK, HeadAlone, Queue
    <3>4. QueueOK(c)' /\ count'[c] = 1 + Counted(c)' - taken[c]
      BY <1>1, <1>4, <2>1, <2>2, <2>3, <3>2, <3>3 DEF QueueOK, Counted, LinkedNodes, Queue, Child
    <3>. QED  BY <1>1, <1>5, <2>2, <3>2, <3>4, OwnWrites
  <2>7. CASE k = 2
    <3>1. links.prev[Queue(c)] = Queue(c)
      BY <1>3, <1>4, <2>3, <2>7 DEF QueueOK, HeadAlone
    <3>2. links' = [next |-> [links.next EXCEPT ![links.prev[Queue(c)]] = Child(c)],
                    prev |-> links.prev]
      BY <1>1, <1>5, <2>5, <2>7, AddBefore
    <3>3. links'.next = [links.next EXCEPT ![Queue(c)] = Child(c)] /\ links'.prev = links.prev
          /\ fork'[c] = "link3"
      BY <1>3, <1>4, <2>7, <3>1, <3>2 DEF Then
    <3>4. HalfLinked(c)' /\ links'.prev[Child(c)] \in LinkedNodes
      BY <1>3, <1>4, <1>5, <2>3, <2>4, <2>7, <3>3 DEF QueueOK, HeadAlone, HalfLinked, Queue, Child
    <3>5. QueueOK(c)' /\ count'[c] = 1 + Counted(c)' - taken[c]
      BY <1>1, <1>4, <2>1, <2>2, <2>3, <3>3, <3>4 DEF QueueOK, Counted, LinkedNodes, Queue, Child
    <3>. QED  BY <1>1, <1>5, <2>2, <3>3, <3>5, OwnWrites
  <2>8. CASE k = 3
    <3>1. links.prev[Queue(c)] = Queue(c)
      BY <1>3, <1>4, <2>1, <2>3, <2>8 DEF QueueOK, HalfLinked
    <3>2. links' = [next |-> links.next,
                    prev |-> [links.prev EXCEPT ![Child(c)] = links.prev[Queue(c)]]]
      BY <1>1, <1>5, <2>5, <2>8, AddBefore
    <3>3. links'.prev = [links.prev EXCEPT ![Child(c)] = Queue(c)] /\ links'.next = links.next
          /\ fork'[c] = "link4"
      BY <1>3, <1>4, <2>8, <3>1, <3>2 DEF Then
    <3>4. LinkedBack(c)'
      BY <1>3, <1>4, <1>5, <2>1, <2>3, <2>4, <2>8, <3>1, <3>3
         DEF QueueOK, HalfLinked, LinkedBack, Queue, Child
    <3>5. QueueOK(c)' /\ count'[c] = 1 + Counted(c)' - taken[c]
      BY <1>1, <1>4, <2>1, <2>2, <2>3, <3>3, <3>4 DEF QueueOK, Counted, LinkedNodes, Queue, Child
    <3>. QED  BY <1>1, <1>5, <2>2, <3>3, <3>5, OwnWrites
  <2>9. CASE k = 4
    <3>1. links' = [next |-> links.next, prev |-> [links.prev EXCEPT ![Queue(c)] = Child(c)]]
      BY <1>1, <1>5, <2>5, <2>9, AddBefore
    <3>2. links'.prev = [links.prev EXCEPT ![Queue(c)] = Child(c)] /\ links'.next = links.next
          /\ fork'[c] = "count"
      BY <1>3, <1>4, <2>9, <3>1 DEF Then
    <3>3. OnQueue(c)'
      BY <1>3, <1>4, <1>5, <2>1, <2>3, <2>4, <2>9, <3>2
         DEF QueueOK, LinkedBack, OnQueue, Queue, Child
    <3>4. QueueOK(c)' /\ count'[c] = 1 + Counted(c)' - taken[c]
      BY <1>1, <1>4, <2>1, <2>2, <2>3, <3>2, <3>3 DEF QueueOK, Counted, LinkedNodes, Queue, Child
    <3>. QED  BY <1>1, <1>5, <2>2, <3>2, <3>4, OwnWrites
  <2>. QED  BY <1>3, <2>6, <2>7, <2>8, <2>9
<1>8. \A d \in CPUs : count'[d] >= count[d]
  BY <1>1
<1>. QED  BY <1>1, <1>6, <1>7, <1>8, ForkKeeps
-----------------------------------------------------------------------------
(* A reschedule.                                                           *)

(* What a CPU finds on its queue: nothing, or its own child.               *)
LEMMA WhatIsNext ==
  ASSUME TypeOK, NEW c \in CPUs, QueueOK(c)
  PROVE  \/ /\ Empty(c)
            /\ c \in Forkers =>
                 fork[c] # "link3" /\ (taken[c] = 1 \/ fork[c] \in NotLinked)
         \/ /\ ~Empty(c) /\ c \in Forkers /\ NextTask(c) = Child(c)
            /\ links.next[Queue(c)] = Child(c) /\ links.next[Child(c)] = Queue(c)
            /\ fork[c] \in {"link3", "link4", "count", "done"}
            /\ fork[c] = "link3" \/ taken[c] = 0
<1>1. Queue(c) # Child(c) /\ fork[c] \in Steps /\ taken[c] \in 0..2
  BY NodesDiffer DEF TypeOK
<1>2. CASE HeadAlone(c)
  <2>1. Empty(c)
    BY <1>2 DEF Empty, list_is_empty, HeadAlone
  <2>2. c \in Forkers => fork[c] # "link3"
    BY <1>1, <1>2 DEF QueueOK, HeadAlone, HalfLinked
  <2>3. ASSUME c \in Forkers, fork[c] \in {"link4", "count", "done"} PROVE taken[c] = 1
    BY <1>1, <1>2, <2>3 DEF QueueOK, HeadAlone, LinkedBack, OnQueue
  <2>. QED  BY <1>1, <2>1, <2>2, <2>3 DEF NotLinked
<1>3. CASE ~HeadAlone(c)
  <2>1. c \in Forkers /\ fork[c] \in {"link3", "link4", "count", "done"}
    BY <1>1, <1>3 DEF QueueOK, Steps
  <2>2. fork[c] = "link3" \/ taken[c] = 0
    BY <1>1, <1>3, <2>1 DEF QueueOK
  <2>3. links.next[Queue(c)] = Child(c) /\ links.next[Child(c)] = Queue(c)
    BY <2>1, <2>2 DEF QueueOK, HalfLinked, LinkedBack, OnQueue
  <2>4. ~Empty(c) /\ NextTask(c) = Child(c)
    BY <1>1, <2>3 DEF Empty, list_is_empty, NextTask
  <2>. QED  BY <2>1, <2>2, <2>3, <2>4
<1>. QED  BY <1>2, <1>3

(* get_next_task keeps the types, and touches no other CPU's count.        *)
LEMMA GetNextTaskTypes ==
  ASSUME TypeOK, NEW c \in CPUs, GetNextTask(c)
  PROVE  /\ links \in Heaps /\ links' \in Heaps /\ NextTask(c) \in Nodes
         /\ count' \in [CPUs -> Int] /\ taken' \in [CPUs -> 0..2] /\ crossed' \in BOOLEAN
         /\ \A d \in CPUs \ {c} : count'[d] = count[d]
         /\ count[c] < 0 => count'[c] = count[c]
         /\ count[c] >= 0 => count'[c] = IF Empty(c) THEN count[c] ELSE count[c] - 1
<1>1. links \in Heaps /\ NextTask(c) \in Nodes
  BY NodesDiffer DEF TypeOK, Heaps, NextTask
<1>2. links' \in Heaps
  BY <1>1, Deleted DEF GetNextTask
<1>3. count' = [count EXCEPT ![c] = IF Empty(c) \/ @ < 0 THEN @ ELSE @ - 1]
  BY DEF GetNextTask, TypeOK
<1>4. taken' \in [CPUs -> 0..2]
  BY DEF GetNextTask, TypeOK
<1>. QED  BY <1>1, <1>2, <1>3, <1>4 DEF TypeOK, GetNextTask

(* Unless the forks cross, it takes the CPU's own child, and off its queue *)
(* if that is linked both ways.                                            *)
LEMMA GetNextTaskQueues ==
  ASSUME SchedulerInv, NEW c \in CPUs, GetNextTask(c), ~crossed', UNCHANGED <<fork, tmp>>
  PROVE  /\ ~crossed /\ links'.prev[InitList] \in LinkedNodes
         /\ \A d \in CPUs : QueueOK(d)'
         /\ \A d \in CPUs \ {c} : taken'[d] = taken[d]
         /\ Empty(c) => taken'[c] = taken[c]
         /\ ~Empty(c) => taken'[c] > 0 /\ (taken[c] = 0 => taken'[c] = 1)
<1>1. ~crossed /\ ~Crosses(c) /\ TypeOK /\ links \in Heaps /\ links' \in Heaps
      /\ taken \in [CPUs -> 0..2]
  BY GetNextTaskTypes DEF GetNextTask, SchedulerInv, TypeOK
<1>2. links.prev[InitList] \in LinkedNodes /\ \A d \in CPUs : QueueOK(d)
  BY <1>1 DEF SchedulerInv, CpuOK
<1>3. CASE Empty(c)
  <2>1. links' = links /\ NextTask(c) = Idle(c)
    BY <1>3 DEF GetNextTask, NextTask
  <2>2. \A d \in CPUs : taken'[d] = taken[d]
    BY <1>1, <2>1, NodesDiffer DEF GetNextTask
  <2>3. \A d \in CPUs : QueueOK(d)'
    BY <1>2, <2>1, <2>2 DEF QueueOK, HeadAlone, HalfLinked, LinkedBack, OnQueue, Queue, Child,
       LinkedNodes
  <2>. QED  BY <1>1, <1>2, <1>3, <2>1, <2>2, <2>3
<1>4. CASE ~Empty(c)
  <2>1. /\ c \in Forkers /\ NextTask(c) = Child(c)
        /\ links.next[Queue(c)] = Child(c) /\ links.next[Child(c)] = Queue(c)
        /\ fork[c] \in {"link3", "link4", "count", "done"}
        /\ fork[c] = "link3" \/ taken[c] = 0
    BY <1>1, <1>2, <1>4, WhatIsNext
  <2>2. links' = list_del(links, Child(c)) /\ Child(c) \in Nodes /\ Child(c) # Queue(c)
        /\ Queue(c) \in Nodes /\ Child(c) \in LinkedNodes
    BY <1>4, <2>1, NodesDiffer DEF GetNextTask
  <2>3. links'.prev = [links.prev EXCEPT ![Queue(c)] = links.prev[Child(c)]]
        /\ links'.next = [links.next EXCEPT ![links.prev[Child(c)]] = Queue(c)]
    BY <1>1, <2>1, <2>2, Deleted
  <2>4. links.next \in [Nodes -> Nodes] /\ links.prev \in [Nodes -> Nodes]
    BY <1>1 DEF Heaps
  <2>5. \A d \in CPUs : taken'[d] = IF d = c /\ taken[d] < 2 THEN taken[d] + 1 ELSE taken[d]
    BY <1>1, <2>1, NodesDiffer DEF GetNextTask
  <2>6. links.prev[Child(c)] \in LinkedNodes \cup {Queue(c)}
    BY <1>2, <2>1 DEF QueueOK, LinkedBack, OnQueue
  <2>7. links'.prev[InitList] \in LinkedNodes
    <3>1. InitList \in Nodes /\ InitList # Queue(c)
      BY NodesDiffer DEF InitList
    <3>. QED  BY <1>2, <2>3, <2>4, <3>1
  <2>8. QueueOK(c)'
    <3>1. CASE fork[c] = "link3"
      <4>1. links.prev[Child(c)] \in LinkedNodes /\ links.prev[Child(c)] # Queue(c)
        BY <1>2, <2>1, <3>1, NodesDiffer DEF QueueOK
      <4>2. HalfLinked(c)' /\ links'.prev[Child(c)] \in LinkedNodes
        BY <1>1, <2>1, <2>2, <2>3, <2>4, <2>5, <4>1 DEF HalfLinked, Queue, Child
      <4>3. fork'[c] = "link3" /\ tmp'[c] = Queue(c)
        BY <1>2, <2>1, <3>1 DEF QueueOK
      <4>. QED  BY <2>1, <3>1, <4>2, <4>3 DEF QueueOK, LinkedNodes, Queue, Child
    <3>2. CASE fork[c] # "link3"
      <4>1. taken[c] = 0 /\ taken'[c] = 1
        BY <1>1, <2>1, <2>5, <3>2
      <4>2. links.prev[Child(c)] = Queue(c)
        BY <1>2, <2>1, <3>2, <4>1 DEF QueueOK, LinkedBack, OnQueue
      <4>3. HeadAlone(c)'
        BY <2>2, <2>3, <2>4, <4>2 DEF HeadAlone, Queue
      <4>4. fork[c] = "link4" => tmp[c] = Queue(c)
        BY <1>2, <2>1 DEF QueueOK
      <4>. QED  BY <2>1, <3>2, <4>1, <4>3, <4>4 DEF QueueOK, LinkedNodes, Queue, Child
    <3>. QED  BY <3>1, <3>2
  <2>9. ASSUME NEW d \in CPUs \ {c} PROVE QueueOK(d)'
    <3>1. Queue(d) \in Nodes /\ Queue(d) # Queue(c) /\ Queue(d) \notin LinkedNodes
          /\ Child(d) \in Nodes /\ Child(d) # Queue(c)
      BY NodesDiffer
    <3>2. links'.next[Queue(d)] = links.next[Queue(d)] /\ links'.prev[Queue(d)] = links.prev[Queue(d)]
          /\ links'.prev[Child(d)] = links.prev[Child(d)] /\ taken'[d] = taken[d]
      BY <2>3, <2>4, <2>5, <2>6, <3>1
    <3>3. d \in Forkers /\ fork[d] \in Linking => links'.next[Child(d)] = links.next[Child(d)]
      BY <1>1 DEF Crosses
    <3>. QED  BY <1>2, <3>2, <3>3 DEF QueueOK, HeadAlone, HalfLinked, LinkedBack, OnQueue, Queue,
                 Child, LinkedNodes, Linking
  <2>. QED  BY <1>1, <1>4, <2>1, <2>5, <2>7, <2>8, <2>9
<1>. QED  BY <1>3, <1>4

(* schedule() is called with no time left in the slice.  It never divides  *)
(* by 0 or less, and leaves the idle task, for its child or for ever.      *)
LEMMA ScheduleKeepsSlices ==
  ASSUME SchedulerInv, NEW c \in CPUs, Schedule(c), need[c], at[c] \notin Ends, fork' = fork
  PROVE  /\ slice' \in [CPUs -> Int]
         /\ \A d \in CPUs : SliceOK(d)'
<1>1. TypeOK /\ GetNextTask(c) /\ \A d \in CPUs : SliceOK(d)
  BY DEF SchedulerInv, Schedule
<1>2. count' \in [CPUs -> Int] /\ slice \in [CPUs -> Int] /\ count \in [CPUs -> Int]
      /\ need \in [CPUs -> BOOLEAN] /\ need' = [need EXCEPT ![c] = FALSE]
      /\ current \in [CPUs -> Nodes] /\ at \in [CPUs -> {"task", "irq"} \cup Softirq \cup Ends]
  BY <1>1, GetNextTaskTypes DEF TypeOK, Schedule
<1>3. \A d \in CPUs \ {c} : count'[d] = count[d]
  BY <1>1, GetNextTaskTypes
<1>4. slice[c] <= 0 /\ (count[c] <= 0 => slice[c] < 0)
  BY <1>1 DEF SliceOK
<1>5. Idle(c) \in Nodes /\ \A t \in Children : t # Idle(c)
  BY DEF Children, Idle, Nodes
<1>6. ASSUME NEW d \in CPUs \ {c},
             slice'[d] = slice[d], at'[d] = at[d], current'[d] = current[d]
      PROVE  SliceOK(d)'
  <2>1. SliceOK(d) /\ count'[d] = count[d] /\ need'[d] = need[d]
    BY <1>1, <1>2, <1>3
  <2>. QED  BY <1>6, <2>1 DEF SliceOK, Idle
<1>7. (c \notin Forkers => fork'[c] = "done") /\ ~need'[c]
  BY <1>1, <1>2 DEF SliceOK
<1>8. CASE slice[c] = 0 /\ count'[c] = 0 /\ Stop(c, "divide") /\ UNCHANGED slice
  <2>1. at' = [at EXCEPT ![c] = "divide"] /\ current' = current /\ slice' = slice
    BY <1>8 DEF Stop
  <2>2. at'[c] \in Ends
    BY <1>2, <2>1 DEF Ends
  <2>3. SliceOK(c)'
    BY <1>7, <2>2 DEF SliceOK
  <2>4. \A d \in CPUs \ {c} : SliceOK(d)'
    BY <1>2, <1>6, <2>1
  <2>. QED  BY <1>2, <2>1, <2>3, <2>4
<1>9. CASE /\ slice[c] = 0 => count'[c] # 0
           /\ slice' = [slice EXCEPT ![c] = IF @ = 0 THEN Refill(NextTask(c), count'[c]) ELSE @]
           /\ SwitchTo(c, NextTask(c))
  <2>1. count[c] >= 0 => count'[c] >= count[c] - 1
    BY <1>1, <1>2, GetNextTaskTypes
  <2>2. slice[c] = 0 => count'[c] >= 1
    BY <1>2, <1>4, <1>9, <2>1
  <2>3. \A t, n : n \in Nat \ {0} => Refill(t, n) \in Int
    <3>1. \A n \in Nat \ {0} : Slice \div n \in Int
      BY SchedulerAssumption
    <3>. QED  BY <3>1 DEF Refill
  <2>4. slice[c] = 0 => Refill(NextTask(c), count'[c]) \in Int
    BY <1>2, <2>2, <2>3
  <2>5. slice' \in [CPUs -> Int] /\ (slice[c] # 0 => slice'[c] = slice[c])
        /\ \A d \in CPUs \ {c} : slice'[d] = slice[d]
    BY <1>2, <1>9, <2>4
  <2>6. /\ \A d \in CPUs \ {c} : at'[d] = at[d] /\ current'[d] = current[d]
        /\ current'[c] # Idle(c) \/ at'[c] \in Ends
    BY <1>2, <1>5, <1>9 DEF SwitchTo, Stop, Ends
  <2>7. count'[c] <= 0 => slice'[c] < 0
    <3>1. ASSUME count'[c] <= 0 PROVE slice[c] < 0
      <4>1. slice[c] # 0
        BY <1>2, <2>2, <3>1
      <4>. QED  BY <1>2, <1>4, <4>1
    <3>. QED  BY <2>5, <3>1
  <2>8. SliceOK(c)'
    BY <1>7, <2>6, <2>7 DEF SliceOK, Idle
  <2>9. \A d \in CPUs \ {c} : SliceOK(d)'
    BY <1>6, <2>5, <2>6
  <2>. QED  BY <2>5, <2>8, <2>9
<1>. QED  BY <1>8, <1>9 DEF Schedule

(* A step that leaves queues, forks and current tasks alone.               *)
LEMMA FrameKeeps ==
  ASSUME SchedulerInv, TypeOK', UNCHANGED <<queues, forks, current>>,
         \A d \in CPUs : /\ \/ at'[d] = at[d]
                            \/ at[d] \notin Ends /\ at'[d] \notin Ends \ {"torn"}
                         /\ need'[d] => slice'[d] <= 0
                         /\ slice[d] < 0 => slice'[d] < 0
  PROVE  SchedulerInv'
<1>1. /\ links' = links /\ taken' = taken /\ count' = count /\ crossed' = crossed
      /\ fork' = fork /\ tmp' = tmp /\ current' = current
  BY DEF queues, forks
<1>2. ASSUME NEW d \in CPUs PROVE SliceOK(d)'
  <2>1. SliceOK(d)
    BY DEF SchedulerInv
  <2>. QED  BY <1>1, <2>1 DEF SliceOK, Idle
<1>3. ASSUME NEW d \in CPUs, CpuOK(d) PROVE CpuOK(d)'
  <2>1. QueueOK(d)'
    BY <1>1, <1>3 DEF CpuOK, QueueOK, HeadAlone, HalfLinked, LinkedBack, OnQueue, Queue, Child,
       LinkedNodes
  <2>2. ForkOver(d)'
    BY <1>1, <1>3 DEF CpuOK, ForkOver, Child
  <2>. QED  BY <1>1, <1>3, <2>1, <2>2 DEF CpuOK, Counted, Idle, Child, Ends
<1>4. ~crossed' => links'.prev[InitList] \in LinkedNodes
  BY <1>1 DEF SchedulerInv
<1>. QED  BY <1>1, <1>2, <1>3, <1>4 DEF SchedulerInv

(* A reschedule at the end of a handler or of do_softirq.                  *)
LEMMA ScheduleKeeps ==
  ASSUME SchedulerInv, NEW c \in CPUs, Schedule(c), need[c], at[c] \notin Ends,
         UNCHANGED <<ipi, forks, raised>>, softirq' \in BOOLEAN,
         torn' \in [CPUs -> BOOLEAN]
  PROVE  SchedulerInv'
<1>1. fork' = fork /\ tmp' = tmp /\ ipi' = ipi /\ raised' = raised
      /\ TypeOK /\ GetNextTask(c)
  BY DEF forks, SchedulerInv, Schedule
<1>2. slice' \in [CPUs -> Int] /\ \A d \in CPUs : SliceOK(d)'
  BY <1>1, ScheduleKeepsSlices
<1>3. /\ links \in Heaps /\ links' \in Heaps /\ NextTask(c) \in Nodes
      /\ count' \in [CPUs -> Int] /\ taken' \in [CPUs -> 0..2] /\ crossed' \in BOOLEAN
      /\ \A d \in CPUs \ {c} : count'[d] = count[d]
      /\ count[c] >= 0 => count'[c] = IF Empty(c) THEN count[c] ELSE count[c] - 1
  BY <1>1, GetNextTaskTypes
<1>4. \/ slice[c] = 0 /\ count'[c] = 0 /\ Stop(c, "divide")
      \/ (slice[c] = 0 => count'[c] # 0) /\ SwitchTo(c, NextTask(c))
  BY DEF Schedule
<1>5. /\ at \in [CPUs -> {"task", "irq"} \cup Softirq \cup Ends]
      /\ current \in [CPUs -> Nodes] /\ iflag \in [CPUs -> BOOLEAN]
      /\ owner \in {None, Lost} \cup (CPUs \X {"task", "soft"})
      /\ need \in [CPUs -> BOOLEAN] /\ count \in [CPUs -> Int] /\ taken \in [CPUs -> 0..2]
  BY <1>1 DEF TypeOK
<1>6. /\ at' \in [CPUs -> {"task", "irq"} \cup Softirq \cup Ends]
      /\ current' \in [CPUs -> Nodes] /\ iflag' \in [CPUs -> BOOLEAN]
      /\ \A d \in CPUs \ {c} : at'[d] = at[d] /\ current'[d] = current[d]
  <2>1. PICK e \in {"task"} \cup Ends : at' = [at EXCEPT ![c] = e]
    BY <1>4 DEF Stop, SwitchTo, Ends
  <2>2. PICK t \in Nodes : current' = [current EXCEPT ![c] = t]
    <3>1. current' = [current EXCEPT ![c] = NextTask(c)] \/ current' = current
      BY <1>4 DEF Stop, SwitchTo
    <3>. QED  BY <1>3, <1>5, <3>1
  <2>3. iflag' = [iflag EXCEPT ![c] = FALSE] \/ iflag' = iflag
    BY <1>4 DEF Stop, SwitchTo
  <2>. QED  BY <1>5, <2>1, <2>2, <2>3
<1>7. TypeOK'
  <2>1. owner' \in {None, Lost} \cup (CPUs \X {"task", "soft"})
    BY <1>5 DEF Schedule, Dropped
  <2>2. need' \in [CPUs -> BOOLEAN]
    BY <1>5 DEF Schedule
  <2>. QED  BY <1>1, <1>2, <1>3, <1>6, <2>1, <2>2 DEF TypeOK, Heaps
<1>8. ASSUME ~crossed' PROVE links'.prev[InitList] \in LinkedNodes /\ \A d \in CPUs : CpuOK(d)'
  <2>1. /\ ~crossed /\ links'.prev[InitList] \in LinkedNodes
        /\ \A d \in CPUs : QueueOK(d)'
        /\ \A d \in CPUs \ {c} : taken'[d] = taken[d]
        /\ Empty(c) => taken'[c] = taken[c]
        /\ ~Empty(c) => taken'[c] > 0 /\ (taken[c] = 0 => taken'[c] = 1)
    BY <1>1, <1>8, GetNextTaskQueues
  <2>2. \A d \in CPUs : CpuOK(d)
    BY <2>1 DEF SchedulerInv
  <2>3. ASSUME NEW d \in CPUs \ {c} PROVE CpuOK(d)'
    BY <1>1, <1>3, <1>6, <2>1, <2>2, <2>3 DEF CpuOK, ForkOver, Counted, Idle, Child
  <2>4. CpuOK(c)'
    <3>1. \/ /\ Empty(c)
             /\ c \in Forkers =>
                  fork[c] # "link3" /\ (taken[c] = 1 \/ fork[c] \in NotLinked)
          \/ /\ ~Empty(c) /\ c \in Forkers /\ NextTask(c) = Child(c)
             /\ fork[c] \in {"link3", "link4", "count", "done"}
             /\ fork[c] = "link3" \/ taken[c] = 0
      BY <1>1, <2>2, WhatIsNext DEF CpuOK
    <3>2. Empty(c) => NextTask(c) = Idle(c) /\ Idle(c) \notin Children
      BY DEF NextTask, Children, Idle
    <3>3. c \in Forkers => Child(c) \in Children
      BY DEF Child, Children
    <3>4. CpuOK(c) /\ SliceOK(c)
      BY <2>2 DEF SchedulerInv
    <3>5. CASE Empty(c)
      <4>1. current'[c] = current[c] /\ at'[c] \in {"divide", "idle"}
            /\ (at'[c] = "divide" => count'[c] = 0) /\ taken'[c] = taken[c]
        BY <1>4, <1>5, <2>1, <3>2, <3>5 DEF Stop, SwitchTo
      <4>2. c \in Forkers => fork[c] # "link3" /\ (taken[c] = 1 \/ fork[c] \in NotLinked)
        BY <3>1, <3>5
      <4>3. c \notin Forkers => fork[c] = "done" /\ taken[c] = 0
        BY <3>4 DEF SliceOK, CpuOK, QueueOK
      <4>4. count[c] = 1 + Counted(c) - taken[c] /\ count[c] >= 0 /\ taken[c] \in 0..1
        BY <1>5, <3>4, <4>2, <4>3 DEF CpuOK, QueueOK, Counted
      <4>5. count'[c] = count[c]
        BY <1>3, <3>5, <4>4
      <4>6. at'[c] = "divide" => fork[c] \in {"link3", "link4", "count"}
        BY <1>1, <3>4, <4>1, <4>2, <4>3, <4>4, <4>5 DEF CpuOK, QueueOK, Counted, NotLinked, TypeOK, Steps
      <4>. QED  BY <1>1, <2>1, <3>4, <4>1, <4>2, <4>4, <4>5, <4>6
                DEF CpuOK, ForkOver, Counted, Idle, Child, Ends
    <3>6. CASE ~Empty(c)
      <4>1. /\ c \in Forkers /\ NextTask(c) = Child(c) /\ taken'[c] > 0
            /\ fork[c] \in {"link3", "link4", "count", "done"}
            /\ fork[c] # "link3" => taken[c] = 0 /\ taken'[c] = 1
        BY <2>1, <3>1, <3>6
      <4>2. \/ at'[c] = "divide" /\ count'[c] = 0 /\ current'[c] = current[c]
            \/ at'[c] = "task" /\ current'[c] = Child(c)
        BY <1>3, <1>4, <1>5, <3>3, <4>1 DEF Stop, SwitchTo
      <4>3. fork[c] # "link3" => count[c] = 1 + Counted(c) /\ count'[c] = Counted(c)
        <5>1. fork[c] # "link3" => count[c] = 1 + Counted(c)
          BY <1>5, <3>4, <4>1 DEF CpuOK, Counted
        <5>. QED  BY <1>3, <1>5, <3>6, <5>1 DEF Counted
      <4>4. at'[c] = "divide" => fork[c] \in {"link3", "link4", "count"}
        BY <4>1, <4>2, <4>3 DEF Counted
      <4>5. fork'[c] # "link3" \/ taken'[c] = 0 => count'[c] = 1 + Counted(c)' - taken'[c]
        BY <1>1, <4>1, <4>3 DEF Counted
      <4>6. current'[c] \in {Idle(c), Child(c)}' /\ ForkOver(c)'
        BY <3>4, <4>2 DEF CpuOK, ForkOver, Ends, Idle, Child
      <4>. QED  BY <1>1, <2>1, <4>1, <4>2, <4>4, <4>5, <4>6 DEF CpuOK, Idle, Child
    <3>. QED  BY <3>5, <3>6
  <2>. QED  BY <2>1, <2>3, <2>4
<1>. QED  BY <1>2, <1>7, <1>8 DEF SchedulerInv

(* The end of a handler or of do_softirq: a reschedule, or back below.     *)
LEMMA LeaveKeeps ==
  ASSUME SchedulerInv, NEW c \in CPUs, Leave(c), at[c] \notin Ends,
         UNCHANGED <<ipi, forks>>, softirq' \in BOOLEAN
  PROVE  SchedulerInv'
<1>1. TypeOK /\ torn' = [torn EXCEPT ![c] = FALSE] /\ raised' = raised
      /\ fork' = fork /\ tmp' = tmp /\ ipi' = ipi
  BY DEF SchedulerInv, Leave, forks
<1>2. torn' \in [CPUs -> BOOLEAN]
  BY <1>1 DEF TypeOK
<1>3. CASE ~raised[c] /\ need[c]
  BY <1>1, <1>2, <1>3, ScheduleKeeps DEF Leave
<1>4. CASE ~(~raised[c] /\ need[c])
  <2>1. /\ at' = [at EXCEPT ![c] = IF torn[c] THEN "torn" ELSE "task"]
        /\ owner' = IF torn[c] THEN Dropped(c) ELSE owner
        /\ UNCHANGED <<iflag, current, need, slice, queues>>
    BY <1>4 DEF Leave, Restore
  <2>2. at' \in [CPUs -> {"task", "irq"} \cup Softirq \cup Ends]
        /\ \A d \in CPUs : \/ at'[d] = at[d]
                           \/ at[d] \notin Ends /\ at'[d] \notin Ends \ {"torn"}
    BY <1>1, <2>1 DEF TypeOK, Ends
  <2>3. owner' \in {None, Lost} \cup (CPUs \X {"task", "soft"})
    BY <1>1, <2>1 DEF TypeOK, Dropped
  <2>4. TypeOK'
    BY <1>1, <1>2, <2>1, <2>2, <2>3 DEF TypeOK, queues
  <2>5. \A d \in CPUs : (need'[d] => slice'[d] <= 0) /\ (slice[d] < 0 => slice'[d] < 0)
    BY <2>1 DEF SchedulerInv, SliceOK
  <2>. QED  BY <2>1, <2>2, <2>4, <2>5, FrameKeeps
<1>. QED  BY <1>3, <1>4

(* A handler is entered and ticks, or not.                                 *)
LEMMA EnterKeeps ==
  ASSUME SchedulerInv, NEW c \in CPUs, Enter(c), Tick(c) \/ UNCHANGED <<need, slice>>,
         ipi' \subseteq CPUs, softirq' \in BOOLEAN
  PROVE  SchedulerInv'
<1>1. TypeOK /\ InterruptsOn(c) /\ at' = [at EXCEPT ![c] = "irq"]
      /\ torn' = [torn EXCEPT ![c] = at[c] # "task"]
      /\ raised' = [raised EXCEPT ![c] = @ \/ at[c] \in {"wait", "hold"}]
      /\ owner' = (IF owner = <<c, "soft">> THEN Lost ELSE owner)
      /\ UNCHANGED <<iflag, current, queues, forks>>
  BY DEF Enter, SchedulerInv
<1>2. /\ at' \in [CPUs -> {"task", "irq"} \cup Softirq \cup Ends]
      /\ \A d \in CPUs : at'[d] = at[d] \/ (at[d] \notin Ends /\ at'[d] \notin Ends \ {"torn"})
  BY <1>1 DEF TypeOK, InterruptsOn, Softirq, Ends
<1>3. torn' \in [CPUs -> BOOLEAN] /\ owner' \in {None, Lost} \cup (CPUs \X {"task", "soft"})
  BY <1>1 DEF TypeOK
<1>4. raised' \in [CPUs -> BOOLEAN]
  <2>1. PICK b \in BOOLEAN : b = (raised[c] \/ at[c] \in {"wait", "hold"})
    OBVIOUS
  <2>2. raised' = [raised EXCEPT ![c] = b]
    BY <1>1, <2>1
  <2>. QED  BY <1>1, <2>2 DEF TypeOK
<1>5. /\ slice' \in [CPUs -> Int] /\ need' \in [CPUs -> BOOLEAN]
      /\ \A d \in CPUs : (need'[d] => slice'[d] <= 0) /\ (slice[d] < 0 => slice'[d] < 0)
  <2>1. slice \in [CPUs -> Int] /\ need \in [CPUs -> BOOLEAN]
        /\ \A d \in CPUs : need[d] => slice[d] <= 0
    BY DEF SchedulerInv, TypeOK, SliceOK
  <2>2. CASE UNCHANGED <<need, slice>>
    BY <2>1, <2>2
  <2>3. CASE Tick(c)
    <3>1. slice' = [slice EXCEPT ![c] = IF @ < 0 THEN @ ELSE @ - 1]
          /\ need' = [need EXCEPT ![c] = @ \/ slice'[c] <= 0]
      BY <2>3 DEF Tick
    <3>2. PICK b \in BOOLEAN : b = (need[c] \/ slice'[c] <= 0)
      OBVIOUS
    <3>3. need' = [need EXCEPT ![c] = b]
      BY <3>1, <3>2
    <3>4. slice' \in [CPUs -> Int] /\ slice'[c] <= slice[c]
          /\ \A d \in CPUs \ {c} : slice'[d] = slice[d]
      BY <2>1, <3>1
    <3>5. need' \in [CPUs -> BOOLEAN] /\ need'[c] = b
          /\ \A d \in CPUs \ {c} : need'[d] = need[d]
      BY <2>1, <3>3
    <3>6. b => slice'[c] <= 0
      BY <2>1, <3>2, <3>4
    <3>7. slice[c] < 0 => slice'[c] < 0
      BY <2>1, <3>4
    <3>. QED  BY <2>1, <3>4, <3>5, <3>6, <3>7
  <2>. QED  BY <2>2, <2>3
<1>6. TypeOK'
  BY <1>1, <1>2, <1>3, <1>4, <1>5 DEF TypeOK, queues, forks
<1>. QED  BY <1>1, <1>2, <1>5, <1>6, FrameKeeps

(* do_softirq and the tasks: nothing but the lock and where the CPU is.    *)
LEMMA SoftirqKeeps ==
  ASSUME SchedulerInv, NEW c \in CPUs, RetFromIntr(c) \/ SoftirqStep(c)
  PROVE  SchedulerInv'
<1>1. TypeOK /\ at \in [CPUs -> {"task", "irq"} \cup Softirq \cup Ends] /\ softirq \in BOOLEAN
      /\ \A d \in CPUs : need[d] => slice[d] <= 0
  BY DEF SchedulerInv, SliceOK, TypeOK
<1>2. ASSUME NEW to \in {"enter", "wait", "hold", "clear"}, at[c] \in {"irq"} \cup Softirq,
             at' = [at EXCEPT ![c] = to],
             owner' \in {None, Lost} \cup (CPUs \X {"task", "soft"}),
             UNCHANGED <<ipi, softirq, iflag, current, blocks, queues, forks>>
      PROVE  SchedulerInv'
  <2>1. at' \in [CPUs -> {"task", "irq"} \cup Softirq \cup Ends]
        /\ \A d \in CPUs : at'[d] = at[d] \/ (at[d] \notin Ends /\ at'[d] \notin Ends \ {"torn"})
    BY <1>1, <1>2 DEF Softirq, Ends
  <2>2. TypeOK'
    BY <1>1, <1>2, <2>1 DEF TypeOK, blocks, queues, forks
  <2>3. need' = need /\ slice' = slice
    BY <1>2 DEF blocks
  <2>. QED  BY <1>1, <1>2, <2>1, <2>2, <2>3, FrameKeeps
<1>3. owner \in {None, Lost} \cup (CPUs \X {"task", "soft"})
  BY <1>1 DEF TypeOK
<1>4. CASE RetFromIntr(c)
  <2>1. at[c] = "irq" /\ at[c] \notin Ends
    BY <1>4 DEF RetFromIntr, Ends
  <2>. QED  BY <1>1, <1>2, <1>3, <1>4, <2>1, LeaveKeeps DEF RetFromIntr
<1>5. CASE EnterSoftirq(c)
  <2>1. at[c] = "enter" /\ at[c] \notin Ends /\ at[c] \in Softirq
    BY <1>5 DEF EnterSoftirq, Ends, Softirq
  <2>. QED  BY <1>1, <1>2, <1>3, <1>5, <2>1, LeaveKeeps DEF EnterSoftirq
<1>6. CASE SoftLock(c)
  BY <1>2, <1>6 DEF SoftLock, Softirq
<1>7. CASE SoftUnlock(c)
  BY <1>2, <1>7 DEF SoftUnlock, Softirq
<1>8. CASE ClearStatus(c)
  <2>1. at[c] = "clear" /\ at[c] \notin Ends /\ softirq' \in BOOLEAN
    BY <1>8 DEF ClearStatus, Ends
  <2>. QED  BY <1>8, <2>1, LeaveKeeps DEF ClearStatus
<1>. QED  BY <1>4, <1>5, <1>6, <1>7, <1>8 DEF SoftirqStep

(* A task that prints, or makes its first system call.                     *)
LEMMA TaskKeeps ==
  ASSUME SchedulerInv, NEW c \in CPUs, TaskLock(c) \/ TaskUnlock(c) \/ SystemCall(c)
  PROVE  SchedulerInv'
<1>1. TypeOK /\ \A d \in CPUs : need[d] => slice[d] <= 0
  BY DEF SchedulerInv, SliceOK
<1>2. UNCHANGED <<ipi, softirq, at, current, blocks, queues, forks>>
      /\ iflag' \in [CPUs -> BOOLEAN]
      /\ owner' \in {None, Lost} \cup (CPUs \X {"task", "soft"})
  <2>1. CASE TaskLock(c)
    BY <1>1, <2>1, SchedulerAssumption DEF TypeOK, TaskLock
  <2>2. CASE TaskUnlock(c)
    BY <1>1, <2>2 DEF TypeOK, TaskUnlock
  <2>3. CASE SystemCall(c)
    BY <1>1, <2>3 DEF TypeOK, SystemCall
  <2>. QED  BY <2>1, <2>2, <2>3
<1>3. TypeOK' /\ need' = need /\ slice' = slice /\ at' = at
  BY <1>1, <1>2 DEF TypeOK, blocks, queues, forks
<1>. QED  BY <1>1, <1>2, <1>3, FrameKeeps
-----------------------------------------------------------------------------
(* The request to reschedule.  While a CPU is still in its first task with *)
(* its slice used up, the request of the tick that ended it is pending in  *)
(* the handler or the do_softirq on top of it.                             *)
RequestPending(c) ==
  current[c] = Idle(c) /\ at[c] \notin Ends /\ slice[c] <= 0
    => raised[c] \/ (need[c] /\ at[c] # "task")

SameRequest(c) ==
  /\ at'[c] = at[c] /\ current'[c] = current[c] /\ slice'[c] = slice[c]
  /\ need'[c] = need[c] /\ raised'[c] = raised[c]

LEMMA EnterKeepsRequest ==
  ASSUME TypeOK, NEW c \in CPUs, Enter(c), Tick(c) \/ UNCHANGED <<need, slice>>, RequestPending(c)
  PROVE  RequestPending(c)' /\ \A d \in CPUs \ {c} : SameRequest(d)
<1>1. /\ InterruptsOn(c) /\ at' = [at EXCEPT ![c] = "irq"] /\ current' = current
      /\ raised' = [raised EXCEPT ![c] = @ \/ at[c] \in {"wait", "hold"}]
  BY DEF Enter
<1>2. at'[c] = "irq" /\ at[c] \notin Ends /\ \A d \in CPUs \ {c} : at'[d] = at[d]
  BY <1>1 DEF TypeOK, InterruptsOn, Softirq, Ends
<1>3. (raised[c] => raised'[c]) /\ \A d \in CPUs \ {c} : raised'[d] = raised[d]
  BY <1>1, Zenon DEF TypeOK
<1>4. \/ need' = need /\ slice' = slice
      \/ /\ slice' = [slice EXCEPT ![c] = IF @ < 0 THEN @ ELSE @ - 1]
         /\ need' = [need EXCEPT ![c] = @ \/ slice'[c] <= 0]
  BY DEF Tick
<1>5. \/ need' = need /\ slice' = slice
      \/ /\ slice'[c] <= 0 => need'[c]
         /\ \A d \in CPUs \ {c} : need'[d] = need[d] /\ slice'[d] = slice[d]
  <2>1. CASE need' = need /\ slice' = slice
    BY <2>1
  <2>2. CASE /\ slice' = [slice EXCEPT ![c] = IF @ < 0 THEN @ ELSE @ - 1]
             /\ need' = [need EXCEPT ![c] = @ \/ slice'[c] <= 0]
    <3>1. \A d \in CPUs \ {c} : slice'[d] = slice[d]
      BY <2>2 DEF TypeOK
    <3>2. (slice'[c] <= 0 => need'[c]) /\ \A d \in CPUs \ {c} : need'[d] = need[d]
      BY <2>2, Zenon DEF TypeOK
    <3>. QED  BY <3>1, <3>2
  <2>. QED  BY <1>4, <2>1, <2>2
<1>6. RequestPending(c)'
  BY <1>1, <1>2, <1>3, <1>5 DEF RequestPending, Idle
<1>. QED  BY <1>1, <1>2, <1>3, <1>5, <1>6 DEF SameRequest

(* A reschedule leaves the first task; without one nothing was pending.    *)
LEMMA LeaveKeepsRequest ==
  ASSUME TypeOK, NEW c \in CPUs, Leave(c), at[c] \notin Ends, RequestPending(c)
  PROVE  RequestPending(c)' /\ \A d \in CPUs \ {c} : SameRequest(d)
<1>1. raised' = raised
  BY DEF Leave
<1>2. CASE ~raised[c] /\ need[c]
  <2>1. Schedule(c)
    BY <1>2 DEF Leave
  <2>2. need' = [need EXCEPT ![c] = FALSE]
        /\ (slice' = slice \/ \E n \in {Refill(NextTask(c), count'[c]), slice[c]} :
                                 slice' = [slice EXCEPT ![c] = n])
        /\ (Stop(c, "divide") \/ SwitchTo(c, NextTask(c)))
    BY <2>1 DEF Schedule
  <2>3. \A d \in CPUs \ {c} : need'[d] = need[d] /\ slice'[d] = slice[d]
    BY <2>2 DEF TypeOK
  <2>4. \A t \in Children : t # Idle(c)
    BY DEF Children, Idle
  <2>5. /\ \A d \in CPUs \ {c} : at'[d] = at[d] /\ current'[d] = current[d]
        /\ current'[c] # Idle(c) \/ at'[c] \in Ends
    BY <2>2, <2>4 DEF TypeOK, SwitchTo, Stop, Ends
  <2>. QED  BY <1>1, <2>3, <2>5 DEF RequestPending, SameRequest, Idle
<1>3. CASE ~(~raised[c] /\ need[c])
  <2>1. /\ at' = [at EXCEPT ![c] = IF torn[c] THEN "torn" ELSE "task"]
        /\ current' = current /\ need' = need /\ slice' = slice
    BY <1>3 DEF Leave, Restore
  <2>2. \A d \in CPUs \ {c} : at'[d] = at[d]
    BY <2>1 DEF TypeOK
  <2>3. current[c] = Idle(c) /\ slice[c] <= 0 => raised[c]
    BY <1>3 DEF RequestPending
  <2>. QED  BY <1>1, <2>1, <2>2, <2>3 DEF RequestPending, SameRequest, Idle
<1>. QED  BY <1>2, <1>3

LEMMA RequestKept ==
  ASSUME TypeOK, \A c \in CPUs : RequestPending(c), [Next]_vars
  PROVE  \A c \in CPUs : RequestPending(c)'
<1>1. ASSUME NEW c \in CPUs, RequestPending(c)', \A d \in CPUs \ {c} : SameRequest(d)
      PROVE  \A d \in CPUs : RequestPending(d)'
  BY <1>1 DEF RequestPending, SameRequest, Idle
<1>2. ASSUME NEW c \in CPUs, Enter(c), Tick(c) \/ UNCHANGED <<need, slice>>
      PROVE  \A d \in CPUs : RequestPending(d)'
  BY <1>1, <1>2, EnterKeepsRequest
<1>3. ASSUME NEW c \in CPUs, Leave(c), at[c] \notin Ends
      PROVE  \A d \in CPUs : RequestPending(d)'
  BY <1>1, <1>3, LeaveKeepsRequest
<1>4. ASSUME NEW c \in CPUs, NEW to \in Softirq, at[c] \in {"irq"} \cup Softirq,
             at' = [at EXCEPT ![c] = to], current' = current, UNCHANGED blocks
      PROVE  \A d \in CPUs : RequestPending(d)'
  <2>1. at'[c] = to /\ \A d \in CPUs \ {c} : at'[d] = at[d]
    BY <1>4 DEF TypeOK
  <2>2. raised' = raised /\ need' = need /\ slice' = slice
    BY <1>4 DEF blocks
  <2>3. at[c] \notin Ends /\ to # "task"
    BY <1>4 DEF Softirq, Ends
  <2>4. RequestPending(c)'
    BY <1>4, <2>1, <2>2, <2>3 DEF RequestPending, Idle
  <2>. QED  BY <1>1, <1>4, <2>1, <2>2, <2>4 DEF SameRequest
<1>5. ASSUME UNCHANGED <<at, current, blocks>> PROVE \A c \in CPUs : RequestPending(c)'
  BY <1>5 DEF RequestPending, Idle, blocks
<1>6. CASE HPET_handler \/ DeviceIrq
  BY <1>2, <1>6, SchedulerAssumption DEF HPET_handler, DeviceIrq
<1>7. ASSUME NEW c \in CPUs, IPI_0x200(c) PROVE \A d \in CPUs : RequestPending(d)'
  BY <1>2, <1>7 DEF IPI_0x200
<1>8. ASSUME NEW c \in CPUs, RetFromIntr(c) PROVE \A d \in CPUs : RequestPending(d)'
  BY <1>3, <1>4, <1>8 DEF RetFromIntr, Softirq, Ends
<1>9. ASSUME NEW c \in CPUs, EnterSoftirq(c) \/ ClearStatus(c)
      PROVE  \A d \in CPUs : RequestPending(d)'
  BY <1>3, <1>4, <1>9 DEF EnterSoftirq, ClearStatus, Softirq, Ends
<1>10. ASSUME NEW c \in CPUs, SoftLock(c) \/ SoftUnlock(c)
       PROVE  \A d \in CPUs : RequestPending(d)'
  BY <1>4, <1>10 DEF SoftLock, SoftUnlock, Softirq
<1>11. ASSUME NEW c \in CPUs, Fork(c) \/ TaskLock(c) \/ TaskUnlock(c) \/ SystemCall(c)
       PROVE  UNCHANGED <<at, current, blocks>>
  BY <1>11 DEF Fork, InitNodes, JoinInitList, Scan, Link, CountTask, ForkStep, TaskLock, TaskUnlock,
     SystemCall
<1>12. CASE UNCHANGED vars
  BY <1>5, <1>12 DEF vars
<1>. QED  BY <1>5, <1>6, <1>7, <1>8, <1>9, <1>10, <1>11, <1>12 DEF Next, SoftirqStep
-----------------------------------------------------------------------------
(* The theorems.                                                           *)

LEMMA InitInv == Init => SchedulerInv
<1>. SUFFICES ASSUME Init PROVE SchedulerInv
  OBVIOUS
<1>1. links = [next |-> [n \in Nodes |-> n], prev |-> [n \in Nodes |-> n]]
  BY DEF Init, Unlinked
<1>2. TypeOK
  <2>1. links \in [next : [Nodes -> Nodes], prev : [Nodes -> Nodes]]
    BY <1>1
  <2>2. current \in [CPUs -> Nodes] /\ tmp \in [CPUs -> Nodes]
    BY NodesDiffer DEF Init
  <2>3. fork \in [CPUs -> Steps]
    BY DEF Init, Steps, Then
  <2>4. at \in [CPUs -> {"task", "irq"} \cup Softirq \cup Ends] /\ owner = None
        /\ ipi = {} /\ softirq = FALSE /\ crossed = FALSE
    BY DEF Init
  <2>5. {iflag, torn, raised, need} \subseteq [CPUs -> BOOLEAN] /\ slice \in [CPUs -> Int]
        /\ count \in [CPUs -> Int] /\ taken \in [CPUs -> 0..2]
    BY SchedulerAssumption DEF Init
  <2>6. ipi \subseteq CPUs /\ {softirq, crossed} \subseteq BOOLEAN
        /\ owner \in {None, Lost} \cup (CPUs \X {"task", "soft"})
    BY <2>4
  <2>. QED  BY <2>1, <2>2, <2>3, <2>4, <2>5, <2>6 DEF TypeOK
<1>3. links.prev[InitList] \in LinkedNodes
  BY <1>1, NodesDiffer DEF LinkedNodes
<1>4. ASSUME NEW c \in CPUs PROVE SliceOK(c)
  BY SchedulerAssumption DEF Init, SliceOK
<1>5. ASSUME NEW c \in CPUs PROVE CpuOK(c)
  <2>1. HeadAlone(c) /\ taken[c] = 0 /\ links.prev[Child(c)] = Child(c) /\ count[c] = 1
        /\ at[c] = "task" /\ current[c] = Idle(c)
        /\ fork[c] = IF c \in Forkers THEN "reset" ELSE "done"
    BY <1>1, NodesDiffer DEF Init, HeadAlone
  <2>2. c \in Forkers => Child(c) \in LinkedNodes
    BY NodesDiffer
  <2>. QED  BY <2>1, <2>2 DEF CpuOK, QueueOK, ForkOver, Counted
<1>. QED  BY <1>2, <1>3, <1>4, <1>5 DEF SchedulerInv

LEMMA NextInv == SchedulerInv /\ [Next]_vars => SchedulerInv'
<1>. SUFFICES ASSUME SchedulerInv, [Next]_vars PROVE SchedulerInv'
  OBVIOUS
<1>0. TypeOK /\ BSP \in CPUs
  BY NodesDiffer DEF SchedulerInv
<1>1. CASE HPET_handler
  <2>1. ipi' \subseteq CPUs /\ softirq' \in BOOLEAN /\ Enter(BSP) /\ Tick(BSP)
    BY <1>0, <1>1 DEF HPET_handler, TypeOK
  <2>. QED  BY <1>0, <2>1, EnterKeeps
<1>2. CASE DeviceIrq
  <2>1. ipi' \subseteq CPUs /\ softirq' \in BOOLEAN /\ Enter(BSP) /\ UNCHANGED <<need, slice>>
    BY <1>0, <1>2 DEF DeviceIrq, TypeOK
  <2>. QED  BY <1>0, <2>1, EnterKeeps
<1>3. ASSUME NEW c \in CPUs, IPI_0x200(c) PROVE SchedulerInv'
  <2>1. ipi' \subseteq CPUs /\ softirq' \in BOOLEAN /\ Enter(c) /\ Tick(c)
    BY <1>0, <1>3 DEF IPI_0x200, TypeOK
  <2>. QED  BY <2>1, EnterKeeps
<1>4. ASSUME NEW c \in CPUs, RetFromIntr(c) \/ SoftirqStep(c) PROVE SchedulerInv'
  BY <1>4, SoftirqKeeps
<1>5. ASSUME NEW c \in CPUs, Fork(c) PROVE SchedulerInv'
  BY <1>5, InitNodesKeeps, JoinKeeps, ScanKeeps, LinkKeeps, CountKeeps DEF Fork
<1>6. ASSUME NEW c \in CPUs, TaskLock(c) \/ TaskUnlock(c) \/ SystemCall(c) PROVE SchedulerInv'
  BY <1>6, TaskKeeps
<1>7. CASE UNCHANGED vars
  <2>1. UNCHANGED <<ipi, softirq, at, iflag, current, blocks, queues, forks, owner>>
    BY <1>7 DEF vars
  <2>2. TypeOK' /\ need' = need /\ slice' = slice /\ at' = at
    BY <1>0, <2>1 DEF TypeOK, blocks, queues, forks
  <2>3. \A d \in CPUs : need[d] => slice[d] <= 0
    BY DEF SchedulerInv, SliceOK
  <2>. QED  BY <2>1, <2>2, <2>3, FrameKeeps
<1>. QED  BY <1>1, <1>2, <1>3, <1>4, <1>5, <1>6, <1>7 DEF Next

(* The types, what the pointers of every queue are at each step of a fork, *)
(* and that a reschedule never divides by a count it has taken to 0.       *)
THEOREM SchedulerInvariant == Spec => []SchedulerInv
  BY InitInv, NextInv, PTL DEF Spec

(* Every CPU runs its own idle task, then its own child, once; unless the  *)
(* two forks cross, or the child is taken before its prev pointer is set.  *)
THEOREM EachRunsItsOwn == Spec => []TakenOnce
<1>1. SchedulerInv => TakenOnce
  BY DEF SchedulerInv, CpuOK, QueueOK, TakenOnce, TypeOK
<1>. QED  BY <1>1, SchedulerInvariant, PTL

(* running_task_count is exact, and 0 only for a child taken uncounted.    *)
THEOREM CountIsExact == Spec => []CountExact
<1>1. SchedulerInv => CountExact
  BY DEF SchedulerInv, CpuOK, CountExact
<1>. QED  BY <1>1, SchedulerInvariant, PTL

(* No CPU passes a child on its queue by for its idle task.                *)
THEOREM NoTaskPassedBy == Spec => []IdleIfNoneWaits
<1>1. SchedulerInv => IdleIfNoneWaits
  BY SchedulerAssumption DEF SchedulerInv, CpuOK, IdleIfNoneWaits
<1>. QED  BY <1>1, SchedulerInvariant, PTL

(* A CPU whose slice is used up leaves its first task at that tick.        *)
THEOREM SlicesEnd == Spec => []SliceEnds
<1>1. Init => \A c \in CPUs : RequestPending(c)
  BY SchedulerAssumption DEF Init, RequestPending
<1>2. TypeOK /\ (\A c \in CPUs : RequestPending(c)) /\ [Next]_vars
        => (\A c \in CPUs : RequestPending(c))'
  BY RequestKept
<1>3. TypeOK /\ (\A c \in CPUs : RequestPending(c)) => SliceEnds
  BY DEF TypeOK, RequestPending, SliceEnds, Ends
<1>4. SchedulerInv => TypeOK
  BY DEF SchedulerInv
<1>. QED  BY <1>1, <1>2, <1>3, <1>4, SchedulerInvariant, PTL DEF Spec
=============================================================================
