----------------------------- MODULE RustProofs -----------------------------
(***************************************************************************)
(* Proofs about the Rust programs: Executor.tla, for any tasks beside the  *)
(* keyboard's and any size of the two queues, and ThreadPool.tla, for any  *)
(* number of workers and of jobs.                                          *)
(***************************************************************************)
EXTENDS Executor, ThreadPool, SequenceTheorems, FiniteSetTheorems, TLAPS

Tasks == Others \cup {Keyboard}
In(t, q) == \E i \in DOMAIN q : q[i] = t

(* main has queued what it has spawned, and nothing else has run.          *)
Spawning ==
  pc = "spawn" =>
    /\ Len(task_queue) = Cardinality(tasks) /\ \A t \in tasks : In(t, task_queue)
    /\ ~initialized /\ ~waker /\ scancodes = <<>>

(* The stages of a poll of the keyboard task.                              *)
Polling ==
  /\ pc # "spawn" => Keyboard \in tasks
  /\ pc \in {"next", "register", "again", "take"} => current = Keyboard

(* Interrupts are off from the test of the queue to the hlt.               *)
Masked ==
  /\ pc \in {"check", "halting"} => ~interrupts
  /\ pc \in {"halting", "hlt"} => task_queue = <<>>

(* The keyboard task is polled, will be, or left its waker; and with its   *)
(* waker in the cell it has seen every scancode.                           *)
Looking == current = Keyboard /\ pc \in {"poll", "next", "register", "take"}

Wakeable ==
  /\ pc \notin {"spawn", "panic"} => Looking \/ waker \/ In(Keyboard, task_queue)
  /\ waker /\ pc \notin {"again", "take"} => scancodes = <<>>

(* What was typed is got or dropped.                                       *)
InOrder == dropped \subseteq 1..typed /\ PrintedInOrder

ExecutorInv == TypeOK /\ Spawning /\ Polling /\ Masked /\ Wakeable /\ InOrder
-----------------------------------------------------------------------------
(* A queue that an element is appended to or popped from.                  *)
LEMMA Pushed ==
  ASSUME NEW S, NEW q \in Seq(S), NEW t \in S
  PROVE  /\ Append(q, t) \in Seq(S) /\ Len(q) \in Nat /\ Len(Append(q, t)) = Len(q) + 1
         /\ \A x : In(x, Append(q, t)) <=> In(x, q) \/ x = t
<1>1. /\ Append(q, t) \in Seq(S) /\ Len(q) \in Nat /\ Len(Append(q, t)) = Len(q) + 1
      /\ DOMAIN q = 1..Len(q) /\ DOMAIN Append(q, t) = 1..(Len(q) + 1)
      /\ \A i \in 1..Len(q) : Append(q, t)[i] = q[i]
      /\ Append(q, t)[Len(q) + 1] = t
  OBVIOUS
<1>2. ASSUME NEW x, In(x, q)
      PROVE  In(x, Append(q, t))
  BY <1>1, <1>2 DEF In
<1>3. In(t, Append(q, t))
  BY <1>1 DEF In
<1>4. ASSUME NEW x, In(x, Append(q, t)), x # t
      PROVE  In(x, q)
  <2>1. PICK i \in 1..(Len(q) + 1) : Append(q, t)[i] = x
    BY <1>1, <1>4 DEF In
  <2>2. i \in 1..Len(q)
    BY <1>1, <1>4, <2>1
  <2>3. QED
    BY <1>1, <2>1, <2>2 DEF In
<1>5. QED
  BY <1>1, <1>2, <1>3, <1>4

LEMMA Popped ==
  ASSUME NEW S, NEW q \in Seq(S), q # <<>>
  PROVE  /\ Tail(q) \in Seq(S) /\ Head(q) \in S
         /\ Len(q) \in Nat \ {0} /\ Len(Tail(q)) = Len(q) - 1
         /\ \A x : In(x, q) => x = Head(q) \/ In(x, Tail(q))
<1>1. Len(q) \in Nat \ {0} /\ DOMAIN q = 1..Len(q)
  BY EmptySeq, LenProperties
<1>2. /\ Tail(q) \in Seq(S) /\ Len(Tail(q)) = Len(q) - 1 /\ Head(q) \in S
      /\ \A i \in 1..Len(Tail(q)) : Tail(q)[i] = q[i + 1]
  BY HeadTailProperties
<1>3. DOMAIN Tail(q) = 1..(Len(q) - 1) /\ Head(q) = q[1]
  BY <1>2, LenProperties
<1>4. ASSUME NEW x, In(x, q), x # Head(q)
      PROVE  In(x, Tail(q))
  <2>1. PICK i \in 1..Len(q) : q[i] = x
    BY <1>1, <1>4 DEF In
  <2>2. i - 1 \in 1..(Len(q) - 1) /\ (i - 1) + 1 = i
    BY <1>1, <1>3, <1>4, <2>1
  <2>3. Tail(q)[i - 1] = x
    BY <1>2, <2>1, <2>2
  <2>4. QED
    BY <1>3, <2>2, <2>3 DEF In
<1>5. QED
  BY <1>1, <1>2, <1>4

(* What is got of what is typed, over the two sequences it lies in.        *)
LEMMA GotKept ==
  ASSUME NEW S, NEW p \in Seq(S), NEW q \in Seq(S), q # <<>>
  PROVE  Append(p, Head(q)) \o Tail(q) = p \o q
<1>1. /\ Tail(q) \in Seq(S) /\ Head(q) \in S /\ Head(q) = q[1]
      /\ Len(q) \in Nat \ {0} /\ Len(Tail(q)) = Len(q) - 1
  BY Popped
<1>2. \A i \in 1..(Len(q) - 1) : Tail(q)[i] = q[i + 1]
  BY <1>1, HeadTailProperties
<1> DEFINE pp == Append(p, Head(q))
<1>3. /\ pp \in Seq(S) /\ Len(pp) = Len(p) + 1 /\ Len(p) \in Nat
      /\ \A i \in 1..Len(p) : pp[i] = p[i]
      /\ pp[Len(p) + 1] = q[1]
  BY <1>1
<1> HIDE DEF pp
<1>4. /\ pp \o Tail(q) \in Seq(S) /\ Len(pp \o Tail(q)) = Len(p) + Len(q)
      /\ \A i \in 1..(Len(p) + Len(q)) :
           (pp \o Tail(q))[i] = IF i <= Len(p) + 1 THEN pp[i] ELSE Tail(q)[i - (Len(p) + 1)]
  <2>1. /\ pp \o Tail(q) \in Seq(S) /\ Len(pp \o Tail(q)) = Len(pp) + Len(Tail(q))
        /\ \A i \in 1..(Len(pp) + Len(Tail(q))) :
             (pp \o Tail(q))[i] = IF i <= Len(pp) THEN pp[i] ELSE Tail(q)[i - Len(pp)]
    BY <1>1, <1>3, ConcatProperties
  <2>2. Len(pp) + Len(Tail(q)) = Len(p) + Len(q)
    BY <1>1, <1>3
  <2>3. QED
    BY <1>3, <2>1, <2>2
<1>5. /\ p \o q \in Seq(S) /\ Len(p \o q) = Len(p) + Len(q)
      /\ \A i \in 1..(Len(p) + Len(q)) : (p \o q)[i] = IF i <= Len(p) THEN p[i] ELSE q[i - Len(p)]
  BY ConcatProperties
<1>6. ASSUME NEW i \in 1..(Len(p) + Len(q))
      PROVE  (pp \o Tail(q))[i] = (p \o q)[i]
  <2>1. CASE i <= Len(p)
    BY <1>1, <1>3, <1>4, <1>5, <2>1
  <2>2. CASE i = Len(p) + 1
    BY <1>1, <1>3, <1>4, <1>5, <2>2
  <2>3. CASE i > Len(p) + 1
    <3>1. i - (Len(p) + 1) \in 1..(Len(q) - 1) /\ (i - (Len(p) + 1)) + 1 = i - Len(p)
      BY <1>1, <1>3, <2>3
    <3>2. (pp \o Tail(q))[i] = q[i - Len(p)]
      BY <1>2, <1>3, <1>4, <2>3, <3>1
    <3>3. QED
      BY <1>3, <1>5, <2>3, <3>2
  <2>4. QED
    BY <1>1, <1>3, <2>1, <2>2, <2>3
<1>7. pp \o Tail(q) = p \o q
  BY <1>4, <1>5, <1>6, SeqEqual
<1>8. QED
  BY <1>7 DEF pp
-----------------------------------------------------------------------------
LEMMA Numbers ==
  /\ TaskQueueSize \in Nat \ {0} /\ ScancodeSize \in Nat \ {0} /\ MaxKeys \in Nat
  /\ Keyboard \in Tasks /\ Others \subseteq Tasks
  /\ IsFiniteSet(Tasks) /\ Cardinality(Tasks) <= TaskQueueSize
<1>1. Cardinality(Others) \in Nat
  BY ExecutorAssumption, FS_CardinalityType
<1>2. IsFiniteSet(Tasks) /\ Cardinality(Tasks) = Cardinality(Others) + 1
  BY ExecutorAssumption, FS_AddElement DEF Tasks
<1>3. QED
  BY <1>1, <1>2, ExecutorAssumption DEF Tasks

LEMMA Types ==
  ASSUME ExecutorInv
  PROVE  /\ printed \in Seq(1..MaxKeys) /\ scancodes \in Seq(1..MaxKeys)
         /\ Got \in Seq(1..MaxKeys) /\ Got \in Seq(Nat)
         /\ Len(Got) \in Nat /\ DOMAIN Got = 1..Len(Got)
         /\ typed \in 0..MaxKeys /\ MaxKeys \in Nat
         /\ task_queue \in Seq(Tasks) /\ Len(task_queue) \in Nat
<1>1. /\ printed \in Seq(1..MaxKeys) /\ scancodes \in Seq(1..MaxKeys) /\ task_queue \in Seq(Tasks)
      /\ typed \in 0..MaxKeys
  BY DEF ExecutorInv, TypeOK, Tasks
<1>2. Got \in Seq(1..MaxKeys)
  BY <1>1, ConcatProperties DEF Got
<1>3. MaxKeys \in Nat /\ 1..MaxKeys \subseteq Nat
  BY Numbers
<1>4. Got \in Seq(Nat)
  BY <1>2, <1>3, SeqMonotonic
<1>5. QED
  BY <1>1, <1>2, <1>3, <1>4, LenProperties

(* A scancode that the task gets moves from one sequence to the other.     *)
LEMMA GettingKeeps ==
  ASSUME ExecutorInv, scancodes # <<>>, GotScancode, UNCHANGED <<typed, dropped>>
  PROVE  InOrder' /\ printed' \in Seq(1..MaxKeys) /\ scancodes' \in Seq(1..MaxKeys)
         /\ Len(scancodes') <= ScancodeSize
<1>1. Got' = Got
  BY Types, GotKept DEF GotScancode, Got
<1>2. /\ Tail(scancodes) \in Seq(1..MaxKeys) /\ Head(scancodes) \in 1..MaxKeys
      /\ Len(scancodes) \in Nat /\ Len(Tail(scancodes)) = Len(scancodes) - 1
  BY Types, Popped
<1>3. Append(printed, Head(scancodes)) \in Seq(1..MaxKeys)
  BY <1>2, Types, Pushed
<1>4. Len(scancodes') <= ScancodeSize
  BY <1>2, Numbers DEF GotScancode, ExecutorInv, TypeOK
<1>5. QED
  BY <1>1, <1>2, <1>3, <1>4 DEF GotScancode, ExecutorInv, InOrder, PrintedInOrder

(* One that is typed is the last of them, or dropped.                      *)
LEMMA TypingKeeps ==
  ASSUME ExecutorInv, typed' = typed + 1, typed < MaxKeys,
         scancodes' = Append(scancodes, typed'), UNCHANGED <<printed, dropped>>
  PROVE  InOrder' /\ typed' \in 0..MaxKeys /\ scancodes' \in Seq(1..MaxKeys)
<1>1. typed \in Nat /\ typed + 1 \in 1..MaxKeys
  BY Types
<1>2. scancodes' \in Seq(1..MaxKeys)
  BY <1>1, Types, Pushed
<1>3. Got' = Append(Got, typed + 1)
  BY <1>1, Types, SMTT(30) DEF Got
<1>4. /\ Len(Got) \in Nat /\ DOMAIN Got = 1..Len(Got) /\ DOMAIN Got' = 1..(Len(Got) + 1)
      /\ \A i \in DOMAIN Got : Got'[i] = Got[i]
      /\ Got'[Len(Got) + 1] = typed + 1
  BY <1>1, <1>3, Types
<1>5. /\ \A i, k \in DOMAIN Got : i < k => Got[i] < Got[k]
      /\ {Got[i] : i \in DOMAIN Got} = (1..typed) \ dropped
      /\ dropped \subseteq 1..typed
  BY DEF ExecutorInv, InOrder, PrintedInOrder
<1>6. ASSUME NEW i \in DOMAIN Got', NEW k \in DOMAIN Got', i < k
      PROVE  Got'[i] < Got'[k]
  <2>1. i \in DOMAIN Got
    BY <1>4, <1>6, Types
  <2>2. Got[i] \in 1..typed
    BY <1>5, <2>1
  <2>3. CASE k \in DOMAIN Got
    BY <1>4, <1>5, <1>6, <2>1, <2>3
  <2>4. CASE k = Len(Got) + 1
    BY <1>1, <1>4, <2>1, <2>2, <2>4
  <2>5. k \in DOMAIN Got \/ k = Len(Got) + 1
    BY <1>4
  <2>6. QED
    BY <2>3, <2>4, <2>5
<1>7. {Got'[i] : i \in DOMAIN Got'} = (1..(typed + 1)) \ dropped
  <2>1. {Got'[i] : i \in DOMAIN Got'} = {Got[i] : i \in DOMAIN Got} \cup {typed + 1}
    <3>1. \A i \in DOMAIN Got' : i \in DOMAIN Got \/ i = Len(Got) + 1
      BY <1>4
    <3>2. DOMAIN Got \subseteq DOMAIN Got' /\ Len(Got) + 1 \in DOMAIN Got'
      BY <1>4
    <3>3. QED
      BY <1>4, <3>1, <3>2
  <2>2. (1..(typed + 1)) \ dropped = ((1..typed) \ dropped) \cup {typed + 1}
    BY <1>1, <1>5
  <2>3. QED
    BY <1>5, <2>1, <2>2
<1>8. dropped \subseteq 1..(typed + 1)
  BY <1>1, <1>5
<1>9. QED
  BY <1>1, <1>2, <1>6, <1>7, <1>8 DEF InOrder, PrintedInOrder

LEMMA DroppingKeeps ==
  ASSUME ExecutorInv, typed' = typed + 1, typed < MaxKeys,
         dropped' = dropped \cup {typed'}, UNCHANGED <<printed, scancodes>>
  PROVE  InOrder' /\ typed' \in 0..MaxKeys /\ dropped' \subseteq 1..MaxKeys
<1>1. typed \in Nat /\ typed + 1 \in 1..MaxKeys /\ MaxKeys \in Nat
  BY Types
<1>2. dropped \subseteq 1..typed /\ {Got[i] : i \in DOMAIN Got} = (1..typed) \ dropped
  BY DEF ExecutorInv, InOrder, PrintedInOrder
<1>3. (1..(typed + 1)) \ (dropped \cup {typed + 1}) = (1..typed) \ dropped
  BY <1>1, <1>2
<1>4. dropped' \subseteq 1..(typed + 1)
  BY <1>1, <1>2
<1>5. Got' = Got
  BY DEF Got
<1>6. InOrder'
  BY <1>2, <1>3, <1>4, <1>5 DEF ExecutorInv, InOrder, PrintedInOrder
<1>7. QED
  BY <1>1, <1>4, <1>6
-----------------------------------------------------------------------------
LEMMA ExecutorInit == Init => ExecutorInv
<1> SUFFICES ASSUME Init
             PROVE  ExecutorInv
  OBVIOUS
<1>1. task_queue = <<>> /\ scancodes = <<>> /\ printed = <<>> /\ typed = 0 /\ dropped = {} /\ tasks = {}
  BY DEF Init
<1>2. \A S : <<>> \in Seq(S) /\ Len(<<>>) = 0
  BY EmptySeq
<1>3. TypeOK
  <2>1. Len(task_queue) <= TaskQueueSize /\ Len(scancodes) <= ScancodeSize /\ typed \in 0..MaxKeys
    BY <1>1, <1>2, Numbers
  <2>2. QED
    BY <1>1, <1>2, <2>1 DEF Init, TypeOK, Positions
<1>4. Got = <<>> /\ DOMAIN Got = {}
  BY <1>1 DEF Got
<1>5. InOrder
  BY <1>1, <1>4 DEF InOrder, PrintedInOrder
<1>6. Spawning
  BY <1>1, <1>2, FS_EmptySet DEF Init, Spawning
<1>7. QED
  BY <1>3, <1>5, <1>6 DEF Init, ExecutorInv, Polling, Masked, Wakeable

(* main spawns each task once, so the queue has room for them.             *)
LEMMA SpawnKeeps ==
  ASSUME ExecutorInv, NEW t \in Tasks, Spawn(t)
  PROVE  ExecutorInv'
<1>1. /\ pc = "spawn" /\ t \notin tasks /\ tasks' = tasks \cup {t}
      /\ task_queue' = Append(task_queue, t)
      /\ UNCHANGED <<pc, current, interrupts, initialized, scancodes, waker, typed, printed, dropped>>
  BY DEF Spawn, input
<1>2. /\ task_queue' \in Seq(Tasks) /\ Len(task_queue') = Len(task_queue) + 1
      /\ Len(task_queue) \in Nat
      /\ \A x : In(x, task_queue') <=> In(x, task_queue) \/ x = t
  BY <1>1, Types, Pushed
<1>3. Cardinality(tasks') = Cardinality(tasks) + 1 /\ tasks' \subseteq Tasks
      /\ Cardinality(tasks') <= TaskQueueSize
  <2>1. tasks \subseteq Tasks /\ tasks' \subseteq Tasks
    BY <1>1 DEF ExecutorInv, TypeOK, Tasks
  <2>2. /\ IsFiniteSet(tasks) /\ IsFiniteSet(tasks')
        /\ Cardinality(tasks') <= Cardinality(Tasks)
    BY <2>1, Numbers, FS_Subset
  <2>3. Cardinality(tasks') = Cardinality(tasks) + 1
    BY <1>1, <2>2, FS_AddElement
  <2>4. Cardinality(Tasks) \in Nat /\ Cardinality(tasks') \in Nat
    BY <2>2, Numbers, FS_CardinalityType
  <2>5. QED
    BY <2>1, <2>2, <2>3, <2>4, Numbers
<1>4. Spawning'
  BY <1>1, <1>2, <1>3 DEF ExecutorInv, Spawning
<1>5. TypeOK'
  <2>1. Len(task_queue') <= TaskQueueSize
    BY <1>1, <1>2, <1>3 DEF ExecutorInv, Spawning
  <2>2. QED
    BY <1>1, <1>2, <1>3, <2>1 DEF ExecutorInv, TypeOK, Tasks
<1>6. InOrder'
  BY <1>1 DEF ExecutorInv, InOrder, PrintedInOrder, Got
<1>7. Polling' /\ Masked' /\ Wakeable'
  BY <1>1 DEF ExecutorInv, Polling, Masked, Wakeable
<1>8. QED
  BY <1>4, <1>5, <1>6, <1>7 DEF ExecutorInv

LEMMA ReadyKeeps ==
  ASSUME ExecutorInv, Run \/ PopTask \/ FinishOther
  PROVE  ExecutorInv'
<1>1. InOrder' /\ UNCHANGED <<interrupts, initialized, scancodes, waker, typed, printed, dropped>>
  BY DEF Run, PopTask, FinishOther, input, ExecutorInv, InOrder, PrintedInOrder, Got
<1>2. CASE Run
  <2>1. /\ pc = "spawn" /\ pc' = "ready" /\ tasks = Tasks
        /\ UNCHANGED <<current, tasks, task_queue>>
    BY <1>2 DEF Run, Goto, Tasks
  <2>2. TypeOK' /\ Spawning' /\ Polling' /\ Masked'
    BY <1>1, <2>1, Numbers DEF ExecutorInv, TypeOK, Positions, Spawning, Polling, Masked
  <2>3. Wakeable'
    BY <1>1, <2>1, Numbers DEF ExecutorInv, Spawning, Wakeable
  <2>4. QED
    BY <1>1, <2>2, <2>3 DEF ExecutorInv
<1>3. CASE PopTask /\ task_queue = <<>>
  <2>1. pc = "ready" /\ pc' = "cli" /\ UNCHANGED <<current, tasks, task_queue>>
    BY <1>3 DEF PopTask
  <2>2. QED
    BY <1>1, <2>1 DEF ExecutorInv, TypeOK, Positions, Spawning, Polling, Masked, Wakeable, Looking
<1>4. CASE PopTask /\ task_queue # <<>>
  <2>1. /\ pc = "ready" /\ task_queue' = Tail(task_queue) /\ current' = Head(task_queue)
        /\ pc' = (IF Head(task_queue) \in tasks THEN "poll" ELSE "ready")
        /\ tasks' = tasks
    BY <1>4 DEF PopTask
  <2>2. /\ task_queue' \in Seq(Tasks) /\ current' \in Tasks
        /\ Len(task_queue) \in Nat /\ Len(task_queue') = Len(task_queue) - 1
        /\ \A x : In(x, task_queue) => x = current' \/ In(x, task_queue')
    BY <1>4, <2>1, Types, Popped
  <2>3. TypeOK'
    <3>1. Len(task_queue') <= TaskQueueSize
      BY <2>2, Numbers DEF ExecutorInv, TypeOK
    <3>2. QED
      BY <1>1, <2>1, <2>2, <3>1 DEF ExecutorInv, TypeOK, Positions, Tasks
  <2>4. Spawning' /\ Polling' /\ Masked'
    BY <2>1 DEF ExecutorInv, Spawning, Polling, Masked
  <2>5. Wakeable'
    <3>1. Keyboard \in tasks /\ (waker \/ In(Keyboard, task_queue))
      BY <2>1 DEF ExecutorInv, Polling, Wakeable, Looking
    <3>2. Looking' \/ waker \/ In(Keyboard, task_queue')
      BY <2>1, <2>2, <3>1 DEF Looking
    <3>3. waker' => scancodes' = <<>>
      BY <1>1, <2>1 DEF ExecutorInv, Wakeable
    <3>4. QED
      BY <1>1, <3>2, <3>3 DEF Wakeable
  <2>6. QED
    BY <1>1, <2>3, <2>4, <2>5 DEF ExecutorInv
<1>5. CASE FinishOther
  <2>1. /\ pc = "poll" /\ pc' = "ready" /\ current # Keyboard /\ tasks' = tasks \ {current}
        /\ UNCHANGED <<current, task_queue>>
    BY <1>5 DEF FinishOther, Goto
  <2>2. QED
    BY <1>1, <2>1 DEF ExecutorInv, TypeOK, Positions, Spawning, Polling, Masked, Wakeable, Looking
<1>6. QED
  BY <1>2, <1>3, <1>4, <1>5

(* A poll of the keyboard task.  It returns Pending only from its second   *)
(* look at the scancodes, with its waker in the cell or itself in the      *)
(* queue.                                                                  *)
LEMMA PollKeeps ==
  ASSUME ExecutorInv, PollKeyboard \/ PollNext \/ Register \/ PollAgain \/ TakeWaker
  PROVE  ExecutorInv'
<1>1. UNCHANGED <<current, tasks, task_queue, interrupts, typed, dropped>>
  BY DEF PollKeyboard, PollNext, Register, PollAgain, TakeWaker
<1>2. CASE PollKeyboard \/ Register \/ TakeWaker
  <2>1. /\ UNCHANGED <<scancodes, printed>>
        /\ initialized' \in BOOLEAN /\ waker' \in BOOLEAN
        /\ \/ pc = "poll" /\ pc' = "next" /\ current = Keyboard /\ waker' = waker
           \/ pc = "register" /\ pc' = "again"
           \/ pc = "take" /\ pc' = "next" /\ ~waker'
    BY <1>2 DEF PollKeyboard, Register, TakeWaker, Goto, ExecutorInv, TypeOK
  <2>2. InOrder'
    BY <1>1, <2>1 DEF ExecutorInv, InOrder, PrintedInOrder, Got
  <2>3. TypeOK' /\ Spawning' /\ Polling' /\ Masked'
    BY <1>1, <2>1 DEF ExecutorInv, TypeOK, Positions, Spawning, Polling, Masked
  <2>4. current = Keyboard
    BY <2>1 DEF ExecutorInv, Polling
  <2>5. pc' = "again" => waker'
    BY <1>2, <2>1 DEF PollKeyboard, Register, TakeWaker, Goto
  <2>6. Wakeable'
    BY <1>1, <2>1, <2>4, <2>5 DEF ExecutorInv, Wakeable, Looking
  <2>7. QED
    BY <2>2, <2>3, <2>6 DEF ExecutorInv
<1>3. CASE (PollNext \/ PollAgain) /\ scancodes = <<>>
  <2>1. /\ UNCHANGED <<initialized, waker, scancodes, printed>>
        /\ \/ pc = "next" /\ pc' = "register"
           \/ pc = "again" /\ pc' = "ready"
    BY <1>3 DEF PollNext, PollAgain
  <2>2. InOrder'
    BY <1>1, <2>1 DEF ExecutorInv, InOrder, PrintedInOrder, Got
  <2>3. TypeOK' /\ Spawning' /\ Polling' /\ Masked'
    BY <1>1, <2>1 DEF ExecutorInv, TypeOK, Positions, Spawning, Polling, Masked
  <2>4. Wakeable'
    BY <1>1, <1>3, <2>1 DEF ExecutorInv, Polling, Wakeable, Looking
  <2>5. QED
    BY <2>2, <2>3, <2>4 DEF ExecutorInv
<1>4. CASE (PollNext \/ PollAgain) /\ scancodes # <<>>
  <2>1. /\ UNCHANGED <<initialized, waker>> /\ GotScancode
        /\ \/ pc = "next" /\ pc' = "next"
           \/ pc = "again" /\ pc' = "take"
    BY <1>4 DEF PollNext, PollAgain
  <2>2. /\ InOrder' /\ printed' \in Seq(1..MaxKeys) /\ scancodes' \in Seq(1..MaxKeys)
        /\ Len(scancodes') <= ScancodeSize
    BY <1>1, <1>4, <2>1, GettingKeeps
  <2>3. TypeOK' /\ Spawning' /\ Polling' /\ Masked'
    BY <1>1, <2>1, <2>2 DEF ExecutorInv, TypeOK, Positions, Spawning, Polling, Masked
  <2>4. Wakeable'
    BY <1>1, <1>4, <2>1 DEF ExecutorInv, Polling, Wakeable, Looking
  <2>5. QED
    BY <2>2, <2>3, <2>4 DEF ExecutorInv
<1>5. QED
  BY <1>2, <1>3, <1>4

(* Between the test of the queue and the hlt nothing can fill it.          *)
LEMMA SleepKeeps ==
  ASSUME ExecutorInv, Disable \/ Check \/ Halt \/ TimerInterrupt
  PROVE  ExecutorInv'
<1>1. UNCHANGED <<current, tasks, task_queue, initialized, scancodes, waker, typed, printed, dropped>>
  BY DEF Disable, Check, Halt, TimerInterrupt, input
<1>2. InOrder'
  BY <1>1 DEF ExecutorInv, InOrder, PrintedInOrder, Got
<1>3. /\ interrupts' \in BOOLEAN
      /\ \/ pc = "cli" /\ pc' = "check" /\ ~interrupts'
         \/ pc = "check" /\ pc' = "halting" /\ interrupts' = interrupts /\ task_queue = <<>>
         \/ pc = "check" /\ pc' = "ready"
         \/ pc = "halting" /\ pc' = "hlt"
         \/ pc = "hlt" /\ pc' = "ready"
  BY DEF Disable, Check, Halt, TimerInterrupt, Goto, Awake, ExecutorInv, TypeOK
<1>4. TypeOK' /\ Spawning' /\ Polling' /\ Masked'
  BY <1>1, <1>3 DEF ExecutorInv, TypeOK, Positions, Spawning, Polling, Masked
<1>5. Wakeable'
  BY <1>1, <1>3 DEF ExecutorInv, Wakeable, Looking
<1>6. QED
  BY <1>2, <1>4, <1>5 DEF ExecutorInv

(* The interrupt either takes the waker out of the cell and puts the task  *)
(* in the queue, or leaves both.                                           *)
LEMMA InterruptKeeps ==
  ASSUME ExecutorInv, KeyboardInterrupt
  PROVE  ExecutorInv'
<1>1. /\ interrupts /\ pc # "panic" /\ typed < MaxKeys /\ typed' = typed + 1
      /\ UNCHANGED <<current, tasks, interrupts, initialized, printed>>
      /\ pc \notin {"check", "halting"}
  BY DEF KeyboardInterrupt, ExecutorInv, Masked
<1>2. CASE HasRoom
  <2>1. /\ scancodes' = Append(scancodes, typed') /\ waker' = FALSE /\ dropped' = dropped
        /\ IF waker /\ Len(task_queue) < TaskQueueSize
           THEN task_queue' = Append(task_queue, Keyboard)
           ELSE task_queue' = task_queue
        /\ pc' = IF waker /\ Len(task_queue) = TaskQueueSize THEN "panic" ELSE Awake
    BY <1>2 DEF KeyboardInterrupt
  <2>2. /\ InOrder' /\ typed' \in 0..MaxKeys /\ scancodes' \in Seq(1..MaxKeys)
    BY <1>1, <2>1, TypingKeeps
  <2>3. Len(scancodes') <= ScancodeSize
    <3>1. typed' \in 1..MaxKeys
      BY <1>1, Types
    <3>2. Len(scancodes') = Len(scancodes) + 1 /\ Len(scancodes) \in Nat
      BY <2>1, <3>1, Types, Pushed
    <3>3. QED
      BY <1>2, <3>2, Numbers DEF HasRoom
  <2>4. /\ task_queue' \in Seq(Tasks) /\ Len(task_queue') <= TaskQueueSize
        /\ In(Keyboard, task_queue) => In(Keyboard, task_queue')
        /\ waker /\ pc' # "panic" => In(Keyboard, task_queue')
    <3>1. /\ Append(task_queue, Keyboard) \in Seq(Tasks) /\ Len(task_queue) \in Nat
          /\ Len(Append(task_queue, Keyboard)) = Len(task_queue) + 1
          /\ In(Keyboard, Append(task_queue, Keyboard))
      BY Types, Numbers, Pushed
    <3>2. Len(task_queue) <= TaskQueueSize /\ TaskQueueSize \in Nat
      BY Numbers DEF ExecutorInv, TypeOK
    <3>3. CASE waker /\ Len(task_queue) < TaskQueueSize
      <4>1. task_queue' = Append(task_queue, Keyboard)
        BY <2>1, <3>3
      <4>2. Len(Append(task_queue, Keyboard)) <= TaskQueueSize
        BY <3>1, <3>2, <3>3
      <4>3. QED
        BY <3>1, <4>1, <4>2
    <3>4. CASE waker /\ Len(task_queue) = TaskQueueSize
      BY <2>1, <3>2, <3>4, Types
    <3>5. CASE ~waker
      BY <2>1, <3>2, <3>5, Types
    <3>6. QED
      BY <3>1, <3>2, <3>3, <3>4, <3>5
  <2>5. TypeOK'
    BY <1>1, <2>1, <2>2, <2>3, <2>4 DEF ExecutorInv, TypeOK, Tasks, Positions, Awake
  <2>6. pc # "spawn"
    BY <1>2 DEF HasRoom, ExecutorInv, Spawning
  <2>7. /\ pc' \in {pc, "ready", "panic"} /\ pc' # "hlt"
        /\ pc' = "ready" => pc \in {"ready", "hlt"}
    BY <2>1 DEF Awake
  <2>8. Spawning' /\ Polling' /\ Masked'
    BY <1>1, <2>6, <2>7 DEF ExecutorInv, Spawning, Polling, Masked
  <2>9. Wakeable'
    BY <1>1, <2>1, <2>4, <2>6, <2>7 DEF ExecutorInv, Wakeable, Looking
  <2>10. QED
    BY <2>2, <2>5, <2>8, <2>9 DEF ExecutorInv
<1>3. CASE ~HasRoom
  <2>1. /\ dropped' = dropped \cup {typed'} /\ pc' = Awake
        /\ UNCHANGED <<scancodes, waker, task_queue>>
    BY <1>3 DEF KeyboardInterrupt
  <2>2. InOrder' /\ typed' \in 0..MaxKeys /\ dropped' \subseteq 1..MaxKeys
    BY <1>1, <2>1, DroppingKeeps
  <2>3. TypeOK' /\ Spawning' /\ Polling' /\ Masked'
    BY <1>1, <2>1, <2>2 DEF ExecutorInv, TypeOK, Positions, Awake, Spawning, Polling, Masked
  <2>4. Wakeable'
    BY <1>1, <2>1 DEF ExecutorInv, Wakeable, Looking, Awake
  <2>5. QED
    BY <2>2, <2>3, <2>4 DEF ExecutorInv
<1>4. QED
  BY <1>2, <1>3

(* Every behaviour of the executor keeps the inductive invariant.          *)
THEOREM ExecutorInvariant == Spec => []ExecutorInv
<1>1. ExecutorInv /\ [Next]_vars => ExecutorInv'
  <2> SUFFICES ASSUME ExecutorInv, [Next]_vars
               PROVE  ExecutorInv'
    OBVIOUS
  <2>1. CASE Executor
    BY <2>1, SpawnKeeps, ReadyKeeps, PollKeeps, SleepKeeps DEF Executor, Tasks
  <2>2. CASE KeyboardInterrupt \/ TimerInterrupt
    BY <2>2, InterruptKeeps, SleepKeeps
  <2>3. CASE UNCHANGED vars
    BY <2>3 DEF vars, ExecutorInv, TypeOK, Spawning, Polling, Masked, Wakeable, Looking,
                InOrder, PrintedInOrder, Got
  <2>4. QED
    BY <2>1, <2>2, <2>3 DEF Next, Halted
<1>2. QED
  BY <1>1, ExecutorInit, PTL DEF Spec

(* No interrupt falls so that a wakeup is lost: the CPU sleeps on an empty *)
(* task queue with no scancode left, and the keyboard task, when it waits, *)
(* is queued or has its waker where the interrupt finds it.                *)
THEOREM WakeupsReach == Spec => []NoLostWakeup
<1>1. ExecutorInv => NoLostWakeup
  <2> SUFFICES ASSUME ExecutorInv
               PROVE  NoLostWakeup
    OBVIOUS
  <2>1. TypeOK
    BY DEF ExecutorInv
  <2>2. ASSUME Parked, pc # "panic"
        PROVE  waker \/ In(Keyboard, task_queue)
    BY <2>2 DEF ExecutorInv, Parked, Spawning, Wakeable, Looking
  <2>3. SleepsOnNothing
    <3> SUFFICES ASSUME pc = "hlt"
                 PROVE  scancodes = <<>> /\ task_queue = <<>>
      BY DEF SleepsOnNothing
    <3>1. task_queue = <<>>
      BY DEF ExecutorInv, Masked
    <3>2. ~In(Keyboard, task_queue)
      BY <3>1 DEF In
    <3>3. QED
      BY <3>1, <3>2 DEF ExecutorInv, Wakeable, Looking
  <2>4. QED
    BY <2>1, <2>2, <2>3 DEF NoLostWakeup, In
<1>2. QED
  BY <1>1, ExecutorInvariant, PTL

(* Whatever the interrupt interleaves, the task gets the scancodes that    *)
(* were not dropped, each once and in the order they were typed.           *)
THEOREM NoneLostOrDoubled == Spec => []PrintedInOrder
<1>1. ExecutorInv => PrintedInOrder
  BY DEF ExecutorInv, InOrder
<1>2. QED
  BY <1>1, ExecutorInvariant, PTL
-----------------------------------------------------------------------------
(* ThreadPool.                                                             *)
Messages == Jobs \cup {Terminate}

(* The places of Terminate in a sequence of messages.                      *)
Terms(c) == {i \in DOMAIN c : c[i] = Terminate}

Running == {w \in Workers : Runs(w)}
Stopped == {w \in Workers : worker[w] = "stopped"}

(* No job is lost but with a worker that dies of one.                      *)
Held(j) ==
  \/ j \in finished
  \/ \E i \in DOMAIN channel : channel[i] = j
  \/ \E w \in Workers : job[w] = j

JobsKept ==
  /\ finished \subseteq 1..accepted
  /\ \A i \in DOMAIN channel : channel[i] <= accepted
  /\ \A w \in Workers : /\ job[w] <= accepted
                        /\ job[w] # None <=> worker[w] = "job"
  /\ (\A w \in Workers : worker[w] # "dead") => \A j \in 1..accepted : Held(j)

(* No job is behind a Terminate, in the channel or taken from it.          *)
TerminatesLast ==
  /\ main = "execute" => Terms(channel) = {} /\ Stopped = {}
  /\ \A i, k \in DOMAIN channel : i < k /\ channel[i] = Terminate => channel[k] = Terminate
  /\ Stopped # {} => \A i \in DOMAIN channel : channel[i] = Terminate

(* Each Terminate that was sent is in the channel or has stopped a worker. *)
Sent(n) == Cardinality(Terms(channel)) + Cardinality(Stopped) = n

TerminatesCounted ==
  /\ main = "execute" => next = 1
  /\ main = "terminate" => Sent(next - 1)
  /\ main \in {"join", "returned"} => Sent(NumWorkers)
  /\ main = "unwinding" => Sent(NumWorkers) \/ ~Receiver

(* The workers that drop is done with have stopped.                        *)
JoinedInOrder ==
  /\ main = "join" => \A w \in 1..(next - 1) : worker[w] = "stopped"
  /\ main = "returned" => \A w \in Workers : worker[w] = "stopped"

PoolInv == PoolTypeOK /\ JobsKept /\ TerminatesLast /\ TerminatesCounted /\ JoinedInOrder
-----------------------------------------------------------------------------
LEMMA PoolNumbers ==
  /\ NumWorkers \in Nat \ {0} /\ NumJobs \in Nat
  /\ Workers = 1..NumWorkers /\ Jobs = 1..NumJobs /\ Terminate = 0 /\ None = 0
  /\ Jobs \subseteq Messages /\ Terminate \in Messages /\ Messages \subseteq Nat
BY ThreadPoolAssumption DEF Workers, Jobs, Terminate, None, Messages

(* Append and Tail, index by index.                                        *)
LEMMA AppendTo ==
  ASSUME NEW c \in Seq(Messages), NEW m \in Messages
  PROVE  /\ Append(c, m) \in Seq(Messages)
         /\ Len(c) \in Nat /\ DOMAIN c = 1..Len(c)
         /\ DOMAIN Append(c, m) = 1..(Len(c) + 1)
         /\ \A i \in 1..Len(c) : Append(c, m)[i] = c[i]
         /\ Append(c, m)[Len(c) + 1] = m
OBVIOUS

LEMMA TailOf ==
  ASSUME NEW c \in Seq(Messages), c # <<>>
  PROVE  /\ Tail(c) \in Seq(Messages) /\ Head(c) \in Messages
         /\ Len(c) \in Nat \ {0} /\ DOMAIN c = 1..Len(c)
         /\ DOMAIN Tail(c) = 1..(Len(c) - 1)
         /\ \A i \in 1..(Len(c) - 1) : Tail(c)[i] = c[i + 1]
         /\ Head(c) = c[1]
<1>1. Len(c) \in Nat \ {0} /\ DOMAIN c = 1..Len(c)
  BY EmptySeq, LenProperties
<1>2. Tail(c) \in Seq(Messages) /\ Len(Tail(c)) = Len(c) - 1 /\ Head(c) \in Messages
  BY HeadTailProperties
<1>3. DOMAIN Tail(c) = 1..(Len(c) - 1)
  BY <1>2, LenProperties
<1>4. \A i \in 1..(Len(c) - 1) : Tail(c)[i] = c[i + 1]
  BY <1>2, HeadTailProperties
<1>5. QED
  BY <1>1, <1>2, <1>3, <1>4

(* How the number of Terminates in the channel follows what is sent ...    *)
LEMMA TermsFinite ==
  ASSUME NEW c \in Seq(Messages)
  PROVE  /\ IsFiniteSet(Terms(c))
         /\ Cardinality(Terms(c)) \in Nat
         /\ Cardinality(Terms(c)) = 0 => Terms(c) = {}
<1>1. Len(c) \in Nat /\ DOMAIN c = 1..Len(c)
  BY LenProperties
<1>2. IsFiniteSet(1..Len(c)) /\ Terms(c) \in SUBSET (1..Len(c))
  BY <1>1, FS_Interval DEF Terms
<1>3. IsFiniteSet(Terms(c))
  BY <1>2, FS_Subset
<1>4. QED
  BY <1>3, FS_CardinalityType, FS_EmptySet

LEMMA TermsAppend ==
  ASSUME NEW c \in Seq(Messages), NEW m \in Messages
  PROVE  Cardinality(Terms(Append(c, m)))
           = Cardinality(Terms(c)) + (IF m = Terminate THEN 1 ELSE 0)
<1>1. Len(c) + 1 \notin Terms(c) /\ Len(c) + 1 \in Nat
  BY AppendTo DEF Terms
<1>2. CASE m = Terminate
  <2>1. Terms(Append(c, m)) = Terms(c) \cup {Len(c) + 1}
    BY <1>2, AppendTo DEF Terms
  <2>2. QED
    BY <1>1, <1>2, <2>1, TermsFinite, FS_AddElement, ZenonT(60)
<1>3. CASE m # Terminate
  <2>1. Terms(Append(c, m)) = Terms(c)
    BY <1>3, AppendTo DEF Terms
  <2>2. QED
    BY <1>3, <2>1, TermsFinite
<1>4. QED
  BY <1>2, <1>3

(* ... and what is received.                                               *)
LEMMA TermsTail ==
  ASSUME NEW c \in Seq(Messages), c # <<>>
  PROVE  Cardinality(Terms(c))
           = Cardinality(Terms(Tail(c))) + (IF Head(c) = Terminate THEN 1 ELSE 0)
<1> DEFINE Rest == Terms(c) \ {1}
           f == [i \in Terms(Tail(c)) |-> i + 1]
<1>1. f \in [Terms(Tail(c)) -> Rest]
  <2> SUFFICES ASSUME NEW i \in Terms(Tail(c))
               PROVE  i + 1 \in Rest
    OBVIOUS
  <2>1. i \in 1..(Len(c) - 1) /\ Tail(c)[i] = Terminate
    BY TailOf DEF Terms
  <2>2. c[i + 1] = Terminate /\ i + 1 \in 1..Len(c) /\ i + 1 # 1
    BY <2>1, TailOf
  <2>3. QED
    BY <2>2, TailOf DEF Terms
<1>2. \A i, k \in Terms(Tail(c)) : f[i] = f[k] => i = k
  BY TailOf DEF Terms
<1>3. \A k \in Rest : \E i \in Terms(Tail(c)) : f[i] = k
  <2> SUFFICES ASSUME NEW k \in Rest
               PROVE  k - 1 \in Terms(Tail(c)) /\ f[k - 1] = k
    OBVIOUS
  <2>1. k \in 2..Len(c) /\ c[k] = Terminate
    BY TailOf DEF Terms
  <2>2. k - 1 \in 1..(Len(c) - 1) /\ (k - 1) + 1 = k
    BY <2>1, TailOf
  <2>3. QED
    BY <2>1, <2>2, TailOf DEF Terms
<1> HIDE DEF f
<1>4. ExistsBijection(Terms(Tail(c)), Rest)
  BY <1>1, <1>2, <1>3 DEF ExistsBijection, Bijection, Injection, Surjection, IsInjective
<1>5. Cardinality(Rest) = Cardinality(Terms(Tail(c)))
  <2>1. IsFiniteSet(Terms(Tail(c)))
    BY TailOf, TermsFinite
  <2>2. QED
    BY <1>4, <2>1, FS_Bijection
<1>6. Cardinality(Rest) = Cardinality(Terms(c)) - (IF Head(c) = Terminate THEN 1 ELSE 0)
  <2>1. 1 \in Terms(c) <=> Head(c) = Terminate
    BY TailOf DEF Terms
  <2>2. Cardinality(Rest) = IF 1 \in Terms(c) THEN Cardinality(Terms(c)) - 1 ELSE Cardinality(Terms(c))
    BY TermsFinite, FS_RemoveElement
  <2>3. QED
    BY <2>1, <2>2, TermsFinite
<1> HIDE DEF Rest
<1>7. Cardinality(Terms(c)) \in Nat /\ Cardinality(Terms(Tail(c))) \in Nat
  BY TailOf, TermsFinite
<1>8. QED
  BY <1>5, <1>6, <1>7

LEMMA StoppedFinite ==
  /\ IsFiniteSet(Stopped) /\ Cardinality(Stopped) \in Nat
  /\ IsFiniteSet(Running) /\ Cardinality(Running) \in Nat
  /\ Cardinality(Running) + Cardinality(Stopped) <= NumWorkers
<1>1. IsFiniteSet(Workers) /\ Cardinality(Workers) = NumWorkers
  BY PoolNumbers, FS_Interval
<1>2. Stopped \in SUBSET Workers /\ Running \in SUBSET Workers /\ Stopped \cap Running = {}
  BY DEF Stopped, Running, Runs
<1>3. IsFiniteSet(Stopped) /\ IsFiniteSet(Running)
  BY <1>1, <1>2, FS_Subset
<1>4. Cardinality(Stopped) \in Nat /\ Cardinality(Running) \in Nat
  BY <1>3, FS_CardinalityType
<1>5. Cardinality(Stopped \cup Running) = Cardinality(Stopped) + Cardinality(Running)
  <2>1. Cardinality(Stopped \cap Running) = 0
    BY <1>2, FS_EmptySet
  <2>2. Cardinality(Stopped \cup Running)
          = Cardinality(Stopped) + Cardinality(Running) - Cardinality(Stopped \cap Running)
    BY <1>3, FS_Union
  <2>3. QED
    BY <1>4, <2>1, <2>2
<1>6. Cardinality(Stopped \cup Running) <= NumWorkers
  BY <1>1, <1>2, FS_Subset
<1>7. QED
  BY <1>3, <1>4, <1>5, <1>6
-----------------------------------------------------------------------------
LEMMA PoolInvInit == PoolInit => PoolInv
<1> SUFFICES ASSUME PoolInit
             PROVE  PoolInv
  OBVIOUS
<1>1. PoolTypeOK
  <2>1. channel \in Seq(Jobs \cup {Terminate})
    BY EmptySeq DEF PoolInit
  <2>2. next \in Workers /\ accepted \in 0..NumJobs
    BY PoolNumbers DEF PoolInit
  <2>3. QED
    BY <2>1, <2>2 DEF PoolInit, PoolTypeOK
<1>2. Terms(channel) = {} /\ Stopped = {} /\ DOMAIN channel = {}
  BY DEF PoolInit, Terms, Stopped
<1>3. QED
  BY <1>1, <1>2, PoolNumbers DEF PoolInit, PoolInv, JobsKept, TerminatesLast, TerminatesCounted, JoinedInOrder

(* What main sends before it drops the pool are jobs, numbered in order.   *)
LEMMA ExecuteKeeps ==
  ASSUME PoolInv, Execute \/ Close \/ AcceptFails
  PROVE  PoolInv'
<1>1. /\ main = "execute" /\ main' \in {"execute", "terminate"} /\ next' = next /\ next = 1
      /\ panicking' \in BOOLEAN
      /\ UNCHANGED <<mutex, worker, job, finished>>
  BY DEF Execute, Close, AcceptFails, DropPool, PoolInv, PoolTypeOK, TerminatesCounted, pool
<1>2. Terms(channel) = {} /\ Stopped = {} /\ Stopped' = Stopped
  BY <1>1 DEF PoolInv, TerminatesLast, Stopped
<1>3. CASE UNCHANGED <<channel, accepted>>
  <2>1. PoolTypeOK'
    BY <1>1, <1>3 DEF PoolInv, PoolTypeOK
  <2>2. JobsKept'
    BY <1>1, <1>3 DEF PoolInv, JobsKept, Held
  <2>3. TerminatesLast' /\ JoinedInOrder'
    BY <1>1, <1>2, <1>3 DEF PoolInv, TerminatesLast, JoinedInOrder
  <2>4. Sent(0)'
    BY <1>2, <1>3, FS_EmptySet DEF Sent
  <2>5. TerminatesCounted'
    BY <1>1, <2>4 DEF TerminatesCounted
  <2>6. QED
    BY <2>1, <2>2, <2>3, <2>5 DEF PoolInv
<1>4. CASE /\ accepted < NumJobs /\ main' = "execute"
           /\ channel' = Append(channel, accepted + 1) /\ accepted' = accepted + 1
  <2>1. /\ accepted \in Nat /\ channel \in Seq(Messages)
        /\ accepted + 1 \in Jobs /\ accepted + 1 \in Messages /\ accepted + 1 # Terminate
    BY <1>4, PoolNumbers DEF PoolInv, PoolTypeOK, Messages
  <2>2. /\ channel' \in Seq(Messages) /\ Len(channel) \in Nat
        /\ DOMAIN channel = 1..Len(channel) /\ DOMAIN channel' = 1..(Len(channel) + 1)
        /\ \A i \in DOMAIN channel : channel'[i] = channel[i]
        /\ channel'[Len(channel) + 1] = accepted + 1
    BY <1>4, <2>1, AppendTo
  <2>3. PoolTypeOK'
    BY <1>1, <1>4, <2>1, <2>2, PoolNumbers DEF PoolInv, PoolTypeOK, Messages
  <2>4. JobsKept'
    <3>1. finished' \subseteq 1..accepted' /\ \A i \in DOMAIN channel' : channel'[i] <= accepted'
      BY <1>1, <1>4, <2>1, <2>2, PoolNumbers, ElementOfSeq DEF PoolInv, JobsKept, Messages
    <3>2. \A w \in Workers : job'[w] <= accepted' /\ (job'[w] # None <=> worker'[w] = "job")
      BY <1>1, <1>4, <2>1, PoolNumbers DEF PoolInv, PoolTypeOK, JobsKept
    <3>3. ASSUME \A w \in Workers : worker'[w] # "dead", NEW j \in 1..accepted'
          PROVE  Held(j)'
      <4>1. CASE j = accepted + 1
        BY <2>2, <4>1 DEF Held
      <4>2. CASE j \in 1..accepted
        BY <1>1, <2>2, <3>3, <4>2 DEF PoolInv, JobsKept, Held
      <4>3. QED
        BY <1>4, <2>1, <4>1, <4>2
    <3>4. QED
      BY <3>1, <3>2, <3>3 DEF JobsKept
  <2>5. Terms(channel)' = {}
    BY <1>2, <2>1, <2>2 DEF Terms
  <2>6. TerminatesLast'
    BY <1>2, <2>5 DEF TerminatesLast, Terms
  <2>7. TerminatesCounted' /\ JoinedInOrder'
    BY <1>1, <1>4 DEF TerminatesCounted, JoinedInOrder
  <2>8. QED
    BY <2>3, <2>4, <2>6, <2>7 DEF PoolInv
<1>5. QED
  BY <1>3, <1>4, <1>1 DEF Execute, Close, AcceptFails, DropPool

(* drop sends one Terminate for each worker ...                            *)
LEMMA SendTerminateKeeps ==
  ASSUME PoolInv, SendTerminate
  PROVE  PoolInv'
<1> USE PoolNumbers
<1>1. /\ main = "terminate" /\ next \in 1..NumWorkers /\ NumWorkers \in Nat \ {0}
      /\ channel \in Seq(Messages)
      /\ UNCHANGED <<panicking, accepted, mutex, worker, job, finished>>
  BY DEF SendTerminate, PoolInv, PoolTypeOK, pool, Messages
<1>2. Stopped' = Stopped /\ (Receiver' <=> Receiver)
  BY <1>1 DEF Stopped, Receiver, Runs
<1>3. CASE Receiver
  <2>1. /\ channel' = Append(channel, Terminate)
        /\ main' = (IF Last THEN "join" ELSE "terminate")
        /\ next' = (IF Last THEN 1 ELSE next + 1)
    BY <1>3 DEF SendTerminate
  <2>2. /\ channel' \in Seq(Messages) /\ Len(channel) \in Nat
        /\ DOMAIN channel = 1..Len(channel) /\ DOMAIN channel' = 1..(Len(channel) + 1)
        /\ \A i \in DOMAIN channel : channel'[i] = channel[i]
        /\ channel'[Len(channel) + 1] = Terminate
    BY <1>1, <2>1, AppendTo
  <2>3. PoolTypeOK'
    BY <1>1, <2>1, <2>2 DEF PoolInv, PoolTypeOK, Last, Messages
  <2>4. JobsKept'
    <3>1. \A i \in DOMAIN channel' : channel'[i] <= accepted'
      BY <1>1, <2>2 DEF PoolInv, JobsKept, PoolTypeOK
    <3>2. \A j \in 1..accepted : Held(j) => Held(j)'
      BY <1>1, <2>2 DEF Held
    <3>3. QED
      BY <1>1, <3>1, <3>2 DEF PoolInv, JobsKept
  <2>5. TerminatesLast'
    BY <1>2, <2>1, <2>2 DEF PoolInv, TerminatesLast
  <2>6. Cardinality(Terms(channel))' = Cardinality(Terms(channel)) + 1
    BY <1>1, <2>1, TermsAppend
  <2>7. Cardinality(Terms(channel))' + Cardinality(Stopped)' = next
    <3>1. Cardinality(Terms(channel)) \in Nat /\ Cardinality(Stopped) \in Nat
      BY <1>1, TermsFinite, StoppedFinite
    <3>2. Cardinality(Terms(channel)) + Cardinality(Stopped) = next - 1
      BY <1>1 DEF PoolInv, TerminatesCounted, Sent
    <3>3. QED
      BY <1>1, <1>2, <2>6, <3>1, <3>2
  <2>8. TerminatesCounted'
    <3>1. CASE Last
      BY <2>1, <2>7, <3>1 DEF TerminatesCounted, Last, Sent
    <3>2. CASE ~Last
      <4>1. next' - 1 = next
        BY <1>1, <2>1, <3>2
      <4>2. QED
        BY <2>1, <2>7, <3>2, <4>1 DEF TerminatesCounted, Sent
    <3>3. QED
      BY <3>1, <3>2
  <2>9. JoinedInOrder'
    BY <2>1 DEF JoinedInOrder, Last
  <2>10. QED
    BY <2>3, <2>4, <2>5, <2>8, <2>9 DEF PoolInv
<1>4. CASE ~Receiver
  <2>1. main' \in {"exited", "unwinding"} /\ UNCHANGED <<next, channel>>
    BY <1>4 DEF SendTerminate, Panic
  <2>2. PoolTypeOK' /\ JobsKept'
    BY <1>1, <2>1 DEF PoolInv, PoolTypeOK, JobsKept, Held
  <2>3. TerminatesLast' /\ TerminatesCounted' /\ JoinedInOrder'
    BY <1>1, <1>2, <1>4, <2>1 DEF PoolInv, TerminatesLast, TerminatesCounted, JoinedInOrder
  <2>4. QED
    BY <2>2, <2>3 DEF PoolInv
<1>5. QED
  BY <1>3, <1>4

(* ... and joins them one by one: join returns what the thread left, so a  *)
(* worker it goes past has stopped.                                        *)
LEMMA JoinKeeps ==
  ASSUME PoolInv, Join \/ Exit
  PROVE  PoolInv'
<1> USE PoolNumbers
<1>1. UNCHANGED <<panicking, accepted, channel, mutex, worker, job, finished>>
  BY DEF Join, Exit, pool
<1>2. /\ Stopped' = Stopped /\ (Receiver' <=> Receiver) /\ Terms(channel)' = Terms(channel)
      /\ \A n : Sent(n)' <=> Sent(n)
  BY <1>1 DEF Stopped, Receiver, Runs, Terms, Sent
<1>3. /\ main \in {"join", "unwinding"} /\ next \in Workers
      /\ main' \in {"join", "returned", "unwinding", "exited"} /\ next' \in Workers
      /\ main = "unwinding" => main' = "exited"
  BY DEF Join, Exit, Panic, NextWorker, Last, PoolInv, PoolTypeOK
<1>4. PoolTypeOK' /\ JobsKept'
  BY <1>1, <1>3 DEF PoolInv, PoolTypeOK, JobsKept, Held
<1>5. TerminatesLast' /\ TerminatesCounted'
  BY <1>1, <1>2, <1>3 DEF PoolInv, TerminatesLast, TerminatesCounted
<1>6. JoinedInOrder'
  <2>1. ASSUME main' \in {"join", "returned"}
        PROVE  /\ worker[next] = "stopped" /\ main = "join"
               /\ main' = "join" => next' = next + 1
               /\ main' = "returned" => next = NumWorkers
    <3>1. Join /\ main = "join" /\ ~Runs(next)
      BY <2>1 DEF Join, Exit
    <3>2. worker[next] # "dead" /\ NextWorker
      BY <2>1, <3>1 DEF Join, Panic
    <3>3. QED
      BY <2>1, <3>1, <3>2 DEF NextWorker, Runs, Last
  <2>2. CASE main' = "join"
    <3>1. \A w \in 1..(next' - 1) : w \in 1..(next - 1) \/ w = next
      BY <1>3, <2>1, <2>2
    <3>2. QED
      BY <1>1, <2>1, <2>2, <3>1 DEF PoolInv, JoinedInOrder
  <2>3. CASE main' = "returned"
    <3>1. \A w \in Workers : w \in 1..(next - 1) \/ w = next
      BY <1>3, <2>1, <2>3
    <3>2. QED
      BY <1>1, <2>1, <2>3, <3>1 DEF PoolInv, JoinedInOrder
  <2>4. QED
    BY <2>2, <2>3 DEF JoinedInOrder
<1>7. QED
  BY <1>4, <1>5, <1>6 DEF PoolInv

(* A worker that goes on, or dies, does not stop.                          *)
LEMMA GoesOn ==
  ASSUME PoolInv, NEW w \in Workers, NEW to \in {"lock", "recv", "job", "dead"},
         worker[w] \in {"lock", "recv", "job"}, worker' = [worker EXCEPT ![w] = to],
         UNCHANGED <<main, next>>
  PROVE  /\ Stopped' = Stopped /\ (Receiver' => Receiver)
         /\ worker' \in [Workers -> {"lock", "recv", "job", "stopped", "dead"}]
         /\ \A v \in Workers \ {w} : worker'[v] = worker[v]
         /\ worker'[w] = to
         /\ JoinedInOrder'
<1>1. /\ worker' \in [Workers -> {"lock", "recv", "job", "stopped", "dead"}]
      /\ \A v \in Workers \ {w} : worker'[v] = worker[v]
      /\ worker'[w] = to
  BY DEF PoolInv, PoolTypeOK
<1>2. Stopped' = Stopped
  BY <1>1 DEF Stopped
<1>3. Receiver
  BY DEF Receiver, Runs
<1>4. JoinedInOrder'
  <2>1. \A v \in Workers : worker[v] = "stopped" => worker'[v] = "stopped"
    BY <1>1
  <2>2. main = "join" => \A v \in 1..(next - 1) : v \in Workers
    BY PoolNumbers DEF PoolInv, PoolTypeOK
  <2>3. QED
    BY <2>1, <2>2 DEF PoolInv, JoinedInOrder
<1>5. QED
  BY <1>1, <1>2, <1>3, <1>4

(* A worker that locks the receiver or is done with a job takes no message *)
(* and a job that panics takes its worker with it.                         *)
LEMMA WorkKeeps ==
  ASSUME PoolInv, NEW w \in Workers, Lock(w) \/ RunJob(w)
  PROVE  PoolInv'
<1> USE PoolNumbers
<1>1. UNCHANGED <<main, next, panicking, accepted, channel>>
  BY DEF Lock, RunJob, FinishJob, JobPanics, caller
<1>2. PICK to \in {"recv", "lock", "dead"} :
        /\ worker[w] \in {"lock", "job"} /\ worker' = [worker EXCEPT ![w] = to]
        /\ to = "recv" => worker[w] = "lock" /\ UNCHANGED <<job, finished>>
        /\ to # "recv" => worker[w] = "job" /\ job' = [job EXCEPT ![w] = None]
        /\ to = "lock" => finished' = finished \cup {job[w]}
        /\ to = "dead" => finished' = finished
  BY DEF Lock, RunJob, FinishJob, JobPanics, Goes
<1>3. /\ Stopped' = Stopped /\ (Receiver' => Receiver)
      /\ worker' \in [Workers -> {"lock", "recv", "job", "stopped", "dead"}]
      /\ \A v \in Workers \ {w} : worker'[v] = worker[v]
      /\ worker'[w] = to /\ JoinedInOrder'
  BY <1>1, <1>2, GoesOn
<1>4. /\ job' \in [Workers -> Jobs \cup {None}]
      /\ \A v \in Workers \ {w} : job'[v] = job[v]
      /\ to = "recv" => job'[w] = job[w]
      /\ to # "recv" => job'[w] = None
  BY <1>2 DEF PoolInv, PoolTypeOK
<1>5. /\ job[w] \in 0..accepted
      /\ job[w] # None <=> to # "recv"
      /\ accepted \in Nat /\ accepted <= NumJobs
  BY <1>2 DEF PoolInv, PoolTypeOK, JobsKept
<1>6. /\ finished \subseteq finished' /\ finished' \subseteq 1..accepted
      /\ to = "lock" => job[w] \in finished'
  <2>1. finished \subseteq 1..accepted
    BY DEF PoolInv, JobsKept
  <2>2. CASE to = "lock"
    <3>1. job[w] \in 1..accepted
      BY <1>5, <2>2
    <3>2. QED
      BY <1>2, <2>1, <2>2, <3>1
  <2>3. CASE to # "lock"
    BY <1>2, <2>1, <2>3
  <2>4. QED
    BY <2>2, <2>3
<1>7. PoolTypeOK'
  <2>1. mutex' \in Workers \cup {None}
    BY DEF Lock, RunJob, FinishJob, JobPanics, PoolInv, PoolTypeOK
  <2>2. QED
    BY <1>1, <1>3, <1>4, <1>5, <1>6, <2>1 DEF PoolInv, PoolTypeOK
<1>8. JobsKept'
  <2>1. \A v \in Workers : job'[v] <= accepted' /\ (job'[v] # None <=> worker'[v] = "job")
    <3> SUFFICES ASSUME NEW v \in Workers
                 PROVE  job'[v] <= accepted /\ (job'[v] # None <=> worker'[v] = "job")
      BY <1>1
    <3>1. CASE v = w
      BY <1>2, <1>3, <1>4, <1>5, <3>1
    <3>2. CASE v # w
      BY <1>3, <1>4, <3>2 DEF PoolInv, JobsKept
    <3>3. QED
      BY <3>1, <3>2
  <2>2. ASSUME \A v \in Workers : worker'[v] # "dead", NEW j \in 1..accepted
        PROVE  Held(j)'
    <3>1. to # "dead" /\ \A v \in Workers : worker[v] # "dead"
      BY <1>2, <1>3, <2>2
    <3>2. Held(j)
      BY <3>1 DEF PoolInv, JobsKept
    <3>3. CASE j = job[w]
      BY <1>5, <1>6, <3>1, <3>3 DEF Held
    <3>4. CASE j # job[w]
      BY <1>1, <1>4, <1>6, <3>2, <3>4 DEF Held
    <3>5. QED
      BY <3>3, <3>4
  <2>3. QED
    BY <1>1, <1>6, <2>1, <2>2 DEF PoolInv, JobsKept
<1>9. TerminatesLast' /\ TerminatesCounted'
  BY <1>1, <1>3 DEF PoolInv, TerminatesLast, TerminatesCounted, Sent
<1>10. QED
  BY <1>3, <1>7, <1>8, <1>9 DEF PoolInv

(* A worker that receives takes the message at the head.                   *)
LEMMA ReceiveKeeps ==
  ASSUME PoolInv, NEW w \in Workers, ReceiveJob(w) \/ ReceiveTerminate(w)
  PROVE  PoolInv'
<1> USE PoolNumbers
<1>1. /\ UNCHANGED <<main, next, panicking, accepted, finished>> /\ mutex' = None
      /\ channel \in Seq(Messages) /\ channel # <<>> /\ channel' = Tail(channel)
      /\ worker[w] = "recv"
  BY DEF ReceiveJob, ReceiveTerminate, Goes, caller, PoolInv, PoolTypeOK, Messages
<1>2. /\ channel' \in Seq(Messages)
      /\ Len(channel) \in Nat \ {0} /\ DOMAIN channel = 1..Len(channel)
      /\ DOMAIN channel' = 1..(Len(channel) - 1)
      /\ \A i \in DOMAIN channel' : channel'[i] = channel[i + 1]
      /\ Head(channel) = channel[1] /\ Head(channel) \in Messages
  BY <1>1, TailOf
<1>3. job \in [Workers -> Jobs \cup {None}] /\ accepted \in 0..NumJobs /\ job[w] = None
  BY <1>1 DEF PoolInv, PoolTypeOK, JobsKept
<1>4. \A i \in DOMAIN channel' : channel'[i] <= accepted
  BY <1>2 DEF PoolInv, JobsKept
<1>5. \A i, k \in DOMAIN channel' : i < k /\ channel'[i] = Terminate => channel'[k] = Terminate
  <2> SUFFICES ASSUME NEW i \in DOMAIN channel', NEW k \in DOMAIN channel', i < k, channel'[i] = Terminate
               PROVE  channel'[k] = Terminate
    OBVIOUS
  <2>1. i + 1 \in DOMAIN channel /\ k + 1 \in DOMAIN channel /\ i + 1 < k + 1
    BY <1>2
  <2>2. channel[i + 1] = Terminate
    BY <1>2
  <2>3. channel[k + 1] = Terminate
    BY <2>1, <2>2 DEF PoolInv, TerminatesLast
  <2>4. QED
    BY <1>2, <2>3
<1>6. CASE ReceiveJob(w)
  <2>1. /\ Head(channel) # Terminate /\ worker' = [worker EXCEPT ![w] = "job"]
        /\ job' = [job EXCEPT ![w] = Head(channel)]
    BY <1>6 DEF ReceiveJob, Goes
  <2>2. /\ Stopped' = Stopped /\ (Receiver' => Receiver)
        /\ worker' \in [Workers -> {"lock", "recv", "job", "stopped", "dead"}]
        /\ \A v \in Workers \ {w} : worker'[v] = worker[v]
        /\ worker'[w] = "job" /\ JoinedInOrder'
    BY <1>1, <2>1, GoesOn
  <2>3. /\ job' \in [Workers -> Jobs \cup {None}]
        /\ \A v \in Workers \ {w} : job'[v] = job[v]
        /\ job'[w] = channel[1] /\ channel[1] \in Jobs
    BY <1>2, <1>3, <2>1 DEF Messages
  <2>4. PoolTypeOK'
    BY <1>1, <1>2, <2>2, <2>3 DEF PoolInv, PoolTypeOK, Messages
  <2>5. JobsKept'
    <3>1. \A v \in Workers : job'[v] <= accepted' /\ (job'[v] # None <=> worker'[v] = "job")
      <4> SUFFICES ASSUME NEW v \in Workers
                   PROVE  job'[v] <= accepted /\ (job'[v] # None <=> worker'[v] = "job")
        BY <1>1
      <4>1. CASE v = w
        BY <1>2, <2>2, <2>3, <4>1 DEF PoolInv, JobsKept
      <4>2. CASE v # w
        BY <2>2, <2>3, <4>2 DEF PoolInv, JobsKept
      <4>3. QED
        BY <4>1, <4>2
    <3>2. ASSUME \A v \in Workers : worker'[v] # "dead", NEW j \in 1..accepted
          PROVE  Held(j)'
      <4>1. Held(j)
        BY <1>1, <2>2, <3>2 DEF PoolInv, JobsKept
      <4>2. CASE j \in finished
        BY <1>1, <4>2 DEF Held
      <4>3. ASSUME NEW v \in Workers, job[v] = j
            PROVE  job'[v] = j
        BY <1>3, <2>3, <4>3
      <4>4. ASSUME NEW i \in DOMAIN channel, channel[i] = j
            PROVE  Held(j)'
        <5>1. CASE i = 1
          BY <2>3, <4>4, <5>1 DEF Held
        <5>2. CASE i # 1
          <6>1. i - 1 \in DOMAIN channel' /\ channel'[i - 1] = channel[i]
            BY <1>2, <4>4, <5>2
          <6>2. QED
            BY <4>4, <6>1 DEF Held
        <5>3. QED
          BY <5>1, <5>2
      <4>5. QED
        BY <4>1, <4>2, <4>3, <4>4 DEF Held
    <3>3. QED
      BY <1>1, <1>4, <3>1, <3>2 DEF PoolInv, JobsKept
  <2>6. Cardinality(Terms(channel))' = Cardinality(Terms(channel)) /\ Stopped = {}
    <3>1. Cardinality(Terms(channel)) = Cardinality(Terms(Tail(channel)))
      <4>1. Cardinality(Terms(channel)) = Cardinality(Terms(Tail(channel))) + 0
        BY <1>1, <2>1, TermsTail
      <4>2. Cardinality(Terms(Tail(channel))) \in Nat
        BY <1>1, <1>2, TermsFinite
      <4>3. QED
        BY <4>1, <4>2
    <3>2. Stopped = {}
      BY <1>2, <2>1 DEF PoolInv, TerminatesLast
    <3>3. QED
      BY <1>1, <3>1, <3>2
  <2>7. TerminatesLast'
    <3>1. main = "execute" => Terms(channel)' = {}
      BY <1>2 DEF PoolInv, TerminatesLast, Terms
    <3>2. QED
      BY <1>1, <1>5, <2>2, <2>6, <3>1 DEF PoolInv, TerminatesLast
  <2>8. TerminatesCounted'
    BY <1>1, <2>2, <2>6 DEF PoolInv, TerminatesCounted, Sent
  <2>9. QED
    BY <2>2, <2>4, <2>5, <2>7, <2>8 DEF PoolInv
<1>7. CASE ReceiveTerminate(w)
  <2>1. /\ Head(channel) = Terminate /\ worker' = [worker EXCEPT ![w] = "stopped"]
        /\ job' = job
    BY <1>7 DEF ReceiveTerminate, Goes
  <2>2. /\ worker' \in [Workers -> {"lock", "recv", "job", "stopped", "dead"}]
        /\ \A v \in Workers \ {w} : worker'[v] = worker[v]
        /\ worker'[w] = "stopped"
    BY <2>1 DEF PoolInv, PoolTypeOK
  <2>3. Stopped' = Stopped \cup {w} /\ w \notin Stopped /\ (Receiver' => Receiver) /\ Receiver
    BY <1>1, <2>2 DEF Stopped, Receiver, Runs
  <2>4. PoolTypeOK'
    BY <1>1, <1>2, <2>1, <2>2 DEF PoolInv, PoolTypeOK, Messages
  <2>5. JobsKept'
    <3>1. \A v \in Workers : job'[v] <= accepted' /\ (job'[v] # None <=> worker'[v] = "job")
      BY <1>1, <2>1, <2>2 DEF PoolInv, JobsKept
    <3>2. ASSUME \A v \in Workers : worker'[v] # "dead", NEW j \in 1..accepted
          PROVE  Held(j)'
      <4>1. Held(j)
        BY <1>1, <2>2, <3>2 DEF PoolInv, JobsKept
      <4>2. ASSUME NEW i \in DOMAIN channel, channel[i] = j
            PROVE  Held(j)'
        <5>1. i # 1
          BY <1>2, <2>1, <4>2
        <5>2. i - 1 \in DOMAIN channel' /\ channel'[i - 1] = channel[i]
          BY <1>2, <4>2, <5>1
        <5>3. QED
          BY <4>2, <5>2 DEF Held
      <4>3. QED
        BY <1>1, <2>1, <4>1, <4>2 DEF Held
    <3>3. QED
      BY <1>1, <1>4, <3>1, <3>2 DEF PoolInv, JobsKept
  <2>6. Cardinality(Terms(channel))' + Cardinality(Stopped)'
          = Cardinality(Terms(channel)) + Cardinality(Stopped)
    <3>1. Cardinality(Terms(channel)) = Cardinality(Terms(Tail(channel))) + 1
      BY <1>1, <2>1, TermsTail
    <3>2. Cardinality(Stopped)' = Cardinality(Stopped) + 1
      BY <2>3, StoppedFinite, FS_AddElement
    <3>3. /\ Cardinality(Terms(channel)) \in Nat /\ Cardinality(Stopped) \in Nat
          /\ Cardinality(Terms(Tail(channel))) \in Nat
      BY <1>1, <1>2, TermsFinite, StoppedFinite
    <3>4. QED
      BY <1>1, <3>1, <3>2, <3>3
  <2>7. TerminatesLast'
    <3>1. main # "execute"
      BY <1>2, <2>1 DEF PoolInv, TerminatesLast, Terms
    <3>2. \A i \in DOMAIN channel' : channel'[i] = Terminate
      <4> SUFFICES ASSUME NEW i \in DOMAIN channel'
                   PROVE  channel[i + 1] = Terminate
        BY <1>2
      <4>1. 1 \in DOMAIN channel /\ i + 1 \in DOMAIN channel /\ 1 < i + 1 /\ channel[1] = Terminate
        BY <1>2, <2>1
      <4>2. QED
        BY <4>1 DEF PoolInv, TerminatesLast
    <3>3. QED
      BY <1>1, <1>5, <3>1, <3>2 DEF TerminatesLast
  <2>8. TerminatesCounted'
    BY <1>1, <2>3, <2>6 DEF PoolInv, TerminatesCounted, Sent
  <2>9. JoinedInOrder'
    BY <1>1, <2>2 DEF PoolInv, JoinedInOrder, PoolTypeOK
  <2>10. QED
    BY <2>4, <2>5, <2>7, <2>8, <2>9 DEF PoolInv
<1>8. QED
  BY <1>6, <1>7
-----------------------------------------------------------------------------
(* Every behaviour of the pool keeps the inductive invariant.              *)
THEOREM PoolInvariant == PoolSpec => []PoolInv
<1>1. PoolInv /\ [PoolNext]_poolVars => PoolInv'
  <2> SUFFICES ASSUME PoolInv, [PoolNext]_poolVars
               PROVE  PoolInv'
    OBVIOUS
  <2>1. CASE Execute \/ Close \/ AcceptFails
    BY <2>1, ExecuteKeeps
  <2>2. CASE Drop
    BY <2>2, SendTerminateKeeps, JoinKeeps DEF Drop
  <2>3. CASE \E w \in Workers : WorkerLoop(w) \/ RunJob(w)
    BY <2>3, WorkKeeps, ReceiveKeeps DEF WorkerLoop
  <2>4. CASE UNCHANGED poolVars
    BY <2>4 DEF poolVars, caller, pool, PoolInv, PoolTypeOK, JobsKept, Held, TerminatesLast, Terms, Stopped,
                TerminatesCounted, Sent, Receiver, Runs, JoinedInOrder
  <2>5. QED
    BY <2>1, <2>2, <2>3, <2>4 DEF PoolNext, Ended
<1>2. QED
  BY <1>1, PoolInvInit, PTL DEF PoolSpec

(* However the workers race for the messages, every one of them that runs  *)
(* on after the last Terminate is sent has one left to take: recv finds a  *)
(* message or a sender, and unwrap does not panic.                         *)
THEOREM NoWorkerStarves == PoolSpec => []EnoughTerminates
<1>1. PoolInv => EnoughTerminates
  <2> SUFFICES ASSUME PoolInv, main \in {"join", "unwinding"}
               PROVE  Cardinality(Running) <= Cardinality(Terms(channel))
    BY DEF EnoughTerminates, Running, Terms
  <2>1. Cardinality(Terms(channel)) \in Nat
    BY TermsFinite DEF PoolInv, PoolTypeOK, Messages
  <2>2. CASE Sent(NumWorkers)
    BY <2>1, <2>2, StoppedFinite, PoolNumbers DEF Sent
  <2>3. CASE ~Receiver
    <3>1. Running = {}
      BY <2>3 DEF Receiver, Running
    <3>2. QED
      BY <2>1, <3>1, FS_EmptySet
  <2>4. QED
    BY <2>2, <2>3 DEF PoolInv, TerminatesCounted
<1>2. QED
  BY <1>1, PoolInvariant, PTL

(* A drop that returns leaves nothing undone: all accepted jobs have run   *)
(* to their end, the channel is empty and every worker stopped of itself.  *)
THEOREM NothingIsLeft == PoolSpec => []ReturnMeansDone
<1>1. PoolInv => ReturnMeansDone
  <2> SUFFICES ASSUME PoolInv, main = "returned"
               PROVE  /\ finished = 1..accepted /\ channel = <<>>
                      /\ \A w \in Workers : worker[w] = "stopped"
    BY DEF ReturnMeansDone, PoolInv
  <2>1. \A w \in Workers : worker[w] = "stopped" /\ job[w] = None
    BY DEF PoolInv, JoinedInOrder, JobsKept
  <2>2. channel = <<>>
    <3>1. channel \in Seq(Messages) /\ DOMAIN channel = 1..Len(channel) /\ Len(channel) \in Nat
      BY LenProperties DEF PoolInv, PoolTypeOK, Messages
    <3>2. Cardinality(Terms(channel)) + Cardinality(Stopped) = NumWorkers
      BY DEF PoolInv, TerminatesCounted, Sent
    <3>3. Stopped = Workers /\ Stopped # {}
      BY <2>1, PoolNumbers DEF Stopped
    <3>4. Cardinality(Stopped) = NumWorkers
      BY <3>3, PoolNumbers, FS_Interval
    <3>5. Terms(channel) = {}
      BY <3>1, <3>2, <3>4, PoolNumbers, TermsFinite
    <3>6. DOMAIN channel = {}
      BY <3>3, <3>5 DEF PoolInv, TerminatesLast, Terms
    <3>7. QED
      BY <3>1, <3>6, EmptySeq
  <2>3. finished = 1..accepted
    <3>1. \A j \in 1..accepted : Held(j)
      BY <2>1 DEF PoolInv, JobsKept
    <3>2. \A j \in 1..accepted : j # None
      BY PoolNumbers DEF PoolInv, PoolTypeOK
    <3>3. DOMAIN channel = {}
      BY <2>2
    <3>4. QED
      BY <2>1, <3>1, <3>2, <3>3 DEF Held, PoolInv, JobsKept
  <2>4. QED
    BY <2>1, <2>2, <2>3
<1>2. QED
  BY <1>1, PoolInvariant, PTL
=============================================================================
