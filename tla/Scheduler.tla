----------------------------- MODULE Scheduler -----------------------------
(***************************************************************************)
(* The kernel's scheduler (kernel/schedule.c) under the gates as they are  *)
(* installed: every interrupt starts at the top of its CPU's one block     *)
(* (IST 2; main.c points all ISTs of a CPU at it).  get_current masks the  *)
(* stack pointer, so in a handler, in do_softirq and in schedule()         *)
(* `current' is the structure below that block, not the interrupted task.  *)
(* Of that structure only cpu_id is set; the rest, as kmalloc left it, is  *)
(* taken to be 0: not TASK_RUNNING, priority 0, preempt_count 0.           *)
(*                                                                         *)
(* So ticks charge the block, and no task's vrun_time ever leaves 0; the   *)
(* preempt test of ret_from_intr reads the block's counter; and schedule() *)
(* always finds the block's time no smaller and switches (its else branch  *)
(* is never taken) from the block, without queueing anything: the          *)
(* interrupted task is dropped, with the lock it may hold.                 *)
(*                                                                         *)
(* The boot CPU and CPU 3 each fork one task, with interrupts on: do_fork  *)
(* goes step by step, and their two forks share the list of                *)
(* init_task_union.  A CPU that jumps to an address nobody saved, or       *)
(* returns into an overwritten context, is taken to stop there and to      *)
(* touch nothing.  The model starts after schedule_init.                   *)
(***************************************************************************)
EXTENDS Integers, KList

CONSTANTS CPUs,
          BSP,         (* the boot CPU, which receives the HPET interrupt    *)
          Forkers,     (* the CPUs that run task_init: BSP and CPU 3         *)
          Slice,       (* the ticks a slice starts with: 4                     *)
          None, Lost   (* printk_lock is free; it was dropped by its owner   *)

ASSUME SchedulerAssumption ==
  /\ BSP \in Forkers /\ Forkers \subseteq CPUs
  /\ {None, Lost} \cap (CPUs \X {"task", "soft"}) = {} /\ None # Lost
  /\ Slice \in Nat \ {0}

VARIABLES
  ipi,       (* CPUs whose tick IPI (vector 200) is pending                *)
  softirq,   (* the timer bit of softirq_status, one word for all CPUs     *)
  at,        (* what each CPU executes                                     *)
  iflag,     (* each CPU: interrupts are on in its task                    *)
  current,   (* each CPU: its task                                         *)
  torn,      (* each CPU: the block was overwritten while it was in use    *)
  raised,    (* each CPU: the block's preempt_count stays raised by that   *)
  need,      (* each CPU: NEED_SCHEDULE in the block's flags               *)
  slice,     (* task_schedule[c].CPU_exec_task_jiffies, -1 for all below 0 *)
  count,     (* task_schedule[c].running_task_count, -1 for all below 0    *)
  links,     (* next and prev of all tasks and queue heads                 *)
  fork, tmp, (* each CPU's do_fork: its next step, insert_task_queue's tmp *)
  owner,     (* who holds printk_lock: a CPU's task or its do_softirq      *)
  taken,     (* history: how often a CPU's child was taken from a queue (2 *)
             (* for more than once)                                        *)
  crossed    (* history: a CPU has written the pointers of a child that    *)
             (* another CPU was queueing, or had queued                    *)

blocks  == <<torn, raised, need, slice>>
queues  == <<count, links, taken, crossed>>
forks   == <<fork, tmp>>
vars == <<ipi, softirq, at, iflag, current, blocks, queues, forks, owner>>

Idle(c)  == <<c, "idle">>
Child(c) == <<c, "init">>
Queue(c) == <<c, "queue">>
Children == Forkers \X {"init"}
Nodes    == CPUs \X {"idle", "init", "queue"}
InitList == Idle(BSP)     \* init_task_union is the BSP's idle task

Softirq == {"enter", "wait", "hold", "clear"}
Ends    == {"idle",    (* jumped to the idle task's rip, which nobody saved  *)
            "wild",    (* switched to what is not a task                     *)
            "torn",    (* returned into a context that was overwritten       *)
            "divide"}  (* in the endless loop of do_divide_error             *)

(* The steps of task_init and do_fork that touch what others see.          *)
Then == [reset |-> "copy", copy |-> "join1", join1 |-> "join2", join2 |-> "join3",
         join3 |-> "join4", join4 |-> "scan", scan |-> "link1", link1 |-> "link2",
         link2 |-> "link3", link3 |-> "link4", link4 |-> "count", count |-> "done"]
Join == <<"join1", "join2", "join3", "join4">>
LinkSteps == <<"link1", "link2", "link3", "link4">>
Steps == DOMAIN Then \cup {"done"}

Init ==
  /\ ipi = {} /\ softirq = FALSE
  /\ at = [c \in CPUs |-> "task"] /\ iflag = [c \in CPUs |-> TRUE]
  /\ current = [c \in CPUs |-> Idle(c)]
  /\ torn = [c \in CPUs |-> FALSE] /\ raised = [c \in CPUs |-> FALSE]
  /\ need = [c \in CPUs |-> FALSE] /\ slice = [c \in CPUs |-> Slice]
  /\ count = [c \in CPUs |-> 1] /\ links = Unlinked(Nodes)
  /\ fork = [c \in CPUs |-> IF c \in Forkers THEN "reset" ELSE "done"]
  /\ tmp = [c \in CPUs |-> Queue(c)]
  /\ owner = None
  /\ taken = [c \in CPUs |-> 0] /\ crossed = FALSE
-----------------------------------------------------------------------------
(* task_init and do_fork, in the idle task of a forker.                    *)
Linking == {"link2", "link3", "link4", "count", "done"}

Crosses(c) ==
  \E d \in Forkers \ {c} :
    /\ fork[d] \in Linking
    /\ \/ links'.next[Child(d)] # links.next[Child(d)]
       \/ links'.prev[Child(d)] # links.prev[Child(d)]

ForkStep(c) ==
  /\ at[c] = "task" /\ current[c] = Idle(c) /\ owner # <<c, "task">>
  /\ fork[c] # "done"
  /\ fork' = [fork EXCEPT ![c] = Then[@]]
  /\ crossed' = (crossed \/ Crosses(c))
  /\ UNCHANGED <<ipi, softirq, at, iflag, current, blocks, owner, taken>>

(* task_init empties the list of init_task_union; do_fork makes the child, *)
(* a copy of its parent, and a list node of its own.                       *)
InitNodes(c) ==
  /\ \/ fork[c] = "reset" /\ links' = list_init(links, InitList)
     \/ fork[c] = "copy" /\ links' = list_init(links, Child(c))
  /\ UNCHANGED <<count, tmp>>
  /\ ForkStep(c)

JoinInitList(c) ==
  /\ \E k \in 1..4 : /\ fork[c] = Join[k]
                     /\ links' = list_add_to_before(links, InitList, Child(c), k)
  /\ UNCHANGED <<count, tmp>>
  /\ ForkStep(c)

(* insert_task_queue: the scan stops at the first node it looks at, as no  *)
(* task's time is below that of another.                                   *)
Scan(c) ==
  /\ fork[c] = "scan"
  /\ tmp' = [tmp EXCEPT ![c] = links.next[Queue(c)]]
  /\ UNCHANGED <<count, links>>
  /\ ForkStep(c)

BugLink(c) ==   \* links the child behind tmp in one direction only
  /\ \E k \in 1..4 : /\ fork[c] = LinkSteps[k]
                     /\ links' = IF k = 2 THEN links
                                 ELSE list_add_to_before(links, tmp[c], Child(c), k)
  /\ UNCHANGED <<count, tmp>>
  /\ ForkStep(c)

Link(c) ==
  /\ \E k \in 1..4 : /\ fork[c] = LinkSteps[k]
                     /\ links' = list_add_to_before(links, tmp[c], Child(c), k)
  /\ UNCHANGED <<count, tmp>>
  /\ ForkStep(c)

BugCountTask(c) ==   \* running_task_count is left as it was
  /\ fork[c] = "count"
  /\ UNCHANGED <<count, links, tmp>>
  /\ ForkStep(c)

CountTask(c) ==
  /\ fork[c] = "count"
  /\ count' = [count EXCEPT ![c] = @ + 1]
  /\ UNCHANGED <<links, tmp>>
  /\ ForkStep(c)
-----------------------------------------------------------------------------
(* A task prints.                                                          *)
TaskLock(c) ==
  /\ at[c] = "task" /\ iflag[c] /\ owner = None
  /\ owner' = <<c, "task">>
  /\ UNCHANGED <<ipi, softirq, at, iflag, current, blocks, queues, forks>>

TaskUnlock(c) ==
  /\ at[c] = "task" /\ owner = <<c, "task">>
  /\ owner' = None
  /\ UNCHANGED <<ipi, softirq, at, iflag, current, blocks, queues, forks>>

(* A child starts with interrupts off, as the handler left them: no popf   *)
(* or iret leads to it.  Its first system call turns them on.              *)
SystemCall(c) ==
  /\ at[c] = "task" /\ ~iflag[c]
  /\ iflag' = [iflag EXCEPT ![c] = TRUE]
  /\ UNCHANGED <<ipi, softirq, at, current, blocks, queues, forks, owner>>
-----------------------------------------------------------------------------
(* An interrupt starts at the top of the block, over a do_softirq as well. *)
InterruptsOn(c) == at[c] \in Softirq \/ (at[c] = "task" /\ iflag[c])

Enter(c) ==
  /\ InterruptsOn(c)
  /\ at' = [at EXCEPT ![c] = "irq"]
  /\ torn' = [torn EXCEPT ![c] = at[c] # "task"]
  /\ raised' = [raised EXCEPT ![c] = @ \/ at[c] \in {"wait", "hold"}]
  /\ owner' = IF owner = <<c, "soft">> THEN Lost ELSE owner
  /\ UNCHANGED <<iflag, current, queues, forks>>

(* The tick of a handler: the block's priority is 0, so it costs 1.        *)
Tick(c) ==
  /\ slice' = [slice EXCEPT ![c] = IF @ < 0 THEN @ ELSE @ - 1]
  /\ need' = [need EXCEPT ![c] = @ \/ slice'[c] <= 0]

(* The HPET's handler on the BSP, which may find a timer due, and its IPI  *)
(* on the others; one that is still pending there absorbs the new one.     *)
HPET_handler ==
  /\ Enter(BSP) /\ Tick(BSP)
  /\ ipi' = CPUs \ {BSP}
  /\ softirq' \in {softirq, TRUE}

IPI_0x200(c) ==
  /\ c \in ipi /\ ipi' = ipi \ {c}
  /\ Enter(c) /\ Tick(c)
  /\ UNCHANGED softirq

(* Any other interrupt: its handler leaves the scheduler alone, its return *)
(* does not.                                                               *)
DeviceIrq ==
  /\ Enter(BSP)
  /\ UNCHANGED <<ipi, softirq, need, slice>>
-----------------------------------------------------------------------------
(* What a CPU that leaves its task for good, or stops, does to the lock.   *)
Dropped(c) == IF owner \in {<<c, "task">>, <<c, "soft">>} THEN Lost ELSE owner

Stop(c, end) ==
  /\ at' = [at EXCEPT ![c] = end]
  /\ UNCHANGED <<iflag, current>>

(* get_next_task                                                           *)
Empty(c) == list_is_empty(links, Queue(c))
NextTask(c) == IF Empty(c) THEN Idle(c) ELSE links.next[Queue(c)]

BugGetNextTask(c) ==   \* the task it returns stays in the queue
  /\ count' = [count EXCEPT ![c] = IF Empty(c) \/ @ < 0 THEN @ ELSE @ - 1]
  /\ taken' = [d \in CPUs |-> IF NextTask(c) = Child(d) /\ taken[d] < 2
                              THEN taken[d] + 1 ELSE taken[d]]
  /\ UNCHANGED <<links, crossed>>

GetNextTask(c) ==
  /\ IF Empty(c) THEN UNCHANGED <<count, links>>
     ELSE /\ links' = list_del(links, NextTask(c))
          /\ count' = [count EXCEPT ![c] = IF @ < 0 THEN @ ELSE @ - 1]
  /\ taken' = [d \in CPUs |-> IF NextTask(c) = Child(d) /\ taken[d] < 2
                              THEN taken[d] + 1 ELSE taken[d]]
  /\ crossed' = (crossed \/ Crosses(c))

(* switch_to, to a child's start or to what is no saved context.           *)
SwitchTo(c, t) ==
  IF t \in Children
  THEN /\ at' = [at EXCEPT ![c] = "task"]
       /\ current' = [current EXCEPT ![c] = t] /\ iflag' = [iflag EXCEPT ![c] = FALSE]
  ELSE Stop(c, IF Empty(c) THEN "idle" ELSE "wild")

(* schedule(): only a slice that is exactly 0 is refilled, by the priority *)
(* of the next task: 0 for the BSP's idle task, 2 for any other.           *)
Refill(t, n) == IF t = Idle(BSP) THEN Slice \div n ELSE (Slice \div n) * 3

Schedule(c) ==
  /\ need' = [need EXCEPT ![c] = FALSE]
  /\ GetNextTask(c)
  /\ \/ /\ slice[c] = 0 /\ count'[c] = 0
        /\ Stop(c, "divide") /\ UNCHANGED slice
     \/ /\ slice[c] = 0 => count'[c] # 0
        /\ slice' = [slice EXCEPT ![c] = IF @ = 0 THEN Refill(NextTask(c), count'[c]) ELSE @]
        /\ SwitchTo(c, NextTask(c))
  /\ owner' = Dropped(c)

(* RESTORE_ALL: back to the task, unless something else was below.         *)
Restore(c) ==
  /\ at' = [at EXCEPT ![c] = IF torn[c] THEN "torn" ELSE "task"]
  /\ owner' = IF torn[c] THEN Dropped(c) ELSE owner
  /\ UNCHANGED <<iflag, current, need, slice, queues>>

(* The two tests at the end of ret_from_intr and of softirq_handler.       *)
Leave(c) ==
  /\ IF ~raised[c] /\ need[c] THEN Schedule(c) ELSE Restore(c)
  /\ torn' = [torn EXCEPT ![c] = FALSE]
  /\ UNCHANGED raised

RetFromIntr(c) ==
  /\ at[c] = "irq"
  /\ \/ /\ softirq
        /\ at' = [at EXCEPT ![c] = "enter"]
        /\ UNCHANGED <<iflag, current, blocks, queues, owner>>
     \/ ~softirq /\ Leave(c)
  /\ UNCHANGED <<ipi, softirq, forks>>

(* do_softirq, with interrupts on; one line stands for those that do_timer *)
(* prints.  They raise the block's preempt_count while they hold the lock  *)
(* or wait for it.                                                         *)
EnterSoftirq(c) ==
  /\ at[c] = "enter"
  /\ \/ /\ softirq
        /\ at' = [at EXCEPT ![c] = "wait"]
        /\ UNCHANGED <<iflag, current, blocks, queues, owner>>
     \/ ~softirq /\ Leave(c)
  /\ UNCHANGED <<ipi, softirq, forks>>

SoftLock(c) ==
  /\ at[c] = "wait" /\ at' = [at EXCEPT ![c] = "hold"]
  /\ owner = None /\ owner' = <<c, "soft">>
  /\ UNCHANGED <<ipi, softirq, iflag, current, blocks, queues, forks>>

SoftUnlock(c) ==
  /\ at[c] = "hold" /\ at' = [at EXCEPT ![c] = "clear"]
  /\ owner' = None
  /\ UNCHANGED <<ipi, softirq, iflag, current, blocks, queues, forks>>

BugClearStatus(c) ==   \* returns to the task without the two tests
  /\ at[c] = "clear"
  /\ softirq' = FALSE
  /\ Restore(c) /\ torn' = [torn EXCEPT ![c] = FALSE]
  /\ UNCHANGED <<ipi, forks, raised>>

ClearStatus(c) ==
  /\ at[c] = "clear"
  /\ softirq' = FALSE
  /\ Leave(c)
  /\ UNCHANGED <<ipi, forks>>

SoftirqStep(c) == EnterSoftirq(c) \/ SoftLock(c) \/ SoftUnlock(c) \/ ClearStatus(c)

Fork(c) == InitNodes(c) \/ JoinInitList(c) \/ Scan(c) \/ Link(c) \/ CountTask(c)

Next ==
  \/ HPET_handler \/ DeviceIrq
  \/ \E c \in CPUs :
       \/ IPI_0x200(c) \/ RetFromIntr(c) \/ SoftirqStep(c)
       \/ Fork(c) \/ TaskLock(c) \/ TaskUnlock(c) \/ SystemCall(c)

Spec == Init /\ [][Next]_vars
-----------------------------------------------------------------------------
TypeOK ==
  /\ ipi \subseteq CPUs /\ {softirq, crossed} \subseteq BOOLEAN
  /\ at \in [CPUs -> {"task", "irq"} \cup Softirq \cup Ends]
  /\ {iflag, torn, raised, need} \subseteq [CPUs -> BOOLEAN]
  /\ current \in [CPUs -> Nodes] /\ tmp \in [CPUs -> Nodes]
  /\ slice \in [CPUs -> Int] /\ count \in [CPUs -> Int]
  /\ links \in [next : [Nodes -> Nodes], prev : [Nodes -> Nodes]]
  /\ fork \in [CPUs -> Steps]
  /\ owner \in {None, Lost} \cup (CPUs \X {"task", "soft"})
  /\ taken \in [CPUs -> 0..2]

(* Each CPU runs its own idle task and then its own child, which it takes  *)
(* from its queue once, at whatever moment of the fork a tick reschedules; *)
(* what it takes is a task.  Except that a child taken while its prev      *)
(* pointer is not set yet stays on the queue, and is started again and     *)
(* again; and that the two forks may cross on init_task_union's list.      *)
TakenOnce ==
  ~crossed => \A c \in CPUs :
    /\ current[c] \in {Idle(c), Child(c)}
    /\ at[c] # "wild"
    /\ taken[c] > 1 => fork[c] = "link3"

(* running_task_count, the divisor of the slice, counts the idle task and  *)
(* the child that waits, however the fork and the reschedules interleave;  *)
(* it is 0, and schedule() divides by it, only if the child is taken       *)
(* between being linked and being counted.                                 *)
Counted(c) == IF c \in Forkers /\ fork[c] = "done" THEN 1 ELSE 0

CountExact ==
  TypeOK /\ (~crossed => \A c \in CPUs :
    /\ fork[c] # "link3" => count[c] = 1 + Counted(c) - taken[c]
    /\ at[c] = "divide" => fork[c] \in {"link3", "link4", "count"})

(* schedule() falls back on the idle task only when no task waits: once    *)
(* the queue's next pointer leads to the child, a CPU does not pass it by. *)
NotLinked == Steps \ {"link3", "link4", "count", "done"}

IdleIfNoneWaits ==
  ~crossed => \A c \in Forkers :
    at[c] = "idle" => taken[c] > 0 \/ fork[c] \in NotLinked

(* A child that waits gets the CPU at the tick that ends the slice at the  *)
(* latest, whether that tick finds a do_softirq to run first or comes over *)
(* one: no CPU is back in its first task with its slice used up, unless an *)
(* interrupt over a do_softirq left the block's preempt_count raised.      *)
SliceEnds ==
  \A c \in CPUs : at[c] = "task" /\ current[c] = Idle(c) => slice[c] > 0 \/ raised[c]

(* entry.S:69: a task that holds a lock is left to go on until it gives    *)
(* the lock back; no CPU switches away from it.                            *)
HolderGoesOn ==
  [][\A c \in CPUs : owner = <<c, "task">> => current'[c] = current[c]]_vars
=============================================================================
