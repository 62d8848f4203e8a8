------------------------------ MODULE Executor ------------------------------
(***************************************************************************)
(* blog_os: the cooperative executor (task/executor.rs), the keyboard task *)
(* it runs (task/keyboard.rs) and the keyboard interrupt that feeds both.  *)
(*                                                                         *)
(* There is one CPU.  The interrupt can come between any two steps of the  *)
(* executor while interrupts are on, and runs to its end.  The two queues  *)
(* are lock free; the waker cell is a library's (futures AtomicWaker).     *)
(***************************************************************************)
EXTENDS Naturals, Sequences, FiniteSets

CONSTANTS Keyboard,      (* the task of print_keypresses                   *)
          Others,        (* tasks that finish at their first poll          *)
          TaskQueueSize, (* capacity of task_queue, 100                    *)
          ScancodeSize,  (* capacity of SCANCODE_QUEUE, 100                *)
          MaxKeys        (* bound: keyboard interrupts                     *)

ASSUME ExecutorAssumption ==
  /\ Keyboard \notin Others /\ IsFiniteSet(Others)
  /\ TaskQueueSize \in Nat /\ TaskQueueSize > Cardinality(Others)
  /\ ScancodeSize \in Nat \ {0} /\ MaxKeys \in Nat

VARIABLES
  pc,          (* where the executor is                                    *)
  current,     (* the task it polls                                        *)
  tasks,       (* the tasks that are not finished                          *)
  task_queue,  (* the ids of the tasks that are woken                      *)
  interrupts,  (* the IF bit                                               *)
  initialized, (* SCANCODE_QUEUE exists                                    *)
  scancodes,   (* the scancodes in it, numbered in order of arrival        *)
  waker,       (* WAKER holds the keyboard task's waker                    *)
  typed,       (* keyboard interrupts so far                               *)
  printed,     (* the scancodes the task got                               *)
  dropped      (* those the interrupt gave up                              *)

vars == <<pc, current, tasks, task_queue, interrupts, initialized, scancodes,
          waker, typed, printed, dropped>>
input == <<initialized, scancodes, waker, typed, printed, dropped>>

Positions == {"spawn",     (* main, before run                             *)
              "ready",     (* run_ready_tasks, before the pop              *)
              "poll",      (* about to poll current                        *)
              "next",      (* poll_next, before its first pop              *)
              "register",  (* the queue was empty                          *)
              "again",     (* before its second pop                        *)
              "take",      (* the second pop found a scancode              *)
              "cli",       (* sleep_if_idle                                *)
              "check",     (* interrupts are off                           *)
              "halting",   (* the task queue was empty                     *)
              "hlt",       (* asleep                                       *)
              "panic"}     (* wake_task found task_queue full              *)

TypeOK ==
  /\ pc \in Positions
  /\ current \in Others \cup {Keyboard}
  /\ tasks \subseteq Others \cup {Keyboard}
  /\ task_queue \in Seq(Others \cup {Keyboard}) /\ Len(task_queue) <= TaskQueueSize
  /\ interrupts \in BOOLEAN /\ initialized \in BOOLEAN /\ waker \in BOOLEAN
  /\ scancodes \in Seq(1..MaxKeys) /\ Len(scancodes) <= ScancodeSize
  /\ typed \in 0..MaxKeys
  /\ printed \in Seq(1..MaxKeys)
  /\ dropped \subseteq 1..MaxKeys

Init ==
  /\ pc = "spawn"
  /\ current = Keyboard
  /\ tasks = {}
  /\ task_queue = <<>>
  /\ interrupts = TRUE
  /\ initialized = FALSE
  /\ scancodes = <<>>
  /\ waker = FALSE
  /\ typed = 0
  /\ printed = <<>>
  /\ dropped = {}

Goto(from, to) == pc = from /\ pc' = to
-----------------------------------------------------------------------------
(* main spawns all tasks before it runs them; the queue has room for them. *)
Spawn(t) ==
  /\ pc = "spawn" /\ t \notin tasks
  /\ tasks' = tasks \cup {t}
  /\ task_queue' = Append(task_queue, t)
  /\ UNCHANGED <<pc, current, interrupts, input>>

Run ==
  /\ tasks = Others \cup {Keyboard}
  /\ Goto("spawn", "ready")
  /\ UNCHANGED <<current, tasks, task_queue, interrupts, input>>

(* run_ready_tasks: an id whose task is finished is passed over.           *)
PopTask ==
  /\ pc = "ready"
  /\ IF task_queue = <<>>
     THEN pc' = "cli" /\ UNCHANGED <<current, task_queue>>
     ELSE /\ task_queue' = Tail(task_queue)
          /\ current' = Head(task_queue)
          /\ pc' = IF Head(task_queue) \in tasks THEN "poll" ELSE "ready"
  /\ UNCHANGED <<tasks, interrupts, input>>

FinishOther ==
  /\ current # Keyboard
  /\ Goto("poll", "ready")
  /\ tasks' = tasks \ {current}
  /\ UNCHANGED <<current, task_queue, interrupts, input>>

(* print_keypresses makes the scancode queue at its first poll.            *)
PollKeyboard ==
  /\ current = Keyboard
  /\ Goto("poll", "next")
  /\ initialized' = TRUE
  /\ UNCHANGED <<current, tasks, task_queue, interrupts, scancodes, waker, typed, printed, dropped>>
-----------------------------------------------------------------------------
(* poll_next.  A scancode it returns is decoded and printed, and the task  *)
(* asks for the next one within the same poll.                             *)
GotScancode == printed' = Append(printed, Head(scancodes)) /\ scancodes' = Tail(scancodes)

PollNext ==
  /\ pc = "next"
  /\ IF scancodes = <<>>
     THEN pc' = "register" /\ UNCHANGED <<scancodes, printed>>
     ELSE pc' = "next" /\ GotScancode
  /\ UNCHANGED <<current, tasks, task_queue, interrupts, initialized, waker, typed, dropped>>

BugRegister ==   \* registers and returns Pending without looking again
  /\ Goto("register", "ready")
  /\ waker' = TRUE
  /\ UNCHANGED <<current, tasks, task_queue, interrupts, initialized, scancodes, typed, printed, dropped>>

Register ==
  /\ Goto("register", "again")
  /\ waker' = TRUE
  /\ UNCHANGED <<current, tasks, task_queue, interrupts, initialized, scancodes, typed, printed, dropped>>

BugLookAgain ==   \* looks by popping, and leaves the scancode to the next poll
  /\ pc = "again"
  /\ IF scancodes = <<>>
     THEN pc' = "ready" /\ UNCHANGED scancodes
     ELSE pc' = "take" /\ scancodes' = Tail(scancodes)
  /\ UNCHANGED <<current, tasks, task_queue, interrupts, initialized, waker, typed, printed, dropped>>

PollAgain ==
  /\ pc = "again"
  /\ IF scancodes = <<>>
     THEN pc' = "ready" /\ UNCHANGED <<scancodes, printed>>
     ELSE pc' = "take" /\ GotScancode
  /\ UNCHANGED <<current, tasks, task_queue, interrupts, initialized, waker, typed, dropped>>

TakeWaker ==
  /\ Goto("take", "next")
  /\ waker' = FALSE
  /\ UNCHANGED <<current, tasks, task_queue, interrupts, initialized, scancodes, typed, printed, dropped>>
-----------------------------------------------------------------------------
(* sleep_if_idle                                                           *)
BugDisable ==   \* interrupts stay on between the test and hlt
  /\ Goto("cli", "check")
  /\ UNCHANGED <<current, tasks, task_queue, interrupts, input>>

Disable ==
  /\ Goto("cli", "check")
  /\ interrupts' = FALSE
  /\ UNCHANGED <<current, tasks, task_queue, input>>

Check ==
  /\ pc = "check"
  /\ IF task_queue = <<>> THEN pc' = "halting" /\ UNCHANGED interrupts
                          ELSE pc' = "ready" /\ interrupts' = TRUE
  /\ UNCHANGED <<current, tasks, task_queue, input>>

(* enable_and_hlt: sti takes effect after the instruction that follows it, *)
(* so no interrupt comes before the CPU is asleep.                         *)
Halt ==
  /\ Goto("halting", "hlt")
  /\ interrupts' = TRUE
  /\ UNCHANGED <<current, tasks, task_queue, input>>

Executor ==
  \/ (\E t \in Others \cup {Keyboard} : Spawn(t)) \/ Run
  \/ PopTask \/ FinishOther \/ PollKeyboard
  \/ PollNext \/ Register \/ PollAgain \/ TakeWaker
  \/ Disable \/ Check \/ Halt
-----------------------------------------------------------------------------
(* The interrupts.  Any of them ends a hlt.                                *)
Awake == IF pc = "hlt" THEN "ready" ELSE pc

HasRoom == initialized /\ Len(scancodes) < ScancodeSize

(* add_scancode: no queue yet or a full one drops the scancode; else wake  *)
(* takes the waker out of the cell, if there is one, and wake_task puts    *)
(* the task in the queue.                                                  *)
KeyboardInterrupt ==
  /\ interrupts /\ pc # "panic" /\ typed < MaxKeys
  /\ typed' = typed + 1
  /\ IF HasRoom
     THEN /\ scancodes' = Append(scancodes, typed')
          /\ waker' = FALSE
          /\ IF waker /\ Len(task_queue) < TaskQueueSize
             THEN task_queue' = Append(task_queue, Keyboard)
             ELSE UNCHANGED task_queue
          /\ pc' = IF waker /\ Len(task_queue) = TaskQueueSize THEN "panic" ELSE Awake
          /\ UNCHANGED dropped
     ELSE /\ dropped' = dropped \cup {typed'}
          /\ pc' = Awake
          /\ UNCHANGED <<scancodes, waker, task_queue>>
  /\ UNCHANGED <<current, tasks, interrupts, initialized, printed>>

TimerInterrupt ==
  /\ pc = "hlt" /\ pc' = Awake
  /\ UNCHANGED <<current, tasks, task_queue, interrupts, input>>

(* The panic handler halts the machine.                                    *)
Halted == pc = "panic" /\ UNCHANGED vars

Next == Executor \/ KeyboardInterrupt \/ TimerInterrupt \/ Halted

(* The executor goes on when it is not asleep.  Nothing is asked of the    *)
(* interrupts: a timer that keeps waking the CPU would hide a lost wakeup. *)
Spec == Init /\ [][Next]_vars /\ WF_vars(Executor)
-----------------------------------------------------------------------------
(* No wakeup is lost.  When the CPU sleeps no scancode and no woken task   *)
(* waits, however the interrupt fell between the test of the queue and the *)
(* hlt; and a task that returned Pending can be woken: its waker is in the *)
(* cell or its id in the queue.                                            *)
SleepsOnNothing == pc = "hlt" => scancodes = <<>> /\ task_queue = <<>>
Parked == initialized /\ ~(current = Keyboard /\ pc \in {"poll", "next", "register", "again", "take"})
NoLostWakeup ==
  /\ TypeOK
  /\ SleepsOnNothing
  /\ Parked /\ pc # "panic" => waker \/ \E i \in DOMAIN task_queue : task_queue[i] = Keyboard

(* What the task gets is what was typed, in order, without what the        *)
(* interrupt dropped: nothing is printed twice or lost between the two     *)
(* pops.                                                                   *)
Got == printed \o scancodes
PrintedInOrder ==
  /\ \A i, k \in DOMAIN Got : i < k => Got[i] < Got[k]
  /\ {Got[i] : i \in DOMAIN Got} = (1..typed) \ dropped

(* Each scancode in the queue is got in the end, unless the machine stops. *)
InputIsRead == [](scancodes # <<>> => <>(scancodes = <<>> \/ pc = "panic"))
=============================================================================
