---------------------------- MODULE TimerSoftirq ----------------------------
(***************************************************************************)
(* Kernel timers: the list timer.c keeps, the HPET tick that looks at its  *)
(* first timer (HPET.c), and the softirq that runs the due ones            *)
(* (softirq.c) and prints, under printk_lock, after each and at its end.   *)
(* softirq_status is one word for all CPUs and no lock guards the list:    *)
(* any interrupt, on any CPU, that returns while the bit is set runs       *)
(* do_softirq, with interrupts on.                                         *)
(*                                                                         *)
(* All interrupts of a CPU start at the top of one block (IST 2): one that *)
(* comes over a do_softirq overwrites it and the registers of the task     *)
(* below.  Its own do_softirq still runs, but what it returns to is gone:  *)
(* what happens then is undefined, and is not followed on (astray).  On    *)
(* its way out an interrupt may instead switch to another task: the one    *)
(* below is dropped, with printk_lock if it holds it (Scheduler says when, *)
(* and when there is none to switch to).                                   *)
(***************************************************************************)
EXTENDS KList, FiniteSets

CONSTANTS CPUs,
          BSP,          (* the CPU that gets the HPET tick                   *)
          Timers,       (* timer structures                                  *)
          timer_list_head,(* the list head, in the place of a timer          *)
          Delays,       (* the delays timers are set to                      *)
          None, Lost,   (* printk_lock is free; it was dropped by its owner  *)
          MaxJiffies,   (* bound: the clock stops counting, not ticking      *)
          MaxOver,      (* bound: interrupts over do_softirq, one by one     *)
          MaxPrints     (* bound: lines the tasks print                      *)

ASSUME TimerAssumption ==
  /\ BSP \in CPUs
  /\ timer_list_head \notin Timers
  /\ Delays \in SUBSET (1..MaxJiffies)
  /\ IsFiniteSet(Timers)
  /\ MaxJiffies \in Nat /\ MaxOver \in Nat /\ MaxPrints \in Nat
  /\ {None, Lost} \cap (CPUs \X {"task", "soft"}) = {} /\ None # Lost

VARIABLES
  booting,   (* timer_init, before interrupts are enabled                    *)
  jiffies,
  links,     (* next and prev of every timer and of the head                 *)
  expire,    (* expire_jiffies                                               *)
  status,    (* the timer bit of softirq_status                              *)
  stage, tmp,(* each CPU: where its do_softirq is, and do_timer's tmp        *)
  over,      (* each CPU: the interrupts that overwrote the block in use     *)
  owner,     (* who holds printk_lock: a CPU's task or its do_softirq        *)
  astray,    (* a CPU has returned into an overwritten context               *)
  prints,
  ran, cut   (* history: how often each timer's function ran (2 for more     *)
             (* than once); those taken off the list by a do_timer that was  *)
             (* overwritten before it could run them                         *)

list == <<links, expire>>
context == <<over, astray>>
console == <<owner, prints>>
timerHistory == <<ran, cut>>
timerVars == <<booting, jiffies, list, status, stage, tmp, context, console, timerHistory>>

TimerNodes == Timers \cup {timer_list_head}
Never == MaxJiffies + 1     \* -1UL, the head's time; 0 marks a timer not added
Added == {t \in Timers : expire[t] # 0}
First == links.next[timer_list_head]
Positions == {"task", "enter", "test", "del1", "del2", "func", "print", "last", "tell", "clear"}

TimerInit ==
  /\ booting = TRUE
  /\ jiffies = 0
  /\ links = Unlinked(TimerNodes)
  /\ expire = [n \in TimerNodes |-> IF n = timer_list_head THEN Never ELSE 0]
  /\ status = FALSE
  /\ stage = [c \in CPUs |-> "task"] /\ tmp = [c \in CPUs |-> timer_list_head]
  /\ over = [c \in CPUs |-> 0] /\ astray = FALSE
  /\ owner = None /\ prints = 0
  /\ ran = [t \in Timers |-> 0] /\ cut = {}
-----------------------------------------------------------------------------
(* add_timer scans from the first timer to one whose time is not smaller   *)
(* (the head's is the largest there is) and links the new one behind it.   *)
StopsAt(e) ==
  LET seen == Walk(links, timer_list_head, Cardinality(Timers))
  IN  seen[CHOOSE i \in DOMAIN seen : /\ expire[seen[i]] >= e
                                      /\ \A j \in DOMAIN seen : j < i => expire[seen[j]] < e]

(* init_timer and add_timer, as timer_init calls them.                     *)
AddTimer(t, delay) ==
  /\ booting
  /\ t \notin Added
  /\ expire' = [expire EXCEPT ![t] = jiffies + delay]
  /\ links' = list_add_to_behind(list_init(links, t), StopsAt(jiffies + delay), t)
  /\ UNCHANGED <<booting, jiffies, status, stage, tmp, context, console, timerHistory>>

Sti ==
  /\ booting /\ booting' = FALSE
  /\ UNCHANGED <<jiffies, list, status, stage, tmp, context, console, timerHistory>>
-----------------------------------------------------------------------------
(* A task prints.  Only its place under the lock matters here.             *)
TaskLock(c) ==
  /\ ~booting /\ ~astray /\ stage[c] = "task" /\ owner = None /\ prints < MaxPrints
  /\ owner' = <<c, "task">> /\ prints' = prints + 1
  /\ UNCHANGED <<booting, jiffies, list, status, stage, tmp, context, timerHistory>>

TaskUnlock(c) ==
  /\ ~astray /\ stage[c] = "task" /\ owner = <<c, "task">>
  /\ owner' = None
  /\ UNCHANGED <<booting, jiffies, list, status, stage, tmp, context, prints, timerHistory>>
-----------------------------------------------------------------------------
(* The end of ret_from_intr on a CPU whose block has been overwritten n    *)
(* times: back to the task, or into what was overwritten; or schedule()    *)
(* drops the task, and whatever was overwritten with it, for another or    *)
(* for a CPU that goes astray.                                             *)
Dropped(c) == IF owner \in {<<c, "task">>, <<c, "soft">>} THEN Lost ELSE owner

ReturnToTask(c, n) ==
  /\ stage' = [stage EXCEPT ![c] = "task"] /\ tmp' = [tmp EXCEPT ![c] = timer_list_head]
  /\ over' = [over EXCEPT ![c] = 0]
  /\ \/ astray' = (n > 0) /\ UNCHANGED owner
     \/ astray' \in BOOLEAN /\ owner' = Dropped(c)

(* A handler, whole, with interrupts off, and what ret_from_intr does      *)
(* after it.  Over a do_softirq it restarts the block: that one's print    *)
(* never ends, the timer it was about to run is cut off.                   *)
ReturnThrough(c, pending) ==
  LET n == IF stage[c] = "task" THEN 0 ELSE over[c] + 1
  IN  /\ n <= MaxOver
      /\ cut' = IF stage[c] = "func" THEN cut \cup {tmp[c]} ELSE cut
      /\ IF pending
         THEN /\ stage' = [stage EXCEPT ![c] = "enter"]
              /\ tmp' = [tmp EXCEPT ![c] = timer_list_head]
              /\ over' = [over EXCEPT ![c] = n]
              /\ owner' = IF owner = <<c, "soft">> THEN Lost ELSE owner
              /\ UNCHANGED astray
         ELSE ReturnToTask(c, n)

HPET_handler ==
  /\ ~booting /\ ~astray
  /\ jiffies' = IF jiffies < MaxJiffies THEN jiffies + 1 ELSE jiffies
  /\ status' = (status \/ expire[First] <= jiffies')
  /\ ReturnThrough(BSP, status')
  /\ UNCHANGED <<booting, list, prints, ran>>

(* Any other interrupt.                                                    *)
Interrupt(c) ==
  /\ ~booting /\ ~astray
  /\ ReturnThrough(c, status)
  /\ UNCHANGED <<booting, jiffies, list, status, prints, ran>>
-----------------------------------------------------------------------------
(* do_softirq, then do_timer.                                              *)
Goto(c, from, to, n) ==
  /\ ~astray /\ stage[c] = from
  /\ stage' = [stage EXCEPT ![c] = to] /\ tmp' = [tmp EXCEPT ![c] = n]

(* do_softirq tests the bit again: another CPU may have cleared it.        *)
EnterSoftirq(c) ==
  /\ ~astray /\ stage[c] = "enter"
  /\ \/ status /\ Goto(c, "enter", "test", First) /\ UNCHANGED <<context, owner>>
     \/ ~status /\ ReturnToTask(c, over[c])
  /\ UNCHANGED <<booting, jiffies, list, status, prints, timerHistory>>

(* The loop's test.                                                        *)
Due(n) == ~list_is_empty(links, timer_list_head) /\ expire[n] <= jiffies

TestTimer(c) ==
  /\ \/ Due(tmp[c]) /\ Goto(c, "test", "del1", tmp[c])
     \/ ~Due(tmp[c]) /\ Goto(c, "test", "last", timer_list_head)
  /\ UNCHANGED <<booting, jiffies, list, status, context, console, timerHistory>>

BugForgetsDel(c) ==   \* runs the timer and leaves it in the list
  /\ \/ Goto(c, "del1", "del2", tmp[c])
     \/ Goto(c, "del2", "func", tmp[c])
  /\ UNCHANGED <<booting, jiffies, list, status, context, console, timerHistory>>

BugEmptiesList(c) ==   \* takes the whole list off with its first timer
  /\ \/ Goto(c, "del1", "del2", tmp[c]) /\ links' = list_init(links, timer_list_head)
     \/ Goto(c, "del2", "func", tmp[c]) /\ UNCHANGED links
  /\ UNCHANGED <<booting, jiffies, expire, status, context, console, timerHistory>>

(* del_timer: the two assignments of list_del.                             *)
DelTimer(c) ==
  /\ \/ /\ Goto(c, "del1", "del2", tmp[c])
        /\ links' = [links EXCEPT !.prev[links.next[tmp[c]]] = links.prev[tmp[c]]]
     \/ /\ Goto(c, "del2", "func", tmp[c])
        /\ links' = [links EXCEPT !.next[links.prev[tmp[c]]] = links.next[tmp[c]]]
  /\ UNCHANGED <<booting, jiffies, expire, status, context, console, timerHistory>>

(* tmp->func(tmp->data), which is test_timer: it prints.  do_timer ends    *)
(* with a line of its own.  Interrupts are on, so both take the lock.      *)
SoftLock(c) ==
  /\ owner = None /\ owner' = <<c, "soft">>
  /\ \/ /\ Goto(c, "func", "print", tmp[c])
        /\ ran' = [ran EXCEPT ![tmp[c]] = IF @ < 2 THEN @ + 1 ELSE @]
     \/ /\ Goto(c, "last", "tell", timer_list_head)
        /\ UNCHANGED ran
  /\ UNCHANGED <<booting, jiffies, list, status, context, prints, cut>>

SoftSpin(c) == stage[c] \in {"func", "last"} /\ owner # None /\ UNCHANGED timerVars

SoftUnlock(c) ==
  /\ owner' = None
  /\ \/ Goto(c, "print", "test", First)
     \/ Goto(c, "tell", "clear", timer_list_head)
  /\ UNCHANGED <<booting, jiffies, list, status, context, prints, timerHistory>>

(* do_softirq clears the bit after the action, not before.                 *)
ClearStatus(c) ==
  /\ ~astray /\ stage[c] = "clear"
  /\ status' = FALSE
  /\ ReturnToTask(c, over[c])
  /\ UNCHANGED <<booting, jiffies, list, prints, timerHistory>>

SoftirqStep(c) ==
  EnterSoftirq(c) \/ TestTimer(c) \/ DelTimer(c) \/ SoftLock(c) \/ SoftUnlock(c) \/ ClearStatus(c)

Astray == astray /\ UNCHANGED timerVars

TimerNext ==
  \/ \E t \in Timers, d \in Delays : AddTimer(t, d)
  \/ Sti \/ HPET_handler \/ Astray
  \/ \E c \in CPUs : TaskLock(c) \/ TaskUnlock(c) \/ Interrupt(c) \/ SoftirqStep(c) \/ SoftSpin(c)

TimerSpec == TimerInit /\ [][TimerNext]_timerVars

(* The clock keeps ticking; each CPU goes on with what it is doing, and    *)
(* gets the lock when it stays free; a task does not print for ever.       *)
FairSpec ==
  /\ TimerSpec
  /\ WF_timerVars(Sti) /\ WF_timerVars(HPET_handler)
  /\ \A c \in CPUs : WF_timerVars(SoftirqStep(c)) /\ WF_timerVars(TaskUnlock(c))
-----------------------------------------------------------------------------
TimerTypeOK ==
  /\ jiffies \in 0..MaxJiffies
  /\ links \in [next : [TimerNodes -> TimerNodes], prev : [TimerNodes -> TimerNodes]]
  /\ expire \in [TimerNodes -> 0..Never]
  /\ stage \in [CPUs -> Positions] /\ tmp \in [CPUs -> TimerNodes] /\ over \in [CPUs -> 0..MaxOver]
  /\ owner \in {None, Lost} \cup (CPUs \X {"task", "soft"})
  /\ {booting, status, astray} \subseteq BOOLEAN
  /\ ran \in [Timers -> 0..2] /\ cut \subseteq Timers

(* printk_lock is never free again: it was dropped with the context that   *)
(* held it, or do_softirq waits for it over the task that holds it.        *)
Stuck == owner = Lost \/ \E c \in CPUs : owner = <<c, "task">> /\ stage[c] \in {"func", "last"}

(* Every timer runs in the end, wherever add_timer put it, although two    *)
(* CPUs may take the same timer, and although the bit that announces it    *)
(* may be cleared by a do_softirq that has not seen it: every tick looks   *)
(* again.  It does not if an interrupt comes over the do_softirq that has  *)
(* just taken it, if that leads a CPU astray, or if printk_lock stays      *)
(* taken: a softirq may not wait, and this one does.                       *)
EventuallyRuns ==
  \A t \in Timers : t \in Added ~> (ran[t] > 0 \/ t \in cut \/ astray \/ Stuck)

(* A timer that is on no list any more has run, or is about to, or was     *)
(* taken by a do_timer that was overwritten: taking a timer off the list   *)
(* twice, which two CPUs can do, loses none, and the list head is never    *)
(* taken for a timer.                                                      *)
Linked == Reaches(links, timer_list_head, Timers, Cardinality(Timers))
NoTimerLost ==
  /\ TimerTypeOK
  /\ \A t \in Added : t \in Linked \cup cut \/ ran[t] > 0 \/
       \E c \in CPUs : stage[c] = "func" /\ tmp[c] = t
  /\ \A c \in CPUs : stage[c] \in {"del1", "del2", "func", "print"} => tmp[c] # timer_list_head
=============================================================================
