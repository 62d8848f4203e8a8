-------------------------------- MODULE Disk --------------------------------
(***************************************************************************)
(* The disk driver: kernel/disk.c over the lists of lib.h.  Callers of     *)
(* IDE_transfer queue a request, start the disk if nothing is in use, and  *)
(* spin until disk_flags is 0; the interrupt ends the request in use and   *)
(* starts the next.  There is no lock: a caller's statements, cmd_out      *)
(* included, interleave with the handler, which runs whole with            *)
(* interrupts off on the CPU the callers run on, and with other callers    *)
(* that preempt it.  The lists are written assignment by assignment,       *)
(* count++ and count-- are a load and a store, as the build, which does    *)
(* not optimise, has them.                                                 *)
(* The drive takes one sector at a time: it is busy until the sector is    *)
(* ready, then it interrupts, and goes on when its data has been moved.    *)
(* (A write of several sectors moves data for the first only and           *)
(* interrupts once: it is a request of one sector here.)                   *)
(* Request r is the r-th node made; node 0 is the head of the queue.       *)
(***************************************************************************)
EXTENDS Integers, SequencesExt, KList

CONSTANTS Callers,
          NULL,
          MaxRequests,     \* bound: requests made
          MaxSectors       \* bound: sectors of one request

ASSUME DiskAssumption ==
  MaxRequests \in Nat /\ MaxSectors \in Nat /\ NULL \notin 0..MaxRequests

Nodes == 0..MaxRequests

VARIABLES heap, in_using, block_request_count, disk_flags,
          at, node, reg,          \* each caller: where it is, its request, the count it loaded
          sectors,                \* of each request made, in order
          disk,                   \* the drive: its command, sectors not ready yet, one ready and not moved
          irq,                    \* the interrupt latched for the CPU
          order, ended,           \* history: requests queued and not ended, in order; those ended
          moved, early,           \* history: those whose last sector was moved; that were returned from before
          company, late,          \* history: those not alone; that ended before submit asked for in_using
          clash, crashed

queue == <<heap, in_using, block_request_count>>
drive == <<disk, irq>>
history == <<order, ended, moved, early, company, late, clash, crashed>>
vars == <<queue, disk_flags, at, node, reg, sectors, drive, history>>

Init ==
  /\ heap = Unlinked(Nodes) /\ in_using = NULL /\ block_request_count = 0 /\ disk_flags = 0
  /\ at = [c \in Callers |-> "idle"] /\ node = [c \in Callers |-> 0] /\ reg = [c \in Callers |-> 0]
  /\ sectors = <<>> /\ disk = [node |-> 0, left |-> 0, drq |-> FALSE] /\ irq = FALSE
  /\ order = <<>> /\ ended = {} /\ moved = {} /\ early = {} /\ company = {} /\ late = {}
  /\ clash = FALSE /\ crashed = FALSE

Live == (1..Len(sectors)) \ ended
Submitting(c) == at[c] \notin {"idle", "wait"}
Step(c, from, to) == ~clash /\ ~crashed /\ at[c] = from /\ at' = [at EXCEPT ![c] = to]
-----------------------------------------------------------------------------
(* The drive has the next sector ready: no longer busy, it interrupts.  An *)
(* edge that comes while one is latched is the same interrupt.             *)
Busy == disk.left > 0 /\ ~disk.drq
Ready == [disk EXCEPT !.left = @ - 1, !.drq = TRUE]

SectorReady ==
  /\ ~clash /\ ~crashed /\ Busy
  /\ disk' = Ready /\ irq' = TRUE
  /\ UNCHANGED <<queue, disk_flags, at, node, reg, sectors, history>>

(* What the drive is given; the head of the queue is no request and no     *)
(* command ("ATA CMD Error").                                              *)
Command(n) == [node |-> n, left |-> sectors[n], drq |-> FALSE]

make_request(c) ==
  /\ Step(c, "idle", "add1")
  /\ Len(sectors) < MaxRequests
  /\ \E s \in 1..MaxSectors : sectors' = Append(sectors, s)
  /\ node' = [node EXCEPT ![c] = Len(sectors) + 1]
  /\ company' = IF Live = {} /\ disk.left = 0 /\ ~disk.drq /\ ~irq THEN company
                ELSE company \union Live \union {Len(sectors) + 1}
  /\ clash' = (clash \/ \E d \in Callers : Submitting(d))
  /\ UNCHANGED <<queue, disk_flags, reg, drive, order, ended, moved, early, late, crashed>>

(* add_request: the four assignments of list_add_to_before, then count++.  *)
Link(c, from, to, field, n, value) ==
  /\ Step(c, from, to)
  /\ heap' = [heap EXCEPT ![field] = [@ EXCEPT ![n] = value]]
  /\ order' = IF from = "add4" THEN Append(order, node[c]) ELSE order
  /\ UNCHANGED <<in_using, block_request_count, disk_flags, node, reg, sectors, drive,
                 ended, moved, early, company, late, clash, crashed>>

(* Seeded fault: list_add_to_behind instead.                               *)
BugBehind(c) ==
  \/ Link(c, "add1", "add2", "next", node[c], heap.next[0])
  \/ Link(c, "add2", "add3", "prev", node[c], 0)
  \/ Link(c, "add3", "add4", "prev", heap.next[0], node[c])
  \/ Link(c, "add4", "load", "next", 0, node[c])

AddToBefore(c) ==
  \/ Link(c, "add1", "add2", "next", node[c], 0)
  \/ Link(c, "add2", "add3", "next", heap.prev[0], node[c])
  \/ Link(c, "add3", "add4", "prev", node[c], heap.prev[0])
  \/ Link(c, "add4", "load", "prev", 0, node[c])

LoadCount(c) ==
  /\ \/ Step(c, "load", "store")
     \/ Step(c, "unload", "unstore")
  /\ reg' = [reg EXCEPT ![c] = block_request_count]
  /\ UNCHANGED <<queue, disk_flags, node, sectors, drive, history>>

StoreCount(c) ==
  /\ \/ Step(c, "store", "flag") /\ block_request_count' = reg[c] + 1
     \/ Step(c, "unstore", "busy") /\ block_request_count' = reg[c] - 1
  /\ reg' = [reg EXCEPT ![c] = 0]
  /\ UNCHANGED <<heap, in_using, disk_flags, node, sectors, drive, history>>

(* Seeded faults: the flag is not set; the disk is started when the queue  *)
(* is empty, asked too late.                                               *)
BugFlag(c) ==
  Step(c, "flag", "test") /\ UNCHANGED <<queue, disk_flags, node, reg, sectors, drive, history>>


(* The rest of submit.                                                     *)
SetFlag(c) ==
  /\ Step(c, "flag", "test")
  /\ disk_flags' = 1
  /\ UNCHANGED <<queue, node, reg, sectors, drive, history>>

TestInUsing(c) ==
  /\ Step(c, "test", IF in_using = NULL THEN "take" ELSE "wait")
  /\ UNCHANGED <<queue, disk_flags, node, reg, sectors, drive, history>>

(* cmd_out as submit calls it, interrupts on: list_next, the two           *)
(* assignments of list_del, count--, and the command when the drive is not *)
(* busy.  An empty queue yields its own head.                              *)
cmd_out_take(c) ==
  /\ Step(c, "take", "del1")
  /\ in_using' = heap.next[0]
  /\ UNCHANGED <<heap, block_request_count, disk_flags, node, reg, sectors, drive, history>>

cmd_out_del(c) ==
  /\ \/ /\ Step(c, "del1", "del2")
        /\ heap' = [heap EXCEPT !.prev[heap.next[in_using]] = heap.prev[in_using]]
     \/ /\ Step(c, "del2", "unload")
        /\ heap' = [heap EXCEPT !.next[heap.prev[in_using]] = heap.next[in_using]]
  /\ UNCHANGED <<in_using, block_request_count, disk_flags, node, reg, sectors, drive, history>>

(* The request it took is the one it holds in a local variable: its own,   *)
(* or the head (QueueIsInOrder shows that it can be no other).             *)
cmd_out_command(c) ==
  /\ Step(c, "busy", "wait")
  /\ ~Busy
  /\ disk' = IF in_using = 0 THEN disk ELSE Command(node[c])
  /\ UNCHANGED <<queue, disk_flags, node, reg, sectors, irq, history>>

wait_for_finish(c) ==
  /\ Step(c, "wait", "idle")
  /\ disk_flags = 0
  /\ early' = IF node[c] \in moved THEN early ELSE early \union {node[c]}
  /\ node' = [node EXCEPT ![c] = 0]
  /\ UNCHANGED <<queue, disk_flags, reg, sectors, drive, order, ended, moved, company, late,
                 clash, crashed>>

Spin(c) == at[c] = "wait" /\ disk_flags # 0 /\ UNCHANGED vars
-----------------------------------------------------------------------------
(* cmd_out as end_request calls it, interrupts off: whole.  Its wait for   *)
(* the drive lasts until the next sector of the command that was ended is  *)
(* ready, whose interrupt stays latched and comes for the new command.     *)
cmd_out ==
  LET n == heap.next[0]
      d == IF disk.left > 0 THEN Ready
           ELSE [disk EXCEPT !.drq = FALSE]
  IN  /\ in_using' = n
      /\ heap' = list_del(heap, n)
      /\ block_request_count' = block_request_count - 1
      /\ disk' = IF n = 0 THEN d ELSE Command(n)
      /\ irq' = (disk.left > 0)

(* The handler of the command moves the sector, and end_request.           *)
end_request ==
  /\ moved' = IF disk.drq /\ disk.left = 0 THEN moved \union {disk.node} ELSE moved
  /\ ended' = ended \union {in_using}
  /\ order' = RemoveFirst(order, in_using)
  /\ disk_flags' = 0
  /\ IF block_request_count # 0 THEN cmd_out
     ELSE /\ in_using' = NULL
          /\ disk' = [disk EXCEPT !.drq = FALSE] /\ irq' = FALSE
          /\ UNCHANGED <<heap, block_request_count>>

(* disk_handler calls through in_using, which must be a request.           *)
disk_handler ==
  /\ ~clash /\ ~crashed /\ irq
  /\ IF in_using \in Nodes \ {0}
     THEN /\ end_request
          /\ late' = IF \E c \in Callers : at[c] \in {"flag", "test"} /\ node[c] = in_using
                     THEN late \union {in_using} ELSE late
          /\ clash' = (clash \/ \E c \in Callers :
                         \/ at[c] \in {"take", "del1", "del2", "unload", "unstore"}
                         \/ block_request_count # 0 /\ at[c] \in {"add2", "add3", "add4", "store"})
          /\ UNCHANGED crashed
     ELSE /\ crashed' = TRUE
          /\ UNCHANGED <<queue, disk_flags, drive, order, ended, moved, late, clash>>
  /\ UNCHANGED <<at, node, reg, sectors, company, early>>

Caller(c) ==
  AddToBefore(c) \/ LoadCount(c) \/ StoreCount(c) \/ SetFlag(c) \/ TestInUsing(c)
    \/ cmd_out_take(c) \/ cmd_out_del(c) \/ cmd_out_command(c) \/ wait_for_finish(c)

(* All requests are made, the CPU is stuck in a page fault, or two that    *)
(* write the queue met: it may be broken then, and is not followed on.     *)
Done == (clash \/ crashed \/ \A c \in Callers : at[c] = "idle") /\ UNCHANGED vars

Next ==
  \/ SectorReady \/ disk_handler \/ Done
  \/ \E c \in Callers : make_request(c) \/ Caller(c) \/ Spin(c)

(* The drive and the interrupt come, each caller gets the CPU; nobody has  *)
(* to ask.                                                                 *)
Spec ==
  /\ Init /\ [][Next]_vars
  /\ WF_vars(SectorReady) /\ WF_vars(disk_handler) /\ \A c \in Callers : WF_vars(Caller(c))
-----------------------------------------------------------------------------
TypeOK ==
  /\ heap \in [next : [Nodes -> Nodes], prev : [Nodes -> Nodes]]
  /\ in_using \in Nodes \union {NULL} /\ block_request_count \in Int /\ disk_flags \in {0, 1}
  /\ node \in [Callers -> Nodes]
  /\ disk \in [node : Nodes, left : 0..MaxSectors, drq : BOOLEAN] /\ irq \in BOOLEAN

(* The requests on the list, and how far a submit is with its lists.       *)
Queued == IF in_using = NULL THEN order ELSE Tail(order)
Linking == \E c \in Callers : at[c] \in {"add2", "add3", "add4", "del1", "del2"}
Counting == \E c \in Callers : at[c] \in {"load", "store"}
Uncounting == \E c \in Callers : at[c] \in {"unload", "unstore"}
Taking(c) == at[c] \in {"del1", "del2", "unload", "unstore"}

(* As long as no two that write the queue meet (two submits, or a submit   *)
(* and the interrupt within list_add_to_before, list_del, count++ or       *)
(* count--), the queue is the requests not ended, the oldest in use; a     *)
(* submit that starts the disk takes its own request; and the handler      *)
(* finds a request in use.  Two exceptions: a request of several sectors   *)
(* was ended by its first interrupt, and the next finds none; or a         *)
(* request ended before its own submit had asked for in_using, and cmd_out *)
(* takes the head of the empty queue for a request.                        *)
QueueIsInOrder ==
  /\ TypeOK
  /\ crashed => \E r \in 1..Len(sectors) : sectors[r] > 1
  /\ ~clash => (in_using = 0 => late # {})
  /\ ~clash /\ in_using # 0 =>
       /\ in_using # NULL => order # <<>> /\ in_using = Head(order)
       /\ \A c \in Callers : Taking(c) => in_using = node[c]
       /\ ~Linking =>
            LET k == Len(Queued)
            IN  /\ \A i \in 0..k : Walk(heap, 0, k)[i] = IF i = k THEN 0 ELSE Queued[i + 1]
                /\ block_request_count =
                     IF Counting THEN k - 1 ELSE IF Uncounting THEN k + 1 ELSE k

(* A caller that returns before its last sector was moved was not alone:   *)
(* end_request sets the flag to 0 for whoever waits, and starts the next   *)
(* request without setting it again.  Nor is it alone while the drive      *)
(* still has sectors of a request that was ended by its first: cmd_out     *)
(* waits for the next of them with the new request already in use, and the *)
(* interrupt ends that one.  Alone, it returns too soon only from several  *)
(* sectors.                                                                *)
AloneWaitsToTheEnd == early \subseteq company \union {r \in 1..Len(sectors) : sectors[r] > 1}

=============================================================================
