----------------------------- MODULE ThreadPool -----------------------------
(***************************************************************************)
(* web_server: the thread pool (lib.rs) and the main function that feeds   *)
(* it one job per connection and drops it (main.rs).                       *)
(*                                                                         *)
(* Workers share the receiver behind a mutex and hold it while they wait   *)
(* in recv; the guard is a temporary and is gone before the job runs.  A   *)
(* job may panic (handle_connection unwraps) or never end (a client that   *)
(* sends nothing).  A worker that panics takes nothing with it; when the   *)
(* last one is gone so is the receiver, and send fails.                    *)
(***************************************************************************)
EXTENDS Naturals, Sequences, FiniteSets

CONSTANTS NumWorkers, NumJobs   \* size of the pool, connections main takes

ASSUME ThreadPoolAssumption == NumWorkers \in Nat \ {0} /\ NumJobs \in Nat

Workers == 1..NumWorkers
Jobs == 1..NumJobs
Terminate == 0   \* a message is the number of a job, or this
None == 0

VARIABLES
  main,       (* where the main thread is                                  *)
  next,       (* the worker its loop in drop is at                         *)
  panicking,  (* it drops the pool because it panicked                     *)
  accepted,   (* jobs sent                                                 *)
  channel,    (* messages sent and not received                            *)
  mutex,      (* the worker that holds the receiver                        *)
  worker,     (* where each worker is                                      *)
  job,        (* the job it runs                                           *)
  finished    (* jobs that ran to their end                                *)

pool == <<mutex, worker, job, finished>>
caller == <<main, next, panicking, accepted>>
poolVars == <<caller, channel, pool>>

PoolTypeOK ==
  /\ main \in {"execute", "terminate", "join", "returned", "unwinding", "exited"}
  /\ next \in Workers
  /\ panicking \in BOOLEAN
  /\ accepted \in 0..NumJobs
  /\ channel \in Seq(Jobs \cup {Terminate})
  /\ mutex \in Workers \cup {None}
  /\ worker \in [Workers -> {"lock", "recv", "job", "stopped", "dead"}]
  /\ job \in [Workers -> Jobs \cup {None}]
  /\ finished \subseteq Jobs

PoolInit ==
  /\ main = "execute" /\ next = 1 /\ panicking = FALSE
  /\ accepted = 0
  /\ channel = <<>>
  /\ mutex = None
  /\ worker = [w \in Workers |-> "lock"]
  /\ job = [w \in Workers |-> None]
  /\ finished = {}

Runs(w) == worker[w] \notin {"stopped", "dead"}

(* The receiver lives in the workers' closures only.                       *)
Receiver == \E w \in Workers : Runs(w)
-----------------------------------------------------------------------------
(* main.  A panic drops the pool, which runs drop as well.                 *)
DropPool(byPanic) == main' = "terminate" /\ panicking' = byPanic /\ UNCHANGED next

Execute ==
  /\ main = "execute" /\ accepted < NumJobs
  /\ IF Receiver
     THEN /\ channel' = Append(channel, accepted + 1)
          /\ accepted' = accepted + 1
          /\ UNCHANGED <<main, next, panicking>>
     ELSE DropPool(TRUE) /\ UNCHANGED <<accepted, channel>>
  /\ UNCHANGED pool

Close ==
  /\ main = "execute" /\ accepted = NumJobs
  /\ DropPool(FALSE)
  /\ UNCHANGED <<accepted, channel, pool>>

AcceptFails ==
  /\ main = "execute" /\ accepted < NumJobs
  /\ DropPool(TRUE)
  /\ UNCHANGED <<accepted, channel, pool>>
-----------------------------------------------------------------------------
(* drop.  A panic in it while the thread panics already aborts.            *)
Panic == main' = (IF panicking THEN "exited" ELSE "unwinding") /\ UNCHANGED next

Last == next = NumWorkers

BugSendTerminate ==   \* sends one message, for all the workers
  /\ main = "terminate"
  /\ IF Receiver
     THEN channel' = Append(channel, Terminate) /\ main' = "join" /\ UNCHANGED next
     ELSE Panic /\ UNCHANGED channel
  /\ UNCHANGED <<panicking, accepted, pool>>

SendTerminate ==
  /\ main = "terminate"
  /\ IF Receiver
     THEN /\ channel' = Append(channel, Terminate)
          /\ main' = IF Last THEN "join" ELSE "terminate"
          /\ next' = IF Last THEN 1 ELSE next + 1
     ELSE Panic /\ UNCHANGED channel
  /\ UNCHANGED <<panicking, accepted, pool>>

(* The loop over the workers goes on to the next one, or drop returns.     *)
NextWorker ==
  /\ main' = IF ~Last THEN "join" ELSE IF panicking THEN "exited" ELSE "returned"
  /\ next' = IF Last THEN next ELSE next + 1

BugJoin ==   \* takes no notice of how the thread ended
  /\ main = "join" /\ ~Runs(next)
  /\ NextWorker
  /\ UNCHANGED <<panicking, accepted, channel, pool>>

Join ==
  /\ main = "join" /\ ~Runs(next)
  /\ IF worker[next] = "dead" THEN Panic ELSE NextWorker
  /\ UNCHANGED <<panicking, accepted, channel, pool>>

(* The unwinding drops the sender, then the process ends.                  *)
Exit ==
  /\ main = "unwinding" /\ main' = "exited"
  /\ UNCHANGED <<next, panicking, accepted, channel, pool>>
-----------------------------------------------------------------------------
(* A worker.                                                               *)
Goes(w, from, to) ==
  /\ main # "exited"
  /\ worker[w] = from /\ worker' = [worker EXCEPT ![w] = to]

(* No worker panics with the guard: a job runs without it, and recv does   *)
(* not fail, as EnoughTerminates says.  So unwrap finds no poison.         *)
Lock(w) ==
  /\ mutex = None /\ mutex' = w
  /\ Goes(w, "lock", "recv")
  /\ UNCHANGED <<caller, channel, job, finished>>

BugReceiveJob(w) ==   \* the guard lives until the job is done
  /\ channel # <<>> /\ Head(channel) # Terminate
  /\ Goes(w, "recv", "job")
  /\ job' = [job EXCEPT ![w] = Head(channel)]
  /\ channel' = Tail(channel)
  /\ UNCHANGED <<caller, mutex, finished>>

ReceiveJob(w) ==
  /\ channel # <<>> /\ Head(channel) # Terminate
  /\ Goes(w, "recv", "job")
  /\ job' = [job EXCEPT ![w] = Head(channel)]
  /\ channel' = Tail(channel)
  /\ mutex' = None
  /\ UNCHANGED <<caller, finished>>

BugReceiveTerminate(w) ==   \* the loop goes on
  /\ channel # <<>> /\ Head(channel) = Terminate
  /\ Goes(w, "recv", "lock")
  /\ channel' = Tail(channel)
  /\ mutex' = None
  /\ UNCHANGED <<caller, job, finished>>

ReceiveTerminate(w) ==
  /\ channel # <<>> /\ Head(channel) = Terminate
  /\ Goes(w, "recv", "stopped")
  /\ channel' = Tail(channel)
  /\ mutex' = None
  /\ UNCHANGED <<caller, job, finished>>

FinishJob(w) ==
  /\ Goes(w, "job", "lock")
  /\ job' = [job EXCEPT ![w] = None]
  /\ finished' = finished \cup {job[w]}
  /\ UNCHANGED <<caller, channel, mutex>>

JobPanics(w) ==
  /\ Goes(w, "job", "dead")
  /\ job' = [job EXCEPT ![w] = None]
  /\ UNCHANGED <<caller, channel, mutex, finished>>

WorkerLoop(w) == Lock(w) \/ ReceiveJob(w) \/ ReceiveTerminate(w)
RunJob(w) == FinishJob(w) \/ JobPanics(w)

Drop == SendTerminate \/ Join \/ Exit

(* The program has ended.                                                  *)
Ended == main \in {"returned", "exited"} /\ UNCHANGED poolVars

PoolNext ==
  \/ Execute \/ Close \/ AcceptFails \/ Drop \/ Ended
  \/ \E w \in Workers : WorkerLoop(w) \/ RunJob(w)

(* Threads that can go on do.  Nothing is asked of the jobs, which may     *)
(* wait for their clients for ever, nor of the clients.                    *)
PoolSpec ==
  /\ PoolInit /\ [][PoolNext]_poolVars
  /\ WF_poolVars(Drop) /\ \A w \in Workers : WF_poolVars(WorkerLoop(w))
-----------------------------------------------------------------------------
(* When drop returns, all that execute took has run to its end and every   *)
(* worker has stopped of itself: no job is lost, none runs on, and a       *)
(* job's panic is not passed over in silence.                              *)
ReturnMeansDone ==
  /\ PoolTypeOK
  /\ main = "returned" =>
       /\ finished = 1..accepted /\ channel = <<>>
       /\ \A w \in Workers : worker[w] = "stopped"

(* Each worker that still runs once all messages are sent has a Terminate  *)
(* to take, behind all the jobs: none takes another's, whatever the order, *)
(* and none finds the channel empty and the sender gone.                   *)
EnoughTerminates ==
  main \in {"join", "unwinding"} =>
    Cardinality({w \in Workers : Runs(w)})
      <= Cardinality({i \in DOMAIN channel : channel[i] = Terminate})

(* A job is taken in the end, unless the program ends or every worker is   *)
(* dead, stopped or for ever in a job: one long job delays no other.       *)
JobsStart ==
  \/ \A j \in Jobs : [](j \in {channel[i] : i \in DOMAIN channel}
                        => <>(j \notin {channel[i] : i \in DOMAIN channel}))
  \/ <>[](\A w \in Workers : worker[w] \in {"job", "dead", "stopped"})
  \/ <>(main = "exited")

(* drop comes to an end, or a job never does.                              *)
DropEnds ==
  \/ main = "terminate" ~> main \in {"returned", "exited"}
  \/ \E w \in Workers : <>[](worker[w] = "job")
=============================================================================
