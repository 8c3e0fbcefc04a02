----------------------------- MODULE ThreadPool -----------------------------
(***************************************************************************)
(* The worker pool of common/sys/thread_pool.cpp: N pinned workers and the *)
(* single thread ("Main") that creates the pool, submits work to it and    *)
(* destroys it.  A step is one critical section of work_mutex, or the part *)
(* of one that ends in a pthread_cond_wait; user functions run outside the *)
(* mutex.  The wait sets of the five condition variables are the threads   *)
(* whose program counter is the corresponding "...Wait" value.             *)
(***************************************************************************)
EXTENDS Integers, Sequences, FiniteSets

CONSTANTS
  N,            \* number of entries of --thread_pool, tm->thread_num
  Jobs,         \* the (func, arg) pairs a client hands to tpool_run_all
  NoJob,        \* parallel_func / parallel_arg before the first round
  Readings,     \* what current_cpu() may return, see Reading
  MaxRounds,    \* bound on the calls of tpool_run_all
  MaxAdds,      \* bound on the calls of tpool_add_work
  Spurious      \* may pthread_cond_wait return without a signal?

Reading == {"requested", "other", "unknown"}

ASSUME PoolAssumption ==
  /\ N \in Nat \ {0}
  /\ NoJob \notin Jobs
  /\ Readings \subseteq Reading
  /\ MaxRounds \in Nat
  /\ MaxAdds \in Nat
  /\ Spurious \in BOOLEAN

Worker == 1 .. N
Free == 0              \* nobody holds work_mutex
Main == N + 1          \* the client thread, as an owner of work_mutex

VARIABLES
  mutex,               \* the owner of work_mutex
  queue,               \* work_first .. work_last, items numbered by submission
  workingCnt, threadCnt, startupReadyCnt, affinityFailureCnt,
  readyCnt, doneCnt,   \* parallel_ready_cnt, parallel_done_cnt
  generation, startGeneration,
  parallelJob,         \* parallel_func and parallel_arg
  stop,
  cpu,                 \* the cpu_observation / migration / mismatch counters
  wpc, observed,       \* worker: program counter, observed_parallel_generation
  wjob, item,          \* worker: captured parallel job, dequeued work
  mpc, spawned,        \* client: program counter, index i of tpool_create
  call, pending,       \* client: who called tpool_wait, arguments of run_all
  window,              \* client: has *start been stamped and *end not yet?
  adds,                \* number of tpool_add_work calls so far
  ran, completed,      \* history: parallel calls per worker in this round,
                       \* queue items whose function returned,
  unpinned,            \* workers whose pin_current_thread failed,
  unreadable           \* invocations whose CPU could not be read

queueVars == <<queue, workingCnt>>
lifeVars == <<threadCnt, stop>>
startupVars == <<startupReadyCnt, affinityFailureCnt>>
roundVars == <<readyCnt, doneCnt, generation, startGeneration, parallelJob>>
poolVars == <<queueVars, lifeVars, startupVars, roundVars, cpu>>
roundLocals == <<observed, wjob>>
workerVars == <<wpc, roundLocals, item>>
callVars == <<call, pending>>
clientVars == <<mpc, spawned, callVars, window, adds>>
historyVars == <<ran, completed, unpinned, unreadable>>
vars == <<mutex, poolVars, workerVars, clientVars, historyVars>>

(***************************************************************************)
(* Condition variables.  Only workers wait on work_cond (at "idleWait")    *)
(* and on parallel_start_cond (at "gateWait"), both of which are only      *)
(* broadcast; only the client waits on the other three, which are only     *)
(* signalled.  parallel_ready_cond serves startup and every round.         *)
(***************************************************************************)
WakeOf ==
  [idleWait |-> "idleWoken", gateWait |-> "gateWoken",
   startupWait |-> "startupWoken", workingWait |-> "wait",
   readyWait |-> "readyWoken", doneWait |-> "doneWoken"]

ReadyCond == {"startupWait", "readyWait"}
WorkingCond == {"workingWait"}
DoneCond == {"doneWait"}

(* Mutants: one waiter is signalled instead of all, or none is. *)
SignalOneWorker(waits) ==
  LET asleep == {w \in Worker : wpc[w] \in waits}
  IN  IF asleep = {} THEN UNCHANGED wpc
      ELSE LET w == CHOOSE w \in asleep : TRUE
           IN  wpc' = [wpc EXCEPT ![w] = WakeOf[@]]

WakeNobody(waits) == UNCHANGED wpc

Broadcast(waits) ==
  wpc' = [w \in Worker |-> IF wpc[w] \in waits THEN WakeOf[wpc[w]] ELSE wpc[w]]

Signal(waits) == mpc' = IF mpc \in waits THEN WakeOf[mpc] ELSE mpc

SignalIf(condition, waits) == IF condition THEN Signal(waits) ELSE UNCHANGED mpc

MoveWorker(w, to) == wpc' = [wpc EXCEPT ![w] = to]

(* Mutant: a thread that was elsewhere before the call but came back is no *)
(* mismatch.                                                               *)
RecordAfterOnly(c, before, after) ==
  IF "unknown" \in {before, after} THEN c
  ELSE [observations |-> c.observations + 1,
        migrations   |-> c.migrations + (IF before # after THEN 1 ELSE 0),
        mismatches   |-> c.mismatches + (IF after = "other" THEN 1 ELSE 0)]

(* record_cpu_observation on the counters c. *)
Record(c, before, after) ==
  IF "unknown" \in {before, after} THEN c
  ELSE [observations |-> c.observations + 1,
        migrations   |-> c.migrations + (IF before # after THEN 1 ELSE 0),
        mismatches   |-> c.mismatches
                         + (IF "other" \in {before, after} THEN 1 ELSE 0)]

(* Mutants: the last worker is not waited for. *)
AllCheckedInEarly == startupReadyCnt + 1 >= N
AllReadyEarly == readyCnt + 1 >= N
AllDoneEarly == doneCnt + 1 >= N

(* The conditions the client waits for. *)
AllCheckedIn == startupReadyCnt = N
AllReady == readyCnt = N
AllDone == doneCnt = N

(* Mutants: tpool_wait looks only at the queue, or only at working_cnt. *)
BusyQueued == queue # <<>> \/ (stop /\ threadCnt # 0)
BusyWorking == (~stop /\ workingCnt # 0) \/ (stop /\ threadCnt # 0)

(* The condition tpool_wait waits on. *)
Busy ==
  \/ queue # <<>>
  \/ ~stop /\ workingCnt # 0
  \/ stop /\ threadCnt # 0

(* Mutant: working_cnt is tested before it is decremented. *)
DrainedStale(count) == ~stop /\ workingCnt = 0 /\ queue = <<>>

(* When a worker that leaves working_cnt at count tells the client. *)
Drained(count) == ~stop /\ count = 0 /\ queue = <<>>

(* Mutant: workers do not wait for the start of their round. *)
NoGate(w) == TRUE

(* Has the round that worker w joined been started? *)
GateOpen(w) == startGeneration >= observed[w]

-----------------------------------------------------------------------------
(* tpool_create: calloc, the initialisers and the lock that is held while  *)
(* the threads are being created.                                          *)
Init ==
  /\ mutex = Main
  /\ queue = <<>>
  /\ workingCnt = 0
  /\ threadCnt = N
  /\ startupReadyCnt = 0
  /\ affinityFailureCnt = 0
  /\ readyCnt = 0
  /\ doneCnt = 0
  /\ generation = 0
  /\ startGeneration = 0
  /\ parallelJob = NoJob
  /\ stop = FALSE
  /\ cpu = [observations |-> 0, migrations |-> 0, mismatches |-> 0]
  /\ wpc = [w \in Worker |-> "absent"]
  /\ observed = [w \in Worker |-> 0]
  /\ wjob = [w \in Worker |-> NoJob]
  /\ item = [w \in Worker |-> 0]
  /\ mpc = "spawn"
  /\ spawned = 0
  /\ call = "none"
  /\ pending = NoJob
  /\ window = FALSE
  /\ adds = 0
  /\ ran = [w \in Worker |-> 0]
  /\ completed = {}
  /\ unpinned = {}
  /\ unreadable = 0

(* pthread_create succeeds for the next index. *)
SpawnWorker ==
  /\ mpc = "spawn"
  /\ spawned < N
  /\ spawned' = spawned + 1
  /\ MoveWorker(spawned + 1, "start")
  /\ UNCHANGED <<mutex, poolVars, roundLocals, item, mpc, callVars, window,
                 adds, historyVars>>

(* pthread_create fails: stop, wake, unlock, and join the threads made so  *)
(* far.                                                                    *)
SpawnFails ==
  /\ mpc = "spawn"
  /\ spawned < N
  /\ stop' = TRUE
  /\ Broadcast({"idleWait"})
  /\ mutex' = Free
  /\ mpc' = "unwind"
  /\ UNCHANGED <<queueVars, threadCnt, startupVars, roundVars, cpu,
                 roundLocals, item, spawned, callVars, window, adds,
                 historyVars>>

(* The loop of pthread_join calls of the failure path, then free(tm). *)
Unwind ==
  /\ mpc = "unwind"
  /\ \A w \in 1 .. spawned : wpc[w] = "exited"
  /\ mpc' = "gone"
  /\ UNCHANGED <<mutex, poolVars, workerVars, spawned, callVars, window, adds,
                 historyVars>>

(* while (startup_ready_cnt != num) pthread_cond_wait(parallel_ready_cond) *)
StartupWait ==
  /\ mpc = "spawn" /\ spawned = N
  /\ ~AllCheckedIn
  /\ mpc' = "startupWait"
  /\ mutex' = Free
  /\ UNCHANGED <<poolVars, workerVars, spawned, callVars, window, adds,
                 historyVars>>

(* Every worker has checked in: the pool is handed out, or destroyed when  *)
(* one of them could not be pinned.                                        *)
StartupDone ==
  /\ mpc = "spawn" /\ spawned = N
  /\ AllCheckedIn
  /\ mpc' = IF affinityFailureCnt # 0 THEN "reject" ELSE "ready"
  /\ mutex' = Free
  /\ UNCHANGED <<poolVars, workerVars, spawned, callVars, window, adds,
                 historyVars>>

(* The client returns from pthread_cond_wait with work_mutex held. *)
ClientReacquire ==
  /\ mpc \in {"startupWoken", "readyWoken", "doneWoken"}
  /\ mutex = Free
  /\ mutex' = Main
  /\ mpc' = [startupWoken |-> "spawn", readyWoken |-> "arming",
             doneWoken |-> "running"][mpc]
  /\ UNCHANGED <<poolVars, workerVars, spawned, callVars, window, adds,
                 historyVars>>

-----------------------------------------------------------------------------
(* tpool_add_work *)
AddWork ==
  /\ mpc = "ready"
  /\ mutex = Free
  /\ adds < MaxAdds
  /\ adds' = adds + 1
  /\ queue' = Append(queue, adds + 1)
  /\ Broadcast({"idleWait"})
  /\ UNCHANGED <<mutex, workingCnt, lifeVars, startupVars, roundVars, cpu,
                 roundLocals, item, mpc, spawned, callVars, window,
                 historyVars>>

CallWait ==
  /\ mpc = "ready"
  /\ mpc' = "wait"
  /\ call' = "tpool_wait"
  /\ UNCHANGED <<mutex, poolVars, workerVars, spawned, pending, window, adds,
                 historyVars>>

CallRunAll(j) ==
  /\ mpc = "ready"
  /\ generation < MaxRounds
  /\ mpc' = "wait"
  /\ call' = "tpool_run_all"
  /\ pending' = j
  /\ UNCHANGED <<mutex, poolVars, workerVars, spawned, window, adds,
                 historyVars>>

(* tpool_wait: one evaluation of its loop, on entry or after a wakeup. *)
WaitBlocks ==
  /\ mpc = "wait"
  /\ mutex = Free
  /\ Busy
  /\ mpc' = "workingWait"
  /\ UNCHANGED <<mutex, poolVars, workerVars, spawned, callVars, window, adds,
                 historyVars>>

WaitReturns ==
  /\ mpc = "wait"
  /\ mutex = Free
  /\ ~Busy
  /\ mpc' = IF call = "tpool_run_all" THEN "arm" ELSE "ready"
  /\ UNCHANGED <<mutex, poolVars, workerVars, spawned, callVars, window, adds,
                 historyVars>>

(* tpool_run_all after its tpool_wait: a new generation is published. *)
Arm ==
  /\ mpc = "arm"
  /\ mutex = Free
  /\ ~stop
  /\ parallelJob' = pending
  /\ readyCnt' = 0
  /\ doneCnt' = 0
  /\ generation' = generation + 1
  /\ Broadcast({"idleWait"})
  /\ mutex' = Main
  /\ mpc' = "arming"
  /\ ran' = [w \in Worker |-> 0]
  /\ UNCHANGED <<queueVars, lifeVars, startupVars, startGeneration, cpu,
                 roundLocals, item, spawned, callVars, window, adds,
                 completed, unpinned, unreadable>>

AwaitReady ==
  /\ mpc = "arming"
  /\ mutex = Main
  /\ ~AllReady /\ ~stop
  /\ mpc' = "readyWait"
  /\ mutex' = Free
  /\ UNCHANGED <<poolVars, workerVars, spawned, callVars, window, adds,
                 historyVars>>

(* The start timestamp, then the gate is opened for this generation. *)
OpenGate ==
  /\ mpc = "arming"
  /\ mutex = Main
  /\ AllReady /\ ~stop
  /\ window' = TRUE
  /\ startGeneration' = generation
  /\ Broadcast({"gateWait"})
  /\ mpc' = "running"
  /\ UNCHANGED <<mutex, queueVars, lifeVars, startupVars, readyCnt, doneCnt,
                 generation, parallelJob, cpu, roundLocals, item, spawned,
                 callVars, adds, historyVars>>

AwaitDone ==
  /\ mpc = "running"
  /\ mutex = Main
  /\ ~AllDone /\ ~stop
  /\ mpc' = "doneWait"
  /\ mutex' = Free
  /\ UNCHANGED <<poolVars, workerVars, spawned, callVars, window, adds,
                 historyVars>>

(* The end timestamp; tpool_run_all returns true. *)
RunAllReturns ==
  /\ mpc = "running"
  /\ mutex = Main
  /\ AllDone /\ ~stop
  /\ window' = FALSE
  /\ mutex' = Free
  /\ mpc' = "ready"
  /\ UNCHANGED <<poolVars, workerVars, spawned, callVars, adds, historyVars>>

(* tpool_destroy, called by the client or by tpool_create on a pool with   *)
(* an unpinned worker: queued work is dropped.                             *)
Destroy ==
  /\ mpc \in {"ready", "reject"}
  /\ mutex = Free
  /\ queue' = <<>>
  /\ stop' = TRUE
  /\ Broadcast({"idleWait", "gateWait"})
  /\ mpc' = "join"
  /\ UNCHANGED <<mutex, workingCnt, threadCnt, startupVars, roundVars, cpu,
                 roundLocals, item, spawned, callVars, window, adds,
                 historyVars>>

(* The loop of pthread_join calls of tpool_destroy, then free(tm). *)
Join ==
  /\ mpc = "join"
  /\ \A w \in Worker : wpc[w] = "exited"
  /\ mpc' = "gone"
  /\ UNCHANGED <<mutex, poolVars, workerVars, spawned, callVars, window, adds,
                 historyVars>>

-----------------------------------------------------------------------------
(* tpool_worker: the check-in of a new thread, after its attempt to pin    *)
(* itself.                                                                 *)
CheckIn(w, affinityFailed) ==
  /\ wpc[w] = "start"
  /\ mutex = Free
  /\ mutex' = w
  /\ affinityFailureCnt' = affinityFailureCnt + (IF affinityFailed THEN 1 ELSE 0)
  /\ startupReadyCnt' = startupReadyCnt + 1
  /\ unpinned' = IF affinityFailed THEN unpinned \cup {w} ELSE unpinned
  /\ Signal(ReadyCond)
  /\ MoveWorker(w, "head")
  /\ UNCHANGED <<queueVars, lifeVars, roundVars, cpu, roundLocals, item,
                 spawned, callVars, window, adds, ran, completed,
                 unreadable>>

(* The worker returns from pthread_cond_wait with work_mutex held. *)
WorkerReacquire(w) ==
  /\ wpc[w] \in {"idleWoken", "gateWoken"}
  /\ mutex = Free
  /\ mutex' = w
  /\ MoveWorker(w, IF wpc[w] = "idleWoken" THEN "head" ELSE "gate")
  /\ UNCHANGED <<poolVars, roundLocals, item, clientVars, historyVars>>

(* The head of the loop, with the mutex held: nothing to do. *)
IdleWait(w) ==
  /\ wpc[w] = "head"
  /\ queue = <<>> /\ generation = observed[w] /\ ~stop
  /\ MoveWorker(w, "idleWait")
  /\ mutex' = Free
  /\ UNCHANGED <<poolVars, roundLocals, item, clientVars, historyVars>>

(* if (tm->stop) break, at the head of the loop or behind the gate. *)
Exit(w) ==
  /\ wpc[w] \in {"head", "gate"}
  /\ stop
  /\ threadCnt' = threadCnt - 1
  /\ Signal(WorkingCond)
  /\ MoveWorker(w, "exited")
  /\ mutex' = Free
  /\ UNCHANGED <<queueVars, stop, startupVars, roundVars, cpu, roundLocals,
                 item, spawned, callVars, window, adds, historyVars>>

(* A new generation, which has priority over the queue. *)
JoinRound(w) ==
  /\ wpc[w] = "head"
  /\ generation # observed[w] /\ ~stop
  /\ observed' = [observed EXCEPT ![w] = generation]
  /\ wjob' = [wjob EXCEPT ![w] = parallelJob]
  /\ readyCnt' = readyCnt + 1
  /\ SignalIf(readyCnt + 1 = N, ReadyCond)
  /\ MoveWorker(w, "gate")
  /\ UNCHANGED <<mutex, queueVars, lifeVars, startupVars, doneCnt, generation,
                 startGeneration, parallelJob, cpu, item, spawned, callVars,
                 window, adds, historyVars>>

GateWait(w) ==
  /\ wpc[w] = "gate"
  /\ ~GateOpen(w) /\ ~stop
  /\ MoveWorker(w, "gateWait")
  /\ mutex' = Free
  /\ UNCHANGED <<poolVars, roundLocals, item, clientVars, historyVars>>

(* The gate is open: unlock and call parallel_func(parallel_arg). *)
RunParallel(w) ==
  /\ wpc[w] = "gate"
  /\ GateOpen(w) /\ ~stop
  /\ MoveWorker(w, "parallel")
  /\ mutex' = Free
  /\ ran' = [ran EXCEPT ![w] = @ + 1]
  /\ UNCHANGED <<poolVars, roundLocals, item, clientVars, completed, unpinned,
                 unreadable>>

(* parallel_func returned: count it and continue with the mutex held. *)
FinishParallel(w, before, after) ==
  /\ wpc[w] = "parallel"
  /\ mutex = Free
  /\ mutex' = w
  /\ cpu' = Record(cpu, before, after)
  /\ unreadable' = unreadable + (IF "unknown" \in {before, after} THEN 1 ELSE 0)
  /\ doneCnt' = doneCnt + 1
  /\ SignalIf(doneCnt + 1 = N, DoneCond)
  /\ MoveWorker(w, "head")
  /\ UNCHANGED <<queueVars, lifeVars, startupVars, readyCnt, generation,
                 startGeneration, parallelJob, roundLocals, item, spawned,
                 callVars, window, adds, ran, completed, unpinned>>

(* tpool_work_get, then unlock and call work->func(work->arg). *)
TakeWork(w) ==
  /\ wpc[w] = "head"
  /\ queue # <<>> /\ generation = observed[w] /\ ~stop
  /\ item' = [item EXCEPT ![w] = queue[1]]
  /\ queue' = Tail(queue)
  /\ workingCnt' = workingCnt + 1
  /\ MoveWorker(w, "queued")
  /\ mutex' = Free
  /\ UNCHANGED <<lifeVars, startupVars, roundVars, cpu, roundLocals,
                 clientVars, historyVars>>

(* work->func returned: its CPU observation is a critical section of its   *)
(* own, then the item is freed.                                            *)
RecordWork(w, before, after) ==
  /\ wpc[w] = "queued"
  /\ mutex = Free
  /\ cpu' = Record(cpu, before, after)
  /\ unreadable' = unreadable + (IF "unknown" \in {before, after} THEN 1 ELSE 0)
  /\ completed' = completed \cup {item[w]}
  /\ MoveWorker(w, "uncount")
  /\ UNCHANGED <<mutex, queueVars, lifeVars, startupVars, roundVars,
                 roundLocals, item, clientVars, ran, unpinned>>

(* working_cnt--, a signal when the pool has drained, and around again. *)
Uncount(w) ==
  /\ wpc[w] = "uncount"
  /\ mutex = Free
  /\ mutex' = w
  /\ workingCnt' = workingCnt - 1
  /\ SignalIf(Drained(workingCnt - 1), WorkingCond)
  /\ item' = [item EXCEPT ![w] = 0]
  /\ MoveWorker(w, "head")
  /\ UNCHANGED <<queue, lifeVars, startupVars, roundVars, cpu, roundLocals,
                 spawned, callVars, window, adds, historyVars>>

-----------------------------------------------------------------------------
(* pthread_cond_wait may return although nobody signalled. *)
SpuriousWorker(w) ==
  /\ Spurious
  /\ wpc[w] \in {"idleWait", "gateWait"}
  /\ MoveWorker(w, WakeOf[wpc[w]])
  /\ UNCHANGED <<mutex, poolVars, roundLocals, item, clientVars, historyVars>>

SpuriousClient ==
  /\ Spurious
  /\ mpc \in ReadyCond \cup WorkingCond \cup DoneCond
  /\ mpc' = WakeOf[mpc]
  /\ UNCHANGED <<mutex, poolVars, workerVars, spawned, callVars, window, adds,
                 historyVars>>

(* After tpool_destroy, or a failed tpool_create, nothing is left to run. *)
Terminated ==
  /\ mpc = "gone"
  /\ UNCHANGED vars

ClientStep ==
  \/ SpawnWorker \/ Unwind
  \/ StartupWait \/ StartupDone \/ ClientReacquire
  \/ WaitBlocks \/ WaitReturns
  \/ Arm \/ AwaitReady \/ OpenGate \/ AwaitDone \/ RunAllReturns
  \/ Join

ClientCall ==
  \/ SpawnFails
  \/ AddWork
  \/ CallWait
  \/ \E j \in Jobs : CallRunAll(j)
  \/ Destroy

WorkerStep(w) ==
  \/ \E failed \in BOOLEAN : CheckIn(w, failed)
  \/ WorkerReacquire(w)
  \/ IdleWait(w) \/ Exit(w)
  \/ JoinRound(w) \/ GateWait(w) \/ RunParallel(w)
  \/ \E before, after \in Readings : FinishParallel(w, before, after)
  \/ TakeWork(w)
  \/ \E before, after \in Readings : RecordWork(w, before, after)
  \/ Uncount(w)

Next ==
  \/ ClientStep
  \/ ClientCall
  \/ \E w \in Worker : WorkerStep(w)
  \/ \E w \in Worker : SpuriousWorker(w)
  \/ SpuriousClient
  \/ Terminated

Spec == Init /\ [][Next]_vars

(* A thread that can take a step eventually does: the operating system     *)
(* schedules runnable threads, and the benchmark functions a worker calls  *)
(* all return.  What the client decides to call next is not fair, except   *)
(* that tpool_create does destroy a pool it rejects.                       *)
Fairness ==
  /\ WF_vars(ClientStep)
  /\ WF_vars(mpc = "reject" /\ Destroy)
  /\ \A w \in Worker : WF_vars(WorkerStep(w))

FairSpec == Spec /\ Fairness
-----------------------------------------------------------------------------
ClientPC ==
  {"spawn", "unwind", "startupWait", "startupWoken", "reject", "ready", "wait",
   "workingWait", "arm", "arming", "readyWait", "readyWoken", "running",
   "doneWait", "doneWoken", "join", "gone"}

WorkerPC ==
  {"absent", "start", "head", "idleWait", "idleWoken", "gate", "gateWait",
   "gateWoken", "parallel", "queued", "uncount", "exited"}

(* Every variable keeps its type; in particular the unsigned counters of   *)
(* struct tpool never wrap below zero.                                     *)
TypeOK ==
  /\ mutex \in Worker \cup {Free, Main}
  /\ queue \in Seq(1 .. MaxAdds)
  /\ workingCnt \in 0 .. N
  /\ threadCnt \in 0 .. N
  /\ startupReadyCnt \in 0 .. N
  /\ affinityFailureCnt \in 0 .. N
  /\ readyCnt \in 0 .. N
  /\ doneCnt \in 0 .. N
  /\ generation \in 0 .. MaxRounds
  /\ startGeneration \in 0 .. MaxRounds
  /\ parallelJob \in Jobs \cup {NoJob}
  /\ stop \in BOOLEAN
  /\ cpu \in [observations : Nat, migrations : Nat, mismatches : Nat]
  /\ wpc \in [Worker -> WorkerPC]
  /\ observed \in [Worker -> 0 .. MaxRounds]
  /\ wjob \in [Worker -> Jobs \cup {NoJob}]
  /\ item \in [Worker -> 0 .. MaxAdds]
  /\ mpc \in ClientPC
  /\ spawned \in 0 .. N
  /\ call \in {"none", "tpool_wait", "tpool_run_all"}
  /\ pending \in Jobs \cup {NoJob}
  /\ window \in BOOLEAN
  /\ adds \in 0 .. MaxAdds
  /\ ran \in [Worker -> Nat]
  /\ completed \in SUBSET (1 .. MaxAdds)
  /\ unpinned \in SUBSET Worker
  /\ unreadable \in Nat

(* Nobody sleeps through a wakeup: a thread blocked in pthread_cond_wait   *)
(* still has the condition that its while loop waits for unfulfilled.      *)
(* parallel_ready_cond, working_cond and parallel_done_cond are signalled  *)
(* only at the step that reaches the limit, so a missed one is final.      *)
NoLostWakeup ==
  /\ \A w \in Worker :
       /\ wpc[w] = "idleWait" => queue = <<>> /\ generation = observed[w] /\ ~stop
       /\ wpc[w] = "gateWait" => startGeneration < observed[w] /\ ~stop
  /\ mpc = "startupWait" => startupReadyCnt # N
  /\ mpc = "workingWait" => queue # <<>> \/ workingCnt # 0
  /\ mpc = "readyWait" => readyCnt # N
  /\ mpc = "doneWait" => doneCnt # N

AtGate(w) == wpc[w] \in {"gate", "gateWait", "gateWoken"}

(* thread_pool.hpp: "all workers are ready before start is recorded".      *)
WindowOpensWhenAllReady ==
  [][ ~window /\ window' =>
        \A w \in Worker : AtGate(w) /\ observed[w] = generation /\ ran[w] = 0
    ]_vars

(* thread_pool.hpp: "run the same job exactly once on every pinned worker" *)
(* and "end is recorded after the last worker completes".                  *)
WindowClosesWhenAllRan ==
  [][ window /\ ~window' =>
        \A w \in Worker : ran[w] = 1 /\ wpc[w] # "parallel"
    ]_vars

(* What compute_worker_samples divides by: the time from the moment every  *)
(* worker could start the job to the moment every one has done it, once.   *)
WindowCoversTheJob == WindowOpensWhenAllReady /\ WindowClosesWhenAllRan

(* A worker runs a parallel job only between the two timestamps, and it is *)
(* the job of the call that is in progress, never one of an earlier round. *)
ParallelInWindow ==
  \A w \in Worker :
    wpc[w] = "parallel" =>
      window /\ observed[w] = generation /\ wjob[w] = pending /\ ran[w] = 1

(* "The parallel generation and the ordinary work queue are deliberately   *)
(* serialized": no queued work is pending or running during a round.       *)
ModesSerialized ==
  mpc \in {"arm", "arming", "readyWait", "readyWoken", "running", "doneWait",
           "doneWoken"} =>
    /\ queue = <<>>
    /\ \A w \in Worker : wpc[w] \notin {"queued", "uncount"}

(* tpool_wait returns only when every item submitted has been executed.    *)
WaitDrains ==
  [][ mpc = "wait" /\ mpc' \in {"ready", "arm"} => completed = 1 .. adds ]_vars

(* What tpool_get_migration_info reports: a migration is always also a     *)
(* mismatch with the requested CPU, and once a call has returned with no   *)
(* work outstanding every invocation is accounted for, none twice.         *)
MigrationReport ==
  /\ cpu.migrations <= cpu.mismatches
  /\ cpu.mismatches <= cpu.observations
  /\ mpc = "ready" /\ completed = 1 .. adds =>
       cpu.observations + unreadable = Cardinality(completed) + N * generation

(* "an unpinned worker invalidates the run": when some worker could not be *)
(* pinned, no worker ever executes anything.                               *)
UnpinnedNeverMeasured ==
  unpinned # {} => generation = 0 /\ adds = 0

(* Every call of the pool's interface returns. *)
CallsReturn == mpc \notin {"ready", "gone"} ~> mpc \in {"ready", "gone"}

(* Submitted work is executed, unless the pool is destroyed first. *)
WorkIsExecuted ==
  \A i \in 1 .. MaxAdds : i <= adds ~> (i \in completed \/ stop)

-----------------------------------------------------------------------------
(* What tpool_run_all promises its callers, module RunAll: the workers     *)
(* inside the timed window and the job each of them was given.             *)
Contract ==
  INSTANCE RunAll WITH
    Workers <- Worker,
    open <- window,
    running <- [w \in Worker |-> IF wpc[w] = "parallel" THEN wjob[w] ELSE NoJob],
    finished <- {w \in Worker : window /\ ran[w] > 0 /\ wpc[w] # "parallel"},
    job <- IF window THEN pending ELSE NoJob

ContractSpec == Contract!Spec
=============================================================================
