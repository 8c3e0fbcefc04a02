-------------------------- MODULE ThreadPoolProofs --------------------------
(***************************************************************************)
(* Proofs about ThreadPool, for any number of workers, rounds and          *)
(* submissions.  The inductive invariant is built in layers: Types, Counts *)
(* (each counter of struct tpool is the size of a set of workers), Locks   *)
(* (who owns work_mutex), Stopping and Startup (what has happened by the   *)
(* time the client is where it is), Calls, Round (the protocol of          *)
(* tpool_run_all) and finally NoLostWakeup itself.                         *)
(***************************************************************************)
EXTENDS ThreadPool, FiniteSetTheorems, SequenceTheorems, TLAPS

USE DEF Worker, Free, Main

PoolTypes ==
  /\ mutex \in Worker \cup {Free, Main}
  /\ queue \in Seq(1 .. MaxAdds)
  /\ workingCnt \in Int
  /\ threadCnt \in Int
  /\ startupReadyCnt \in Nat
  /\ affinityFailureCnt \in Nat
  /\ readyCnt \in Nat
  /\ doneCnt \in Nat
  /\ generation \in Nat
  /\ startGeneration \in Nat
  /\ parallelJob \in Jobs \cup {NoJob}
  /\ stop \in BOOLEAN

WorkerTypes ==
  /\ wpc \in [Worker -> WorkerPC]
  /\ observed \in [Worker -> Nat]
  /\ wjob \in [Worker -> Jobs \cup {NoJob}]
  /\ item \in [Worker -> 0 .. MaxAdds]

ClientTypes ==
  /\ mpc \in ClientPC
  /\ spawned \in 0 .. N
  /\ call \in {"none", "tpool_wait", "tpool_run_all"}
  /\ pending \in Jobs \cup {NoJob}
  /\ window \in BOOLEAN
  /\ adds \in 0 .. MaxAdds

HistoryTypes ==
  /\ cpu \in [observations : Nat, migrations : Nat, mismatches : Nat]
  /\ ran \in [Worker -> Nat]
  /\ completed \in SUBSET Nat
  /\ unpinned \in SUBSET Worker
  /\ unreadable \in Nat

Types == PoolTypes /\ WorkerTypes /\ ClientTypes /\ HistoryTypes

LEMMA WakeFacts ==
  /\ WakeOf["idleWait"] = "idleWoken"
  /\ WakeOf["gateWait"] = "gateWoken"
  /\ WakeOf["startupWait"] = "startupWoken"
  /\ WakeOf["workingWait"] = "wait"
  /\ WakeOf["readyWait"] = "readyWoken"
  /\ WakeOf["doneWait"] = "doneWoken"
BY DEF WakeOf

LEMMA BroadcastFacts ==
  ASSUME NEW waits \in SUBSET {"idleWait", "gateWait"},
         wpc \in [Worker -> WorkerPC], Broadcast(waits)
  PROVE  /\ wpc' \in [Worker -> WorkerPC]
         /\ \A w \in Worker :
              \/ wpc'[w] = wpc[w] /\ wpc[w] \notin waits
              \/ wpc[w] \in waits /\ wpc[w] = "idleWait" /\ wpc'[w] = "idleWoken"
              \/ wpc[w] \in waits /\ wpc[w] = "gateWait" /\ wpc'[w] = "gateWoken"
BY WakeFacts DEF Broadcast, WorkerPC

LEMMA SignalFacts ==
  ASSUME NEW waits \in {ReadyCond, WorkingCond, DoneCond},
         mpc \in ClientPC, Signal(waits)
  PROVE  /\ mpc' \in ClientPC
         /\ \/ mpc \notin waits /\ mpc' = mpc
            \/ mpc = "startupWait" /\ mpc' = "startupWoken" /\ waits = ReadyCond
            \/ mpc = "workingWait" /\ mpc' = "wait" /\ waits = WorkingCond
            \/ mpc = "readyWait" /\ mpc' = "readyWoken" /\ waits = ReadyCond
            \/ mpc = "doneWait" /\ mpc' = "doneWoken" /\ waits = DoneCond
BY WakeFacts DEF Signal, ClientPC, ReadyCond, WorkingCond, DoneCond

-----------------------------------------------------------------------------
Arming == {"arming", "readyWait", "readyWoken"}
Running == {"running", "doneWait", "doneWoken"}
Serving == {"ready", "wait", "workingWait", "arm"} \cup Arming \cup Running

CheckedIn == {w \in Worker : wpc[w] \notin {"absent", "start"}}
Working == {w \in Worker : wpc[w] \in {"queued", "uncount"}}
Exited == {w \in Worker : wpc[w] = "exited"}
Joined == {w \in Worker : observed[w] = generation}
Finished == {w \in Worker : ran[w] = 1 /\ wpc[w] # "parallel"}

Created == \A w \in Worker : wpc[w] = "absent" <=> w > spawned

Counts ==
  /\ startupReadyCnt = Cardinality(CheckedIn)
  /\ workingCnt = Cardinality(Working)
  /\ threadCnt = N - Cardinality(Exited)
  /\ affinityFailureCnt <= startupReadyCnt

Locks ==
  /\ mutex = Main <=> mpc \in {"spawn", "arming", "running"}
  /\ \A w \in Worker : mutex = w <=> wpc[w] \in {"head", "gate"}

Stopping ==
  /\ stop <=> mpc \in {"unwind", "join", "gone"}
  /\ \A w \in Worker : wpc[w] = "exited" => stop
  /\ mpc = "gone" => \A w \in Worker : wpc[w] \in {"absent", "exited"}

Startup ==
  /\ mpc \notin {"spawn", "unwind", "gone"} => spawned = N
  /\ mpc \in Serving \cup {"reject", "join"} =>
       \A w \in Worker : wpc[w] \notin {"absent", "start"}
  /\ mpc \in {"spawn", "startupWait", "startupWoken", "reject", "unwind"} =>
       generation = 0 /\ adds = 0
  /\ unpinned # {} =>
       affinityFailureCnt # 0 /\ mpc \notin Serving /\ generation = 0 /\ adds = 0

Generations ==
  /\ startGeneration = IF mpc \in Arming THEN generation - 1 ELSE generation
  /\ mpc \in Arming => generation > 0
  /\ \A w \in Worker :
       /\ mpc \notin Arming => observed[w] = generation
       /\ mpc \in Arming => observed[w] \in {generation - 1, generation}

Places ==
  \A w \in Worker :
    /\ AtGate(w) =>
         /\ mpc \in Arming \cup Running
         /\ observed[w] = generation
         /\ wjob[w] = pending
         /\ ran[w] = 0
    /\ wpc[w] = "parallel" => mpc \in Running /\ ran[w] = 1 /\ wjob[w] = pending
    /\ mpc \in Arming =>
         /\ observed[w] = generation => AtGate(w)
         /\ observed[w] # generation => wpc[w] \in {"head", "idleWoken"}
         /\ ran[w] = 0
    /\ mpc \in Running =>
         \/ AtGate(w)
         \/ ran[w] = 1 /\ wpc[w] \in {"parallel", "head", "idleWait", "idleWoken"}

RoundCounts ==
  mpc \in Arming \cup Running =>
    readyCnt = Cardinality(Joined) /\ doneCnt = Cardinality(Finished)

RoundClient ==
  /\ window <=> mpc \in Running
  /\ mpc \in Arming \cup Running => parallelJob = pending
  /\ mpc \in {"arm"} \cup Arming \cup Running =>
       queue = <<>> /\ \A w \in Worker : wpc[w] \notin {"queued", "uncount"}

Bounded == readyCnt <= N /\ doneCnt <= N

Round == Generations /\ Places /\ RoundCounts /\ RoundClient

Calls ==
  /\ generation <= MaxRounds
  /\ mpc \in {"wait", "workingWait"} /\ call = "tpool_run_all" =>
       generation < MaxRounds
  /\ mpc = "arm" => generation < MaxRounds
  /\ mpc \in {"arm"} \cup Arming \cup Running => call = "tpool_run_all"
  /\ call = "tpool_run_all" => pending \in Jobs
  /\ \A w \in Worker : wpc[w] = "queued" => item[w] \in 1 .. MaxAdds
  /\ completed \subseteq 1 .. MaxAdds

IInv ==
  Types /\ Created /\ Counts /\ Locks /\ Stopping /\ Startup /\ Calls /\ Round
    /\ Bounded /\ NoLostWakeup

LEMMA RecordType ==
  ASSUME NEW c \in [observations : Nat, migrations : Nat, mismatches : Nat],
         NEW before, NEW after
  PROVE  Record(c, before, after)
           \in [observations : Nat, migrations : Nat, mismatches : Nat]
BY DEF Record

LEMMA TypesInit == Init => Types
<1> SUFFICES ASSUME Init
             PROVE  Types
  OBVIOUS
<1>1. PoolTypes
  <2>1. queue \in Seq(1 .. MaxAdds)
    BY DEF Init
  <2>2. mutex \in Worker \cup {Free, Main} /\ threadCnt \in Int
    BY PoolAssumption DEF Init
  <2>3. /\ workingCnt \in Int /\ startupReadyCnt \in Nat
        /\ affinityFailureCnt \in Nat /\ readyCnt \in Nat /\ doneCnt \in Nat
        /\ generation \in Nat /\ startGeneration \in Nat
    BY DEF Init
  <2>4. parallelJob \in Jobs \cup {NoJob} /\ stop \in BOOLEAN
    BY DEF Init
  <2> QED
    BY <2>1, <2>2, <2>3, <2>4 DEF PoolTypes
<1>2. WorkerTypes
  <2>1. wpc \in [Worker -> WorkerPC]
    BY DEF Init, WorkerPC
  <2>2. item \in [Worker -> 0 .. MaxAdds]
    BY PoolAssumption DEF Init
  <2>3. observed \in [Worker -> Nat] /\ wjob \in [Worker -> Jobs \cup {NoJob}]
    BY DEF Init
  <2> QED
    BY <2>1, <2>2, <2>3 DEF WorkerTypes
<1>3. ClientTypes
  <2>1. mpc \in ClientPC /\ spawned \in 0 .. N /\ adds \in 0 .. MaxAdds
    BY PoolAssumption DEF Init, ClientPC
  <2> QED
    BY <2>1 DEF Init, ClientTypes
<1>4. HistoryTypes
  BY PoolAssumption DEF Init, HistoryTypes
<1> QED
  BY <1>1, <1>2, <1>3, <1>4 DEF Types

LEMMA TypesStep == Types /\ [Next]_vars => Types'
<1> SUFFICES ASSUME Types, [Next]_vars
             PROVE  Types'
  OBVIOUS
<1> USE PoolAssumption
    DEF poolVars, queueVars, lifeVars, startupVars, roundVars, workerVars,
        roundLocals, clientVars, callVars, historyVars
<1>1. CASE SpawnWorker
  <2>1. PoolTypes'
    BY <1>1 DEF Types, PoolTypes, SpawnWorker
  <2>2. WorkerTypes'
    BY <1>1
    DEF Types, WorkerTypes, MoveWorker, WorkerPC, ClientTypes, SpawnWorker
  <2>3. ClientTypes'
    BY <1>1 DEF Types, ClientTypes, ClientPC, SpawnWorker
  <2>4. HistoryTypes'
    BY <1>1 DEF Types, HistoryTypes, SpawnWorker
  <2> QED
    BY <2>1, <2>2, <2>3, <2>4 DEF Types
<1>2. CASE Unwind
  <2>1. PoolTypes'
    BY <1>2 DEF Types, PoolTypes, Unwind
  <2>2. WorkerTypes'
    BY <1>2 DEF Types, WorkerTypes, Unwind
  <2>3. ClientTypes'
    BY <1>2 DEF Types, ClientTypes, ClientPC, Unwind
  <2>4. HistoryTypes'
    BY <1>2 DEF Types, HistoryTypes, Unwind
  <2> QED
    BY <2>1, <2>2, <2>3, <2>4 DEF Types
<1>3. CASE StartupWait
  <2>1. PoolTypes'
    BY <1>3 DEF Types, PoolTypes, StartupWait
  <2>2. WorkerTypes'
    BY <1>3 DEF Types, WorkerTypes, StartupWait
  <2>3. ClientTypes'
    BY <1>3 DEF Types, ClientTypes, ClientPC, StartupWait
  <2>4. HistoryTypes'
    BY <1>3 DEF Types, HistoryTypes, StartupWait
  <2> QED
    BY <2>1, <2>2, <2>3, <2>4 DEF Types
<1>4. CASE StartupDone
  <2>1. PoolTypes'
    BY <1>4 DEF Types, PoolTypes, StartupDone
  <2>2. WorkerTypes'
    BY <1>4 DEF Types, WorkerTypes, StartupDone
  <2>3. ClientTypes'
    BY <1>4 DEF Types, ClientTypes, ClientPC, StartupDone
  <2>4. HistoryTypes'
    BY <1>4 DEF Types, HistoryTypes, StartupDone
  <2> QED
    BY <2>1, <2>2, <2>3, <2>4 DEF Types
<1>5. CASE ClientReacquire
  <2>1. PoolTypes'
    BY <1>5 DEF Types, PoolTypes, ClientReacquire
  <2>2. WorkerTypes'
    BY <1>5 DEF Types, WorkerTypes, ClientReacquire
  <2>3. ClientTypes'
    BY <1>5 DEF Types, ClientTypes, ClientPC, ClientReacquire
  <2>4. HistoryTypes'
    BY <1>5 DEF Types, HistoryTypes, ClientReacquire
  <2> QED
    BY <2>1, <2>2, <2>3, <2>4 DEF Types
<1>6. CASE WaitBlocks
  <2>1. PoolTypes'
    BY <1>6 DEF Types, PoolTypes, WaitBlocks
  <2>2. WorkerTypes'
    BY <1>6 DEF Types, WorkerTypes, WaitBlocks
  <2>3. ClientTypes'
    BY <1>6 DEF Types, ClientTypes, ClientPC, WaitBlocks
  <2>4. HistoryTypes'
    BY <1>6 DEF Types, HistoryTypes, WaitBlocks
  <2> QED
    BY <2>1, <2>2, <2>3, <2>4 DEF Types
<1>7. CASE WaitReturns
  <2>1. PoolTypes'
    BY <1>7 DEF Types, PoolTypes, WaitReturns
  <2>2. WorkerTypes'
    BY <1>7 DEF Types, WorkerTypes, WaitReturns
  <2>3. ClientTypes'
    BY <1>7 DEF Types, ClientTypes, ClientPC, WaitReturns
  <2>4. HistoryTypes'
    BY <1>7 DEF Types, HistoryTypes, WaitReturns
  <2> QED
    BY <2>1, <2>2, <2>3, <2>4 DEF Types
<1>8. CASE Arm
  <2>1. PoolTypes'
    BY <1>8 DEF Types, PoolTypes, ClientTypes, Arm
  <2>2. WorkerTypes'
    BY <1>8, BroadcastFacts DEF Types, WorkerTypes, Arm
  <2>3. ClientTypes'
    BY <1>8 DEF Types, ClientTypes, ClientPC, Arm
  <2>4. HistoryTypes'
    BY <1>8 DEF Types, HistoryTypes, Arm
  <2> QED
    BY <2>1, <2>2, <2>3, <2>4 DEF Types
<1>9. CASE AwaitReady
  <2>1. PoolTypes'
    BY <1>9 DEF Types, PoolTypes, AwaitReady
  <2>2. WorkerTypes'
    BY <1>9 DEF Types, WorkerTypes, AwaitReady
  <2>3. ClientTypes'
    BY <1>9 DEF Types, ClientTypes, ClientPC, AwaitReady
  <2>4. HistoryTypes'
    BY <1>9 DEF Types, HistoryTypes, AwaitReady
  <2> QED
    BY <2>1, <2>2, <2>3, <2>4 DEF Types
<1>10. CASE OpenGate
  <2>1. PoolTypes'
    BY <1>10 DEF Types, PoolTypes, OpenGate
  <2>2. WorkerTypes'
    BY <1>10, BroadcastFacts DEF Types, WorkerTypes, OpenGate
  <2>3. ClientTypes'
    BY <1>10 DEF Types, ClientTypes, ClientPC, OpenGate
  <2>4. HistoryTypes'
    BY <1>10 DEF Types, HistoryTypes, OpenGate
  <2> QED
    BY <2>1, <2>2, <2>3, <2>4 DEF Types
<1>11. CASE AwaitDone
  <2>1. PoolTypes'
    BY <1>11 DEF Types, PoolTypes, AwaitDone
  <2>2. WorkerTypes'
    BY <1>11 DEF Types, WorkerTypes, AwaitDone
  <2>3. ClientTypes'
    BY <1>11 DEF Types, ClientTypes, ClientPC, AwaitDone
  <2>4. HistoryTypes'
    BY <1>11 DEF Types, HistoryTypes, AwaitDone
  <2> QED
    BY <2>1, <2>2, <2>3, <2>4 DEF Types
<1>12. CASE RunAllReturns
  <2>1. PoolTypes'
    BY <1>12 DEF Types, PoolTypes, RunAllReturns
  <2>2. WorkerTypes'
    BY <1>12 DEF Types, WorkerTypes, RunAllReturns
  <2>3. ClientTypes'
    BY <1>12 DEF Types, ClientTypes, ClientPC, RunAllReturns
  <2>4. HistoryTypes'
    BY <1>12 DEF Types, HistoryTypes, RunAllReturns
  <2> QED
    BY <2>1, <2>2, <2>3, <2>4 DEF Types
<1>13. CASE Join
  <2>1. PoolTypes'
    BY <1>13 DEF Types, PoolTypes, Join
  <2>2. WorkerTypes'
    BY <1>13 DEF Types, WorkerTypes, Join
  <2>3. ClientTypes'
    BY <1>13 DEF Types, ClientTypes, ClientPC, Join
  <2>4. HistoryTypes'
    BY <1>13 DEF Types, HistoryTypes, Join
  <2> QED
    BY <2>1, <2>2, <2>3, <2>4 DEF Types
<1>14. CASE SpawnFails
  <2>1. PoolTypes'
    BY <1>14 DEF Types, PoolTypes, SpawnFails
  <2>2. WorkerTypes'
    BY <1>14, BroadcastFacts DEF Types, WorkerTypes, SpawnFails
  <2>3. ClientTypes'
    BY <1>14 DEF Types, ClientTypes, ClientPC, SpawnFails
  <2>4. HistoryTypes'
    BY <1>14 DEF Types, HistoryTypes, SpawnFails
  <2> QED
    BY <2>1, <2>2, <2>3, <2>4 DEF Types
<1>15. CASE AddWork
  <2>1. PoolTypes'
    BY <1>15, AppendProperties DEF Types, PoolTypes, ClientTypes, AddWork
  <2>2. WorkerTypes'
    BY <1>15, BroadcastFacts DEF Types, WorkerTypes, AddWork
  <2>3. ClientTypes'
    BY <1>15 DEF Types, ClientTypes, ClientPC, AddWork
  <2>4. HistoryTypes'
    BY <1>15 DEF Types, HistoryTypes, AddWork
  <2> QED
    BY <2>1, <2>2, <2>3, <2>4 DEF Types
<1>16. CASE CallWait
  <2>1. PoolTypes'
    BY <1>16 DEF Types, PoolTypes, CallWait
  <2>2. WorkerTypes'
    BY <1>16 DEF Types, WorkerTypes, CallWait
  <2>3. ClientTypes'
    BY <1>16 DEF Types, ClientTypes, ClientPC, CallWait
  <2>4. HistoryTypes'
    BY <1>16 DEF Types, HistoryTypes, CallWait
  <2> QED
    BY <2>1, <2>2, <2>3, <2>4 DEF Types
<1>17. ASSUME NEW j \in Jobs,
            CallRunAll(j)
     PROVE  Types'
  <2>1. PoolTypes'
    BY <1>17 DEF Types, PoolTypes, CallRunAll
  <2>2. WorkerTypes'
    BY <1>17 DEF Types, WorkerTypes, CallRunAll
  <2>3. ClientTypes'
    BY <1>17 DEF Types, ClientTypes, ClientPC, CallRunAll
  <2>4. HistoryTypes'
    BY <1>17 DEF Types, HistoryTypes, CallRunAll
  <2> QED
    BY <2>1, <2>2, <2>3, <2>4 DEF Types
<1>18. CASE Destroy
  <2>1. PoolTypes'
    BY <1>18 DEF Types, PoolTypes, Destroy
  <2>2. WorkerTypes'
    BY <1>18, BroadcastFacts DEF Types, WorkerTypes, Destroy
  <2>3. ClientTypes'
    BY <1>18 DEF Types, ClientTypes, ClientPC, Destroy
  <2>4. HistoryTypes'
    BY <1>18 DEF Types, HistoryTypes, Destroy
  <2> QED
    BY <2>1, <2>2, <2>3, <2>4 DEF Types
<1>19. ASSUME NEW w \in Worker, NEW failed \in BOOLEAN,
            CheckIn(w, failed)
     PROVE  Types'
  <2>1. PoolTypes'
    BY <1>19 DEF Types, PoolTypes, CheckIn
  <2>2. WorkerTypes'
    BY <1>19 DEF Types, WorkerTypes, MoveWorker, WorkerPC, CheckIn
  <2>3. ClientTypes'
    BY <1>19, SignalFacts DEF Types, ClientTypes, CheckIn
  <2>4. HistoryTypes'
    BY <1>19 DEF Types, HistoryTypes, CheckIn
  <2> QED
    BY <2>1, <2>2, <2>3, <2>4 DEF Types
<1>20. ASSUME NEW w \in Worker,
            WorkerReacquire(w)
     PROVE  Types'
  <2>1. PoolTypes'
    BY <1>20 DEF Types, PoolTypes, WorkerReacquire
  <2>2. WorkerTypes'
    BY <1>20 DEF Types, WorkerTypes, MoveWorker, WorkerPC, WorkerReacquire
  <2>3. ClientTypes'
    BY <1>20 DEF Types, ClientTypes, WorkerReacquire
  <2>4. HistoryTypes'
    BY <1>20 DEF Types, HistoryTypes, WorkerReacquire
  <2> QED
    BY <2>1, <2>2, <2>3, <2>4 DEF Types
<1>21. ASSUME NEW w \in Worker,
            IdleWait(w)
     PROVE  Types'
  <2>1. PoolTypes'
    BY <1>21 DEF Types, PoolTypes, IdleWait
  <2>2. WorkerTypes'
    BY <1>21 DEF Types, WorkerTypes, MoveWorker, WorkerPC, IdleWait
  <2>3. ClientTypes'
    BY <1>21 DEF Types, ClientTypes, IdleWait
  <2>4. HistoryTypes'
    BY <1>21 DEF Types, HistoryTypes, IdleWait
  <2> QED
    BY <2>1, <2>2, <2>3, <2>4 DEF Types
<1>22. ASSUME NEW w \in Worker,
            Exit(w)
     PROVE  Types'
  <2>1. PoolTypes'
    BY <1>22 DEF Types, PoolTypes, Exit
  <2>2. WorkerTypes'
    BY <1>22 DEF Types, WorkerTypes, MoveWorker, WorkerPC, Exit
  <2>3. ClientTypes'
    BY <1>22, SignalFacts DEF Types, ClientTypes, Exit
  <2>4. HistoryTypes'
    BY <1>22 DEF Types, HistoryTypes, Exit
  <2> QED
    BY <2>1, <2>2, <2>3, <2>4 DEF Types
<1>23. ASSUME NEW w \in Worker,
            JoinRound(w)
     PROVE  Types'
  <2>1. PoolTypes'
    BY <1>23 DEF Types, PoolTypes, WorkerTypes, JoinRound
  <2>2. WorkerTypes'
    BY <1>23 DEF Types, WorkerTypes, MoveWorker, WorkerPC, PoolTypes, JoinRound
  <2>3. ClientTypes'
    BY <1>23, SignalFacts DEF Types, ClientTypes, SignalIf, JoinRound
  <2>4. HistoryTypes'
    BY <1>23 DEF Types, HistoryTypes, JoinRound
  <2> QED
    BY <2>1, <2>2, <2>3, <2>4 DEF Types
<1>24. ASSUME NEW w \in Worker,
            GateWait(w)
     PROVE  Types'
  <2>1. PoolTypes'
    BY <1>24 DEF Types, PoolTypes, GateWait
  <2>2. WorkerTypes'
    BY <1>24 DEF Types, WorkerTypes, MoveWorker, WorkerPC, GateWait
  <2>3. ClientTypes'
    BY <1>24 DEF Types, ClientTypes, GateWait
  <2>4. HistoryTypes'
    BY <1>24 DEF Types, HistoryTypes, GateWait
  <2> QED
    BY <2>1, <2>2, <2>3, <2>4 DEF Types
<1>25. ASSUME NEW w \in Worker,
            RunParallel(w)
     PROVE  Types'
  <2>1. PoolTypes'
    BY <1>25 DEF Types, PoolTypes, RunParallel
  <2>2. WorkerTypes'
    BY <1>25 DEF Types, WorkerTypes, MoveWorker, WorkerPC, RunParallel
  <2>3. ClientTypes'
    BY <1>25 DEF Types, ClientTypes, RunParallel
  <2>4. HistoryTypes'
    BY <1>25 DEF Types, HistoryTypes, RunParallel
  <2> QED
    BY <2>1, <2>2, <2>3, <2>4 DEF Types
<1>26. ASSUME NEW w \in Worker,
            NEW before \in Readings, NEW after \in Readings,
            FinishParallel(w, before, after)
     PROVE  Types'
  <2>1. PoolTypes'
    BY <1>26 DEF Types, PoolTypes, FinishParallel
  <2>2. WorkerTypes'
    BY <1>26 DEF Types, WorkerTypes, MoveWorker, WorkerPC, FinishParallel
  <2>3. ClientTypes'
    BY <1>26, SignalFacts DEF Types, ClientTypes, SignalIf, FinishParallel
  <2>4. HistoryTypes'
    BY <1>26, RecordType DEF Types, HistoryTypes, FinishParallel
  <2> QED
    BY <2>1, <2>2, <2>3, <2>4 DEF Types
<1>27. ASSUME NEW w \in Worker,
            TakeWork(w)
     PROVE  Types'
  <2>1. PoolTypes'
    BY <1>27 DEF Types, PoolTypes, TakeWork
  <2>2. WorkerTypes'
    <3>1. queue[1] \in 0..MaxAdds
      <4>1. queue # << >> /\ queue \in Seq(1..MaxAdds)
        BY <1>27 DEF Types, PoolTypes, TakeWork
      <4>2. queue[1] \in 1..MaxAdds
        BY <4>1
      <4> QED BY <4>2, PoolAssumption
    <3> QED
      BY <1>27, <3>1 DEF Types, WorkerTypes, MoveWorker, WorkerPC, TakeWork
  <2>3. ClientTypes'
    BY <1>27 DEF Types, ClientTypes, TakeWork
  <2>4. HistoryTypes'
    BY <1>27 DEF Types, HistoryTypes, TakeWork
  <2> QED
    BY <2>1, <2>2, <2>3, <2>4 DEF Types
<1>28. ASSUME NEW w \in Worker,
            NEW before \in Readings, NEW after \in Readings,
            RecordWork(w, before, after)
     PROVE  Types'
  <2>1. PoolTypes'
    BY <1>28 DEF Types, PoolTypes, RecordWork
  <2>2. WorkerTypes'
    BY <1>28 DEF Types, WorkerTypes, MoveWorker, WorkerPC, RecordWork
  <2>3. ClientTypes'
    BY <1>28 DEF Types, ClientTypes, RecordWork
  <2>4. HistoryTypes'
    <3>1. completed' \in SUBSET Nat
      <4>1. item[w] \in Nat
        BY DEF Types, WorkerTypes
      <4> QED
        BY <1>28, <4>1 DEF Types, HistoryTypes, RecordWork
    <3>2. unreadable' \in Nat
      BY <1>28 DEF Types, HistoryTypes, RecordWork
    <3> QED
      BY <1>28, <3>1, <3>2, RecordType DEF Types, HistoryTypes, RecordWork
  <2> QED
    BY <2>1, <2>2, <2>3, <2>4 DEF Types
<1>29. ASSUME NEW w \in Worker,
            Uncount(w)
     PROVE  Types'
  <2>1. PoolTypes'
    BY <1>29 DEF Types, PoolTypes, Uncount
  <2>2. WorkerTypes'
    BY <1>29 DEF Types, WorkerTypes, MoveWorker, WorkerPC, Uncount
  <2>3. ClientTypes'
    BY <1>29, SignalFacts DEF Types, ClientTypes, SignalIf, Uncount
  <2>4. HistoryTypes'
    BY <1>29 DEF Types, HistoryTypes, Uncount
  <2> QED
    BY <2>1, <2>2, <2>3, <2>4 DEF Types
<1>30. ASSUME NEW w \in Worker,
            SpuriousWorker(w)
     PROVE  Types'
  <2>1. PoolTypes'
    BY <1>30 DEF Types, PoolTypes, SpuriousWorker
  <2>2. WorkerTypes'
    BY <1>30, WakeFacts
    DEF Types, WorkerTypes, MoveWorker, WorkerPC, SpuriousWorker
  <2>3. ClientTypes'
    BY <1>30 DEF Types, ClientTypes, SpuriousWorker
  <2>4. HistoryTypes'
    BY <1>30 DEF Types, HistoryTypes, SpuriousWorker
  <2> QED
    BY <2>1, <2>2, <2>3, <2>4 DEF Types
<1>31. CASE SpuriousClient
  <2>1. PoolTypes'
    BY <1>31 DEF Types, PoolTypes, SpuriousClient
  <2>2. WorkerTypes'
    BY <1>31 DEF Types, WorkerTypes, SpuriousClient
  <2>3. ClientTypes'
    BY <1>31, WakeFacts
    DEF Types, ClientTypes, ClientPC, ReadyCond, WorkingCond, DoneCond,
       SpuriousClient
  <2>4. HistoryTypes'
    BY <1>31 DEF Types, HistoryTypes, SpuriousClient
  <2> QED
    BY <2>1, <2>2, <2>3, <2>4 DEF Types
<1>32. CASE UNCHANGED vars
  BY <1>32 DEF Types, PoolTypes, WorkerTypes, ClientTypes, HistoryTypes, vars
<1> QED
  BY <1>1, <1>2, <1>3, <1>4, <1>5, <1>6, <1>7, <1>8, <1>9, <1>10, <1>11,
     <1>12, <1>13, <1>14, <1>15, <1>16, <1>17, <1>18, <1>19, <1>20, <1>21,
     <1>22, <1>23, <1>24, <1>25, <1>26, <1>27, <1>28, <1>29, <1>30, <1>31,
     <1>32
  DEF Next, ClientStep, ClientCall, WorkerStep, Terminated

-----------------------------------------------------------------------------
(* Counting workers. *)
LEMMA WorkerFinite == IsFiniteSet(Worker) /\ Cardinality(Worker) = N
BY PoolAssumption, FS_Interval

LEMMA CountBound ==
  ASSUME NEW S \in SUBSET Worker
  PROVE  Cardinality(S) \in 0 .. N /\ (Cardinality(S) = N => S = Worker)
<1>1. IsFiniteSet(S) /\ Cardinality(S) <= N /\ (N = Cardinality(S) => Worker = S)
  BY WorkerFinite, FS_Subset
<1>2. Cardinality(S) \in Nat
  BY <1>1, FS_CardinalityType
<1> QED
  BY <1>1, <1>2, PoolAssumption

LEMMA CountAdd ==
  ASSUME NEW S \in SUBSET Worker, NEW w \in Worker, w \notin S
  PROVE  Cardinality(S \cup {w}) = Cardinality(S) + 1
BY WorkerFinite, FS_Subset, FS_AddElement

LEMMA CountRemove ==
  ASSUME NEW S \in SUBSET Worker, NEW w \in Worker, w \in S
  PROVE  Cardinality(S \ {w}) = Cardinality(S) - 1
BY WorkerFinite, FS_Subset, FS_RemoveElement

LEMMA CountEmpty == Cardinality({}) = 0
BY FS_EmptySet

(* A step that leaves the three sets and their counters alone. *)
LEMMA CountsSame ==
  ASSUME Counts, CheckedIn' = CheckedIn, Working' = Working, Exited' = Exited,
         UNCHANGED <<startupVars, workingCnt, threadCnt>>
  PROVE  Counts'
BY DEF Counts, startupVars

LEMMA CreatedInit == Init => Created
BY PoolAssumption DEF Init, Created

LEMMA CreatedStep == Types /\ Created /\ [Next]_vars => Created'
<1> SUFFICES ASSUME Types, Created, [Next]_vars
             PROVE  Created'
  OBVIOUS
<1> USE PoolAssumption
    DEF poolVars, queueVars, lifeVars, startupVars, roundVars, workerVars,
        roundLocals, clientVars, callVars, historyVars
<1>w. wpc \in [Worker -> WorkerPC] /\ spawned \in 0 .. N
  BY DEF Types, WorkerTypes, ClientTypes
<1>1. CASE SpawnWorker
  BY <1>1, <1>w DEF Created, SpawnWorker, MoveWorker, WorkerPC
<1>2. CASE Unwind
  BY <1>2, <1>w DEF Created, Unwind
<1>3. CASE StartupWait
  BY <1>3, <1>w DEF Created, StartupWait
<1>4. CASE StartupDone
  BY <1>4, <1>w DEF Created, StartupDone
<1>5. CASE ClientReacquire
  BY <1>5, <1>w DEF Created, ClientReacquire
<1>6. CASE WaitBlocks
  BY <1>6, <1>w DEF Created, WaitBlocks
<1>7. CASE WaitReturns
  BY <1>7, <1>w DEF Created, WaitReturns
<1>8. CASE Arm
  BY <1>8, <1>w, BroadcastFacts DEF Created, Arm
<1>9. CASE AwaitReady
  BY <1>9, <1>w DEF Created, AwaitReady
<1>10. CASE OpenGate
  BY <1>10, <1>w, BroadcastFacts DEF Created, OpenGate
<1>11. CASE AwaitDone
  BY <1>11, <1>w DEF Created, AwaitDone
<1>12. CASE RunAllReturns
  BY <1>12, <1>w DEF Created, RunAllReturns
<1>13. CASE Join
  BY <1>13, <1>w DEF Created, Join
<1>14. CASE SpawnFails
  BY <1>14, <1>w, BroadcastFacts DEF Created, SpawnFails
<1>15. CASE AddWork
  BY <1>15, <1>w, BroadcastFacts DEF Created, AddWork
<1>16. CASE CallWait
  BY <1>16, <1>w DEF Created, CallWait
<1>17. ASSUME NEW j \in Jobs,
            CallRunAll(j)
     PROVE  Created'
  BY <1>17, <1>w DEF Created, CallRunAll
<1>18. CASE Destroy
  BY <1>18, <1>w, BroadcastFacts DEF Created, Destroy
<1>19. ASSUME NEW w \in Worker, NEW failed \in BOOLEAN,
            CheckIn(w, failed)
     PROVE  Created'
  BY <1>19, <1>w DEF Created, CheckIn, MoveWorker, WorkerPC
<1>20. ASSUME NEW w \in Worker,
            WorkerReacquire(w)
     PROVE  Created'
  BY <1>20, <1>w DEF Created, WorkerReacquire, MoveWorker, WorkerPC
<1>21. ASSUME NEW w \in Worker,
            IdleWait(w)
     PROVE  Created'
  BY <1>21, <1>w DEF Created, IdleWait, MoveWorker, WorkerPC
<1>22. ASSUME NEW w \in Worker,
            Exit(w)
     PROVE  Created'
  BY <1>22, <1>w DEF Created, Exit, MoveWorker, WorkerPC
<1>23. ASSUME NEW w \in Worker,
            JoinRound(w)
     PROVE  Created'
  BY <1>23, <1>w DEF Created, JoinRound, MoveWorker, WorkerPC
<1>24. ASSUME NEW w \in Worker,
            GateWait(w)
     PROVE  Created'
  BY <1>24, <1>w DEF Created, GateWait, MoveWorker, WorkerPC
<1>25. ASSUME NEW w \in Worker,
            RunParallel(w)
     PROVE  Created'
  BY <1>25, <1>w DEF Created, RunParallel, MoveWorker, WorkerPC
<1>26. ASSUME NEW w \in Worker,
            NEW before \in Readings, NEW after \in Readings,
            FinishParallel(w, before, after)
     PROVE  Created'
  BY <1>26, <1>w DEF Created, FinishParallel, MoveWorker, WorkerPC
<1>27. ASSUME NEW w \in Worker,
            TakeWork(w)
     PROVE  Created'
  BY <1>27, <1>w DEF Created, TakeWork, MoveWorker, WorkerPC
<1>28. ASSUME NEW w \in Worker,
            NEW before \in Readings, NEW after \in Readings,
            RecordWork(w, before, after)
     PROVE  Created'
  BY <1>28, <1>w DEF Created, RecordWork, MoveWorker, WorkerPC
<1>29. ASSUME NEW w \in Worker,
            Uncount(w)
     PROVE  Created'
  BY <1>29, <1>w DEF Created, Uncount, MoveWorker, WorkerPC
<1>30. ASSUME NEW w \in Worker,
            SpuriousWorker(w)
     PROVE  Created'
  BY <1>30, <1>w, WakeFacts DEF Created, SpuriousWorker, MoveWorker, WorkerPC
<1>31. CASE SpuriousClient
  BY <1>31, <1>w DEF Created, SpuriousClient
<1>32. CASE UNCHANGED vars
  BY <1>32 DEF Created, vars
<1> QED
  BY <1>1, <1>2, <1>3, <1>4, <1>5, <1>6, <1>7, <1>8, <1>9, <1>10, <1>11,
     <1>12, <1>13, <1>14, <1>15, <1>16, <1>17, <1>18, <1>19, <1>20, <1>21,
     <1>22, <1>23, <1>24, <1>25, <1>26, <1>27, <1>28, <1>29, <1>30, <1>31,
     <1>32
  DEF Next, ClientStep, ClientCall, WorkerStep, Terminated

LEMMA CountsInit == Init => Counts
<1> SUFFICES ASSUME Init
             PROVE  Counts
  OBVIOUS
<1>1. CheckedIn = {} /\ Working = {} /\ Exited = {}
  BY DEF Init, CheckedIn, Working, Exited
<1> QED
  BY <1>1, CountEmpty, PoolAssumption DEF Init, Counts

LEMMA CountsStep == Types /\ Created /\ Counts /\ [Next]_vars => Counts'
<1> SUFFICES ASSUME Types, Created, Counts, [Next]_vars
             PROVE  Counts'
  OBVIOUS
<1> USE PoolAssumption
    DEF poolVars, queueVars, lifeVars, startupVars, roundVars, workerVars,
        roundLocals, clientVars, callVars, historyVars
<1>w. wpc \in [Worker -> WorkerPC]
  BY DEF Types, WorkerTypes
<1>s. spawned \in 0 .. N /\ affinityFailureCnt \in Nat /\ startupReadyCnt \in Nat
  BY DEF Types, ClientTypes, PoolTypes
<1>1. CASE SpawnWorker
  <2>1. CheckedIn' = CheckedIn /\ Working' = Working /\ Exited' = Exited
    BY <1>1, <1>w, <1>s
    DEF SpawnWorker, CheckedIn, Working, Exited, MoveWorker, WorkerPC, Created
  <2> QED
    BY <1>1, <2>1, CountsSame DEF SpawnWorker
<1>2. CASE Unwind
  <2>1. CheckedIn' = CheckedIn /\ Working' = Working /\ Exited' = Exited
    BY <1>2, <1>w DEF Unwind, CheckedIn, Working, Exited
  <2> QED
    BY <1>2, <2>1, CountsSame DEF Unwind
<1>3. CASE StartupWait
  <2>1. CheckedIn' = CheckedIn /\ Working' = Working /\ Exited' = Exited
    BY <1>3, <1>w DEF StartupWait, CheckedIn, Working, Exited
  <2> QED
    BY <1>3, <2>1, CountsSame DEF StartupWait
<1>4. CASE StartupDone
  <2>1. CheckedIn' = CheckedIn /\ Working' = Working /\ Exited' = Exited
    BY <1>4, <1>w DEF StartupDone, CheckedIn, Working, Exited
  <2> QED
    BY <1>4, <2>1, CountsSame DEF StartupDone
<1>5. CASE ClientReacquire
  <2>1. CheckedIn' = CheckedIn /\ Working' = Working /\ Exited' = Exited
    BY <1>5, <1>w DEF ClientReacquire, CheckedIn, Working, Exited
  <2> QED
    BY <1>5, <2>1, CountsSame DEF ClientReacquire
<1>6. CASE WaitBlocks
  <2>1. CheckedIn' = CheckedIn /\ Working' = Working /\ Exited' = Exited
    BY <1>6, <1>w DEF WaitBlocks, CheckedIn, Working, Exited
  <2> QED
    BY <1>6, <2>1, CountsSame DEF WaitBlocks
<1>7. CASE WaitReturns
  <2>1. CheckedIn' = CheckedIn /\ Working' = Working /\ Exited' = Exited
    BY <1>7, <1>w DEF WaitReturns, CheckedIn, Working, Exited
  <2> QED
    BY <1>7, <2>1, CountsSame DEF WaitReturns
<1>8. CASE Arm
  <2>1. CheckedIn' = CheckedIn /\ Working' = Working /\ Exited' = Exited
    BY <1>8, BroadcastFacts, <1>w DEF Arm, CheckedIn, Working, Exited
  <2> QED
    BY <1>8, <2>1, CountsSame DEF Arm
<1>9. CASE AwaitReady
  <2>1. CheckedIn' = CheckedIn /\ Working' = Working /\ Exited' = Exited
    BY <1>9, <1>w DEF AwaitReady, CheckedIn, Working, Exited
  <2> QED
    BY <1>9, <2>1, CountsSame DEF AwaitReady
<1>10. CASE OpenGate
  <2>1. CheckedIn' = CheckedIn /\ Working' = Working /\ Exited' = Exited
    BY <1>10, BroadcastFacts, <1>w DEF OpenGate, CheckedIn, Working, Exited
  <2> QED
    BY <1>10, <2>1, CountsSame DEF OpenGate
<1>11. CASE AwaitDone
  <2>1. CheckedIn' = CheckedIn /\ Working' = Working /\ Exited' = Exited
    BY <1>11, <1>w DEF AwaitDone, CheckedIn, Working, Exited
  <2> QED
    BY <1>11, <2>1, CountsSame DEF AwaitDone
<1>12. CASE RunAllReturns
  <2>1. CheckedIn' = CheckedIn /\ Working' = Working /\ Exited' = Exited
    BY <1>12, <1>w DEF RunAllReturns, CheckedIn, Working, Exited
  <2> QED
    BY <1>12, <2>1, CountsSame DEF RunAllReturns
<1>13. CASE Join
  <2>1. CheckedIn' = CheckedIn /\ Working' = Working /\ Exited' = Exited
    BY <1>13, <1>w DEF Join, CheckedIn, Working, Exited
  <2> QED
    BY <1>13, <2>1, CountsSame DEF Join
<1>14. CASE SpawnFails
  <2>1. CheckedIn' = CheckedIn /\ Working' = Working /\ Exited' = Exited
    BY <1>14, BroadcastFacts, <1>w DEF SpawnFails, CheckedIn, Working, Exited
  <2> QED
    BY <1>14, <2>1, CountsSame DEF SpawnFails
<1>15. CASE AddWork
  <2>1. CheckedIn' = CheckedIn /\ Working' = Working /\ Exited' = Exited
    BY <1>15, BroadcastFacts, <1>w DEF AddWork, CheckedIn, Working, Exited
  <2> QED
    BY <1>15, <2>1, CountsSame DEF AddWork
<1>16. CASE CallWait
  <2>1. CheckedIn' = CheckedIn /\ Working' = Working /\ Exited' = Exited
    BY <1>16, <1>w DEF CallWait, CheckedIn, Working, Exited
  <2> QED
    BY <1>16, <2>1, CountsSame DEF CallWait
<1>17. ASSUME NEW j \in Jobs,
            CallRunAll(j)
     PROVE  Counts'
  <2>1. CheckedIn' = CheckedIn /\ Working' = Working /\ Exited' = Exited
    BY <1>17, <1>w DEF CallRunAll, CheckedIn, Working, Exited
  <2> QED
    BY <1>17, <2>1, CountsSame DEF CallRunAll
<1>18. CASE Destroy
  <2>1. CheckedIn' = CheckedIn /\ Working' = Working /\ Exited' = Exited
    BY <1>18, BroadcastFacts, <1>w DEF Destroy, CheckedIn, Working, Exited
  <2> QED
    BY <1>18, <2>1, CountsSame DEF Destroy
<1>19. ASSUME NEW w \in Worker, NEW failed \in BOOLEAN,
            CheckIn(w, failed)
     PROVE  Counts'
  <2>1. CheckedIn' = CheckedIn \cup {w} /\ w \notin CheckedIn
    BY <1>19, <1>w DEF CheckIn, MoveWorker, CheckedIn, WorkerPC
  <2>2. Working' = Working
    BY <1>19, <1>w DEF CheckIn, MoveWorker, Working, WorkerPC
  <2>3. Exited' = Exited
    BY <1>19, <1>w DEF CheckIn, MoveWorker, Exited, WorkerPC
  <2>4. CheckedIn \in SUBSET Worker
    BY DEF CheckedIn
  <2>5. Cardinality(CheckedIn \cup {w}) = Cardinality(CheckedIn) + 1
    BY <2>1, <2>4, CountAdd
  <2>6. Cardinality(CheckedIn) \in Nat
    BY <2>4, CountBound
  <2> QED
    BY <1>19, <1>s, <2>1, <2>2, <2>3, <2>5, <2>6 DEF Counts, CheckIn
<1>20. ASSUME NEW w \in Worker,
            WorkerReacquire(w)
     PROVE  Counts'
  <2>1. CheckedIn' = CheckedIn /\ Working' = Working /\ Exited' = Exited
    BY <1>20, <1>w
    DEF WorkerReacquire, CheckedIn, Working, Exited, MoveWorker, WorkerPC
  <2> QED
    BY <1>20, <2>1, CountsSame DEF WorkerReacquire
<1>21. ASSUME NEW w \in Worker,
            IdleWait(w)
     PROVE  Counts'
  <2>1. CheckedIn' = CheckedIn /\ Working' = Working /\ Exited' = Exited
    BY <1>21, <1>w
    DEF IdleWait, CheckedIn, Working, Exited, MoveWorker, WorkerPC
  <2> QED
    BY <1>21, <2>1, CountsSame DEF IdleWait
<1>22. ASSUME NEW w \in Worker,
            Exit(w)
     PROVE  Counts'
  <2>1. CheckedIn' = CheckedIn
    BY <1>22, <1>w DEF Exit, MoveWorker, CheckedIn, WorkerPC
  <2>2. Working' = Working
    BY <1>22, <1>w DEF Exit, MoveWorker, Working, WorkerPC
  <2>3. Exited' = Exited \cup {w} /\ w \notin Exited
    BY <1>22, <1>w DEF Exit, MoveWorker, Exited, WorkerPC
  <2>4. Exited \in SUBSET Worker
    BY DEF Exited
  <2>5. Cardinality(Exited \cup {w}) = Cardinality(Exited) + 1
    BY <2>3, <2>4, CountAdd
  <2>6. Cardinality(Exited) \in Nat
    BY <2>4, CountBound
  <2> QED
    BY <1>22, <1>s, <2>1, <2>2, <2>3, <2>5, <2>6 DEF Counts, Exit
<1>23. ASSUME NEW w \in Worker,
            JoinRound(w)
     PROVE  Counts'
  <2>1. CheckedIn' = CheckedIn /\ Working' = Working /\ Exited' = Exited
    BY <1>23, <1>w
    DEF JoinRound, CheckedIn, Working, Exited, MoveWorker, WorkerPC
  <2> QED
    BY <1>23, <2>1, CountsSame DEF JoinRound
<1>24. ASSUME NEW w \in Worker,
            GateWait(w)
     PROVE  Counts'
  <2>1. CheckedIn' = CheckedIn /\ Working' = Working /\ Exited' = Exited
    BY <1>24, <1>w
    DEF GateWait, CheckedIn, Working, Exited, MoveWorker, WorkerPC
  <2> QED
    BY <1>24, <2>1, CountsSame DEF GateWait
<1>25. ASSUME NEW w \in Worker,
            RunParallel(w)
     PROVE  Counts'
  <2>1. CheckedIn' = CheckedIn /\ Working' = Working /\ Exited' = Exited
    BY <1>25, <1>w
    DEF RunParallel, CheckedIn, Working, Exited, MoveWorker, WorkerPC
  <2> QED
    BY <1>25, <2>1, CountsSame DEF RunParallel
<1>26. ASSUME NEW w \in Worker,
            NEW before \in Readings, NEW after \in Readings,
            FinishParallel(w, before, after)
     PROVE  Counts'
  <2>1. CheckedIn' = CheckedIn /\ Working' = Working /\ Exited' = Exited
    BY <1>26, <1>w
    DEF FinishParallel, CheckedIn, Working, Exited, MoveWorker, WorkerPC
  <2> QED
    BY <1>26, <2>1, CountsSame DEF FinishParallel
<1>27. ASSUME NEW w \in Worker,
            TakeWork(w)
     PROVE  Counts'
  <2>1. CheckedIn' = CheckedIn
    BY <1>27, <1>w DEF TakeWork, MoveWorker, CheckedIn, WorkerPC
  <2>2. Working' = Working \cup {w} /\ w \notin Working
    BY <1>27, <1>w DEF TakeWork, MoveWorker, Working, WorkerPC
  <2>3. Exited' = Exited
    BY <1>27, <1>w DEF TakeWork, MoveWorker, Exited, WorkerPC
  <2>4. Working \in SUBSET Worker
    BY DEF Working
  <2>5. Cardinality(Working \cup {w}) = Cardinality(Working) + 1
    BY <2>2, <2>4, CountAdd
  <2>6. Cardinality(Working) \in Nat
    BY <2>4, CountBound
  <2> QED
    BY <1>27, <1>s, <2>1, <2>2, <2>3, <2>5, <2>6 DEF Counts, TakeWork
<1>28. ASSUME NEW w \in Worker,
            NEW before \in Readings, NEW after \in Readings,
            RecordWork(w, before, after)
     PROVE  Counts'
  <2>1. CheckedIn' = CheckedIn /\ Working' = Working /\ Exited' = Exited
    BY <1>28, <1>w
    DEF RecordWork, CheckedIn, Working, Exited, MoveWorker, WorkerPC
  <2> QED
    BY <1>28, <2>1, CountsSame DEF RecordWork
<1>29. ASSUME NEW w \in Worker,
            Uncount(w)
     PROVE  Counts'
  <2>1. CheckedIn' = CheckedIn
    BY <1>29, <1>w DEF Uncount, MoveWorker, CheckedIn, WorkerPC
  <2>2. Working' = Working \ {w} /\ w \in Working
    BY <1>29, <1>w DEF Uncount, MoveWorker, Working, WorkerPC
  <2>3. Exited' = Exited
    BY <1>29, <1>w DEF Uncount, MoveWorker, Exited, WorkerPC
  <2>4. Working \in SUBSET Worker
    BY DEF Working
  <2>5. Cardinality(Working \ {w}) = Cardinality(Working) - 1
    BY <2>2, <2>4, CountRemove
  <2>6. Cardinality(Working) \in Nat
    BY <2>4, CountBound
  <2> QED
    BY <1>29, <1>s, <2>1, <2>2, <2>3, <2>5, <2>6 DEF Counts, Uncount
<1>30. ASSUME NEW w \in Worker,
            SpuriousWorker(w)
     PROVE  Counts'
  <2>1. CheckedIn' = CheckedIn /\ Working' = Working /\ Exited' = Exited
    BY <1>30, <1>w, WakeFacts
    DEF SpuriousWorker, CheckedIn, Working, Exited, MoveWorker, WorkerPC
  <2> QED
    BY <1>30, <2>1, CountsSame DEF SpuriousWorker
<1>31. CASE SpuriousClient
  <2>1. CheckedIn' = CheckedIn /\ Working' = Working /\ Exited' = Exited
    BY <1>31, <1>w DEF SpuriousClient, CheckedIn, Working, Exited
  <2> QED
    BY <1>31, <2>1, CountsSame DEF SpuriousClient
<1>32. CASE UNCHANGED vars
  <2>1. CheckedIn' = CheckedIn /\ Working' = Working /\ Exited' = Exited
    BY <1>32 DEF vars, CheckedIn, Working, Exited
  <2> QED
    BY <1>32, <2>1, CountsSame DEF vars
<1> QED
  BY <1>1, <1>2, <1>3, <1>4, <1>5, <1>6, <1>7, <1>8, <1>9, <1>10, <1>11,
     <1>12, <1>13, <1>14, <1>15, <1>16, <1>17, <1>18, <1>19, <1>20, <1>21,
     <1>22, <1>23, <1>24, <1>25, <1>26, <1>27, <1>28, <1>29, <1>30, <1>31,
     <1>32
  DEF Next, ClientStep, ClientCall, WorkerStep, Terminated

LEMMA LocksInit == Init => Locks
BY PoolAssumption DEF Init, Locks

LEMMA LocksStep == Types /\ Locks /\ [Next]_vars => Locks'
<1> SUFFICES ASSUME Types, Locks, [Next]_vars
             PROVE  Locks'
  OBVIOUS
<1> USE PoolAssumption
    DEF poolVars, queueVars, lifeVars, startupVars, roundVars, workerVars,
        roundLocals, clientVars, callVars, historyVars
<1>w. wpc \in [Worker -> WorkerPC] /\ mpc \in ClientPC
  BY DEF Types, WorkerTypes, ClientTypes
<1>1. CASE SpawnWorker
  BY <1>1, <1>w DEF Locks, SpawnWorker, MoveWorker, WorkerPC
<1>2. CASE Unwind
  BY <1>2, <1>w DEF Locks, Unwind
<1>3. CASE StartupWait
  BY <1>3, <1>w DEF Locks, StartupWait
<1>4. CASE StartupDone
  BY <1>4, <1>w DEF Locks, StartupDone
<1>5. CASE ClientReacquire
  BY <1>5, <1>w DEF Locks, ClientReacquire
<1>6. CASE WaitBlocks
  BY <1>6, <1>w DEF Locks, WaitBlocks
<1>7. CASE WaitReturns
  BY <1>7, <1>w DEF Locks, WaitReturns
<1>8. CASE Arm
  BY <1>8, <1>w, BroadcastFacts DEF Locks, Arm
<1>9. CASE AwaitReady
  BY <1>9, <1>w DEF Locks, AwaitReady
<1>10. CASE OpenGate
  BY <1>10, <1>w, BroadcastFacts DEF Locks, OpenGate
<1>11. CASE AwaitDone
  BY <1>11, <1>w DEF Locks, AwaitDone
<1>12. CASE RunAllReturns
  BY <1>12, <1>w DEF Locks, RunAllReturns
<1>13. CASE Join
  BY <1>13, <1>w DEF Locks, Join
<1>14. CASE SpawnFails
  BY <1>14, <1>w, BroadcastFacts DEF Locks, SpawnFails
<1>15. CASE AddWork
  BY <1>15, <1>w, BroadcastFacts DEF Locks, AddWork
<1>16. CASE CallWait
  BY <1>16, <1>w DEF Locks, CallWait
<1>17. ASSUME NEW j \in Jobs,
            CallRunAll(j)
     PROVE  Locks'
  BY <1>17, <1>w DEF Locks, CallRunAll
<1>18. CASE Destroy
  BY <1>18, <1>w, BroadcastFacts DEF Locks, Destroy
<1>19. ASSUME NEW w \in Worker, NEW failed \in BOOLEAN,
            CheckIn(w, failed)
     PROVE  Locks'
  BY <1>19, <1>w, SignalFacts DEF Locks, CheckIn, MoveWorker, WorkerPC
<1>20. ASSUME NEW w \in Worker,
            WorkerReacquire(w)
     PROVE  Locks'
  BY <1>20, <1>w DEF Locks, WorkerReacquire, MoveWorker, WorkerPC
<1>21. ASSUME NEW w \in Worker,
            IdleWait(w)
     PROVE  Locks'
  BY <1>21, <1>w DEF Locks, IdleWait, MoveWorker, WorkerPC
<1>22. ASSUME NEW w \in Worker,
            Exit(w)
     PROVE  Locks'
  BY <1>22, <1>w, SignalFacts DEF Locks, Exit, MoveWorker, WorkerPC
<1>23. ASSUME NEW w \in Worker,
            JoinRound(w)
     PROVE  Locks'
  BY <1>23, <1>w, SignalFacts
  DEF Locks, JoinRound, SignalIf, MoveWorker, WorkerPC
<1>24. ASSUME NEW w \in Worker,
            GateWait(w)
     PROVE  Locks'
  BY <1>24, <1>w DEF Locks, GateWait, MoveWorker, WorkerPC
<1>25. ASSUME NEW w \in Worker,
            RunParallel(w)
     PROVE  Locks'
  BY <1>25, <1>w DEF Locks, RunParallel, MoveWorker, WorkerPC
<1>26. ASSUME NEW w \in Worker,
            NEW before \in Readings, NEW after \in Readings,
            FinishParallel(w, before, after)
     PROVE  Locks'
  BY <1>26, <1>w, SignalFacts
  DEF Locks, FinishParallel, SignalIf, MoveWorker, WorkerPC
<1>27. ASSUME NEW w \in Worker,
            TakeWork(w)
     PROVE  Locks'
  BY <1>27, <1>w DEF Locks, TakeWork, MoveWorker, WorkerPC
<1>28. ASSUME NEW w \in Worker,
            NEW before \in Readings, NEW after \in Readings,
            RecordWork(w, before, after)
     PROVE  Locks'
  BY <1>28, <1>w DEF Locks, RecordWork, MoveWorker, WorkerPC
<1>29. ASSUME NEW w \in Worker,
            Uncount(w)
     PROVE  Locks'
  BY <1>29, <1>w, SignalFacts
  DEF Locks, Uncount, SignalIf, MoveWorker, WorkerPC
<1>30. ASSUME NEW w \in Worker,
            SpuriousWorker(w)
     PROVE  Locks'
  BY <1>30, <1>w, WakeFacts DEF Locks, SpuriousWorker, MoveWorker, WorkerPC
<1>31. CASE SpuriousClient
  BY <1>31, <1>w, WakeFacts
  DEF Locks, SpuriousClient, ReadyCond, WorkingCond, DoneCond
<1>32. CASE UNCHANGED vars
  BY <1>32 DEF Locks, vars
<1> QED
  BY <1>1, <1>2, <1>3, <1>4, <1>5, <1>6, <1>7, <1>8, <1>9, <1>10, <1>11,
     <1>12, <1>13, <1>14, <1>15, <1>16, <1>17, <1>18, <1>19, <1>20, <1>21,
     <1>22, <1>23, <1>24, <1>25, <1>26, <1>27, <1>28, <1>29, <1>30, <1>31,
     <1>32
  DEF Next, ClientStep, ClientCall, WorkerStep, Terminated

LEMMA StoppingInit == Init => Stopping
BY DEF Init, Stopping

LEMMA StoppingStep == Types /\ Created /\ Stopping /\ [Next]_vars => Stopping'
<1> SUFFICES ASSUME Types, Created, Stopping, [Next]_vars
             PROVE  Stopping'
  OBVIOUS
<1> USE PoolAssumption
    DEF poolVars, queueVars, lifeVars, startupVars, roundVars, workerVars,
        roundLocals, clientVars, callVars, historyVars
<1>w. wpc \in [Worker -> WorkerPC] /\ mpc \in ClientPC
  BY DEF Types, WorkerTypes, ClientTypes
<1>s. spawned \in 0 .. N
  BY DEF Types, ClientTypes
<1>1. CASE SpawnWorker
  BY <1>1, <1>w DEF Stopping, SpawnWorker, MoveWorker, WorkerPC
<1>2. CASE Unwind
  BY <1>2, <1>w, <1>s DEF Stopping, Unwind, Created
<1>3. CASE StartupWait
  BY <1>3, <1>w DEF Stopping, StartupWait
<1>4. CASE StartupDone
  BY <1>4, <1>w DEF Stopping, StartupDone
<1>5. CASE ClientReacquire
  BY <1>5, <1>w DEF Stopping, ClientReacquire
<1>6. CASE WaitBlocks
  BY <1>6, <1>w DEF Stopping, WaitBlocks
<1>7. CASE WaitReturns
  BY <1>7, <1>w DEF Stopping, WaitReturns
<1>8. CASE Arm
  BY <1>8, <1>w, BroadcastFacts DEF Stopping, Arm
<1>9. CASE AwaitReady
  BY <1>9, <1>w DEF Stopping, AwaitReady
<1>10. CASE OpenGate
  BY <1>10, <1>w, BroadcastFacts DEF Stopping, OpenGate
<1>11. CASE AwaitDone
  BY <1>11, <1>w DEF Stopping, AwaitDone
<1>12. CASE RunAllReturns
  BY <1>12, <1>w DEF Stopping, RunAllReturns
<1>13. CASE Join
  BY <1>13, <1>w DEF Stopping, Join
<1>14. CASE SpawnFails
  BY <1>14, <1>w, BroadcastFacts DEF Stopping, SpawnFails
<1>15. CASE AddWork
  BY <1>15, <1>w, BroadcastFacts DEF Stopping, AddWork
<1>16. CASE CallWait
  BY <1>16, <1>w DEF Stopping, CallWait
<1>17. ASSUME NEW j \in Jobs,
            CallRunAll(j)
     PROVE  Stopping'
  BY <1>17, <1>w DEF Stopping, CallRunAll
<1>18. CASE Destroy
  BY <1>18, <1>w, BroadcastFacts DEF Stopping, Destroy
<1>19. ASSUME NEW w \in Worker, NEW failed \in BOOLEAN,
            CheckIn(w, failed)
     PROVE  Stopping'
  BY <1>19, <1>w, SignalFacts DEF Stopping, CheckIn, MoveWorker, WorkerPC
<1>20. ASSUME NEW w \in Worker,
            WorkerReacquire(w)
     PROVE  Stopping'
  BY <1>20, <1>w DEF Stopping, WorkerReacquire, MoveWorker, WorkerPC
<1>21. ASSUME NEW w \in Worker,
            IdleWait(w)
     PROVE  Stopping'
  BY <1>21, <1>w DEF Stopping, IdleWait, MoveWorker, WorkerPC
<1>22. ASSUME NEW w \in Worker,
            Exit(w)
     PROVE  Stopping'
  BY <1>22, <1>w, SignalFacts DEF Stopping, Exit, MoveWorker, WorkerPC
<1>23. ASSUME NEW w \in Worker,
            JoinRound(w)
     PROVE  Stopping'
  BY <1>23, <1>w, SignalFacts
  DEF Stopping, JoinRound, SignalIf, MoveWorker, WorkerPC
<1>24. ASSUME NEW w \in Worker,
            GateWait(w)
     PROVE  Stopping'
  BY <1>24, <1>w DEF Stopping, GateWait, MoveWorker, WorkerPC
<1>25. ASSUME NEW w \in Worker,
            RunParallel(w)
     PROVE  Stopping'
  BY <1>25, <1>w DEF Stopping, RunParallel, MoveWorker, WorkerPC
<1>26. ASSUME NEW w \in Worker,
            NEW before \in Readings, NEW after \in Readings,
            FinishParallel(w, before, after)
     PROVE  Stopping'
  BY <1>26, <1>w, SignalFacts
  DEF Stopping, FinishParallel, SignalIf, MoveWorker, WorkerPC
<1>27. ASSUME NEW w \in Worker,
            TakeWork(w)
     PROVE  Stopping'
  BY <1>27, <1>w DEF Stopping, TakeWork, MoveWorker, WorkerPC
<1>28. ASSUME NEW w \in Worker,
            NEW before \in Readings, NEW after \in Readings,
            RecordWork(w, before, after)
     PROVE  Stopping'
  BY <1>28, <1>w DEF Stopping, RecordWork, MoveWorker, WorkerPC
<1>29. ASSUME NEW w \in Worker,
            Uncount(w)
     PROVE  Stopping'
  BY <1>29, <1>w, SignalFacts
  DEF Stopping, Uncount, SignalIf, MoveWorker, WorkerPC
<1>30. ASSUME NEW w \in Worker,
            SpuriousWorker(w)
     PROVE  Stopping'
  BY <1>30, <1>w, WakeFacts DEF Stopping, SpuriousWorker, MoveWorker, WorkerPC
<1>31. CASE SpuriousClient
  BY <1>31, <1>w, WakeFacts
  DEF Stopping, SpuriousClient, ReadyCond, WorkingCond, DoneCond
<1>32. CASE UNCHANGED vars
  BY <1>32 DEF Stopping, vars
<1> QED
  BY <1>1, <1>2, <1>3, <1>4, <1>5, <1>6, <1>7, <1>8, <1>9, <1>10, <1>11,
     <1>12, <1>13, <1>14, <1>15, <1>16, <1>17, <1>18, <1>19, <1>20, <1>21,
     <1>22, <1>23, <1>24, <1>25, <1>26, <1>27, <1>28, <1>29, <1>30, <1>31,
     <1>32
  DEF Next, ClientStep, ClientCall, WorkerStep, Terminated

LEMMA StartupInit == Init => Startup
BY DEF Init, Startup, Serving, Arming, Running

LEMMA StartupStep == Types /\ Created /\ Counts /\ Stopping /\ Startup /\ [Next]_vars => Startup'
<1> SUFFICES ASSUME Types, Created, Counts, Stopping, Startup, [Next]_vars
             PROVE  Startup'
  OBVIOUS
<1> USE PoolAssumption
    DEF poolVars, queueVars, lifeVars, startupVars, roundVars, workerVars,
        roundLocals, clientVars, callVars, historyVars
<1>w. wpc \in [Worker -> WorkerPC] /\ mpc \in ClientPC
  BY DEF Types, WorkerTypes, ClientTypes
<1>s. affinityFailureCnt \in Nat /\ adds \in Nat
  BY DEF Types, PoolTypes, ClientTypes
<1>1. CASE SpawnWorker
  BY <1>1, <1>w
  DEF Startup, Serving, Arming, Running, SpawnWorker, MoveWorker, WorkerPC
<1>2. CASE Unwind
  BY <1>2, <1>w DEF Startup, Serving, Arming, Running, Unwind
<1>3. CASE StartupWait
  BY <1>3, <1>w DEF Startup, Serving, Arming, Running, StartupWait
<1>4. CASE StartupDone
  <2>1. CheckedIn = Worker
    BY <1>4, CountBound DEF StartupDone, AllCheckedIn, Counts, CheckedIn
  <2>2. \A w \in Worker : wpc[w] \notin {"absent", "start"}
    BY <2>1 DEF CheckedIn
  <2> QED
    BY <1>4, <2>2 DEF StartupDone, Startup, Serving, Arming, Running
<1>5. CASE ClientReacquire
  BY <1>5, <1>w DEF Startup, Serving, Arming, Running, ClientReacquire
<1>6. CASE WaitBlocks
  BY <1>6, <1>w DEF Startup, Serving, Arming, Running, WaitBlocks
<1>7. CASE WaitReturns
  BY <1>7, <1>w DEF Startup, Serving, Arming, Running, WaitReturns
<1>8. CASE Arm
  BY <1>8, <1>w, BroadcastFacts DEF Startup, Serving, Arming, Running, Arm
<1>9. CASE AwaitReady
  BY <1>9, <1>w DEF Startup, Serving, Arming, Running, AwaitReady
<1>10. CASE OpenGate
  BY <1>10, <1>w, BroadcastFacts
  DEF Startup, Serving, Arming, Running, OpenGate
<1>11. CASE AwaitDone
  BY <1>11, <1>w DEF Startup, Serving, Arming, Running, AwaitDone
<1>12. CASE RunAllReturns
  BY <1>12, <1>w DEF Startup, Serving, Arming, Running, RunAllReturns
<1>13. CASE Join
  BY <1>13, <1>w DEF Startup, Serving, Arming, Running, Join
<1>14. CASE SpawnFails
  BY <1>14, <1>w, BroadcastFacts
  DEF Startup, Serving, Arming, Running, SpawnFails
<1>15. CASE AddWork
  BY <1>15, <1>w, BroadcastFacts DEF Startup, Serving, Arming, Running, AddWork
<1>16. CASE CallWait
  BY <1>16, <1>w DEF Startup, Serving, Arming, Running, CallWait
<1>17. ASSUME NEW j \in Jobs,
            CallRunAll(j)
     PROVE  Startup'
  BY <1>17, <1>w DEF Startup, Serving, Arming, Running, CallRunAll
<1>18. CASE Destroy
  BY <1>18, <1>w, BroadcastFacts DEF Startup, Serving, Arming, Running, Destroy
<1>19. ASSUME NEW w \in Worker, NEW failed \in BOOLEAN,
            CheckIn(w, failed)
     PROVE  Startup'
  <2>1. mpc \notin Serving \cup {"reject", "join"}
    BY <1>19 DEF CheckIn, Startup
  <2>2. mpc' = mpc \/ (mpc = "startupWait" /\ mpc' = "startupWoken")
    BY <1>19, <2>1, WakeFacts DEF CheckIn, Signal, ReadyCond, Serving, Arming
  <2>3. affinityFailureCnt' # 0 \/ unpinned' = unpinned
    BY <1>19, <1>s DEF CheckIn
  <2>4. affinityFailureCnt # 0 => affinityFailureCnt' # 0
    BY <1>19, <1>s DEF CheckIn
  <2>5. mpc' \notin Serving \cup {"reject", "join"}
    BY <2>1, <2>2 DEF Serving, Arming, Running
  <2>6. mpc \in {"spawn", "startupWait", "startupWoken", "unwind", "gone"}
    BY <1>w, <2>1 DEF ClientPC, Serving, Arming, Running
  <2>7. generation' = generation /\ adds' = adds /\ spawned' = spawned
    BY <1>19 DEF CheckIn
  <2>8. mpc # "gone" => generation = 0 /\ adds = 0
    BY <2>6 DEF Startup
  <2>9. mpc # "gone"
    BY <1>19 DEF CheckIn, Stopping
  <2> QED
    BY <2>2, <2>3, <2>4, <2>5, <2>6, <2>7, <2>8, <2>9 DEF Startup
<1>20. ASSUME NEW w \in Worker,
            WorkerReacquire(w)
     PROVE  Startup'
  BY <1>20, <1>w
  DEF Startup, Serving, Arming, Running, WorkerReacquire, MoveWorker, WorkerPC
<1>21. ASSUME NEW w \in Worker,
            IdleWait(w)
     PROVE  Startup'
  BY <1>21, <1>w
  DEF Startup, Serving, Arming, Running, IdleWait, MoveWorker, WorkerPC
<1>22. ASSUME NEW w \in Worker,
            Exit(w)
     PROVE  Startup'
  BY <1>22, <1>w, SignalFacts
  DEF Startup, Serving, Arming, Running, Exit, MoveWorker, WorkerPC
<1>23. ASSUME NEW w \in Worker,
            JoinRound(w)
     PROVE  Startup'
  BY <1>23, <1>w, SignalFacts
  DEF Startup, Serving, Arming, Running, JoinRound, SignalIf, MoveWorker,
     WorkerPC
<1>24. ASSUME NEW w \in Worker,
            GateWait(w)
     PROVE  Startup'
  BY <1>24, <1>w
  DEF Startup, Serving, Arming, Running, GateWait, MoveWorker, WorkerPC
<1>25. ASSUME NEW w \in Worker,
            RunParallel(w)
     PROVE  Startup'
  BY <1>25, <1>w
  DEF Startup, Serving, Arming, Running, RunParallel, MoveWorker, WorkerPC
<1>26. ASSUME NEW w \in Worker,
            NEW before \in Readings, NEW after \in Readings,
            FinishParallel(w, before, after)
     PROVE  Startup'
  BY <1>26, <1>w, SignalFacts
  DEF Startup, Serving, Arming, Running, FinishParallel, SignalIf, MoveWorker,
     WorkerPC
<1>27. ASSUME NEW w \in Worker,
            TakeWork(w)
     PROVE  Startup'
  BY <1>27, <1>w
  DEF Startup, Serving, Arming, Running, TakeWork, MoveWorker, WorkerPC
<1>28. ASSUME NEW w \in Worker,
            NEW before \in Readings, NEW after \in Readings,
            RecordWork(w, before, after)
     PROVE  Startup'
  BY <1>28, <1>w
  DEF Startup, Serving, Arming, Running, RecordWork, MoveWorker, WorkerPC
<1>29. ASSUME NEW w \in Worker,
            Uncount(w)
     PROVE  Startup'
  BY <1>29, <1>w, SignalFacts
  DEF Startup, Serving, Arming, Running, Uncount, SignalIf, MoveWorker,
     WorkerPC
<1>30. ASSUME NEW w \in Worker,
            SpuriousWorker(w)
     PROVE  Startup'
  BY <1>30, <1>w, WakeFacts
  DEF Startup, Serving, Arming, Running, SpuriousWorker, MoveWorker, WorkerPC
<1>31. CASE SpuriousClient
  BY <1>31, <1>w, WakeFacts
  DEF Startup, Serving, Arming, Running, SpuriousClient, ReadyCond,
     WorkingCond, DoneCond
<1>32. CASE UNCHANGED vars
  BY <1>32 DEF Startup, Serving, Arming, Running, vars
<1> QED
  BY <1>1, <1>2, <1>3, <1>4, <1>5, <1>6, <1>7, <1>8, <1>9, <1>10, <1>11,
     <1>12, <1>13, <1>14, <1>15, <1>16, <1>17, <1>18, <1>19, <1>20, <1>21,
     <1>22, <1>23, <1>24, <1>25, <1>26, <1>27, <1>28, <1>29, <1>30, <1>31,
     <1>32
  DEF Next, ClientStep, ClientCall, WorkerStep, Terminated

LEMMA ReacquireFacts ==
  ASSUME ClientReacquire
  PROVE  \/ mpc = "startupWoken" /\ mpc' = "spawn"
         \/ mpc = "readyWoken" /\ mpc' = "arming"
         \/ mpc = "doneWoken" /\ mpc' = "running"
BY DEF ClientReacquire

LEMMA CallsInit == Init => Calls
BY PoolAssumption DEF Init, Calls, Arming, Running

LEMMA CallsStep == Types /\ Calls /\ [Next]_vars => Calls'
<1> SUFFICES ASSUME Types, Calls, [Next]_vars
             PROVE  Calls'
  OBVIOUS
<1> USE PoolAssumption
    DEF poolVars, queueVars, lifeVars, startupVars, roundVars, workerVars,
        roundLocals, clientVars, callVars, historyVars
<1>w. wpc \in [Worker -> WorkerPC] /\ mpc \in ClientPC
  BY DEF Types, WorkerTypes, ClientTypes
<1>t. /\ queue \in Seq(1 .. MaxAdds) /\ item \in [Worker -> 0 .. MaxAdds]
      /\ generation \in Nat
  BY DEF Types, PoolTypes, WorkerTypes
<1>1. CASE SpawnWorker
  BY <1>1, <1>w, <1>t
  DEF Calls, Arming, Running, SpawnWorker, MoveWorker, WorkerPC
<1>2. CASE Unwind
  BY <1>2, <1>w, <1>t DEF Calls, Arming, Running, Unwind
<1>3. CASE StartupWait
  BY <1>3, <1>w, <1>t DEF Calls, Arming, Running, StartupWait
<1>4. CASE StartupDone
  BY <1>4, <1>w, <1>t DEF Calls, Arming, Running, StartupDone
<1>5. CASE ClientReacquire
  BY <1>5, <1>w, <1>t, ReacquireFacts
  DEF Calls, Arming, Running, ClientReacquire
<1>6. CASE WaitBlocks
  BY <1>6, <1>w, <1>t DEF Calls, Arming, Running, WaitBlocks
<1>7. CASE WaitReturns
  BY <1>7, <1>w, <1>t DEF Calls, Arming, Running, WaitReturns
<1>8. CASE Arm
  <2>1. generation' <= MaxRounds
    BY <1>8, <1>t DEF Calls, Arm
  <2>2. \A w \in Worker : wpc'[w] = "queued" => wpc[w] = "queued"
    BY <1>8, <1>w, BroadcastFacts DEF Arm
  <2>3. /\ mpc = "arm" /\ mpc' = "arming"
        /\ call' = call /\ pending' = pending /\ item' = item
        /\ completed' = completed
    BY <1>8 DEF Arm
  <2>4. \A w \in Worker : wpc'[w] = "queued" => item'[w] \in 1 .. MaxAdds
    BY <2>2, <2>3 DEF Calls
  <2> QED
    BY <2>1, <2>3, <2>4 DEF Calls, Arming, Running
<1>9. CASE AwaitReady
  BY <1>9, <1>w, <1>t DEF Calls, Arming, Running, AwaitReady
<1>10. CASE OpenGate
  BY <1>10, <1>w, BroadcastFacts, <1>t DEF Calls, Arming, Running, OpenGate
<1>11. CASE AwaitDone
  BY <1>11, <1>w, <1>t DEF Calls, Arming, Running, AwaitDone
<1>12. CASE RunAllReturns
  BY <1>12, <1>w, <1>t DEF Calls, Arming, Running, RunAllReturns
<1>13. CASE Join
  BY <1>13, <1>w, <1>t DEF Calls, Arming, Running, Join
<1>14. CASE SpawnFails
  BY <1>14, <1>w, BroadcastFacts, <1>t DEF Calls, Arming, Running, SpawnFails
<1>15. CASE AddWork
  BY <1>15, <1>w, BroadcastFacts, <1>t DEF Calls, Arming, Running, AddWork
<1>16. CASE CallWait
  BY <1>16, <1>w, <1>t DEF Calls, Arming, Running, CallWait
<1>17. ASSUME NEW j \in Jobs,
            CallRunAll(j)
     PROVE  Calls'
  BY <1>17, <1>w, <1>t DEF Calls, Arming, Running, CallRunAll
<1>18. CASE Destroy
  BY <1>18, <1>w, BroadcastFacts, <1>t DEF Calls, Arming, Running, Destroy
<1>19. ASSUME NEW w \in Worker, NEW failed \in BOOLEAN,
            CheckIn(w, failed)
     PROVE  Calls'
  BY <1>19, <1>w, SignalFacts, <1>t
  DEF Calls, Arming, Running, CheckIn, MoveWorker, WorkerPC
<1>20. ASSUME NEW w \in Worker,
            WorkerReacquire(w)
     PROVE  Calls'
  BY <1>20, <1>w, <1>t
  DEF Calls, Arming, Running, WorkerReacquire, MoveWorker, WorkerPC
<1>21. ASSUME NEW w \in Worker,
            IdleWait(w)
     PROVE  Calls'
  BY <1>21, <1>w, <1>t
  DEF Calls, Arming, Running, IdleWait, MoveWorker, WorkerPC
<1>22. ASSUME NEW w \in Worker,
            Exit(w)
     PROVE  Calls'
  BY <1>22, <1>w, SignalFacts, <1>t
  DEF Calls, Arming, Running, Exit, MoveWorker, WorkerPC
<1>23. ASSUME NEW w \in Worker,
            JoinRound(w)
     PROVE  Calls'
  BY <1>23, <1>w, SignalFacts, <1>t
  DEF Calls, Arming, Running, JoinRound, SignalIf, MoveWorker, WorkerPC
<1>24. ASSUME NEW w \in Worker,
            GateWait(w)
     PROVE  Calls'
  BY <1>24, <1>w, <1>t
  DEF Calls, Arming, Running, GateWait, MoveWorker, WorkerPC
<1>25. ASSUME NEW w \in Worker,
            RunParallel(w)
     PROVE  Calls'
  BY <1>25, <1>w, <1>t
  DEF Calls, Arming, Running, RunParallel, MoveWorker, WorkerPC
<1>26. ASSUME NEW w \in Worker,
            NEW before \in Readings, NEW after \in Readings,
            FinishParallel(w, before, after)
     PROVE  Calls'
  BY <1>26, <1>w, SignalFacts, <1>t
  DEF Calls, Arming, Running, FinishParallel, SignalIf, MoveWorker, WorkerPC
<1>27. ASSUME NEW w \in Worker,
            TakeWork(w)
     PROVE  Calls'
  <2>1. /\ wpc' = [wpc EXCEPT ![w] = "queued"] /\ item' = [item EXCEPT ![w] = queue[1]]
        /\ UNCHANGED <<generation, mpc, call, pending, completed>> /\ queue # <<>>
    BY <1>27 DEF TakeWork, MoveWorker
  <2>2. queue[1] \in 1 .. MaxAdds BY <1>t, <2>1
  <2>3. \A v \in Worker : wpc'[v] = "queued" => item'[v] \in 1 .. MaxAdds
    <3> SUFFICES ASSUME NEW v \in Worker, wpc'[v] = "queued" PROVE item'[v] \in 1 .. MaxAdds
      OBVIOUS
    <3>1. CASE v = w BY <1>t, <2>1, <2>2, <3>1
    <3>2. CASE v # w BY <1>w, <1>t, <2>1, <3>2 DEF Calls
    <3> QED BY <3>1, <3>2
  <2> QED BY <2>1, <2>3 DEF Calls, Arming, Running
<1>28. ASSUME NEW w \in Worker,
            NEW before \in Readings, NEW after \in Readings,
            RecordWork(w, before, after)
     PROVE  Calls'
  BY <1>28, <1>w, <1>t
  DEF Calls, Arming, Running, RecordWork, MoveWorker, WorkerPC
<1>29. ASSUME NEW w \in Worker,
            Uncount(w)
     PROVE  Calls'
  BY <1>29, <1>w, SignalFacts, <1>t
  DEF Calls, Arming, Running, Uncount, SignalIf, MoveWorker, WorkerPC
<1>30. ASSUME NEW w \in Worker,
            SpuriousWorker(w)
     PROVE  Calls'
  BY <1>30, <1>w, WakeFacts, <1>t
  DEF Calls, Arming, Running, SpuriousWorker, MoveWorker, WorkerPC
<1>31. CASE SpuriousClient
  BY <1>31, <1>w, WakeFacts, <1>t
  DEF Calls, Arming, Running, SpuriousClient, ReadyCond, WorkingCond, DoneCond
<1>32. CASE UNCHANGED vars
  BY <1>32 DEF Calls, Arming, Running, vars
<1> QED
  BY <1>1, <1>2, <1>3, <1>4, <1>5, <1>6, <1>7, <1>8, <1>9, <1>10, <1>11,
     <1>12, <1>13, <1>14, <1>15, <1>16, <1>17, <1>18, <1>19, <1>20, <1>21,
     <1>22, <1>23, <1>24, <1>25, <1>26, <1>27, <1>28, <1>29, <1>30, <1>31,
     <1>32
  DEF Next, ClientStep, ClientCall, WorkerStep, Terminated

LEMMA RoundInit == Init => Round
BY DEF Init, Round, Generations, Places, RoundCounts, RoundClient, AtGate,
       Arming, Running

LEMMA RoundStep ==
  Types /\ Created /\ Counts /\ Locks /\ Stopping /\ Startup /\ Calls /\ Round /\ [Next]_vars
    => Round'
<1> SUFFICES ASSUME Types, Created, Counts, Locks, Stopping, Startup, Calls, Round, [Next]_vars
             PROVE  Round'
  OBVIOUS
<1> USE PoolAssumption
    DEF poolVars, queueVars, lifeVars, startupVars, roundVars, workerVars,
        roundLocals, clientVars, callVars, historyVars
<1>w. wpc \in [Worker -> WorkerPC] /\ mpc \in ClientPC
  BY DEF Types, WorkerTypes, ClientTypes
<1>t. /\ queue \in Seq(1 .. MaxAdds) /\ generation \in Nat
      /\ startGeneration \in Nat /\ observed \in [Worker -> Nat]
      /\ wjob \in [Worker -> Jobs \cup {NoJob}] /\ ran \in [Worker -> Nat]
  BY DEF Types, PoolTypes, WorkerTypes, HistoryTypes
<1>1. CASE SpawnWorker
  <2>1. Generations'
    BY <1>1, <1>w, <1>t
    DEF Round, Generations, Places, RoundClient, RoundCounts, AtGate, Arming,
       Running, SpawnWorker, MoveWorker, WorkerPC
  <2>2. Places'
    BY <1>1, <1>w, <1>t
    DEF Round, Generations, Places, RoundClient, RoundCounts, AtGate, Arming,
       Running, SpawnWorker, MoveWorker, WorkerPC
  <2>3. RoundCounts'
    BY <1>1, <1>w, <1>t
    DEF Round, Generations, Places, RoundClient, RoundCounts, AtGate, Arming,
       Running, SpawnWorker, Joined, Finished, MoveWorker, WorkerPC
  <2>4. RoundClient'
    BY <1>1, <1>w, <1>t
    DEF Round, Generations, Places, RoundClient, RoundCounts, AtGate, Arming,
       Running, SpawnWorker, MoveWorker, WorkerPC
  <2> QED
    BY <2>1, <2>2, <2>3, <2>4 DEF Round
<1>2. CASE Unwind
  <2>1. Generations'
    BY <1>2, <1>w, <1>t
    DEF Round, Generations, Places, RoundClient, RoundCounts, AtGate, Arming,
       Running, Unwind
  <2>2. Places'
    BY <1>2, <1>w, <1>t
    DEF Round, Generations, Places, RoundClient, RoundCounts, AtGate, Arming,
       Running, Unwind
  <2>3. RoundCounts'
    BY <1>2, <1>w, <1>t
    DEF Round, Generations, Places, RoundClient, RoundCounts, AtGate, Arming,
       Running, Unwind, Joined, Finished
  <2>4. RoundClient'
    BY <1>2, <1>w, <1>t
    DEF Round, Generations, Places, RoundClient, RoundCounts, AtGate, Arming,
       Running, Unwind
  <2> QED
    BY <2>1, <2>2, <2>3, <2>4 DEF Round
<1>3. CASE StartupWait
  <2>1. Generations'
    BY <1>3, <1>w, <1>t
    DEF Round, Generations, Places, RoundClient, RoundCounts, AtGate, Arming,
       Running, StartupWait
  <2>2. Places'
    BY <1>3, <1>w, <1>t
    DEF Round, Generations, Places, RoundClient, RoundCounts, AtGate, Arming,
       Running, StartupWait
  <2>3. RoundCounts'
    BY <1>3, <1>w, <1>t
    DEF Round, Generations, Places, RoundClient, RoundCounts, AtGate, Arming,
       Running, StartupWait, Joined, Finished
  <2>4. RoundClient'
    BY <1>3, <1>w, <1>t
    DEF Round, Generations, Places, RoundClient, RoundCounts, AtGate, Arming,
       Running, StartupWait
  <2> QED
    BY <2>1, <2>2, <2>3, <2>4 DEF Round
<1>4. CASE StartupDone
  <2>1. Generations'
    BY <1>4, <1>w, <1>t
    DEF Round, Generations, Places, RoundClient, RoundCounts, AtGate, Arming,
       Running, StartupDone
  <2>2. Places'
    BY <1>4, <1>w, <1>t
    DEF Round, Generations, Places, RoundClient, RoundCounts, AtGate, Arming,
       Running, StartupDone
  <2>3. RoundCounts'
    BY <1>4, <1>w, <1>t
    DEF Round, Generations, Places, RoundClient, RoundCounts, AtGate, Arming,
       Running, StartupDone, Joined, Finished
  <2>4. RoundClient'
    BY <1>4, <1>w, <1>t
    DEF Round, Generations, Places, RoundClient, RoundCounts, AtGate, Arming,
       Running, StartupDone
  <2> QED
    BY <2>1, <2>2, <2>3, <2>4 DEF Round
<1>5. CASE ClientReacquire
  <2>1. Generations'
    BY <1>5, <1>w, <1>t, ReacquireFacts
    DEF Round, Generations, Places, RoundClient, RoundCounts, AtGate, Arming,
       Running, ClientReacquire
  <2>2. Places'
    BY <1>5, <1>w, <1>t, ReacquireFacts
    DEF Round, Generations, Places, RoundClient, RoundCounts, AtGate, Arming,
       Running, ClientReacquire
  <2>3. RoundCounts'
    BY <1>5, <1>w, <1>t, ReacquireFacts
    DEF Round, Generations, Places, RoundClient, RoundCounts, AtGate, Arming,
       Running, ClientReacquire, Joined, Finished
  <2>4. RoundClient'
    BY <1>5, <1>w, <1>t, ReacquireFacts
    DEF Round, Generations, Places, RoundClient, RoundCounts, AtGate, Arming,
       Running, ClientReacquire
  <2> QED
    BY <2>1, <2>2, <2>3, <2>4 DEF Round
<1>6. CASE WaitBlocks
  <2>1. Generations'
    BY <1>6, <1>w, <1>t
    DEF Round, Generations, Places, RoundClient, RoundCounts, AtGate, Arming,
       Running, WaitBlocks
  <2>2. Places'
    BY <1>6, <1>w, <1>t
    DEF Round, Generations, Places, RoundClient, RoundCounts, AtGate, Arming,
       Running, WaitBlocks
  <2>3. RoundCounts'
    BY <1>6, <1>w, <1>t
    DEF Round, Generations, Places, RoundClient, RoundCounts, AtGate, Arming,
       Running, WaitBlocks, Joined, Finished
  <2>4. RoundClient'
    BY <1>6, <1>w, <1>t
    DEF Round, Generations, Places, RoundClient, RoundCounts, AtGate, Arming,
       Running, WaitBlocks
  <2> QED
    BY <2>1, <2>2, <2>3, <2>4 DEF Round
<1>7. CASE WaitReturns
  <2>1. Generations'
    BY <1>7, <1>w, <1>t
    DEF Round, Generations, Places, RoundClient, RoundCounts, AtGate, Arming,
       Running, WaitReturns
  <2>2. Places'
    BY <1>7, <1>w, <1>t
    DEF Round, Generations, Places, RoundClient, RoundCounts, AtGate, Arming,
       Running, WaitReturns
  <2>3. RoundCounts'
    BY <1>7, <1>w, <1>t
    DEF Round, Generations, Places, RoundClient, RoundCounts, AtGate, Arming,
       Running, WaitReturns, Joined, Finished
  <2>4. RoundClient'
    <3>1. mpc' \in {"arm", "ready"} /\ mpc = "wait" /\ ~stop
      BY <1>7 DEF WaitReturns, Stopping
    <3>2. queue = <<>> /\ workingCnt = 0
      BY <1>7, <3>1 DEF WaitReturns, Busy
    <3>3. Working = {}
      <4>1. Working \in SUBSET Worker /\ Cardinality(Working) = 0
        BY <3>2 DEF Working, Counts
      <4> QED
        BY <4>1, WorkerFinite, FS_Subset, FS_EmptySet
    <3>4. \A w \in Worker : wpc[w] \notin {"queued", "uncount"}
      BY <3>3 DEF Working
    <3> QED
      BY <1>7, <3>1, <3>2, <3>4
      DEF WaitReturns, Round, RoundClient, Arming, Running
  <2> QED
    BY <2>1, <2>2, <2>3, <2>4 DEF Round
<1>8. CASE Arm
  <2>1. Generations'
    BY <1>8, <1>w, <1>t, BroadcastFacts
    DEF Round, Generations, Places, RoundClient, RoundCounts, AtGate, Arming,
       Running, Arm
  <2>2. Places'
    <3>1. ASSUME NEW w \in Worker
          PROVE  /\ wpc[w] \in {"head", "idleWait", "idleWoken"}
                 /\ observed[w] = generation
      <4>1. ~AtGate(w) /\ wpc[w] # "parallel" /\ observed[w] = generation
        BY <1>8 DEF Arm, Round, Generations, Places, Arming, Running
      <4>2. wpc[w] \notin {"absent", "start", "queued", "uncount", "exited"}
        BY <1>8 DEF Arm, Round, RoundClient, Startup, Stopping, Serving
      <4> QED
        BY <4>1, <4>2, <1>w DEF AtGate, WorkerPC
    <3>2. \A w \in Worker : wpc'[w] \in {"head", "idleWoken"}
      BY <1>8, <1>w, <3>1, BroadcastFacts DEF Arm
    <3>3. \A w \in Worker : observed'[w] # generation' /\ ran'[w] = 0
      BY <1>8, <1>t, <3>1 DEF Arm
    <3> QED
      BY <1>8, <3>2, <3>3 DEF Arm, Places, AtGate, Arming, Running
  <2>3. RoundCounts'
    <3>1. \A w \in Worker : observed[w] = generation
      BY <1>8 DEF Arm, Round, Generations, Arming
    <3>2. Joined' = {}
      BY <1>8, <1>t, <3>1 DEF Arm, Joined
    <3>3. Finished' = {}
      BY <1>8 DEF Arm, Finished
    <3> QED
      BY <1>8, <3>2, <3>3, CountEmpty DEF Arm, RoundCounts
  <2>4. RoundClient'
    BY <1>8, <1>w, <1>t, BroadcastFacts
    DEF Round, Generations, Places, RoundClient, RoundCounts, AtGate, Arming,
       Running, Arm
  <2> QED
    BY <2>1, <2>2, <2>3, <2>4 DEF Round
<1>9. CASE AwaitReady
  <2>1. Generations'
    BY <1>9, <1>w, <1>t
    DEF Round, Generations, Places, RoundClient, RoundCounts, AtGate, Arming,
       Running, AwaitReady
  <2>2. Places'
    BY <1>9, <1>w, <1>t
    DEF Round, Generations, Places, RoundClient, RoundCounts, AtGate, Arming,
       Running, AwaitReady
  <2>3. RoundCounts'
    BY <1>9, <1>w, <1>t
    DEF Round, Generations, Places, RoundClient, RoundCounts, AtGate, Arming,
       Running, AwaitReady, Joined, Finished
  <2>4. RoundClient'
    BY <1>9, <1>w, <1>t
    DEF Round, Generations, Places, RoundClient, RoundCounts, AtGate, Arming,
       Running, AwaitReady
  <2> QED
    BY <2>1, <2>2, <2>3, <2>4 DEF Round
<1>10. CASE OpenGate
  <2>1. Joined = Worker
    BY <1>10, CountBound
    DEF OpenGate, AllReady, Round, RoundCounts, Joined, Arming
  <2>2. \A w \in Worker : AtGate(w) /\ observed[w] = generation /\ ran[w] = 0
    BY <1>10, <2>1 DEF OpenGate, Round, Places, Joined, Arming
  <2>3. \A w \in Worker : wpc'[w] \in {"gate", "gateWoken"}
    BY <1>10, <1>w, <2>2, BroadcastFacts DEF OpenGate, AtGate
  <2>4. Generations'
    BY <1>10, <1>t, <2>2 DEF OpenGate, Generations, Arming
  <2>5. Places'
    BY <1>10, <2>2, <2>3
    DEF OpenGate, Round, Places, AtGate, Arming, Running
  <2>6. RoundCounts'
    <3>1. Joined' = Joined
      BY <1>10 DEF OpenGate, Joined
    <3>2. Finished' = Finished
      BY <1>10, <2>2, <2>3 DEF OpenGate, Finished
    <3> QED
      BY <1>10, <3>1, <3>2 DEF OpenGate, Round, RoundCounts, Arming
  <2>7. RoundClient'
    BY <1>10, <1>w, BroadcastFacts
    DEF OpenGate, Round, RoundClient, Arming, Running
  <2> QED
    BY <2>4, <2>5, <2>6, <2>7 DEF Round
<1>11. CASE AwaitDone
  <2>1. Generations'
    BY <1>11, <1>w, <1>t
    DEF Round, Generations, Places, RoundClient, RoundCounts, AtGate, Arming,
       Running, AwaitDone
  <2>2. Places'
    BY <1>11, <1>w, <1>t
    DEF Round, Generations, Places, RoundClient, RoundCounts, AtGate, Arming,
       Running, AwaitDone
  <2>3. RoundCounts'
    BY <1>11, <1>w, <1>t
    DEF Round, Generations, Places, RoundClient, RoundCounts, AtGate, Arming,
       Running, AwaitDone, Joined, Finished
  <2>4. RoundClient'
    BY <1>11, <1>w, <1>t
    DEF Round, Generations, Places, RoundClient, RoundCounts, AtGate, Arming,
       Running, AwaitDone
  <2> QED
    BY <2>1, <2>2, <2>3, <2>4 DEF Round
<1>12. CASE RunAllReturns
  <2>1. Generations'
    BY <1>12, <1>w, <1>t
    DEF Round, Generations, Places, RoundClient, RoundCounts, AtGate, Arming,
       Running, RunAllReturns
  <2>2. Places'
    <3>1. Finished = Worker
      BY <1>12, CountBound
      DEF RunAllReturns, AllDone, Round, RoundCounts, Finished, Running
    <3>2. \A w \in Worker : ~AtGate(w) /\ wpc[w] # "parallel"
      BY <1>12, <3>1 DEF RunAllReturns, Round, Places, Finished
    <3> QED
      BY <1>12, <3>2 DEF RunAllReturns, Places, AtGate, Arming, Running
  <2>3. RoundCounts'
    BY <1>12, <1>w, <1>t
    DEF Round, Generations, Places, RoundClient, RoundCounts, AtGate, Arming,
       Running, RunAllReturns, Joined, Finished
  <2>4. RoundClient'
    BY <1>12, <1>w, <1>t
    DEF Round, Generations, Places, RoundClient, RoundCounts, AtGate, Arming,
       Running, RunAllReturns
  <2> QED
    BY <2>1, <2>2, <2>3, <2>4 DEF Round
<1>13. CASE Join
  <2>1. Generations'
    BY <1>13, <1>w, <1>t
    DEF Round, Generations, Places, RoundClient, RoundCounts, AtGate, Arming,
       Running, Join
  <2>2. Places'
    BY <1>13, <1>w, <1>t
    DEF Round, Generations, Places, RoundClient, RoundCounts, AtGate, Arming,
       Running, Join
  <2>3. RoundCounts'
    BY <1>13, <1>w, <1>t
    DEF Round, Generations, Places, RoundClient, RoundCounts, AtGate, Arming,
       Running, Join, Joined, Finished
  <2>4. RoundClient'
    BY <1>13, <1>w, <1>t
    DEF Round, Generations, Places, RoundClient, RoundCounts, AtGate, Arming,
       Running, Join
  <2> QED
    BY <2>1, <2>2, <2>3, <2>4 DEF Round
<1>14. CASE SpawnFails
  <2>1. Generations'
    BY <1>14, <1>w, <1>t, BroadcastFacts
    DEF Round, Generations, Places, RoundClient, RoundCounts, AtGate, Arming,
       Running, SpawnFails
  <2>2. Places'
    BY <1>14, <1>w, <1>t, BroadcastFacts
    DEF Round, Generations, Places, RoundClient, RoundCounts, AtGate, Arming,
       Running, SpawnFails
  <2>3. RoundCounts'
    BY <1>14, <1>w, <1>t, BroadcastFacts
    DEF Round, Generations, Places, RoundClient, RoundCounts, AtGate, Arming,
       Running, SpawnFails, Joined, Finished
  <2>4. RoundClient'
    BY <1>14, <1>w, <1>t, BroadcastFacts
    DEF Round, Generations, Places, RoundClient, RoundCounts, AtGate, Arming,
       Running, SpawnFails
  <2> QED
    BY <2>1, <2>2, <2>3, <2>4 DEF Round
<1>15. CASE AddWork
  <2>1. Generations'
    BY <1>15, <1>w, <1>t, BroadcastFacts
    DEF Round, Generations, Places, RoundClient, RoundCounts, AtGate, Arming,
       Running, AddWork
  <2>2. Places'
    BY <1>15, <1>w, <1>t, BroadcastFacts
    DEF Round, Generations, Places, RoundClient, RoundCounts, AtGate, Arming,
       Running, AddWork
  <2>3. RoundCounts'
    BY <1>15, <1>w, <1>t, BroadcastFacts
    DEF Round, Generations, Places, RoundClient, RoundCounts, AtGate, Arming,
       Running, AddWork, Joined, Finished
  <2>4. RoundClient'
    BY <1>15, <1>w, <1>t, BroadcastFacts
    DEF Round, Generations, Places, RoundClient, RoundCounts, AtGate, Arming,
       Running, AddWork
  <2> QED
    BY <2>1, <2>2, <2>3, <2>4 DEF Round
<1>16. CASE CallWait
  <2>1. Generations'
    BY <1>16, <1>w, <1>t
    DEF Round, Generations, Places, RoundClient, RoundCounts, AtGate, Arming,
       Running, CallWait
  <2>2. Places'
    BY <1>16, <1>w, <1>t
    DEF Round, Generations, Places, RoundClient, RoundCounts, AtGate, Arming,
       Running, CallWait
  <2>3. RoundCounts'
    BY <1>16, <1>w, <1>t
    DEF Round, Generations, Places, RoundClient, RoundCounts, AtGate, Arming,
       Running, CallWait, Joined, Finished
  <2>4. RoundClient'
    BY <1>16, <1>w, <1>t
    DEF Round, Generations, Places, RoundClient, RoundCounts, AtGate, Arming,
       Running, CallWait
  <2> QED
    BY <2>1, <2>2, <2>3, <2>4 DEF Round
<1>17. ASSUME NEW j \in Jobs,
            CallRunAll(j)
     PROVE  Round'
  <2>1. Generations'
    BY <1>17, <1>w, <1>t
    DEF Round, Generations, Places, RoundClient, RoundCounts, AtGate, Arming,
       Running, CallRunAll
  <2>2. Places'
    BY <1>17, <1>w, <1>t
    DEF Round, Generations, Places, RoundClient, RoundCounts, AtGate, Arming,
       Running, CallRunAll
  <2>3. RoundCounts'
    BY <1>17, <1>w, <1>t
    DEF Round, Generations, Places, RoundClient, RoundCounts, AtGate, Arming,
       Running, CallRunAll, Joined, Finished
  <2>4. RoundClient'
    BY <1>17, <1>w, <1>t
    DEF Round, Generations, Places, RoundClient, RoundCounts, AtGate, Arming,
       Running, CallRunAll
  <2> QED
    BY <2>1, <2>2, <2>3, <2>4 DEF Round
<1>18. CASE Destroy
  <2>1. Generations'
    BY <1>18, <1>w, <1>t, BroadcastFacts
    DEF Round, Generations, Places, RoundClient, RoundCounts, AtGate, Arming,
       Running, Destroy
  <2>2. Places'
    BY <1>18, <1>w, <1>t, BroadcastFacts
    DEF Round, Generations, Places, RoundClient, RoundCounts, AtGate, Arming,
       Running, Destroy
  <2>3. RoundCounts'
    BY <1>18, <1>w, <1>t, BroadcastFacts
    DEF Round, Generations, Places, RoundClient, RoundCounts, AtGate, Arming,
       Running, Destroy, Joined, Finished
  <2>4. RoundClient'
    BY <1>18, <1>w, <1>t, BroadcastFacts
    DEF Round, Generations, Places, RoundClient, RoundCounts, AtGate, Arming,
       Running, Destroy
  <2> QED
    BY <2>1, <2>2, <2>3, <2>4 DEF Round
<1>19. ASSUME NEW w \in Worker, NEW failed \in BOOLEAN,
            CheckIn(w, failed)
     PROVE  Round'
  <2>1. Generations'
    BY <1>19, <1>w, <1>t, SignalFacts
    DEF Round, Generations, Places, RoundClient, RoundCounts, AtGate, Arming,
       Running, CheckIn, MoveWorker, WorkerPC
  <2>2. Places'
    BY <1>19, <1>w, <1>t, SignalFacts
    DEF Round, Generations, Places, RoundClient, RoundCounts, AtGate, Arming,
       Running, CheckIn, MoveWorker, WorkerPC
  <2>3. RoundCounts'
    BY <1>19, <1>w, <1>t, SignalFacts
    DEF Round, Generations, Places, RoundClient, RoundCounts, AtGate, Arming,
       Running, CheckIn, Joined, Finished, MoveWorker, WorkerPC
  <2>4. RoundClient'
    BY <1>19, <1>w, <1>t, SignalFacts
    DEF Round, Generations, Places, RoundClient, RoundCounts, AtGate, Arming,
       Running, CheckIn, MoveWorker, WorkerPC
  <2> QED
    BY <2>1, <2>2, <2>3, <2>4 DEF Round
<1>20. ASSUME NEW w \in Worker,
            WorkerReacquire(w)
     PROVE  Round'
  <2>1. Generations'
    BY <1>20, <1>w, <1>t
    DEF Round, Generations, Places, RoundClient, RoundCounts, AtGate, Arming,
       Running, WorkerReacquire, MoveWorker, WorkerPC
  <2>2. Places'
    BY <1>20, <1>w, <1>t
    DEF Round, Generations, Places, RoundClient, RoundCounts, AtGate, Arming,
       Running, WorkerReacquire, MoveWorker, WorkerPC
  <2>3. RoundCounts'
    BY <1>20, <1>w, <1>t
    DEF Round, Generations, Places, RoundClient, RoundCounts, AtGate, Arming,
       Running, WorkerReacquire, Joined, Finished, MoveWorker, WorkerPC
  <2>4. RoundClient'
    BY <1>20, <1>w, <1>t
    DEF Round, Generations, Places, RoundClient, RoundCounts, AtGate, Arming,
       Running, WorkerReacquire, MoveWorker, WorkerPC
  <2> QED
    BY <2>1, <2>2, <2>3, <2>4 DEF Round
<1>21. ASSUME NEW w \in Worker,
            IdleWait(w)
     PROVE  Round'
  <2>1. Generations'
    BY <1>21, <1>w, <1>t
    DEF Round, Generations, Places, RoundClient, RoundCounts, AtGate, Arming,
       Running, IdleWait, MoveWorker, WorkerPC
  <2>2. Places'
    BY <1>21, <1>w, <1>t
    DEF Round, Generations, Places, RoundClient, RoundCounts, AtGate, Arming,
       Running, IdleWait, MoveWorker, WorkerPC
  <2>3. RoundCounts'
    BY <1>21, <1>w, <1>t
    DEF Round, Generations, Places, RoundClient, RoundCounts, AtGate, Arming,
       Running, IdleWait, Joined, Finished, MoveWorker, WorkerPC
  <2>4. RoundClient'
    BY <1>21, <1>w, <1>t
    DEF Round, Generations, Places, RoundClient, RoundCounts, AtGate, Arming,
       Running, IdleWait, MoveWorker, WorkerPC
  <2> QED
    BY <2>1, <2>2, <2>3, <2>4 DEF Round
<1>22. ASSUME NEW w \in Worker,
            Exit(w)
     PROVE  Round'
  <2>1. Generations'
    BY <1>22, <1>w, <1>t, SignalFacts
    DEF Round, Generations, Places, RoundClient, RoundCounts, AtGate, Arming,
       Running, Exit, MoveWorker, WorkerPC
  <2>2. Places'
    <3>1. mpc \notin Arming \cup Running /\ mpc' \notin Arming \cup Running
      BY <1>22, <1>w, WakeFacts
      DEF Exit, Stopping, Signal, WorkingCond, Arming, Running
    <3>2. \A v \in Worker : ~AtGate(v) /\ wpc[v] # "parallel"
      BY <3>1 DEF Round, Places
    <3>3. \A v \in Worker : ~AtGate(v)' /\ wpc'[v] # "parallel"
      BY <1>22, <1>w, <3>2 DEF Exit, MoveWorker, AtGate
    <3> QED
      BY <3>1, <3>3 DEF Places, Arming, Running
  <2>3. RoundCounts'
    BY <1>22, <1>w, <1>t, SignalFacts
    DEF Round, Generations, Places, RoundClient, RoundCounts, AtGate, Arming,
       Running, Exit, Joined, Finished, MoveWorker, WorkerPC
  <2>4. RoundClient'
    BY <1>22, <1>w, <1>t, SignalFacts
    DEF Round, Generations, Places, RoundClient, RoundCounts, AtGate, Arming,
       Running, Exit, MoveWorker, WorkerPC
  <2> QED
    BY <2>1, <2>2, <2>3, <2>4 DEF Round
<1>23. ASSUME NEW w \in Worker,
            JoinRound(w)
     PROVE  Round'
  <2>1. Generations'
    BY <1>23, <1>w, <1>t, SignalFacts
    DEF Round, Generations, Places, RoundClient, RoundCounts, AtGate, Arming,
       Running, JoinRound, SignalIf, MoveWorker, WorkerPC
  <2>2. Places'
    BY <1>23, <1>w, <1>t, SignalFacts
    DEF Round, Generations, Places, RoundClient, RoundCounts, AtGate, Arming,
       Running, JoinRound, SignalIf, MoveWorker, WorkerPC
  <2>3. RoundCounts'
    <3>1. mpc \in Arming
      BY <1>23 DEF JoinRound, Round, Generations
    <3>2. /\ Joined \in SUBSET Worker /\ w \notin Joined
          /\ Joined' = Joined \cup {w}
      BY <1>23, <1>t DEF JoinRound, Joined
    <3>3. Cardinality(Joined') = Cardinality(Joined) + 1
      BY <3>2, CountAdd
    <3>4. Finished' = Finished
      BY <1>23, <1>w DEF JoinRound, Finished, MoveWorker
    <3> QED
      BY <1>23, <3>1, <3>3, <3>4 DEF JoinRound, Round, RoundCounts
  <2>4. RoundClient'
    BY <1>23, <1>w, <1>t, SignalFacts
    DEF Round, Generations, Places, RoundClient, RoundCounts, AtGate, Arming,
       Running, JoinRound, SignalIf, MoveWorker, WorkerPC
  <2> QED
    BY <2>1, <2>2, <2>3, <2>4 DEF Round
<1>24. ASSUME NEW w \in Worker,
            GateWait(w)
     PROVE  Round'
  <2>1. Generations'
    BY <1>24, <1>w, <1>t
    DEF Round, Generations, Places, RoundClient, RoundCounts, AtGate, Arming,
       Running, GateWait, MoveWorker, WorkerPC
  <2>2. Places'
    BY <1>24, <1>w, <1>t
    DEF Round, Generations, Places, RoundClient, RoundCounts, AtGate, Arming,
       Running, GateWait, MoveWorker, WorkerPC
  <2>3. RoundCounts'
    BY <1>24, <1>w, <1>t
    DEF Round, Generations, Places, RoundClient, RoundCounts, AtGate, Arming,
       Running, GateWait, Joined, Finished, MoveWorker, WorkerPC
  <2>4. RoundClient'
    BY <1>24, <1>w, <1>t
    DEF Round, Generations, Places, RoundClient, RoundCounts, AtGate, Arming,
       Running, GateWait, MoveWorker, WorkerPC
  <2> QED
    BY <2>1, <2>2, <2>3, <2>4 DEF Round
<1>25. ASSUME NEW w \in Worker,
            RunParallel(w)
     PROVE  Round'
  <2>1. Generations'
    BY <1>25, <1>w, <1>t
    DEF Round, Generations, Places, RoundClient, RoundCounts, AtGate, Arming,
       Running, RunParallel, MoveWorker, WorkerPC
  <2>2. Places'
    <3>1. mpc \in Running /\ ran[w] = 0 /\ wjob[w] = pending
      BY <1>25, <1>t
      DEF RunParallel, GateOpen, Round, Generations, Places, AtGate, Arming
    <3>2. mpc' = mpc /\ pending' = pending /\ generation' = generation
      BY <1>25 DEF RunParallel
    <3>3. wpc'[w] = "parallel" /\ ran'[w] = 1
      BY <1>25, <1>w, <1>t, <3>1 DEF RunParallel, MoveWorker
    <3>4. \A v \in Worker \ {w} : wpc'[v] = wpc[v] /\ ran'[v] = ran[v]
      BY <1>25, <1>w, <1>t DEF RunParallel, MoveWorker
    <3>5. \A v \in Worker : observed'[v] = observed[v] /\ wjob'[v] = wjob[v]
      BY <1>25 DEF RunParallel
    <3> QED
      BY <3>1, <3>2, <3>3, <3>4, <3>5
      DEF Round, Places, AtGate, Arming, Running
  <2>3. RoundCounts'
    <3>1. ran[w] = 0
      BY <1>25 DEF RunParallel, Round, Places, AtGate
    <3>2. Joined' = Joined
      BY <1>25 DEF RunParallel, Joined
    <3>3. Finished' = Finished
      BY <1>25, <1>w, <1>t, <3>1 DEF RunParallel, Finished, MoveWorker, WorkerPC
    <3> QED
      BY <1>25, <3>2, <3>3 DEF RunParallel, Round, RoundCounts
  <2>4. RoundClient'
    BY <1>25, <1>w, <1>t
    DEF Round, Generations, Places, RoundClient, RoundCounts, AtGate, Arming,
       Running, RunParallel, MoveWorker, WorkerPC
  <2> QED
    BY <2>1, <2>2, <2>3, <2>4 DEF Round
<1>26. ASSUME NEW w \in Worker,
            NEW before \in Readings, NEW after \in Readings,
            FinishParallel(w, before, after)
     PROVE  Round'
  <2>1. Generations'
    BY <1>26, <1>w, <1>t, SignalFacts
    DEF Round, Generations, Places, RoundClient, RoundCounts, AtGate, Arming,
       Running, FinishParallel, SignalIf, MoveWorker, WorkerPC
  <2>2. Places'
    BY <1>26, <1>w, <1>t, SignalFacts
    DEF Round, Generations, Places, RoundClient, RoundCounts, AtGate, Arming,
       Running, FinishParallel, SignalIf, MoveWorker, WorkerPC
  <2>3. RoundCounts'
    <3>1. ran[w] = 1
      BY <1>26 DEF FinishParallel, Round, Places
    <3>2. Joined' = Joined
      BY <1>26 DEF FinishParallel, Joined
    <3>3. /\ Finished \in SUBSET Worker /\ w \notin Finished
          /\ Finished' = Finished \cup {w}
      BY <1>26, <1>w, <3>1 DEF FinishParallel, Finished, MoveWorker, WorkerPC
    <3>4. Cardinality(Finished') = Cardinality(Finished) + 1
      BY <3>3, CountAdd
    <3>5. mpc \in Running
      BY <1>26 DEF FinishParallel, Round, Places
    <3> QED
      BY <1>26, <3>2, <3>4, <3>5 DEF FinishParallel, Round, RoundCounts
  <2>4. RoundClient'
    BY <1>26, <1>w, <1>t, SignalFacts
    DEF Round, Generations, Places, RoundClient, RoundCounts, AtGate, Arming,
       Running, FinishParallel, SignalIf, MoveWorker, WorkerPC
  <2> QED
    BY <2>1, <2>2, <2>3, <2>4 DEF Round
<1>27. ASSUME NEW w \in Worker,
            TakeWork(w)
     PROVE  Round'
  <2>1. Generations'
    BY <1>27, <1>w, <1>t
    DEF Round, Generations, Places, RoundClient, RoundCounts, AtGate, Arming,
       Running, TakeWork, MoveWorker, WorkerPC
  <2>2. Places'
    BY <1>27, <1>w, <1>t
    DEF Round, Generations, Places, RoundClient, RoundCounts, AtGate, Arming,
       Running, TakeWork, MoveWorker, WorkerPC
  <2>3. RoundCounts'
    BY <1>27, <1>w, <1>t
    DEF Round, Generations, Places, RoundClient, RoundCounts, AtGate, Arming,
       Running, TakeWork, Joined, Finished, MoveWorker, WorkerPC
  <2>4. RoundClient'
    BY <1>27, <1>w, <1>t
    DEF Round, Generations, Places, RoundClient, RoundCounts, AtGate, Arming,
       Running, TakeWork, MoveWorker, WorkerPC
  <2> QED
    BY <2>1, <2>2, <2>3, <2>4 DEF Round
<1>28. ASSUME NEW w \in Worker,
            NEW before \in Readings, NEW after \in Readings,
            RecordWork(w, before, after)
     PROVE  Round'
  <2>1. Generations'
    BY <1>28, <1>w, <1>t
    DEF Round, Generations, Places, RoundClient, RoundCounts, AtGate, Arming,
       Running, RecordWork, MoveWorker, WorkerPC
  <2>2. Places'
    BY <1>28, <1>w, <1>t
    DEF Round, Generations, Places, RoundClient, RoundCounts, AtGate, Arming,
       Running, RecordWork, MoveWorker, WorkerPC
  <2>3. RoundCounts'
    BY <1>28, <1>w, <1>t
    DEF Round, Generations, Places, RoundClient, RoundCounts, AtGate, Arming,
       Running, RecordWork, Joined, Finished, MoveWorker, WorkerPC
  <2>4. RoundClient'
    BY <1>28, <1>w, <1>t
    DEF Round, Generations, Places, RoundClient, RoundCounts, AtGate, Arming,
       Running, RecordWork, MoveWorker, WorkerPC
  <2> QED
    BY <2>1, <2>2, <2>3, <2>4 DEF Round
<1>29. ASSUME NEW w \in Worker,
            Uncount(w)
     PROVE  Round'
  <2>1. Generations'
    BY <1>29, <1>w, <1>t, SignalFacts
    DEF Round, Generations, Places, RoundClient, RoundCounts, AtGate, Arming,
       Running, Uncount, SignalIf, MoveWorker, WorkerPC
  <2>2. Places'
    BY <1>29, <1>w, <1>t, SignalFacts
    DEF Round, Generations, Places, RoundClient, RoundCounts, AtGate, Arming,
       Running, Uncount, SignalIf, MoveWorker, WorkerPC
  <2>3. RoundCounts'
    BY <1>29, <1>w, <1>t, SignalFacts
    DEF Round, Generations, Places, RoundClient, RoundCounts, AtGate, Arming,
       Running, Uncount, Joined, Finished, SignalIf, MoveWorker, WorkerPC
  <2>4. RoundClient'
    BY <1>29, <1>w, <1>t, SignalFacts
    DEF Round, Generations, Places, RoundClient, RoundCounts, AtGate, Arming,
       Running, Uncount, SignalIf, MoveWorker, WorkerPC
  <2> QED
    BY <2>1, <2>2, <2>3, <2>4 DEF Round
<1>30. ASSUME NEW w \in Worker,
            SpuriousWorker(w)
     PROVE  Round'
  <2>1. Generations'
    BY <1>30, <1>w, <1>t, WakeFacts, ZenonT(60)
    DEF Round, Generations, Places, RoundClient, RoundCounts, AtGate, Arming,
       Running, SpuriousWorker, MoveWorker, WorkerPC
  <2>2. Places'
    BY <1>30, <1>w, <1>t, WakeFacts, ZenonT(60)
    DEF Round, Generations, Places, RoundClient, RoundCounts, AtGate, Arming,
       Running, SpuriousWorker, MoveWorker, WorkerPC
  <2>3. RoundCounts'
    BY <1>30, <1>w, <1>t, WakeFacts, ZenonT(60)
    DEF Round, Generations, Places, RoundClient, RoundCounts, AtGate, Arming,
       Running, SpuriousWorker, Joined, Finished, MoveWorker, WorkerPC
  <2>4. RoundClient'
    BY <1>30, <1>w, <1>t, WakeFacts, ZenonT(60)
    DEF Round, Generations, Places, RoundClient, RoundCounts, AtGate, Arming,
       Running, SpuriousWorker, MoveWorker, WorkerPC
  <2> QED
    BY <2>1, <2>2, <2>3, <2>4 DEF Round
<1>31. CASE SpuriousClient
  <2>1. Generations'
    BY <1>31, <1>w, <1>t, WakeFacts
    DEF Round, Generations, Places, RoundClient, RoundCounts, AtGate, Arming,
       Running, SpuriousClient, ReadyCond, WorkingCond, DoneCond
  <2>2. Places'
    BY <1>31, <1>w, <1>t, WakeFacts
    DEF Round, Generations, Places, RoundClient, RoundCounts, AtGate, Arming,
       Running, SpuriousClient, ReadyCond, WorkingCond, DoneCond
  <2>3. RoundCounts'
    BY <1>31, <1>w, <1>t, WakeFacts
    DEF Round, Generations, Places, RoundClient, RoundCounts, AtGate, Arming,
       Running, SpuriousClient, Joined, Finished, ReadyCond, WorkingCond,
       DoneCond
  <2>4. RoundClient'
    BY <1>31, <1>w, <1>t, WakeFacts
    DEF Round, Generations, Places, RoundClient, RoundCounts, AtGate, Arming,
       Running, SpuriousClient, ReadyCond, WorkingCond, DoneCond
  <2> QED
    BY <2>1, <2>2, <2>3, <2>4 DEF Round
<1>32. CASE UNCHANGED vars
  <2>1. Generations'
    BY <1>32
    DEF vars, Round, Generations, Joined, Finished, AtGate, Arming, Running
  <2>2. Places'
    BY <1>32 DEF vars, Round, Places, Joined, Finished, AtGate, Arming, Running
  <2>3. RoundCounts'
    BY <1>32
    DEF vars, Round, RoundCounts, Joined, Finished, AtGate, Arming, Running
  <2>4. RoundClient'
    BY <1>32
    DEF vars, Round, RoundClient, Joined, Finished, AtGate, Arming, Running
  <2> QED
    BY <2>1, <2>2, <2>3, <2>4 DEF Round
<1> QED
  BY <1>1, <1>2, <1>3, <1>4, <1>5, <1>6, <1>7, <1>8, <1>9, <1>10, <1>11,
     <1>12, <1>13, <1>14, <1>15, <1>16, <1>17, <1>18, <1>19, <1>20, <1>21,
     <1>22, <1>23, <1>24, <1>25, <1>26, <1>27, <1>28, <1>29, <1>30, <1>31,
     <1>32
  DEF Next, ClientStep, ClientCall, WorkerStep, Terminated

LEMMA WakeupsInit == Init => NoLostWakeup
BY DEF Init, NoLostWakeup

LEMMA WakeupsStep ==
  Types /\ Counts /\ Stopping /\ Generations /\ Places /\ NoLostWakeup
    /\ [Next]_vars => NoLostWakeup'
<1> SUFFICES ASSUME Types, Counts, Stopping, Generations, Places,
                    NoLostWakeup, [Next]_vars
             PROVE  NoLostWakeup'
  OBVIOUS
<1> USE PoolAssumption
    DEF poolVars, queueVars, lifeVars, startupVars, roundVars, workerVars,
        roundLocals, clientVars, callVars, historyVars
<1>w. wpc \in [Worker -> WorkerPC] /\ mpc \in ClientPC
  BY DEF Types, WorkerTypes, ClientTypes
<1>t. /\ queue \in Seq(1 .. MaxAdds) /\ generation \in Nat
      /\ startGeneration \in Nat /\ observed \in [Worker -> Nat]
      /\ readyCnt \in Nat /\ doneCnt \in Nat /\ startupReadyCnt \in Nat
  BY DEF Types, PoolTypes, WorkerTypes
<1>c. workingCnt \in Nat
  BY CountBound DEF Counts, Working
<1>1. CASE SpawnWorker
  BY <1>1, <1>w, <1>t, <1>c DEF NoLostWakeup, SpawnWorker, MoveWorker, WorkerPC
<1>2. CASE Unwind
  BY <1>2, <1>w, <1>t, <1>c DEF NoLostWakeup, Unwind
<1>3. CASE StartupWait
  BY <1>3, <1>w, <1>t, <1>c DEF NoLostWakeup, StartupWait, AllCheckedIn
<1>4. CASE StartupDone
  BY <1>4, <1>w, <1>t, <1>c DEF NoLostWakeup, StartupDone
<1>5. CASE ClientReacquire
  BY <1>5, <1>w, <1>t, <1>c, ReacquireFacts DEF NoLostWakeup, ClientReacquire
<1>6. CASE WaitBlocks
  BY <1>6, <1>w, <1>t, <1>c DEF NoLostWakeup, WaitBlocks, Busy, Stopping
<1>7. CASE WaitReturns
  BY <1>7, <1>w, <1>t, <1>c DEF NoLostWakeup, WaitReturns
<1>8. CASE Arm
  BY <1>8, <1>w, BroadcastFacts, <1>t, <1>c
  DEF NoLostWakeup, Arm, Generations, Arming
<1>9. CASE AwaitReady
  BY <1>9, <1>w, <1>t, <1>c DEF NoLostWakeup, AwaitReady, AllReady
<1>10. CASE OpenGate
  BY <1>10, <1>w, BroadcastFacts, <1>t, <1>c DEF NoLostWakeup, OpenGate
<1>11. CASE AwaitDone
  BY <1>11, <1>w, <1>t, <1>c DEF NoLostWakeup, AwaitDone, AllDone
<1>12. CASE RunAllReturns
  BY <1>12, <1>w, <1>t, <1>c DEF NoLostWakeup, RunAllReturns
<1>13. CASE Join
  BY <1>13, <1>w, <1>t, <1>c DEF NoLostWakeup, Join
<1>14. CASE SpawnFails
  <2>1. \A w \in Worker : wpc'[w] \notin {"idleWait", "gateWait"}
    BY <1>14, <1>w, BroadcastFacts
    DEF SpawnFails, Places, AtGate, Arming, Running
  <2> QED
    BY <1>14, <2>1 DEF SpawnFails, NoLostWakeup
<1>15. CASE AddWork
  BY <1>15, <1>w, BroadcastFacts, <1>t, <1>c DEF NoLostWakeup, AddWork
<1>16. CASE CallWait
  BY <1>16, <1>w, <1>t, <1>c DEF NoLostWakeup, CallWait
<1>17. ASSUME NEW j \in Jobs,
            CallRunAll(j)
     PROVE  NoLostWakeup'
  BY <1>17, <1>w, <1>t, <1>c DEF NoLostWakeup, CallRunAll
<1>18. CASE Destroy
  <2>1. \A w \in Worker : wpc'[w] \notin {"idleWait", "gateWait"}
    BY <1>18, <1>w, BroadcastFacts DEF Destroy
  <2> QED
    BY <1>18, <2>1 DEF Destroy, NoLostWakeup
<1>19. ASSUME NEW w \in Worker, NEW failed \in BOOLEAN,
            CheckIn(w, failed)
     PROVE  NoLostWakeup'
  <2>1. mpc' # "startupWait" /\ (mpc' # mpc => mpc' \in {"startupWoken", "readyWoken"})
    BY <1>19, <1>w, WakeFacts DEF CheckIn, Signal, ReadyCond
  <2>2. \A v \in Worker : wpc'[v] \in {"idleWait", "gateWait"} => wpc'[v] = wpc[v]
    BY <1>19, <1>w DEF CheckIn, MoveWorker
  <2> QED
    BY <1>19, <2>1, <2>2 DEF CheckIn, NoLostWakeup
<1>20. ASSUME NEW w \in Worker,
            WorkerReacquire(w)
     PROVE  NoLostWakeup'
  BY <1>20, <1>w, <1>t, <1>c
  DEF NoLostWakeup, WorkerReacquire, MoveWorker, WorkerPC
<1>21. ASSUME NEW w \in Worker,
            IdleWait(w)
     PROVE  NoLostWakeup'
  BY <1>21, <1>w, <1>t, <1>c DEF NoLostWakeup, IdleWait, MoveWorker, WorkerPC
<1>22. ASSUME NEW w \in Worker,
            Exit(w)
     PROVE  NoLostWakeup'
  BY <1>22, <1>w, SignalFacts, <1>t, <1>c
  DEF NoLostWakeup, Exit, MoveWorker, WorkerPC
<1>23. ASSUME NEW w \in Worker,
            JoinRound(w)
     PROVE  NoLostWakeup'
  BY <1>23, <1>w, SignalFacts, <1>t, <1>c
  DEF NoLostWakeup, JoinRound, SignalIf, MoveWorker, WorkerPC, ReadyCond
<1>24. ASSUME NEW w \in Worker,
            GateWait(w)
     PROVE  NoLostWakeup'
  BY <1>24, <1>w, <1>t, <1>c
  DEF NoLostWakeup, GateWait, MoveWorker, WorkerPC, GateOpen
<1>25. ASSUME NEW w \in Worker,
            RunParallel(w)
     PROVE  NoLostWakeup'
  BY <1>25, <1>w, <1>t, <1>c
  DEF NoLostWakeup, RunParallel, MoveWorker, WorkerPC
<1>26. ASSUME NEW w \in Worker,
            NEW before \in Readings, NEW after \in Readings,
            FinishParallel(w, before, after)
     PROVE  NoLostWakeup'
  <2>1. mpc' = "doneWait" => doneCnt' # N
    BY <1>26, <1>w, <1>t, WakeFacts DEF FinishParallel, SignalIf, Signal, DoneCond
  <2>2. mpc' # mpc => mpc' = "doneWoken"
    BY <1>26, <1>w, WakeFacts DEF FinishParallel, SignalIf, Signal, DoneCond
  <2>3. \A v \in Worker : wpc'[v] \in {"idleWait", "gateWait"} => wpc'[v] = wpc[v]
    BY <1>26, <1>w DEF FinishParallel, MoveWorker
  <2> QED
    BY <1>26, <2>1, <2>2, <2>3 DEF FinishParallel, NoLostWakeup
<1>27. ASSUME NEW w \in Worker,
            TakeWork(w)
     PROVE  NoLostWakeup'
  BY <1>27, <1>w, <1>t, <1>c DEF NoLostWakeup, TakeWork, MoveWorker, WorkerPC
<1>28. ASSUME NEW w \in Worker,
            NEW before \in Readings, NEW after \in Readings,
            RecordWork(w, before, after)
     PROVE  NoLostWakeup'
  BY <1>28, <1>w, <1>t, <1>c DEF NoLostWakeup, RecordWork, MoveWorker, WorkerPC
<1>29. ASSUME NEW w \in Worker,
            Uncount(w)
     PROVE  NoLostWakeup'
  <2>1. mpc' = "workingWait" => queue' # <<>> \/ workingCnt' # 0
    BY <1>29, <1>w, <1>c, WakeFacts
    DEF Uncount, SignalIf, Signal, WorkingCond, Drained, Stopping
  <2>2. mpc' # mpc => mpc' = "wait"
    BY <1>29, <1>w, WakeFacts DEF Uncount, SignalIf, Signal, WorkingCond
  <2>3. \A v \in Worker : wpc'[v] \in {"idleWait", "gateWait"} => wpc'[v] = wpc[v]
    BY <1>29, <1>w DEF Uncount, MoveWorker
  <2> QED
    BY <1>29, <2>1, <2>2, <2>3 DEF Uncount, NoLostWakeup
<1>30. ASSUME NEW w \in Worker,
            SpuriousWorker(w)
     PROVE  NoLostWakeup'
  BY <1>30, <1>w, WakeFacts, <1>t, <1>c
  DEF NoLostWakeup, SpuriousWorker, MoveWorker, WorkerPC
<1>31. CASE SpuriousClient
  BY <1>31, <1>w, WakeFacts, <1>t, <1>c
  DEF NoLostWakeup, SpuriousClient, ReadyCond, WorkingCond, DoneCond
<1>32. CASE UNCHANGED vars
  BY <1>32 DEF NoLostWakeup, vars
<1> QED
  BY <1>1, <1>2, <1>3, <1>4, <1>5, <1>6, <1>7, <1>8, <1>9, <1>10, <1>11,
     <1>12, <1>13, <1>14, <1>15, <1>16, <1>17, <1>18, <1>19, <1>20, <1>21,
     <1>22, <1>23, <1>24, <1>25, <1>26, <1>27, <1>28, <1>29, <1>30, <1>31,
     <1>32
  DEF Next, ClientStep, ClientCall, WorkerStep, Terminated

-----------------------------------------------------------------------------
(* In a round the two counters count workers, so they stay below N; between *)
(* rounds nobody changes them.                                             *)
LEMMA BoundedStep ==
  Types /\ Round /\ Round' /\ Bounded /\ [Next]_vars => Bounded'
<1> SUFFICES ASSUME Types, Round, Round', Bounded, [Next]_vars
             PROVE  Bounded'
  OBVIOUS
<1> USE PoolAssumption
    DEF poolVars, queueVars, lifeVars, startupVars, roundVars, workerVars,
        roundLocals, clientVars, callVars, historyVars
<1>1. CASE mpc' \in Arming \cup Running
  <2>1. Joined' \in SUBSET Worker /\ Finished' \in SUBSET Worker
    BY DEF Joined, Finished
  <2>2. Cardinality(Joined') <= N /\ Cardinality(Finished') <= N
    BY <2>1, CountBound
  <2>3. readyCnt' = Cardinality(Joined') /\ doneCnt' = Cardinality(Finished')
    BY <1>1 DEF Round, RoundCounts, Arming, Running
  <2> QED
    BY <2>2, <2>3 DEF Bounded
<1>2. CASE mpc' \notin Arming \cup Running
  <2>1. ASSUME NEW w \in Worker, JoinRound(w)
        PROVE  FALSE
    <3>1. mpc \in Arming
      BY <2>1 DEF JoinRound, Round, Generations
    <3>2. mpc' \in Arming
      BY <2>1, <3>1, WakeFacts DEF JoinRound, SignalIf, Signal, ReadyCond, Arming
    <3> QED
      BY <1>2, <3>2
  <2>2. ASSUME NEW w \in Worker,
               NEW before \in Readings, NEW after \in Readings,
               FinishParallel(w, before, after)
        PROVE  FALSE
    <3>1. mpc \in Running
      BY <2>2 DEF FinishParallel, Round, Places
    <3>2. mpc' \in Running
      BY <2>2, <3>1, WakeFacts
      DEF FinishParallel, SignalIf, Signal, DoneCond, Running
    <3> QED
      BY <1>2, <3>2
  <2>3. CASE Arm
    BY <2>3, <1>2 DEF Arm, Arming
  <2>4. CASE UNCHANGED vars
    BY <2>4 DEF vars, Bounded
  <2>5. CASE ClientStep /\ ~Arm
    BY <2>5
    DEF ClientStep, Bounded, SpawnWorker, Unwind, StartupWait, StartupDone,
        ClientReacquire, WaitBlocks, WaitReturns, AwaitReady, OpenGate,
        AwaitDone, RunAllReturns, Join
  <2>6. CASE ClientCall \/ SpuriousClient
    BY <2>6
    DEF ClientCall, Bounded, SpawnFails, AddWork, CallWait, CallRunAll, Destroy,
        SpuriousClient
  <2>7. ASSUME NEW w \in Worker, WorkerStep(w) \/ SpuriousWorker(w)
        PROVE  Bounded'
    BY <2>7, <2>1, <2>2
    DEF WorkerStep, Bounded, CheckIn, WorkerReacquire, IdleWait, Exit, GateWait,
        RunParallel, TakeWork, RecordWork, Uncount, SpuriousWorker
  <2> QED
    BY <2>3, <2>4, <2>5, <2>6, <2>7 DEF Next, Terminated
<1> QED
  BY <1>1, <1>2

-----------------------------------------------------------------------------
(* The inductive invariant holds of every reachable state: the client and   *)
(* the workers of thread_pool.cpp never leave the protocol it describes.    *)
THEOREM Invariance == Spec => []IInv
<1>1. Init => IInv
  <2>1. Init => Bounded
    BY PoolAssumption DEF Init, Bounded
  <2> QED
    BY <2>1, TypesInit, CreatedInit, CountsInit, LocksInit, StoppingInit,
       StartupInit, CallsInit, RoundInit, WakeupsInit
    DEF IInv
<1>2. IInv /\ [Next]_vars => IInv'
  <2> SUFFICES ASSUME IInv, [Next]_vars
               PROVE  IInv'
    OBVIOUS
  <2>1. Types' /\ Created' /\ Counts' /\ Locks' /\ Stopping' /\ Startup' /\ Calls'
    BY TypesStep, CreatedStep, CountsStep, LocksStep, StoppingStep, StartupStep,
       CallsStep
    DEF IInv
  <2>2. Round'
    BY RoundStep DEF IInv
  <2>3. Bounded'
    BY <2>2, BoundedStep DEF IInv
  <2>4. NoLostWakeup'
    BY WakeupsStep DEF IInv, Round
  <2> QED
    BY <2>1, <2>2, <2>3, <2>4 DEF IInv
<1> QED
  BY <1>1, <1>2, PTL DEF Spec

(* Type correctness: no counter of struct tpool exceeds the number of       *)
(* workers or wraps below zero.                                             *)
THEOREM TypeCorrect == Spec => []TypeOK
<1>1. IInv => TypeOK
  <2> SUFFICES ASSUME IInv
               PROVE  TypeOK
    OBVIOUS
  <2>1. startupReadyCnt \in 0 .. N /\ affinityFailureCnt \in 0 .. N
    <3>1. Cardinality(CheckedIn) \in 0 .. N
      BY CountBound DEF CheckedIn
    <3> QED
      BY <3>1, PoolAssumption DEF IInv, Types, PoolTypes, Counts
  <2>2. workingCnt \in 0 .. N
    BY CountBound DEF IInv, Counts, Working
  <2>3. threadCnt \in 0 .. N
    <3>1. Cardinality(Exited) \in 0 .. N
      BY CountBound DEF Exited
    <3> QED
      BY <3>1, PoolAssumption DEF IInv, Counts
  <2>4. readyCnt \in 0 .. N /\ doneCnt \in 0 .. N
    BY PoolAssumption DEF IInv, Types, PoolTypes, Bounded
  <2>5. generation \in 0 .. MaxRounds /\ startGeneration \in 0 .. MaxRounds
    BY PoolAssumption
    DEF IInv, Types, PoolTypes, Calls, Round, Generations
  <2>6. observed \in [Worker -> 0 .. MaxRounds]
    <3>1. observed \in [Worker -> Nat]
      BY DEF IInv, Types, WorkerTypes
    <3>2. \A w \in Worker : observed[w] \in 0 .. MaxRounds
      BY <2>5, <3>1 DEF IInv, Round, Generations
    <3> QED
      BY <3>1, <3>2
  <2>7. completed \in SUBSET (1 .. MaxAdds)
    BY DEF IInv, Calls
  <2> QED
    BY <2>1, <2>2, <2>3, <2>4, <2>5, <2>6, <2>7
    DEF IInv, Types, PoolTypes, WorkerTypes, ClientTypes, HistoryTypes, TypeOK
<1> QED
  BY <1>1, Invariance, PTL

(* No thread sleeps through the condition it waits for, whatever the number *)
(* of workers and however the five condition variables interleave.          *)
THEOREM WakeupCorrect == Spec => []NoLostWakeup
BY Invariance, PTL DEF IInv

(* A parallel job runs only inside the timed window of the call that asked  *)
(* for it.                                                                  *)
THEOREM WindowExclusive == Spec => []ParallelInWindow
<1>1. IInv => ParallelInWindow
  BY DEF IInv, Round, Generations, Places, RoundClient, ParallelInWindow, Arming,
         Running
<1> QED
  BY <1>1, Invariance, PTL

(* Queued work and rounds of tpool_run_all never overlap. *)
THEOREM Serialized == Spec => []ModesSerialized
<1>1. IInv => ModesSerialized
  BY DEF IInv, Round, RoundClient, ModesSerialized, Arming, Running
<1> QED
  BY <1>1, Invariance, PTL

(* A pool with a worker that could not be pinned never executes anything.   *)
THEOREM UnpinnedRejected == Spec => []UnpinnedNeverMeasured
<1>1. IInv => UnpinnedNeverMeasured
  BY DEF IInv, Startup, UnpinnedNeverMeasured
<1> QED
  BY <1>1, Invariance, PTL

(* The start time is taken when every worker stands at the gate of this     *)
(* round and none has run.                                                  *)
THEOREM StartStamp == Spec => WindowOpensWhenAllReady
<1>1. IInv /\ [Next]_vars =>
        (~window /\ window' =>
           \A w \in Worker : AtGate(w) /\ observed[w] = generation /\ ran[w] = 0)
  <2> SUFFICES ASSUME IInv, [Next]_vars, ~window, window'
               PROVE  \A w \in Worker :
                        AtGate(w) /\ observed[w] = generation /\ ran[w] = 0
    OBVIOUS
  <2>1. OpenGate
    BY DEF Next, ClientStep, ClientCall, WorkerStep, Terminated, vars,
           SpawnWorker, Unwind, StartupWait, StartupDone, ClientReacquire,
           WaitBlocks, WaitReturns, Arm, AwaitReady, OpenGate, AwaitDone,
           RunAllReturns, Join, SpawnFails, AddWork, CallWait, CallRunAll,
           Destroy, CheckIn, WorkerReacquire, IdleWait, Exit, JoinRound,
           GateWait, RunParallel, FinishParallel, TakeWork, RecordWork,
           Uncount, SpuriousWorker, SpuriousClient, poolVars, clientVars,
           workerVars, historyVars
  <2>2. Joined = Worker
    BY <2>1, CountBound
    DEF IInv, OpenGate, AllReady, Round, RoundCounts, Joined, Arming
  <2> QED
    BY <2>1, <2>2 DEF IInv, OpenGate, Round, Places, Joined, Arming
<1> QED
  BY <1>1, Invariance, PTL DEF Spec, WindowOpensWhenAllReady

(* The end time is taken when every worker has run the job exactly once.    *)
THEOREM EndStamp == Spec => WindowClosesWhenAllRan
<1>1. IInv /\ [Next]_vars =>
        (window /\ ~window' =>
           \A w \in Worker : ran[w] = 1 /\ wpc[w] # "parallel")
  <2> SUFFICES ASSUME IInv, [Next]_vars, window, ~window'
               PROVE  \A w \in Worker : ran[w] = 1 /\ wpc[w] # "parallel"
    OBVIOUS
  <2>1. RunAllReturns
    BY DEF Next, ClientStep, ClientCall, WorkerStep, Terminated, vars,
           SpawnWorker, Unwind, StartupWait, StartupDone, ClientReacquire,
           WaitBlocks, WaitReturns, Arm, AwaitReady, OpenGate, AwaitDone,
           RunAllReturns, Join, SpawnFails, AddWork, CallWait, CallRunAll,
           Destroy, CheckIn, WorkerReacquire, IdleWait, Exit, JoinRound,
           GateWait, RunParallel, FinishParallel, TakeWork, RecordWork,
           Uncount, SpuriousWorker, SpuriousClient, poolVars, clientVars,
           workerVars, historyVars
  <2>2. Finished = Worker
    BY <2>1, CountBound
    DEF IInv, RunAllReturns, AllDone, Round, RoundCounts, Finished, Running
  <2> QED
    BY <2>2 DEF Finished
<1> QED
  BY <1>1, Invariance, PTL DEF Spec, WindowClosesWhenAllRan

(* Both: the time of a call of run_all covers the job on every worker.      *)
THEOREM WindowStamps == Spec => WindowCoversTheJob
  BY StartStamp, EndStamp DEF WindowCoversTheJob

------------------------------------------------------------------------------
(* The pool keeps the contract of tpool_run_all, module RunAll, which is all *)
(* that CycleSampling knows of it, and what its other two interfaces         *)
(* promise: tpool_wait and tpool_get_migration_info.                         *)

(***************************************************************************)
(* The contract.  Four steps of the pool are steps of RunAll, all others   *)
(* leave its variables as they are.                                        *)
(***************************************************************************)

LEMMA Stutters ==
    ASSUME window' = window,
           window => pending' = pending /\ ran' = ran,
           \A w \in Worker : wpc'[w] = "parallel" <=> wpc[w] = "parallel",
           \A w \in Worker : wpc[w] = "parallel" => wjob'[w] = wjob[w]
    PROVE  UNCHANGED Contract!vars
<1>1. [w \in Worker |-> IF wpc[w] = "parallel" THEN wjob[w] ELSE NoJob]'
        = [w \in Worker |-> IF wpc[w] = "parallel" THEN wjob[w] ELSE NoJob]
  OBVIOUS
<1>2. {w \in Worker : window /\ ran[w] > 0 /\ wpc[w] # "parallel"}'
        = {w \in Worker : window /\ ran[w] > 0 /\ wpc[w] # "parallel"}
  OBVIOUS
<1>3. (IF window THEN pending ELSE NoJob)' = IF window THEN pending ELSE NoJob
  OBVIOUS
<1> QED BY <1>1, <1>2, <1>3 DEF Contract!vars

LEMMA OpenGateOpens ==
    ASSUME IInv, OpenGate
    PROVE  Contract!Open(pending)
<1>1. mpc \in Arming /\ mpc \notin Running BY DEF OpenGate, Arming, Running
<1>2. ~window BY <1>1 DEF IInv, Round, RoundClient
<1>3. \A w \in Worker : ran[w] = 0 /\ wpc[w] # "parallel"
  BY <1>1 DEF IInv, Round, Places
<1>4. window' = TRUE /\ pending' = pending /\ ran' = ran /\ wjob' = wjob
  BY DEF OpenGate, callVars, historyVars, roundLocals
<1>5. wpc \in [Worker -> WorkerPC] BY DEF IInv, Types, WorkerTypes
<1>6. \A w \in Worker : wpc'[w] # "parallel"
  BY <1>3, <1>5, BroadcastFacts DEF OpenGate
<1>7. [w \in Worker |-> IF wpc[w] = "parallel" THEN wjob[w] ELSE NoJob]'
        = [w \in Worker |-> IF wpc[w] = "parallel" THEN wjob[w] ELSE NoJob]
  BY <1>3, <1>6
<1>8. {w \in Worker : window /\ ran[w] > 0 /\ wpc[w] # "parallel"} = {}
  BY <1>2
<1>9. {w \in Worker : window /\ ran[w] > 0 /\ wpc[w] # "parallel"}' = {}
  BY <1>3, <1>4
<1> QED BY <1>2, <1>4, <1>7, <1>8, <1>9 DEF Contract!Open

LEMMA RunParallelEnters ==
    ASSUME IInv, NEW w \in Worker, RunParallel(w)
    PROVE  Contract!Enter(w)
<1>1. AtGate(w) /\ startGeneration >= observed[w] BY DEF RunParallel, AtGate, GateOpen
<1>2. mpc \in Arming \cup Running /\ observed[w] = generation /\ wjob[w] = pending /\ ran[w] = 0
  BY <1>1 DEF IInv, Round, Places
<1>3. mpc \in Running
  <2>1. mpc \in Arming => startGeneration = generation - 1 BY DEF IInv, Round, Generations
  <2>2. generation \in Nat BY DEF IInv, Types, PoolTypes
  <2> QED BY <1>1, <1>2, <2>1, <2>2
<1>4. window BY <1>3 DEF IInv, Round, RoundClient
<1>5. /\ wpc \in [Worker -> WorkerPC] /\ wjob \in [Worker -> Jobs \cup {NoJob}]
      /\ ran \in [Worker -> Nat]
  BY DEF IInv, Types, WorkerTypes, HistoryTypes
<1>6. /\ wpc[w] = "gate" /\ wpc' = [wpc EXCEPT ![w] = "parallel"]
      /\ ran' = [ran EXCEPT ![w] = @ + 1]
      /\ wjob' = wjob /\ window' = window /\ pending' = pending
  BY DEF RunParallel, MoveWorker, roundLocals, clientVars, callVars
<1> DEFINE R == [v \in Worker |-> IF wpc[v] = "parallel" THEN wjob[v] ELSE NoJob]
           F == {v \in Worker : window /\ ran[v] > 0 /\ wpc[v] # "parallel"}
<1>7. R[w] = NoJob /\ w \notin F BY <1>2, <1>6
<1>8. R' = [R EXCEPT ![w] = pending]
  <2>1. \A v \in Worker : R'[v] = IF v = w THEN pending ELSE R[v]
    BY <1>2, <1>5, <1>6
  <2>2. R' = [v \in Worker |-> R'[v]] /\ R = [v \in Worker |-> R[v]] OBVIOUS
  <2> HIDE DEF R
  <2> QED BY <2>1, <2>2
<1>9. F' = F
  <2>1. \A v \in Worker : v \in F' <=> v \in F BY <1>2, <1>5, <1>6
  <2> QED BY <2>1
<1> QED BY <1>4, <1>6, <1>7, <1>8, <1>9 DEF Contract!Enter

LEMMA FinishParallelLeaves ==
    ASSUME IInv, NEW w \in Worker, NEW before, NEW after, FinishParallel(w, before, after)
    PROVE  Contract!Leave(w)
<1>1. /\ wpc[w] = "parallel" /\ wpc' = [wpc EXCEPT ![w] = "head"]
      /\ ran' = ran /\ wjob' = wjob /\ window' = window /\ pending' = pending
  BY DEF FinishParallel, MoveWorker, roundLocals, callVars
<1>2. mpc \in Running /\ ran[w] = 1 /\ wjob[w] = pending
  BY <1>1 DEF IInv, Round, Places
<1>3. window /\ pending \in Jobs
  BY <1>2 DEF IInv, Round, RoundClient, Calls
<1>4. /\ wpc \in [Worker -> WorkerPC] /\ wjob \in [Worker -> Jobs \cup {NoJob}]
      /\ ran \in [Worker -> Nat]
  BY DEF IInv, Types, WorkerTypes, HistoryTypes
<1> DEFINE R == [v \in Worker |-> IF wpc[v] = "parallel" THEN wjob[v] ELSE NoJob]
           F == {v \in Worker : window /\ ran[v] > 0 /\ wpc[v] # "parallel"}
<1>5. R[w] # NoJob BY <1>1, <1>2, <1>3, PoolAssumption
<1>6. R' = [R EXCEPT ![w] = NoJob]
  <2>1. \A v \in Worker : R'[v] = IF v = w THEN NoJob ELSE R[v]
    BY <1>1, <1>4
  <2>2. R' = [v \in Worker |-> R'[v]] /\ R = [v \in Worker |-> R[v]] OBVIOUS
  <2> HIDE DEF R
  <2> QED BY <2>1, <2>2
<1>7. F' = F \cup {w}
  <2>1. \A v \in Worker : v \in F' <=> v \in F \/ v = w BY <1>1, <1>2, <1>3, <1>4
  <2> QED BY <2>1
<1>8. (IF window THEN pending ELSE NoJob)' = IF window THEN pending ELSE NoJob
  BY <1>1
<1> QED BY <1>1, <1>5, <1>6, <1>7, <1>8 DEF Contract!Leave

LEMMA RunAllReturnsCloses ==
    ASSUME IInv, RunAllReturns
    PROVE  Contract!Close
<1>1. mpc \in Running /\ doneCnt = N BY DEF RunAllReturns, AllDone, Running
<1>2. window BY <1>1 DEF IInv, Round, RoundClient
<1>3. Finished = Worker
  BY <1>1, CountBound DEF IInv, Round, RoundCounts, Finished
<1>4. {w \in Worker : window /\ ran[w] > 0 /\ wpc[w] # "parallel"} = Worker
  BY <1>2, <1>3 DEF Finished
<1>5. window' = FALSE /\ UNCHANGED <<wpc, wjob>>
  BY DEF RunAllReturns, workerVars, roundLocals
<1>6. {w \in Worker : window /\ ran[w] > 0 /\ wpc[w] # "parallel"}' = {} BY <1>5
<1>7. UNCHANGED [w \in Worker |-> IF wpc[w] = "parallel" THEN wjob[w] ELSE NoJob] BY <1>5
<1> QED BY <1>2, <1>4, <1>5, <1>6, <1>7 DEF Contract!Close

\* A worker that is moved from and to places outside the job.
LEMMA MovesOutside ==
    ASSUME wpc \in [Worker -> WorkerPC], NEW w \in Worker, NEW to, MoveWorker(w, to),
           wpc[w] # "parallel", to # "parallel"
    PROVE  \A v \in Worker : wpc'[v] = "parallel" <=> wpc[v] = "parallel"
BY DEF MoveWorker

\* A broadcast wakes nobody into the job.
LEMMA WakesOutside ==
    ASSUME wpc \in [Worker -> WorkerPC], NEW waits \in SUBSET {"idleWait", "gateWait"},
           Broadcast(waits)
    PROVE  \A v \in Worker : wpc'[v] = "parallel" <=> wpc[v] = "parallel"
BY BroadcastFacts

LEMMA PoolStep ==
    ASSUME IInv, [Next]_vars
    PROVE  [Contract!Next]_Contract!vars
<1> USE DEF poolVars, workerVars, roundLocals, clientVars, callVars, historyVars
<1>t. wpc \in [Worker -> WorkerPC] BY DEF IInv, Types, WorkerTypes
<1>c. window => mpc \in Running BY DEF IInv, Round, RoundClient
<1>1. CASE SpawnWorker
  <2>1. UNCHANGED <<window, pending, wjob, ran>> BY <1>1 DEF SpawnWorker
  <2>2. spawned + 1 \in Worker /\ wpc[spawned + 1] # "parallel"
    <3>1. spawned \in Nat /\ spawned < N /\ spawned + 1 > spawned /\ N \in Nat
      BY <1>1, PoolAssumption DEF SpawnWorker, IInv, Types, ClientTypes
    <3>2. spawned + 1 \in Worker BY <3>1 DEF Worker
    <3> QED BY <3>1, <3>2 DEF IInv, Created
  <2>3. \A w \in Worker : wpc'[w] = "parallel" <=> wpc[w] = "parallel"
    BY <1>1, <1>t, <2>2, MovesOutside DEF SpawnWorker
  <2> QED BY <2>1, <2>3, Stutters
<1>2. CASE SpawnFails
  <2>1. /\ UNCHANGED <<window, pending, wjob>>
        /\ window => ran' = ran
    BY <1>2, <1>c DEF SpawnFails, Running
  <2>2. \A w \in Worker : wpc'[w] = "parallel" <=> wpc[w] = "parallel"
    BY <1>2, <1>t, WakesOutside DEF SpawnFails
  <2> QED BY <2>1, <2>2, Stutters
<1>3. CASE Unwind
  BY <1>3, Stutters DEF Unwind
<1>4. CASE StartupWait
  BY <1>4, Stutters DEF StartupWait
<1>5. CASE StartupDone
  BY <1>5, Stutters DEF StartupDone
<1>6. CASE ClientReacquire
  BY <1>6, Stutters DEF ClientReacquire
<1>7. CASE AddWork
  <2>1. /\ UNCHANGED <<window, pending, wjob>>
        /\ window => ran' = ran
    BY <1>7, <1>c DEF AddWork, Running
  <2>2. \A w \in Worker : wpc'[w] = "parallel" <=> wpc[w] = "parallel"
    BY <1>7, <1>t, WakesOutside DEF AddWork
  <2> QED BY <2>1, <2>2, Stutters
<1>8. CASE CallWait
  BY <1>8, Stutters DEF CallWait
<1>9. CASE WaitBlocks
  BY <1>9, Stutters DEF WaitBlocks
<1>10. CASE WaitReturns
  BY <1>10, Stutters DEF WaitReturns
<1>11. CASE Arm
  <2>1. /\ UNCHANGED <<window, pending, wjob>>
        /\ window => ran' = ran
    BY <1>11, <1>c DEF Arm, Running
  <2>2. \A w \in Worker : wpc'[w] = "parallel" <=> wpc[w] = "parallel"
    BY <1>11, <1>t, WakesOutside DEF Arm
  <2> QED BY <2>1, <2>2, Stutters
<1>12. CASE AwaitReady
  BY <1>12, Stutters DEF AwaitReady
<1>13. CASE AwaitDone
  BY <1>13, Stutters DEF AwaitDone
<1>14. CASE Destroy
  <2>1. /\ UNCHANGED <<window, pending, wjob>>
        /\ window => ran' = ran
    BY <1>14, <1>c DEF Destroy, Running
  <2>2. \A w \in Worker : wpc'[w] = "parallel" <=> wpc[w] = "parallel"
    BY <1>14, <1>t, WakesOutside DEF Destroy
  <2> QED BY <2>1, <2>2, Stutters
<1>15. CASE Join
  BY <1>15, Stutters DEF Join
<1>16. CASE SpuriousClient
  BY <1>16, Stutters DEF SpuriousClient
<1>17. ASSUME NEW j \in Jobs, CallRunAll(j) PROVE UNCHANGED Contract!vars
  BY <1>17, <1>c, Stutters DEF CallRunAll, Running
<1>18. CASE OpenGate
  <2>1. Contract!Open(pending) BY <1>18, OpenGateOpens
  <2>2. pending \in Jobs BY <1>18 DEF OpenGate, IInv, Calls, Arming
  <2> QED BY <2>1, <2>2 DEF Contract!Next
<1>19. CASE RunAllReturns
  BY <1>19, RunAllReturnsCloses DEF Contract!Next
<1>20. ASSUME NEW w \in Worker, WorkerReacquire(w) PROVE UNCHANGED Contract!vars
  <2>1. UNCHANGED <<window, pending, ran, wjob>> BY <1>20 DEF WorkerReacquire
  <2>2. \A v \in Worker : wpc'[v] = "parallel" <=> wpc[v] = "parallel"
    BY <1>20, <1>t, MovesOutside, WakeFacts DEF WorkerReacquire
  <2> QED BY <2>1, <2>2, Stutters
<1>21. ASSUME NEW w \in Worker, IdleWait(w) PROVE UNCHANGED Contract!vars
  <2>1. UNCHANGED <<window, pending, ran, wjob>> BY <1>21 DEF IdleWait
  <2>2. \A v \in Worker : wpc'[v] = "parallel" <=> wpc[v] = "parallel"
    BY <1>21, <1>t, MovesOutside, WakeFacts DEF IdleWait
  <2> QED BY <2>1, <2>2, Stutters
<1>22. ASSUME NEW w \in Worker, Exit(w) PROVE UNCHANGED Contract!vars
  <2>1. UNCHANGED <<window, pending, ran, wjob>> BY <1>22 DEF Exit
  <2>2. \A v \in Worker : wpc'[v] = "parallel" <=> wpc[v] = "parallel"
    BY <1>22, <1>t, MovesOutside, WakeFacts DEF Exit
  <2> QED BY <2>1, <2>2, Stutters
<1>23. ASSUME NEW w \in Worker, JoinRound(w) PROVE UNCHANGED Contract!vars
  <2>1. UNCHANGED <<window, pending, ran>> BY <1>23 DEF JoinRound
  <2>2. wjob' = [wjob EXCEPT ![w] = parallelJob] /\ wpc[w] = "head" BY <1>23 DEF JoinRound
  <2>3. \A v \in Worker : wpc[v] = "parallel" => wjob'[v] = wjob[v]
    BY <2>2 DEF IInv, Types, WorkerTypes
  <2>4. \A v \in Worker : wpc'[v] = "parallel" <=> wpc[v] = "parallel"
    BY <1>23, <1>t, <2>2, MovesOutside DEF JoinRound
  <2> QED BY <2>1, <2>3, <2>4, Stutters
<1>24. ASSUME NEW w \in Worker, GateWait(w) PROVE UNCHANGED Contract!vars
  <2>1. UNCHANGED <<window, pending, ran, wjob>> BY <1>24 DEF GateWait
  <2>2. \A v \in Worker : wpc'[v] = "parallel" <=> wpc[v] = "parallel"
    BY <1>24, <1>t, MovesOutside, WakeFacts DEF GateWait
  <2> QED BY <2>1, <2>2, Stutters
<1>25. ASSUME NEW w \in Worker, TakeWork(w) PROVE UNCHANGED Contract!vars
  <2>1. UNCHANGED <<window, pending, ran, wjob>> BY <1>25 DEF TakeWork
  <2>2. \A v \in Worker : wpc'[v] = "parallel" <=> wpc[v] = "parallel"
    BY <1>25, <1>t, MovesOutside, WakeFacts DEF TakeWork
  <2> QED BY <2>1, <2>2, Stutters
<1>26. ASSUME NEW w \in Worker, Uncount(w) PROVE UNCHANGED Contract!vars
  <2>1. UNCHANGED <<window, pending, ran, wjob>> BY <1>26 DEF Uncount
  <2>2. \A v \in Worker : wpc'[v] = "parallel" <=> wpc[v] = "parallel"
    BY <1>26, <1>t, MovesOutside, WakeFacts DEF Uncount
  <2> QED BY <2>1, <2>2, Stutters
<1>27. ASSUME NEW w \in Worker, SpuriousWorker(w) PROVE UNCHANGED Contract!vars
  <2>1. UNCHANGED <<window, pending, ran, wjob>> BY <1>27 DEF SpuriousWorker
  <2>2. \A v \in Worker : wpc'[v] = "parallel" <=> wpc[v] = "parallel"
    BY <1>27, <1>t, MovesOutside, WakeFacts DEF SpuriousWorker
  <2> QED BY <2>1, <2>2, Stutters
<1>28. ASSUME NEW w \in Worker, NEW failed \in BOOLEAN, CheckIn(w, failed)
      PROVE  UNCHANGED Contract!vars
  <2>1. UNCHANGED <<window, pending, ran, wjob>> BY <1>28 DEF CheckIn
  <2>2. \A v \in Worker : wpc'[v] = "parallel" <=> wpc[v] = "parallel"
    BY <1>28, <1>t, MovesOutside DEF CheckIn
  <2> QED BY <2>1, <2>2, Stutters
<1>29. ASSUME NEW w \in Worker, NEW before \in Readings, NEW after \in Readings,
             RecordWork(w, before, after)
      PROVE  UNCHANGED Contract!vars
  <2>1. UNCHANGED <<window, pending, ran, wjob>> BY <1>29 DEF RecordWork
  <2>2. \A v \in Worker : wpc'[v] = "parallel" <=> wpc[v] = "parallel"
    BY <1>29, <1>t, MovesOutside DEF RecordWork
  <2> QED BY <2>1, <2>2, Stutters
<1>30. ASSUME NEW w \in Worker, RunParallel(w) PROVE Contract!Next
  BY <1>30, RunParallelEnters DEF Contract!Next
<1>31. ASSUME NEW w \in Worker, NEW before \in Readings, NEW after \in Readings,
             FinishParallel(w, before, after)
      PROVE  Contract!Next
  BY <1>31, FinishParallelLeaves DEF Contract!Next
<1>32. CASE UNCHANGED vars
  BY <1>32, Stutters DEF vars
<1> QED
  BY <1>1, <1>2, <1>3, <1>4, <1>5, <1>6, <1>7, <1>8, <1>9, <1>10, <1>11,
     <1>12, <1>13, <1>14, <1>15, <1>16, <1>17, <1>18, <1>19, <1>20, <1>21,
     <1>22, <1>23, <1>24, <1>25, <1>26, <1>27, <1>28, <1>29, <1>30, <1>31,
     <1>32
  DEF Next, ClientStep, ClientCall, WorkerStep, Terminated

\* The pool implements the contract of tpool_run_all for any number of workers:
\* a window that opens with no worker inside, in which every worker runs the
\* job of the call once, and that closes after the last (thread_pool.hpp).
THEOREM PoolImplementsRunAll == Spec => ContractSpec
<1>1. Init => Contract!Init
  BY DEF Init, Contract!Init
<1>2. IInv /\ [Next]_vars => [Contract!Next]_Contract!vars
  BY PoolStep
<1> QED BY <1>1, <1>2, Invariance, PTL DEF Spec, ContractSpec, Contract!Spec

(***************************************************************************)
(* tpool_wait and tpool_get_migration_info.  The items that have left the  *)
(* queue are the first Taken ones; each is executed or is some worker's.   *)
(* What the CPU counters have seen is what was executed: items, and the    *)
(* jobs of every round before this one and those done in it.               *)
(***************************************************************************)

Taken == adds - Len(queue)

Queued(w) == wpc[w] = "queued"

ItemsAccounted ==
    ~stop =>
        /\ Len(queue) <= adds
        /\ \A k \in 1..Len(queue) : queue[k] = Taken + k
        /\ completed \subseteq 1..Taken
        /\ \A w \in Worker : Queued(w) => item[w] \in (1..Taken) \ completed
        /\ \A v, w \in Worker : Queued(v) /\ Queued(w) /\ item[v] = item[w] => v = w
        /\ \A i \in 1..Taken : i \in completed \/ \E w \in Worker : Queued(w) /\ item[w] = i

InRound == mpc \in Arming \cup Running

JobsRun == IF InRound THEN N * (generation - 1) + doneCnt ELSE N * generation

CountersAccounted ==
    /\ cpu.migrations <= cpu.mismatches
    /\ cpu.mismatches <= cpu.observations
    /\ ~stop => cpu.observations + unreadable = Cardinality(completed) + JobsRun

Accounts == IInv /\ ItemsAccounted /\ CountersAccounted

LEMMA ItemsSame ==
    ASSUME ItemsAccounted, stop => stop', UNCHANGED <<queue, adds, completed>>,
           \A w \in Worker : wpc'[w] = "queued" <=> wpc[w] = "queued",
           \A w \in Worker : wpc[w] = "queued" => item'[w] = item[w]
    PROVE  ItemsAccounted'
<1>1. Taken' = Taken BY DEF Taken
<1>2. \A w \in Worker : (Queued(w)' <=> Queued(w)) /\ (Queued(w) => item'[w] = item[w])
  BY DEF Queued
<1> SUFFICES ASSUME ~stop' PROVE ItemsAccounted'
  BY DEF ItemsAccounted
<1>3. ~stop OBVIOUS
<1>4. \A w \in Worker : Queued(w)' => item'[w] \in (1..Taken') \ completed'
  BY <1>1, <1>2, <1>3 DEF ItemsAccounted
<1>5. \A v, w \in Worker : Queued(v)' /\ Queued(w)' /\ item'[v] = item'[w] => v = w
  BY <1>2, <1>3 DEF ItemsAccounted
<1>6. \A i \in 1..Taken' : i \in completed' \/ \E w \in Worker : Queued(w)' /\ item'[w] = i
  BY <1>1, <1>2, <1>3 DEF ItemsAccounted
<1>7. /\ Len(queue') <= adds' /\ completed' \subseteq 1..Taken'
      /\ \A k \in 1..Len(queue') : queue'[k] = Taken' + k
  BY <1>1, <1>3 DEF ItemsAccounted
<1> QED BY <1>4, <1>5, <1>6, <1>7 DEF ItemsAccounted

LEMMA CountersSame ==
    ASSUME CountersAccounted, stop => stop', UNCHANGED <<cpu, unreadable, completed, generation, doneCnt>>,
           mpc' \in Arming \cup Running <=> mpc \in Arming \cup Running
    PROVE  CountersAccounted'
<1>1. JobsRun' = JobsRun BY DEF JobsRun, InRound, Arming, Running
<1> QED BY <1>1 DEF CountersAccounted

\* An observation counts each invocation once, and a migration as a mismatch too.
LEMMA RecordCounts ==
    ASSUME CountersAccounted, Types, NEW before \in Readings, NEW after \in Readings,
           cpu' = Record(cpu, before, after),
           unreadable' = unreadable + (IF "unknown" \in {before, after} THEN 1 ELSE 0)
    PROVE  /\ cpu'.observations + unreadable' = cpu.observations + unreadable + 1
           /\ cpu'.migrations <= cpu'.mismatches
           /\ cpu'.mismatches <= cpu'.observations
<1>1. /\ cpu.observations \in Nat /\ cpu.migrations \in Nat /\ cpu.mismatches \in Nat
      /\ unreadable \in Nat
      /\ cpu.migrations <= cpu.mismatches /\ cpu.mismatches <= cpu.observations
  BY DEF Types, HistoryTypes, CountersAccounted
<1>2. CASE "unknown" \in {before, after}
  <2>1. cpu' = cpu /\ unreadable' = unreadable + 1 BY <1>2 DEF Record
  <2> QED BY <2>1, <1>1
<1>3. CASE "unknown" \notin {before, after}
  <2>1. unreadable' = unreadable BY <1>1, <1>3
  <2>2. /\ cpu'.observations = cpu.observations + 1
        /\ cpu'.migrations = cpu.migrations + (IF before # after THEN 1 ELSE 0)
        /\ cpu'.mismatches = cpu.mismatches + (IF "other" \in {before, after} THEN 1 ELSE 0)
    BY <1>3 DEF Record
  <2>3. before # after => "other" \in {before, after}
    BY <1>3, PoolAssumption DEF Reading
  <2> QED BY <1>1, <2>1, <2>2, <2>3
<1> QED BY <1>2, <1>3

LEMMA ItemTypes ==
    ASSUME IInv
    PROVE  /\ queue \in Seq(1..MaxAdds) /\ adds \in Nat /\ Len(queue) \in Nat
           /\ wpc \in [Worker -> WorkerPC] /\ item \in [Worker -> 0..MaxAdds]
           /\ N \in Nat \ {0} /\ generation \in Nat /\ doneCnt \in Nat
BY PoolAssumption DEF IInv, Types, PoolTypes, WorkerTypes, ClientTypes

LEMMA AddWorkAccounts ==
    ASSUME Accounts, AddWork
    PROVE  ItemsAccounted'
<1>1. /\ queue' = Append(queue, adds + 1) /\ adds' = adds + 1
      /\ UNCHANGED <<completed, item, stop>>
  BY DEF AddWork, lifeVars, historyVars
<1>2. /\ queue \in Seq(1..MaxAdds) /\ adds \in Nat /\ Len(queue) \in Nat
      /\ wpc \in [Worker -> WorkerPC]
  BY ItemTypes DEF Accounts
<1>3. adds + 1 \in 1..MaxAdds BY <1>2, PoolAssumption DEF AddWork
<1>4. /\ Len(queue') = Len(queue) + 1
      /\ \A k \in 1..Len(queue) : queue'[k] = queue[k]
      /\ queue'[Len(queue) + 1] = adds + 1
  BY <1>1, <1>2, <1>3
<1>5. Taken' = Taken BY <1>1, <1>2, <1>4 DEF Taken
<1>6. \A w \in Worker : Queued(w)' <=> Queued(w)
  BY <1>2, BroadcastFacts DEF AddWork, Queued
<1> SUFFICES ASSUME ~stop PROVE ItemsAccounted'
  BY <1>1 DEF ItemsAccounted
<1>7. \A k \in 1..Len(queue') : queue'[k] = Taken' + k
  <2> SUFFICES ASSUME NEW k \in 1..Len(queue') PROVE queue'[k] = Taken + k
    BY <1>5
  <2>1. CASE k = Len(queue) + 1 BY <2>1, <1>2, <1>4 DEF Taken
  <2>2. CASE k # Len(queue) + 1
    <3>1. k \in 1..Len(queue) BY <2>2, <1>2, <1>4
    <3> QED BY <3>1, <1>4 DEF Accounts, ItemsAccounted
  <2> QED BY <2>1, <2>2
<1>8. Len(queue') <= adds' BY <1>1, <1>2, <1>4 DEF Accounts, ItemsAccounted
<1>9. /\ completed' \subseteq 1..Taken'
      /\ \A w \in Worker : Queued(w)' => item'[w] \in (1..Taken') \ completed'
      /\ \A v, w \in Worker : Queued(v)' /\ Queued(w)' /\ item'[v] = item'[w] => v = w
      /\ \A i \in 1..Taken' : i \in completed' \/ \E w \in Worker : Queued(w)' /\ item'[w] = i
  BY <1>1, <1>5, <1>6 DEF Accounts, ItemsAccounted
<1> QED BY <1>7, <1>8, <1>9 DEF ItemsAccounted

LEMMA TakeWorkAccounts ==
    ASSUME Accounts, NEW w \in Worker, TakeWork(w)
    PROVE  ItemsAccounted'
<1>1. /\ queue # <<>> /\ queue' = Tail(queue) /\ item' = [item EXCEPT ![w] = queue[1]]
      /\ wpc[w] = "head" /\ wpc' = [wpc EXCEPT ![w] = "queued"]
      /\ UNCHANGED <<adds, completed, stop>> /\ ~stop
  BY DEF TakeWork, MoveWorker, lifeVars, clientVars, historyVars
<1>2. /\ queue \in Seq(1..MaxAdds) /\ adds \in Nat /\ Len(queue) \in Nat
      /\ wpc \in [Worker -> WorkerPC] /\ item \in [Worker -> 0..MaxAdds]
  BY ItemTypes DEF Accounts
<1>3. /\ Len(queue) > 0 /\ Len(queue') = Len(queue) - 1
      /\ \A k \in 1..Len(queue') : queue'[k] = queue[k + 1]
  BY <1>1, <1>2
<1>4. /\ Len(queue) <= adds
      /\ \A k \in 1..Len(queue) : queue[k] = Taken + k
      /\ completed \subseteq 1..Taken
      /\ \A v \in Worker : Queued(v) => item[v] \in (1..Taken) \ completed
      /\ \A u, v \in Worker : Queued(u) /\ Queued(v) /\ item[u] = item[v] => u = v
      /\ \A i \in 1..Taken : i \in completed \/ \E v \in Worker : Queued(v) /\ item[v] = i
  BY <1>1 DEF Accounts, ItemsAccounted
<1>5. Taken' = Taken + 1 /\ Taken \in Nat BY <1>1, <1>2, <1>3, <1>4 DEF Taken
<1>6. queue[1] = Taken + 1 BY <1>2, <1>3, <1>4
<1>7. /\ Queued(w)' /\ item'[w] = Taken + 1 /\ ~Queued(w)
      /\ \A v \in Worker : v # w => (Queued(v)' <=> Queued(v)) /\ item'[v] = item[v]
  BY <1>1, <1>2, <1>6 DEF Queued
<1>8. \A k \in 1..Len(queue') : queue'[k] = Taken' + k
  <2> SUFFICES ASSUME NEW k \in 1..Len(queue') PROVE queue[k + 1] = Taken + 1 + k
    BY <1>3, <1>5
  <2>1. k + 1 \in 1..Len(queue) BY <1>2, <1>3
  <2> QED BY <2>1, <1>4, <1>5
<1>9. Len(queue') <= adds' BY <1>1, <1>2, <1>3, <1>4
<1>10. completed' \subseteq 1..Taken' BY <1>1, <1>4, <1>5
<1>11. \A v \in Worker : Queued(v)' => item'[v] \in (1..Taken') \ completed'
  <2> SUFFICES ASSUME NEW v \in Worker, Queued(v)' PROVE item'[v] \in (1..Taken') \ completed
    BY <1>1
  <2>1. CASE v = w
    <3>1. Taken + 1 \notin completed BY <1>4, <1>5
    <3> QED BY <2>1, <3>1, <1>5, <1>7
  <2>2. CASE v # w BY <2>2, <1>4, <1>5, <1>7
  <2> QED BY <2>1, <2>2
<1>12. \A u, v \in Worker : Queued(u)' /\ Queued(v)' /\ item'[u] = item'[v] => u = v
  <2>1. \A v \in Worker : v # w /\ Queued(v)' => item'[v] \in 1..Taken /\ item'[v] # item'[w]
    BY <1>4, <1>5, <1>7
  <2> QED BY <2>1, <1>4, <1>7
<1>13. \A i \in 1..Taken' : i \in completed' \/ \E v \in Worker : Queued(v)' /\ item'[v] = i
  <2> SUFFICES ASSUME NEW i \in 1..Taken', i \notin completed
               PROVE  \E v \in Worker : Queued(v)' /\ item'[v] = i
    BY <1>1
  <2>1. CASE i = Taken + 1 BY <2>1, <1>7
  <2>2. CASE i # Taken + 1
    <3>1. i \in 1..Taken BY <2>2, <1>5
    <3>2. PICK v \in Worker : Queued(v) /\ item[v] = i BY <3>1, <1>4
    <3> QED BY <3>2, <1>7
  <2> QED BY <2>1, <2>2
<1> QED BY <1>8, <1>9, <1>10, <1>11, <1>12, <1>13 DEF ItemsAccounted

LEMMA RecordWorkAccounts ==
    ASSUME Accounts, NEW w \in Worker, NEW before \in Readings, NEW after \in Readings,
           RecordWork(w, before, after)
    PROVE  ItemsAccounted' /\ CountersAccounted'
<1>1. /\ wpc[w] = "queued" /\ wpc' = [wpc EXCEPT ![w] = "uncount"]
      /\ completed' = completed \cup {item[w]}
      /\ cpu' = Record(cpu, before, after)
      /\ unreadable' = unreadable + (IF "unknown" \in {before, after} THEN 1 ELSE 0)
      /\ UNCHANGED <<queue, adds, item, stop, mpc, generation, doneCnt>>
  BY DEF RecordWork, MoveWorker, queueVars, lifeVars, clientVars, roundVars
<1>2. wpc \in [Worker -> WorkerPC] BY ItemTypes DEF Accounts
<1>3. /\ cpu'.observations + unreadable' = cpu.observations + unreadable + 1
      /\ cpu'.migrations <= cpu'.mismatches
      /\ cpu'.mismatches <= cpu'.observations
  BY <1>1, RecordCounts DEF Accounts, IInv
<1>4. CASE stop
  BY <1>1, <1>3, <1>4 DEF ItemsAccounted, CountersAccounted
<1>5. CASE ~stop
  <2>1. /\ Len(queue) <= adds
        /\ \A k \in 1..Len(queue) : queue[k] = Taken + k
        /\ completed \subseteq 1..Taken
        /\ \A v \in Worker : Queued(v) => item[v] \in (1..Taken) \ completed
        /\ \A u, v \in Worker : Queued(u) /\ Queued(v) /\ item[u] = item[v] => u = v
        /\ \A i \in 1..Taken : i \in completed \/ \E v \in Worker : Queued(v) /\ item[v] = i
    BY <1>5 DEF Accounts, ItemsAccounted
  <2>2. Taken' = Taken BY <1>1 DEF Taken
  <2>3. /\ Queued(w) /\ ~Queued(w)'
        /\ \A v \in Worker : v # w => (Queued(v)' <=> Queued(v))
    BY <1>1, <1>2 DEF Queued
  <2>4. ItemsAccounted'
    <3>0. item[w] \in 1..Taken BY <2>1, <2>3
    <3>1. completed' \subseteq 1..Taken' BY <3>0, <1>1, <2>1, <2>2
    <3>2. \A v \in Worker : Queued(v)' => item'[v] \in (1..Taken') \ completed'
      BY <1>1, <2>1, <2>2, <2>3
    <3>3. \A u, v \in Worker : Queued(u)' /\ Queued(v)' /\ item'[u] = item'[v] => u = v
      BY <1>1, <2>1, <2>3
    <3>4. \A i \in 1..Taken' : i \in completed' \/ \E v \in Worker : Queued(v)' /\ item'[v] = i
      BY <1>1, <2>1, <2>2, <2>3
    <3>5. Len(queue') <= adds' /\ \A k \in 1..Len(queue') : queue'[k] = Taken' + k
      BY <1>1, <2>1, <2>2
    <3> QED BY <3>1, <3>2, <3>3, <3>4, <3>5 DEF ItemsAccounted
  <2>5. Cardinality(completed') = Cardinality(completed) + 1
    <3>1. item[w] \notin completed BY <2>1, <2>3
    <3>2. IsFiniteSet(1..Taken)
      <4>1. Taken \in Int BY ItemTypes DEF Accounts, Taken
      <4> QED BY <4>1, FS_Interval
    <3>3. IsFiniteSet(completed) BY <2>1, <3>2, FS_Subset
    <3> QED BY <1>1, <3>1, <3>3, FS_AddElement
  <2>6. JobsRun' = JobsRun BY <1>1 DEF JobsRun, InRound, Arming, Running
  <2>7. cpu'.observations + unreadable' = Cardinality(completed') + JobsRun'
    <3>1. cpu.observations + unreadable = Cardinality(completed) + JobsRun
      BY <1>5 DEF Accounts, CountersAccounted
    <3>2. IsFiniteSet(completed) /\ Cardinality(completed) \in Nat
      <4>1. Taken \in Int BY ItemTypes DEF Accounts, Taken
      <4>2. IsFiniteSet(1..Taken) BY <4>1, FS_Interval
      <4> QED BY <2>1, <4>2, FS_Subset, FS_CardinalityType
    <3>3. JobsRun \in Int BY ItemTypes DEF Accounts, JobsRun
    <3> QED BY <3>1, <3>2, <3>3, <1>3, <2>5, <2>6
  <2> QED BY <2>4, <2>7, <1>1, <1>3 DEF CountersAccounted
<1> QED BY <1>4, <1>5

\* A new round owes N jobs, and none of them is done.
LEMMA ArmAccounts ==
    ASSUME Accounts, Arm
    PROVE  CountersAccounted'
<1>1. /\ mpc = "arm" /\ mpc' = "arming" /\ generation' = generation + 1 /\ doneCnt' = 0
      /\ UNCHANGED <<cpu, unreadable, completed, stop>>
  BY DEF Arm, lifeVars
<1>2. generation \in Nat /\ N \in Nat BY ItemTypes DEF Accounts
<1>3. JobsRun = N * generation BY <1>1 DEF JobsRun, InRound, Arming, Running
<1>4. JobsRun' = N * generation
  <2>1. JobsRun' = N * (generation' - 1) + doneCnt' BY <1>1 DEF JobsRun, InRound, Arming, Running
  <2> QED BY <2>1, <1>1, <1>2
<1> QED BY <1>1, <1>3, <1>4 DEF Accounts, CountersAccounted

LEMMA FinishParallelAccounts ==
    ASSUME Accounts, NEW w \in Worker, NEW before \in Readings, NEW after \in Readings,
           FinishParallel(w, before, after)
    PROVE  CountersAccounted'
<1>1. /\ wpc[w] = "parallel"
      /\ cpu' = Record(cpu, before, after)
      /\ unreadable' = unreadable + (IF "unknown" \in {before, after} THEN 1 ELSE 0)
      /\ doneCnt' = doneCnt + 1
      /\ UNCHANGED <<completed, stop, generation>>
  BY DEF FinishParallel, lifeVars
<1>2. mpc \in Running BY <1>1 DEF Accounts, IInv, Round, Places
<1>3. mpc' \in Running
  BY <1>2, SignalFacts DEF FinishParallel, SignalIf, Running, Accounts, IInv, Types, ClientTypes
<1>4. generation \in Nat /\ N \in Nat /\ doneCnt \in Nat BY ItemTypes DEF Accounts
<1>5. JobsRun' = JobsRun + 1 /\ JobsRun \in Int
  <2>1. JobsRun = N * (generation - 1) + doneCnt BY <1>2 DEF JobsRun, InRound
  <2>2. JobsRun' = N * (generation - 1) + doneCnt' BY <1>1, <1>3 DEF JobsRun, InRound, Arming, Running
  <2>3. N * (generation - 1) \in Int BY <1>4
  <2> QED BY <2>1, <2>2, <2>3, <1>1, <1>4
<1>6. /\ cpu'.observations + unreadable' = cpu.observations + unreadable + 1
      /\ cpu'.migrations <= cpu'.mismatches
      /\ cpu'.mismatches <= cpu'.observations
  BY <1>1, RecordCounts DEF Accounts, IInv
<1>7. ~stop => cpu'.observations + unreadable' = Cardinality(completed) + JobsRun'
  <2> SUFFICES ASSUME ~stop
               PROVE  cpu'.observations + unreadable' = Cardinality(completed) + JobsRun'
    OBVIOUS
  <2>1. cpu.observations + unreadable = Cardinality(completed) + JobsRun
    BY DEF Accounts, CountersAccounted
  <2>2. Cardinality(completed) \in Nat
    <3>1. completed \subseteq 1..Taken BY DEF Accounts, ItemsAccounted
    <3>2. Taken \in Int BY ItemTypes DEF Accounts, Taken
    <3>3. IsFiniteSet(1..Taken) BY <3>2, FS_Interval
    <3>4. IsFiniteSet(completed) BY <3>1, <3>3, FS_Subset
    <3> QED BY <3>4, FS_CardinalityType
  <2> QED BY <2>1, <2>2, <1>5, <1>6
<1> QED BY <1>1, <1>6, <1>7 DEF CountersAccounted

\* When the round is over all of its jobs are done.
LEMMA RunAllReturnsAccounts ==
    ASSUME Accounts, RunAllReturns
    PROVE  CountersAccounted'
<1>1. /\ mpc = "running" /\ mpc' = "ready" /\ doneCnt = N
      /\ UNCHANGED <<cpu, unreadable, completed, stop, generation, doneCnt>>
  BY DEF RunAllReturns, AllDone, poolVars, lifeVars, roundVars, historyVars
<1>2. generation \in Nat /\ N \in Nat BY ItemTypes DEF Accounts
<1>3. JobsRun' = JobsRun
  <2>1. JobsRun = N * (generation - 1) + N BY <1>1 DEF JobsRun, InRound, Running
  <2>2. JobsRun' = N * generation BY <1>1 DEF JobsRun, InRound, Arming, Running
  <2>3. N * (generation - 1) + N = N * generation BY <1>2
  <2> QED BY <2>1, <2>2, <2>3
<1> QED BY <1>1, <1>3 DEF Accounts, CountersAccounted

\* A worker that is moved leaves what the others execute alone.
LEMMA MovesNoItem ==
    ASSUME wpc \in [Worker -> WorkerPC], NEW w \in Worker, NEW to, MoveWorker(w, to),
           wpc[w] # "queued", to # "queued"
    PROVE  \A v \in Worker : wpc'[v] = "queued" <=> wpc[v] = "queued"
BY DEF MoveWorker

LEMMA WakesNoItem ==
    ASSUME wpc \in [Worker -> WorkerPC], NEW waits \in SUBSET {"idleWait", "gateWait"},
           Broadcast(waits)
    PROVE  \A v \in Worker : wpc'[v] = "queued" <=> wpc[v] = "queued"
BY BroadcastFacts

\* A signal leaves a round, or its end, as it is.
LEMMA SignalsNoRound ==
    ASSUME mpc \in ClientPC, NEW waits \in {ReadyCond, WorkingCond, DoneCond}, Signal(waits)
    PROVE  mpc' \in Arming \cup Running <=> mpc \in Arming \cup Running
BY SignalFacts DEF Arming, Running

LEMMA AccountsStep ==
    ASSUME Accounts, [Next]_vars
    PROVE  ItemsAccounted' /\ CountersAccounted'
<1> USE DEF poolVars, workerVars, roundLocals, clientVars, callVars, historyVars, queueVars,
            lifeVars, startupVars, roundVars
<1>t. wpc \in [Worker -> WorkerPC] /\ mpc \in ClientPC /\ item \in [Worker -> 0..MaxAdds]
  BY DEF Accounts, IInv, Types, WorkerTypes, ClientTypes
<1>i. ItemsAccounted /\ CountersAccounted BY DEF Accounts
<1>1. CASE SpawnWorker
  <2>1. stop => stop' BY <1>1 DEF SpawnWorker
  <2>2. UNCHANGED <<queue, adds, completed, cpu, unreadable, generation, doneCnt>> BY <1>1 DEF SpawnWorker
  <2>3. \A v \in Worker : wpc'[v] = "queued" <=> wpc[v] = "queued"
    <3>1. spawned \in Nat /\ spawned < N /\ spawned + 1 > spawned /\ N \in Nat
      BY <1>1, PoolAssumption DEF SpawnWorker, Accounts, IInv, Types, ClientTypes
    <3>2. spawned + 1 \in Worker BY <3>1 DEF Worker
    <3>3. wpc[spawned + 1] # "queued" BY <3>1, <3>2 DEF Accounts, IInv, Created
    <3> QED BY <1>1, <1>t, <3>2, <3>3, MovesNoItem DEF SpawnWorker
  <2>4. \A v \in Worker : wpc[v] = "queued" => item'[v] = item[v] BY <1>1 DEF SpawnWorker
  <2>5. mpc' \in Arming \cup Running <=> mpc \in Arming \cup Running
    BY <1>1, <1>t DEF SpawnWorker, Arming, Running
  <2> QED BY <1>i, <2>1, <2>2, <2>3, <2>4, <2>5, ItemsSame, CountersSame
<1>2. CASE SpawnFails
  <2>1. stop' /\ UNCHANGED <<completed, cpu, unreadable, generation, doneCnt>>
    BY <1>2 DEF SpawnFails
  <2> QED BY <1>i, <2>1 DEF ItemsAccounted, CountersAccounted
<1>3. CASE Unwind
  <2>1. stop => stop' BY <1>3 DEF Unwind
  <2>2. UNCHANGED <<queue, adds, completed, cpu, unreadable, generation, doneCnt>> BY <1>3 DEF Unwind
  <2>3. \A v \in Worker : wpc'[v] = "queued" <=> wpc[v] = "queued"
    BY <1>3, <1>t DEF Unwind
  <2>4. \A v \in Worker : wpc[v] = "queued" => item'[v] = item[v] BY <1>3 DEF Unwind
  <2>5. mpc' \in Arming \cup Running <=> mpc \in Arming \cup Running
    BY <1>3, <1>t DEF Unwind, Arming, Running
  <2> QED BY <1>i, <2>1, <2>2, <2>3, <2>4, <2>5, ItemsSame, CountersSame
<1>4. CASE StartupWait
  <2>1. stop => stop' BY <1>4 DEF StartupWait
  <2>2. UNCHANGED <<queue, adds, completed, cpu, unreadable, generation, doneCnt>> BY <1>4 DEF StartupWait
  <2>3. \A v \in Worker : wpc'[v] = "queued" <=> wpc[v] = "queued"
    BY <1>4, <1>t DEF StartupWait
  <2>4. \A v \in Worker : wpc[v] = "queued" => item'[v] = item[v] BY <1>4 DEF StartupWait
  <2>5. mpc' \in Arming \cup Running <=> mpc \in Arming \cup Running
    BY <1>4, <1>t DEF StartupWait, Arming, Running
  <2> QED BY <1>i, <2>1, <2>2, <2>3, <2>4, <2>5, ItemsSame, CountersSame
<1>5. CASE StartupDone
  <2>1. stop => stop' BY <1>5 DEF StartupDone
  <2>2. UNCHANGED <<queue, adds, completed, cpu, unreadable, generation, doneCnt>> BY <1>5 DEF StartupDone
  <2>3. \A v \in Worker : wpc'[v] = "queued" <=> wpc[v] = "queued"
    BY <1>5, <1>t DEF StartupDone
  <2>4. \A v \in Worker : wpc[v] = "queued" => item'[v] = item[v] BY <1>5 DEF StartupDone
  <2>5. mpc' \in Arming \cup Running <=> mpc \in Arming \cup Running
    BY <1>5, <1>t DEF StartupDone, Arming, Running
  <2> QED BY <1>i, <2>1, <2>2, <2>3, <2>4, <2>5, ItemsSame, CountersSame
<1>6. CASE ClientReacquire
  <2>1. stop => stop' BY <1>6 DEF ClientReacquire
  <2>2. UNCHANGED <<queue, adds, completed, cpu, unreadable, generation, doneCnt>> BY <1>6 DEF ClientReacquire
  <2>3. \A v \in Worker : wpc'[v] = "queued" <=> wpc[v] = "queued"
    BY <1>6, <1>t DEF ClientReacquire
  <2>4. \A v \in Worker : wpc[v] = "queued" => item'[v] = item[v] BY <1>6 DEF ClientReacquire
  <2>5. mpc' \in Arming \cup Running <=> mpc \in Arming \cup Running
    BY <1>6, <1>t DEF ClientReacquire, Arming, Running
  <2> QED BY <1>i, <2>1, <2>2, <2>3, <2>4, <2>5, ItemsSame, CountersSame
<1>7. CASE CallWait
  <2>1. stop => stop' BY <1>7 DEF CallWait
  <2>2. UNCHANGED <<queue, adds, completed, cpu, unreadable, generation, doneCnt>> BY <1>7 DEF CallWait
  <2>3. \A v \in Worker : wpc'[v] = "queued" <=> wpc[v] = "queued"
    BY <1>7, <1>t DEF CallWait
  <2>4. \A v \in Worker : wpc[v] = "queued" => item'[v] = item[v] BY <1>7 DEF CallWait
  <2>5. mpc' \in Arming \cup Running <=> mpc \in Arming \cup Running
    BY <1>7, <1>t DEF CallWait, Arming, Running
  <2> QED BY <1>i, <2>1, <2>2, <2>3, <2>4, <2>5, ItemsSame, CountersSame
<1>8. CASE WaitBlocks
  <2>1. stop => stop' BY <1>8 DEF WaitBlocks
  <2>2. UNCHANGED <<queue, adds, completed, cpu, unreadable, generation, doneCnt>> BY <1>8 DEF WaitBlocks
  <2>3. \A v \in Worker : wpc'[v] = "queued" <=> wpc[v] = "queued"
    BY <1>8, <1>t DEF WaitBlocks
  <2>4. \A v \in Worker : wpc[v] = "queued" => item'[v] = item[v] BY <1>8 DEF WaitBlocks
  <2>5. mpc' \in Arming \cup Running <=> mpc \in Arming \cup Running
    BY <1>8, <1>t DEF WaitBlocks, Arming, Running
  <2> QED BY <1>i, <2>1, <2>2, <2>3, <2>4, <2>5, ItemsSame, CountersSame
<1>9. CASE WaitReturns
  <2>1. stop => stop' BY <1>9 DEF WaitReturns
  <2>2. UNCHANGED <<queue, adds, completed, cpu, unreadable, generation, doneCnt>> BY <1>9 DEF WaitReturns
  <2>3. \A v \in Worker : wpc'[v] = "queued" <=> wpc[v] = "queued"
    BY <1>9, <1>t DEF WaitReturns
  <2>4. \A v \in Worker : wpc[v] = "queued" => item'[v] = item[v] BY <1>9 DEF WaitReturns
  <2>5. mpc' \in Arming \cup Running <=> mpc \in Arming \cup Running
    BY <1>9, <1>t DEF WaitReturns, Arming, Running
  <2> QED BY <1>i, <2>1, <2>2, <2>3, <2>4, <2>5, ItemsSame, CountersSame
<1>10. CASE AwaitReady
  <2>1. stop => stop' BY <1>10 DEF AwaitReady
  <2>2. UNCHANGED <<queue, adds, completed, cpu, unreadable, generation, doneCnt>> BY <1>10 DEF AwaitReady
  <2>3. \A v \in Worker : wpc'[v] = "queued" <=> wpc[v] = "queued"
    BY <1>10, <1>t DEF AwaitReady
  <2>4. \A v \in Worker : wpc[v] = "queued" => item'[v] = item[v] BY <1>10 DEF AwaitReady
  <2>5. mpc' \in Arming \cup Running <=> mpc \in Arming \cup Running
    BY <1>10, <1>t DEF AwaitReady, Arming, Running
  <2> QED BY <1>i, <2>1, <2>2, <2>3, <2>4, <2>5, ItemsSame, CountersSame
<1>11. CASE OpenGate
  <2>1. stop => stop' BY <1>11 DEF OpenGate
  <2>2. UNCHANGED <<queue, adds, completed, cpu, unreadable, generation, doneCnt>> BY <1>11 DEF OpenGate
  <2>3. \A v \in Worker : wpc'[v] = "queued" <=> wpc[v] = "queued"
    BY <1>11, <1>t, WakesNoItem DEF OpenGate
  <2>4. \A v \in Worker : wpc[v] = "queued" => item'[v] = item[v] BY <1>11 DEF OpenGate
  <2>5. mpc' \in Arming \cup Running <=> mpc \in Arming \cup Running
    BY <1>11, <1>t DEF OpenGate, Arming, Running
  <2> QED BY <1>i, <2>1, <2>2, <2>3, <2>4, <2>5, ItemsSame, CountersSame
<1>12. CASE AwaitDone
  <2>1. stop => stop' BY <1>12 DEF AwaitDone
  <2>2. UNCHANGED <<queue, adds, completed, cpu, unreadable, generation, doneCnt>> BY <1>12 DEF AwaitDone
  <2>3. \A v \in Worker : wpc'[v] = "queued" <=> wpc[v] = "queued"
    BY <1>12, <1>t DEF AwaitDone
  <2>4. \A v \in Worker : wpc[v] = "queued" => item'[v] = item[v] BY <1>12 DEF AwaitDone
  <2>5. mpc' \in Arming \cup Running <=> mpc \in Arming \cup Running
    BY <1>12, <1>t DEF AwaitDone, Arming, Running
  <2> QED BY <1>i, <2>1, <2>2, <2>3, <2>4, <2>5, ItemsSame, CountersSame
<1>13. CASE Destroy
  <2>1. stop' /\ UNCHANGED <<completed, cpu, unreadable, generation, doneCnt>>
    BY <1>13 DEF Destroy
  <2> QED BY <1>i, <2>1 DEF ItemsAccounted, CountersAccounted
<1>14. CASE Join
  <2>1. stop => stop' BY <1>14 DEF Join
  <2>2. UNCHANGED <<queue, adds, completed, cpu, unreadable, generation, doneCnt>> BY <1>14 DEF Join
  <2>3. \A v \in Worker : wpc'[v] = "queued" <=> wpc[v] = "queued"
    BY <1>14, <1>t DEF Join
  <2>4. \A v \in Worker : wpc[v] = "queued" => item'[v] = item[v] BY <1>14 DEF Join
  <2>5. mpc' \in Arming \cup Running <=> mpc \in Arming \cup Running
    BY <1>14, <1>t DEF Join, Arming, Running
  <2> QED BY <1>i, <2>1, <2>2, <2>3, <2>4, <2>5, ItemsSame, CountersSame
<1>15. CASE SpuriousClient
  <2>1. stop => stop' BY <1>15 DEF SpuriousClient
  <2>2. UNCHANGED <<queue, adds, completed, cpu, unreadable, generation, doneCnt>> BY <1>15 DEF SpuriousClient
  <2>3. \A v \in Worker : wpc'[v] = "queued" <=> wpc[v] = "queued"
    BY <1>15, <1>t DEF SpuriousClient
  <2>4. \A v \in Worker : wpc[v] = "queued" => item'[v] = item[v] BY <1>15 DEF SpuriousClient
  <2>5. mpc' \in Arming \cup Running <=> mpc \in Arming \cup Running
    BY <1>15, <1>t, WakeFacts DEF SpuriousClient, ReadyCond, WorkingCond, DoneCond, Arming, Running
  <2> QED BY <1>i, <2>1, <2>2, <2>3, <2>4, <2>5, ItemsSame, CountersSame
<1>16. ASSUME NEW j \in Jobs, CallRunAll(j) PROVE ItemsAccounted' /\ CountersAccounted'
  <2>1. stop => stop' BY <1>16 DEF CallRunAll
  <2>2. UNCHANGED <<queue, adds, completed, cpu, unreadable, generation, doneCnt>> BY <1>16 DEF CallRunAll
  <2>3. \A v \in Worker : wpc'[v] = "queued" <=> wpc[v] = "queued"
    BY <1>16, <1>t DEF CallRunAll
  <2>4. \A v \in Worker : wpc[v] = "queued" => item'[v] = item[v] BY <1>16 DEF CallRunAll
  <2>5. mpc' \in Arming \cup Running <=> mpc \in Arming \cup Running
    BY <1>16, <1>t DEF CallRunAll, Arming, Running
  <2> QED BY <1>i, <2>1, <2>2, <2>3, <2>4, <2>5, ItemsSame, CountersSame
<1>17. ASSUME NEW w \in Worker, WorkerReacquire(w) PROVE ItemsAccounted' /\ CountersAccounted'
  <2>1. stop => stop' BY <1>17 DEF WorkerReacquire
  <2>2. UNCHANGED <<queue, adds, completed, cpu, unreadable, generation, doneCnt>> BY <1>17 DEF WorkerReacquire
  <2>3. \A v \in Worker : wpc'[v] = "queued" <=> wpc[v] = "queued"
    BY <1>17, <1>t, MovesNoItem, WakeFacts DEF WorkerReacquire
  <2>4. \A v \in Worker : wpc[v] = "queued" => item'[v] = item[v] BY <1>17 DEF WorkerReacquire
  <2>5. mpc' \in Arming \cup Running <=> mpc \in Arming \cup Running
    BY <1>17, <1>t DEF WorkerReacquire, Arming, Running
  <2> QED BY <1>i, <2>1, <2>2, <2>3, <2>4, <2>5, ItemsSame, CountersSame
<1>18. ASSUME NEW w \in Worker, IdleWait(w) PROVE ItemsAccounted' /\ CountersAccounted'
  <2>1. stop => stop' BY <1>18 DEF IdleWait
  <2>2. UNCHANGED <<queue, adds, completed, cpu, unreadable, generation, doneCnt>> BY <1>18 DEF IdleWait
  <2>3. \A v \in Worker : wpc'[v] = "queued" <=> wpc[v] = "queued"
    BY <1>18, <1>t, MovesNoItem, WakeFacts DEF IdleWait
  <2>4. \A v \in Worker : wpc[v] = "queued" => item'[v] = item[v] BY <1>18 DEF IdleWait
  <2>5. mpc' \in Arming \cup Running <=> mpc \in Arming \cup Running
    BY <1>18, <1>t DEF IdleWait, Arming, Running
  <2> QED BY <1>i, <2>1, <2>2, <2>3, <2>4, <2>5, ItemsSame, CountersSame
<1>19. ASSUME NEW w \in Worker, Exit(w) PROVE ItemsAccounted' /\ CountersAccounted'
  <2>1. stop => stop' BY <1>19 DEF Exit
  <2>2. UNCHANGED <<queue, adds, completed, cpu, unreadable, generation, doneCnt>> BY <1>19 DEF Exit
  <2>3. \A v \in Worker : wpc'[v] = "queued" <=> wpc[v] = "queued"
    BY <1>19, <1>t, MovesNoItem, WakeFacts DEF Exit
  <2>4. \A v \in Worker : wpc[v] = "queued" => item'[v] = item[v] BY <1>19 DEF Exit
  <2>5. mpc' \in Arming \cup Running <=> mpc \in Arming \cup Running
    BY <1>19, <1>t, SignalsNoRound DEF Exit, Arming, Running
  <2> QED BY <1>i, <2>1, <2>2, <2>3, <2>4, <2>5, ItemsSame, CountersSame
<1>20. ASSUME NEW w \in Worker, JoinRound(w) PROVE ItemsAccounted' /\ CountersAccounted'
  <2>1. stop => stop' BY <1>20 DEF JoinRound
  <2>2. UNCHANGED <<queue, adds, completed, cpu, unreadable, generation, doneCnt>> BY <1>20 DEF JoinRound
  <2>3. \A v \in Worker : wpc'[v] = "queued" <=> wpc[v] = "queued"
    BY <1>20, <1>t, MovesNoItem, WakeFacts DEF JoinRound
  <2>4. \A v \in Worker : wpc[v] = "queued" => item'[v] = item[v] BY <1>20 DEF JoinRound
  <2>5. mpc' \in Arming \cup Running <=> mpc \in Arming \cup Running
    BY <1>20, <1>t, SignalsNoRound DEF JoinRound, SignalIf, Arming, Running
  <2> QED BY <1>i, <2>1, <2>2, <2>3, <2>4, <2>5, ItemsSame, CountersSame
<1>21. ASSUME NEW w \in Worker, GateWait(w) PROVE ItemsAccounted' /\ CountersAccounted'
  <2>1. stop => stop' BY <1>21 DEF GateWait
  <2>2. UNCHANGED <<queue, adds, completed, cpu, unreadable, generation, doneCnt>> BY <1>21 DEF GateWait
  <2>3. \A v \in Worker : wpc'[v] = "queued" <=> wpc[v] = "queued"
    BY <1>21, <1>t, MovesNoItem, WakeFacts DEF GateWait
  <2>4. \A v \in Worker : wpc[v] = "queued" => item'[v] = item[v] BY <1>21 DEF GateWait
  <2>5. mpc' \in Arming \cup Running <=> mpc \in Arming \cup Running
    BY <1>21, <1>t DEF GateWait, Arming, Running
  <2> QED BY <1>i, <2>1, <2>2, <2>3, <2>4, <2>5, ItemsSame, CountersSame
<1>22. ASSUME NEW w \in Worker, Uncount(w) PROVE ItemsAccounted' /\ CountersAccounted'
  <2>1. stop => stop' BY <1>22 DEF Uncount
  <2>2. UNCHANGED <<queue, adds, completed, cpu, unreadable, generation, doneCnt>> BY <1>22 DEF Uncount
  <2>3. \A v \in Worker : wpc'[v] = "queued" <=> wpc[v] = "queued"
    BY <1>22, <1>t, MovesNoItem, WakeFacts DEF Uncount
  <2>4. \A v \in Worker : wpc[v] = "queued" => item'[v] = item[v] BY <1>22 DEF Uncount
  <2>5. mpc' \in Arming \cup Running <=> mpc \in Arming \cup Running
    BY <1>22, <1>t, SignalsNoRound DEF Uncount, SignalIf, Arming, Running
  <2> QED BY <1>i, <2>1, <2>2, <2>3, <2>4, <2>5, ItemsSame, CountersSame
<1>23. ASSUME NEW w \in Worker, RunParallel(w) PROVE ItemsAccounted' /\ CountersAccounted'
  <2>1. stop => stop' BY <1>23 DEF RunParallel
  <2>2. UNCHANGED <<queue, adds, completed, cpu, unreadable, generation, doneCnt>> BY <1>23 DEF RunParallel
  <2>3. \A v \in Worker : wpc'[v] = "queued" <=> wpc[v] = "queued"
    BY <1>23, <1>t, MovesNoItem, WakeFacts DEF RunParallel
  <2>4. \A v \in Worker : wpc[v] = "queued" => item'[v] = item[v] BY <1>23 DEF RunParallel
  <2>5. mpc' \in Arming \cup Running <=> mpc \in Arming \cup Running
    BY <1>23, <1>t DEF RunParallel, Arming, Running
  <2> QED BY <1>i, <2>1, <2>2, <2>3, <2>4, <2>5, ItemsSame, CountersSame
<1>24. ASSUME NEW w \in Worker, SpuriousWorker(w) PROVE ItemsAccounted' /\ CountersAccounted'
  <2>1. stop => stop' BY <1>24 DEF SpuriousWorker
  <2>2. UNCHANGED <<queue, adds, completed, cpu, unreadable, generation, doneCnt>> BY <1>24 DEF SpuriousWorker
  <2>3. \A v \in Worker : wpc'[v] = "queued" <=> wpc[v] = "queued"
    BY <1>24, <1>t, MovesNoItem, WakeFacts DEF SpuriousWorker
  <2>4. \A v \in Worker : wpc[v] = "queued" => item'[v] = item[v] BY <1>24 DEF SpuriousWorker
  <2>5. mpc' \in Arming \cup Running <=> mpc \in Arming \cup Running
    BY <1>24, <1>t DEF SpuriousWorker, Arming, Running
  <2> QED BY <1>i, <2>1, <2>2, <2>3, <2>4, <2>5, ItemsSame, CountersSame
<1>25. ASSUME NEW w \in Worker, NEW failed \in BOOLEAN, CheckIn(w, failed)
      PROVE  ItemsAccounted' /\ CountersAccounted'
  <2>1. stop => stop' BY <1>25 DEF CheckIn
  <2>2. UNCHANGED <<queue, adds, completed, cpu, unreadable, generation, doneCnt>> BY <1>25 DEF CheckIn
  <2>3. \A v \in Worker : wpc'[v] = "queued" <=> wpc[v] = "queued"
    BY <1>25, <1>t, MovesNoItem DEF CheckIn
  <2>4. \A v \in Worker : wpc[v] = "queued" => item'[v] = item[v] BY <1>25 DEF CheckIn
  <2>5. mpc' \in Arming \cup Running <=> mpc \in Arming \cup Running
    BY <1>25, <1>t, SignalsNoRound DEF CheckIn, Arming, Running
  <2> QED BY <1>i, <2>1, <2>2, <2>3, <2>4, <2>5, ItemsSame, CountersSame
<1>26. CASE AddWork
  <2>1. UNCHANGED <<completed, cpu, unreadable, generation, doneCnt, stop, mpc>> BY <1>26 DEF AddWork
  <2> QED BY <1>i, <2>1, <1>26, AddWorkAccounts, CountersSame
<1>27. ASSUME NEW w \in Worker, TakeWork(w) PROVE ItemsAccounted' /\ CountersAccounted'
  <2>1. UNCHANGED <<completed, cpu, unreadable, generation, doneCnt, stop, mpc>> BY <1>27 DEF TakeWork
  <2> QED BY <1>i, <2>1, <1>27, TakeWorkAccounts, CountersSame
<1>28. ASSUME NEW w \in Worker, NEW before \in Readings, NEW after \in Readings,
             RecordWork(w, before, after)
      PROVE  ItemsAccounted' /\ CountersAccounted'
  BY <1>28, RecordWorkAccounts
<1>29. CASE Arm
  <2>1. stop => stop' BY <1>29 DEF Arm
  <2>2. UNCHANGED <<queue, adds, completed, item>> BY <1>29 DEF Arm
  <2>3. \A v \in Worker : wpc'[v] = "queued" <=> wpc[v] = "queued" BY <1>29, <1>t, WakesNoItem DEF Arm
  <2> QED BY <1>i, <2>1, <2>2, <2>3, <1>29, ItemsSame, ArmAccounts
<1>30. CASE RunAllReturns
  <2>1. stop => stop' BY <1>30 DEF RunAllReturns
  <2>2. UNCHANGED <<queue, adds, completed, item>> BY <1>30 DEF RunAllReturns
  <2>3. \A v \in Worker : wpc'[v] = "queued" <=> wpc[v] = "queued" BY <1>30, <1>t DEF RunAllReturns
  <2> QED BY <1>i, <2>1, <2>2, <2>3, <1>30, ItemsSame, RunAllReturnsAccounts
<1>31. ASSUME NEW w \in Worker, NEW before \in Readings, NEW after \in Readings,
             FinishParallel(w, before, after)
      PROVE  ItemsAccounted' /\ CountersAccounted'
  <2>1. stop => stop' BY <1>31 DEF FinishParallel
  <2>2. UNCHANGED <<queue, adds, completed, item>> BY <1>31 DEF FinishParallel
  <2>3. \A v \in Worker : wpc'[v] = "queued" <=> wpc[v] = "queued" BY <1>31, <1>t, MovesNoItem DEF FinishParallel
  <2> QED BY <1>i, <2>1, <2>2, <2>3, <1>31, ItemsSame, FinishParallelAccounts
<1>32. CASE UNCHANGED vars
  <2>1. UNCHANGED <<queue, adds, completed, item, stop, wpc, mpc, cpu, unreadable, generation, doneCnt>>
    BY <1>32 DEF vars
  <2> QED BY <1>i, <2>1, ItemsSame, CountersSame
<1> QED
  BY <1>1, <1>2, <1>3, <1>4, <1>5, <1>6, <1>7, <1>8, <1>9, <1>10, <1>11,
     <1>12, <1>13, <1>14, <1>15, <1>16, <1>17, <1>18, <1>19, <1>20, <1>21,
     <1>22, <1>23, <1>24, <1>25, <1>26, <1>27, <1>28, <1>29, <1>30, <1>31,
     <1>32
  DEF Next, ClientStep, ClientCall, WorkerStep, Terminated

LEMMA AccountsHold == Spec => []Accounts
<1>1. Init => ItemsAccounted /\ CountersAccounted
  <2> SUFFICES ASSUME Init PROVE ItemsAccounted /\ CountersAccounted
    OBVIOUS
  <2>1. /\ queue = <<>> /\ adds = 0 /\ completed = {} /\ generation = 0 /\ unreadable = 0
        /\ cpu = [observations |-> 0, migrations |-> 0, mismatches |-> 0]
        /\ mpc = "spawn" /\ \A w \in Worker : wpc[w] = "absent"
    BY DEF Init
  <2>2. Len(queue) = 0 /\ Taken = 0
    <3>1. Len(<<>>) = 0 OBVIOUS
    <3>2. Len(queue) = 0 BY <3>1, <2>1, Zenon
    <3>3. Taken = adds - Len(queue) BY DEF Taken
    <3> QED BY <3>2, <3>3, <2>1
  <2>3. ItemsAccounted BY <2>1, <2>2 DEF ItemsAccounted, Queued
  <2>4. JobsRun = 0 BY <2>1, PoolAssumption DEF JobsRun, InRound, Arming, Running
  <2>5. Cardinality(completed) = 0 BY <2>1, FS_EmptySet
  <2>6. CountersAccounted BY <2>1, <2>4, <2>5 DEF CountersAccounted
  <2> QED BY <2>3, <2>6
<1>2. ItemsAccounted /\ CountersAccounted /\ IInv /\ [Next]_vars
          => ItemsAccounted' /\ CountersAccounted'
  BY AccountsStep DEF Accounts
<1> QED BY <1>1, <1>2, Invariance, PTL DEF Spec, Accounts

\* When tpool_wait returns, every item submitted has been executed, whichever
\* workers took them (thread_pool.cpp, tpool_wait).
THEOREM WaitReturnsDrained == Spec => WaitDrains
<1>1. Accounts /\ [Next]_vars =>
          (mpc = "wait" /\ mpc' \in {"ready", "arm"} => completed = 1 .. adds)
  <2> SUFFICES ASSUME Accounts, [Next]_vars, mpc = "wait", mpc' \in {"ready", "arm"}
               PROVE  completed = 1 .. adds
    OBVIOUS
  <2>1. WaitReturns
    BY SignalFacts, WakeFacts
    DEF Next, ClientStep, ClientCall, WorkerStep, Terminated, vars,
        SpawnWorker, Unwind, StartupWait, StartupDone, ClientReacquire,
        WaitBlocks, Arm, AwaitReady, OpenGate, AwaitDone,
        RunAllReturns, Join, SpawnFails, AddWork, CallWait, CallRunAll,
        Destroy, CheckIn, WorkerReacquire, IdleWait, Exit, JoinRound,
        GateWait, RunParallel, FinishParallel, TakeWork, RecordWork,
        Uncount, SpuriousWorker, SpuriousClient, poolVars, clientVars,
        workerVars, historyVars, SignalIf, Signal, ReadyCond, WorkingCond, DoneCond
  <2>2. ~stop BY DEF Accounts, IInv, Stopping
  <2>3. queue = <<>> /\ workingCnt = 0 BY <2>1, <2>2 DEF WaitReturns, Busy
  <2>4. Working = {}
    <3>1. Cardinality(Working) = 0 BY <2>3 DEF Accounts, IInv, Counts
    <3>2. IsFiniteSet(Working) BY WorkerFinite, FS_Subset DEF Working
    <3> QED BY <3>1, <3>2, FS_EmptySet
  <2>5. \A w \in Worker : ~Queued(w) BY <2>4 DEF Working, Queued
  <2>6. Taken = adds BY <2>3, ItemTypes DEF Taken, Accounts
  <2> QED BY <2>2, <2>5, <2>6 DEF Accounts, ItemsAccounted
<1> QED BY <1>1, AccountsHold, PTL DEF Spec, WaitDrains

\* The counters of tpool_get_migration_info account for every invocation, none
\* twice, once a call has returned with no work outstanding.
THEOREM MigrationsAccounted == Spec => []MigrationReport
<1>1. Accounts => MigrationReport
  <2> SUFFICES ASSUME Accounts PROVE MigrationReport
    OBVIOUS
  <2>1. mpc = "ready" => ~stop BY DEF Accounts, IInv, Stopping
  <2>2. mpc = "ready" => JobsRun = N * generation BY DEF JobsRun, InRound, Arming, Running
  <2> QED BY <2>1, <2>2 DEF Accounts, CountersAccounted, MigrationReport
<1> QED BY <1>1, AccountsHold, PTL
=============================================================================
