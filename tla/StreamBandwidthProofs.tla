----------------------- MODULE StreamBandwidthProofs -----------------------
(***************************************************************************)
(* The stream measurement, for any number of CPUs and repetitions, any     *)
(* request and any width of an integer: where its streams lie, who touches *)
(* what, what is left behind, and which round a sample is of.              *)
(*                                                                         *)
(* The caller's part of the invariant says what is held in which phase.    *)
(* The workers' part says that one is inside only in an open window, on    *)
(* its own slice; and, of a measured round, that the stamps of those that  *)
(* have passed a clock are of this round and none lies outside began and   *)
(* ended.                                                                  *)
(***************************************************************************)
EXTENDS StreamBandwidth, TLAPS

Opened == {"initializing", "warming", "measuring"}
Acquired == {"initialize", "warmup", "clock", "measure", "evaluate"} \cup Opened
Callers == {"validate", "create", "prepare", "failed", "reported"} \cup Acquired
Sample == [seconds : Int, source : Sources]
TimeStamp == [round : Nat, tick : Nat]
InKernel == {"measure", "kernel", "stamped", "counted"}

CallerTypes ==
    /\ pc \in Callers
    /\ single \in BOOLEAN
    /\ requested \in Requests
    /\ memory \in {"none", "held", "freed"}
    /\ pool \in {"none", "alive", "destroyed"}
    /\ samples \in Seq(Sample)

\* What the caller holds in each phase.
Holding ==
    /\ memory = "held" => total = requested * Streams
    /\ pc = "validate" => memory = "none" /\ pool = "none"
    /\ pc \in {"create", "prepare"} => memory = "held" /\ pool = "none"
    /\ pc \in Acquired => memory = "held" /\ pool = IF single THEN "none" ELSE "alive"
    /\ single => pc \in {"validate", "prepare", "measure", "failed", "reported"}
    /\ ~single => pc # "prepare"
    /\ pc \in {"failed", "reported"} => memory # "held" /\ pool # "alive"

WorkerTypes ==
    /\ wpc \in [Worker -> {"out", "initialize", "warmup"} \cup InKernel]
    /\ slice \in [Worker -> 0 .. N - 1]
    /\ workerStart \in [Worker -> TimeStamp] /\ workerEnd \in [Worker -> TimeStamp]
    /\ workerCycles \in [Worker -> Nat]
    /\ tick \in Nat /\ round \in Nat
    /\ began \in TimeStamp /\ ended \in TimeStamp
    /\ stored \subseteq Worker
    /\ touched \in [0 .. N - 1 -> 0 .. N]
    /\ running \in [Worker -> Jobs \cup {"none"}]
    /\ finished \subseteq Worker

JobOf == [initializing |-> "initialize", warming |-> "warmup", measuring |-> "measure"]

Window ==
    /\ open <=> pc \in Opened
    /\ open => job = JobOf[pc] /\ round > 0
    /\ ~open => finished = {}
    /\ \A w \in Worker :
           /\ wpc[w] = "out" <=> running[w] = "none"
           /\ running[w] # "none" => open /\ running[w] = job /\ w \notin finished
           /\ wpc[w] \in {"initialize", "warmup"} => running[w] = wpc[w]
           /\ wpc[w] \in InKernel => running[w] = "measure"

\* Whose slice is whose.
Touching ==
    /\ \A w \in Worker : running[w] # "none" => slice[w] = w - 1
    /\ pc = "initializing" =>
           \A w \in Worker : w \in finished \/ running[w] # "none" => touched[w - 1] = w
    /\ ~single /\ pc \in {"warmup", "warming", "clock", "measure", "measuring", "evaluate"} =>
           \A w \in Worker : touched[w - 1] = w

Started == IF pc = "evaluate" THEN Worker
           ELSE finished \cup {w \in Worker : wpc[w] \in {"kernel", "stamped", "counted"}}
Stamped == IF pc = "evaluate" THEN Worker
           ELSE finished \cup {w \in Worker : wpc[w] \in {"stamped", "counted"}}

\* The stamps of a measured round.
Stamps ==
    pc \in {"measuring", "evaluate"} =>
        /\ round > 0
        /\ \A w \in Started :
               workerStart[w].round = round /\ workerStart[w].tick \in began.tick .. tick
        /\ IF Started = {} THEN began = NoStamp ELSE \E w \in Started : began = workerStart[w]
        /\ \A w \in Stamped : workerEnd[w].round = round /\ workerEnd[w].tick <= ended.tick
        /\ ended.tick <= tick
        /\ Stamped # {} => \E w \in Stamped : ended = workerEnd[w]
        /\ \A w \in Worker : workerCycles[w] # 0 => w \in stored

StreamInvariant ==
    /\ CallerTypes /\ Holding
    /\ WorkerTypes /\ Window /\ Touching /\ Stamps

USE DEF request, poolVars, taskVars, clockVars, Pool!Open, Pool!Enter, Pool!Leave, Pool!Close

LEMMA WorkersAreNumbers ==
    /\ Worker \subseteq Nat \ {0} /\ 1 \in Worker
    /\ \A w \in Worker : w - 1 \in 0 .. N - 1 /\ (w - 1) + 1 = w
BY StreamAssumption DEF Worker

LEMMA StreamInit == Init => StreamInvariant
<1> SUFFICES ASSUME Init PROVE StreamInvariant
  OBVIOUS
<1>1. CallerTypes BY DEF Init, CallerTypes, Callers
<1>2. Holding BY DEF Init, Holding, Acquired, Opened
<1>3. WorkerTypes
  <2>1. NoStamp \in TimeStamp BY DEF NoStamp, TimeStamp
  <2>2. /\ wpc \in [Worker -> {"out", "initialize", "warmup"} \cup InKernel]
        /\ workerStart \in [Worker -> TimeStamp] /\ workerEnd \in [Worker -> TimeStamp]
        /\ workerCycles \in [Worker -> Nat] /\ tick \in Nat /\ round \in Nat
        /\ began \in TimeStamp /\ ended \in TimeStamp /\ stored \subseteq Worker
    BY <2>1 DEF Init
  <2>3. slice \in [Worker -> 0 .. N - 1] /\ touched \in [0 .. N - 1 -> 0 .. N]
    BY StreamAssumption DEF Init
  <2>4. running \in [Worker -> Jobs \cup {"none"}] /\ finished \subseteq Worker
    BY DEF Init, Pool!Init
  <2> QED BY <2>2, <2>3, <2>4 DEF WorkerTypes
<1>4. Window BY DEF Init, Pool!Init, Window, Opened, InKernel
<1>5. Touching BY DEF Init, Pool!Init, Touching
<1>6. Stamps BY DEF Init, Stamps
<1> QED BY <1>1, <1>2, <1>3, <1>4, <1>5, <1>6 DEF StreamInvariant

-----------------------------------------------------------------------------
(* The caller outside of a round.                                          *)

\* Where the workers are left alone and no round is open, nothing of theirs is
\* disturbed.
LEMMA WorkersKeep ==
    ASSUME StreamInvariant, ~open, UNCHANGED <<single, taskVars, clockVars, touched, poolVars>>,
           pc' \in Callers \ (Opened \cup {"evaluate"}),
           pc' \in {"warmup", "clock", "measure"} /\ ~single => pc \in {"clock", "evaluate"}
    PROVE  (WorkerTypes /\ Window /\ Touching /\ Stamps)'
<1>1. WorkerTypes' BY DEF StreamInvariant, WorkerTypes
<1>2. Window' BY DEF StreamInvariant, Window
<1>3. Touching' BY DEF StreamInvariant, Touching, Opened
<1>4. Stamps' BY DEF Stamps, Opened
<1> QED BY <1>1, <1>2, <1>3, <1>4

\* The size of all streams has not wrapped when it is allocated.
LEMMA NotWrapped ==
    ASSUME NEW r \in Nat, NEW s \in Nat \ {0}, NEW m \in Nat, r <= m \div s
    PROVE  (r * s) % (m + 1) = r * s
<1>1. r * s <= m
  <2>1. m \div s \in Nat /\ s * (m \div s) <= m OBVIOUS
  <2>2. s * r <= s * (m \div s) BY <2>1
  <2> QED BY <2>1, <2>2
<1>2. r * s \in Nat OBVIOUS
<1> DEFINE p == r * s
<1>3. p \in 0 .. m BY <1>1, <1>2
<1> HIDE DEF p
<1>4. p % (m + 1) = p BY <1>3
<1> QED BY <1>4 DEF p

LEMMA AllocateKeeps == ASSUME StreamInvariant, Allocate PROVE StreamInvariant'
<1>1. /\ pc = "validate" /\ memory' = "held" /\ pc' = IF single THEN "prepare" ELSE "create"
      /\ total' = (requested * Streams) % (MaxSize + 1) /\ AggregateFits(requested)
      /\ UNCHANGED <<single, requested, pool, samples, taskVars, clockVars, touched, poolVars>>
  BY DEF Allocate, Acceptable
<1>2. requested \in Nat /\ MaxSize \in Nat /\ Streams \in Nat \ {0}
  BY StreamAssumption DEF StreamInvariant, CallerTypes, Streams
<1>3. requested <= MaxSize \div Streams BY <1>1 DEF AggregateFits
<1>4. total' = requested * Streams BY <1>1, <1>2, <1>3, NotWrapped
<1>5. CallerTypes' BY <1>1 DEF StreamInvariant, CallerTypes, Callers
<1>6. Streams' = Streams BY <1>1 DEF Streams
<1> HIDE DEF Streams
<1>7. Holding' BY <1>1, <1>4, <1>6 DEF StreamInvariant, Holding, Acquired, Opened
<1>8. ~open BY <1>1 DEF StreamInvariant, Window, Opened
<1>9. (WorkerTypes /\ Window /\ Touching /\ Stamps)'
  BY <1>1, <1>5, <1>8, WorkersKeep DEF CallerTypes, Callers, Acquired, Opened
<1> QED BY <1>5, <1>7, <1>9 DEF StreamInvariant

\* The caller goes on with or without what it held.
LEMMA CallerKeeps ==
    ASSUME StreamInvariant, pc \notin Opened,
           UNCHANGED <<request, taskVars, clockVars, touched, poolVars>>,
           samples' \in Seq(Sample),
           \/ /\ pc \in {"validate", "create", "evaluate", "measure"} /\ pc' \in {"failed", "reported"}
              /\ memory' = (IF memory = "none" THEN "none" ELSE "freed")
              /\ pool' = (IF pool = "none" THEN "none" ELSE "destroyed")
           \/ pc = "create" /\ pc' = "initialize" /\ ~single /\ memory' = memory /\ pool' = "alive"
           \/ /\ pc' = "measure" /\ UNCHANGED <<memory, pool>>
              /\ \/ ~single /\ pc \in {"clock", "evaluate"}
                 \/ single /\ pc \in {"prepare", "measure"}
    PROVE  StreamInvariant'
<1>1. ~open BY DEF StreamInvariant, Window
<1>2. CallerTypes' BY DEF StreamInvariant, CallerTypes, Callers, Acquired
<1>3. Streams' = Streams BY DEF Streams
<1>4. Holding'
  <2> HIDE DEF Streams
  <2> QED BY <1>3 DEF StreamInvariant, CallerTypes, Holding, Acquired, Opened
<1>5. (WorkerTypes /\ Window /\ Touching /\ Stamps)'
  BY <1>1, <1>2, WorkersKeep DEF CallerTypes, Callers, Acquired, Opened
<1> QED BY <1>2, <1>4, <1>5 DEF StreamInvariant

\* What one sample is made of.
LEMMA ElapsedIsOfTheRound ==
    ASSUME StreamInvariant, pc = "evaluate"
    PROVE  /\ Elapsed = ended.tick - began.tick /\ Elapsed \in Int
           /\ AllWorkersHaveCycles => stored = Worker
<1>1. /\ \A w \in Worker : workerStart[w].round = round /\ began.tick <= workerStart[w].tick
      /\ \A w \in Worker : workerEnd[w].round = round /\ workerEnd[w].tick <= ended.tick
      /\ \A w \in Worker : workerStart[w] \in TimeStamp /\ workerEnd[w] \in TimeStamp
      /\ \E w \in Worker : began = workerStart[w]
      /\ \E w \in Worker : ended = workerEnd[w]
      /\ began \in TimeStamp /\ ended \in TimeStamp /\ round \in Nat
  BY WorkersAreNumbers DEF StreamInvariant, WorkerTypes, Stamps, Started, Stamped
<1> DEFINE starts == {workerStart[w] : w \in Worker}
           ends == {workerEnd[w] : w \in Worker}
           first == CHOOSE s \in starts : \A w \in Worker : ~Before(workerStart[w], s)
           last == CHOOSE s \in ends : \A w \in Worker : ~Before(s, workerEnd[w])
<1>2. first = began
  <2>1. began \in starts /\ \A w \in Worker : ~Before(workerStart[w], began)
    BY <1>1 DEF Before, TimeStamp
  <2>2. \A s \in starts : s.round = began.round /\ began.tick <= s.tick /\ s \in TimeStamp BY <1>1
  <2>3. first \in starts /\ \A w \in Worker : ~Before(workerStart[w], first) BY <2>1
  <2>4. ~Before(began, first) BY <1>1, <2>3
  <2> HIDE DEF first, starts
  <2>5. first \in TimeStamp /\ first.round = began.round /\ first.tick = began.tick
    BY <1>1, <2>2, <2>3, <2>4 DEF Before, TimeStamp
  <2> QED BY <1>1, <2>5 DEF TimeStamp
<1>3. last = ended
  <2>1. ended \in ends /\ \A w \in Worker : ~Before(ended, workerEnd[w])
    BY <1>1 DEF Before, TimeStamp
  <2>2. \A s \in ends : s.round = ended.round /\ s.tick <= ended.tick /\ s \in TimeStamp BY <1>1
  <2>3. last \in ends /\ \A w \in Worker : ~Before(last, workerEnd[w]) BY <2>1
  <2>4. ~Before(last, ended) BY <1>1, <2>3
  <2> HIDE DEF last, ends
  <2>5. last \in TimeStamp /\ last.round = ended.round /\ last.tick = ended.tick
    BY <1>1, <2>2, <2>3, <2>4 DEF Before, TimeStamp
  <2> QED BY <1>1, <2>5 DEF TimeStamp
<1>4. Elapsed = Seconds(first, last) BY DEF Elapsed
<1>5. began.round = ended.round BY <1>1
<1> HIDE DEF first, last
<1>6. Elapsed = ended.tick - began.tick BY <1>2, <1>3, <1>4, <1>5 DEF Seconds
<1>7. AllWorkersHaveCycles => stored = Worker
  BY DEF AllWorkersHaveCycles, StreamInvariant, WorkerTypes, Stamps
<1> QED BY <1>1, <1>6, <1>7 DEF TimeStamp

LEMMA EvaluateKeeps == ASSUME StreamInvariant, Evaluate PROVE StreamInvariant'
<1>1. /\ pc = "evaluate" /\ pc \notin Opened
      /\ UNCHANGED <<request, taskVars, clockVars, touched, poolVars>>
  BY DEF Evaluate, Opened
<1>2. ~single /\ memory = "held" /\ pool = "alive" /\ samples \in Seq(Sample)
  BY <1>1 DEF StreamInvariant, Holding, Acquired, CallerTypes
<1>3. CASE Elapsed > 0
  <2> DEFINE s == [seconds |-> Elapsed, source |-> SampleSource(AllWorkersHaveCycles)]
  <2>1. Elapsed \in Int BY <1>1, ElapsedIsOfTheRound
  <2>2. s \in Sample BY <2>1 DEF Sample, SampleSource, Sources
  <2>3. samples' = Append(samples, s) /\ pc' = "measure" /\ UNCHANGED <<memory, pool>>
    BY <1>3 DEF Evaluate, Keep
  <2> HIDE DEF s
  <2>4. samples' \in Seq(Sample) BY <1>2, <2>2, <2>3
  <2> QED BY <1>1, <1>2, <2>3, <2>4, CallerKeeps
<1>4. CASE ~(Elapsed > 0)
  BY <1>1, <1>2, <1>4, CallerKeeps DEF Evaluate, GiveUp, FreeMemory
<1> QED BY <1>3, <1>4

LEMMA MeasureOnceKeeps ==
    ASSUME StreamInvariant, NEW seconds \in 0 .. 2, NEW cycles \in 0 .. 1, MeasureOnce(seconds, cycles)
    PROVE  StreamInvariant'
<1>1. /\ pc = "measure" /\ single /\ pc \notin Opened
      /\ UNCHANGED <<request, taskVars, clockVars, touched, poolVars>>
  BY DEF MeasureOnce, Opened
<1>2. memory = "held" /\ pool = "none" /\ samples \in Seq(Sample)
  BY <1>1 DEF StreamInvariant, Holding, Acquired, CallerTypes
<1>3. CASE seconds > 0
  <2> DEFINE s == [seconds |-> seconds, source |-> SampleSource(cycles > 0)]
  <2>1. s \in Sample BY DEF Sample, SampleSource, Sources
  <2>2. samples' = Append(samples, s) /\ pc' = "measure" /\ UNCHANGED <<memory, pool>>
    BY <1>3 DEF MeasureOnce, Keep
  <2> HIDE DEF s
  <2>3. samples' \in Seq(Sample) BY <1>2, <2>1, <2>2
  <2> QED BY <1>1, <1>2, <2>2, <2>3, CallerKeeps
<1>4. CASE ~(seconds > 0)
  BY <1>1, <1>2, <1>4, CallerKeeps DEF MeasureOnce, GiveUp, FreeMemory
<1> QED BY <1>3, <1>4

-----------------------------------------------------------------------------
(* A round.                                                                *)

LEMMA StartRoundKeeps ==
    ASSUME StreamInvariant, NEW j \in Jobs, StartRound(j), ~single,
           \/ pc = "initialize" /\ pc' = "initializing" /\ j = "initialize"
           \/ pc = "warmup" /\ pc' = "warming" /\ j = "warmup"
           \/ pc = "measure" /\ pc' = "measuring" /\ j = "measure"
    PROVE  StreamInvariant'
<1>1. /\ ~open /\ open' = TRUE /\ job' = j /\ round' = round + 1 /\ tick' = 0
      /\ began' = NoStamp /\ ended' = NoStamp /\ stored' = {}
      /\ workerCycles' = [w \in Worker |-> 0]
      /\ UNCHANGED <<request, memory, pool, samples, wpc, slice, workerStart, workerEnd, touched,
                     running, finished>>
  BY DEF StartRound, ResetTask
<1>2. CallerTypes' BY <1>1 DEF StreamInvariant, CallerTypes, Callers, Acquired, Opened
<1>3. Streams' = Streams BY <1>1 DEF Streams
<1>4. Holding'
  <2> HIDE DEF Streams
  <2> QED BY <1>1, <1>3 DEF StreamInvariant, Holding, Acquired, Opened
<1>5. WorkerTypes' BY <1>1 DEF StreamInvariant, WorkerTypes, NoStamp, TimeStamp
<1>6. \A w \in Worker : running[w] = "none" /\ wpc[w] = "out"
  BY <1>1 DEF StreamInvariant, Window
<1>7. finished = {} BY <1>1 DEF StreamInvariant, Window
<1>8. Window'
  BY <1>1, <1>6, <1>7 DEF StreamInvariant, WorkerTypes, Window, Opened, JobOf, InKernel
<1>9. Touching' BY <1>1, <1>6, <1>7 DEF StreamInvariant, Touching
<1>10. Stamps'
  <2>1. pc' # "evaluate" OBVIOUS
  <2>2. Started' = {} /\ Stamped' = {} BY <1>1, <1>6, <1>7, <2>1 DEF Started, Stamped
  <2>3. round' > 0 BY <1>1 DEF StreamInvariant, WorkerTypes
  <2> QED BY <1>1, <2>2, <2>3 DEF Stamps, NoStamp
<1> QED BY <1>2, <1>4, <1>5, <1>8, <1>9, <1>10 DEF StreamInvariant

LEMMA RoundReturnsKeeps == ASSUME StreamInvariant, RoundReturns PROVE StreamInvariant'
<1>1. /\ open /\ finished = Worker /\ open' = FALSE /\ finished' = {} /\ pc' = AfterRound[pc]
      /\ UNCHANGED <<request, memory, pool, samples, taskVars, clockVars, touched, running>>
  BY DEF RoundReturns
<1>2. pc \in Opened BY <1>1 DEF StreamInvariant, Window
<1>3. \/ pc = "initializing" /\ pc' = "warmup"
      \/ pc = "warming" /\ pc' = "clock"
      \/ pc = "measuring" /\ pc' = "evaluate"
  BY <1>1, <1>2 DEF Opened, AfterRound
<1>4. CallerTypes' BY <1>1, <1>3 DEF StreamInvariant, CallerTypes, Callers, Acquired, Opened
<1>5. Streams' = Streams BY <1>1 DEF Streams
<1>6. Holding'
  <2> HIDE DEF Streams
  <2> QED BY <1>1, <1>3, <1>5 DEF StreamInvariant, Holding, Acquired, Opened
<1>7. WorkerTypes' BY <1>1 DEF StreamInvariant, WorkerTypes
<1>8. \A w \in Worker : running[w] = "none" BY <1>1 DEF StreamInvariant, Window
<1>9. Window' BY <1>1, <1>3, <1>8 DEF StreamInvariant, Window, Opened
<1>10. Touching' BY <1>1, <1>3, <1>8 DEF StreamInvariant, Touching
<1>11. Stamps'
  <2> SUFFICES ASSUME pc = "measuring", pc' = "evaluate" PROVE Stamps'
    BY <1>3 DEF Stamps
  <2>1. Started = Worker /\ Stamped = Worker BY <1>1 DEF Started, Stamped
  <2>2. Started' = Worker /\ Stamped' = Worker BY DEF Started, Stamped
  <2> QED BY <1>1, <2>1, <2>2 DEF StreamInvariant, Stamps
<1> QED BY <1>4, <1>6, <1>7, <1>9, <1>10, <1>11 DEF StreamInvariant

-----------------------------------------------------------------------------
(* A worker inside the window.                                             *)

\* It does not concern the caller.
LEMMA CallerUnmoved ==
    ASSUME StreamInvariant, UNCHANGED <<pc, request, memory, pool, samples>>
    PROVE  (CallerTypes /\ Holding)'
<1>1. CallerTypes' BY DEF StreamInvariant, CallerTypes
<1>2. Streams' = Streams BY DEF Streams
<1> HIDE DEF Streams
<1>3. Holding' BY <1>2 DEF StreamInvariant, Holding
<1> QED BY <1>1, <1>3

LEMMA EnterKeeps == ASSUME StreamInvariant, NEW w \in Worker, Enter(w) PROVE StreamInvariant'
<1>1. /\ open /\ w \notin finished /\ running[w] = "none" /\ running' = [running EXCEPT ![w] = job]
      /\ slice' = [slice EXCEPT ![w] = w - 1] /\ wpc' = [wpc EXCEPT ![w] = job]
      /\ touched' = IF job = "initialize" THEN [touched EXCEPT ![w - 1] = w] ELSE touched
      /\ UNCHANGED <<pc, request, memory, pool, samples, workerStart, workerEnd, workerCycles,
                     clockVars, open, job, finished>>
  BY DEF Enter, PoolIndex
<1>2. /\ job \in Jobs /\ job # "none" /\ job \in {"initialize", "warmup"} \cup InKernel
      /\ job \notin {"kernel", "stamped", "counted", "out"}
      /\ pc \in Opened /\ job = JobOf[pc]
  BY <1>1 DEF StreamInvariant, Window, Opened, JobOf, Jobs, InKernel
<1>3. w - 1 \in 0 .. N - 1 /\ w \in 0 .. N BY StreamAssumption DEF Worker
<1>4. WorkerTypes' BY <1>1, <1>2, <1>3 DEF StreamInvariant, WorkerTypes
<1>5. Window'
  <2>1. \A v \in Worker : v # w => running'[v] = running[v] /\ wpc'[v] = wpc[v]
    BY <1>1 DEF StreamInvariant, WorkerTypes
  <2>2. running'[w] = job /\ wpc'[w] = job BY <1>1 DEF StreamInvariant, WorkerTypes
  <2>3. job \in InKernel => job = "measure" BY <1>2 DEF Jobs, InKernel
  <2> QED BY <1>1, <1>2, <2>1, <2>2, <2>3 DEF StreamInvariant, Window
<1>6. Touching'
  <2>1. /\ slice'[w] = w - 1 /\ running'[w] = job
        /\ \A v \in Worker : v # w => slice'[v] = slice[v] /\ running'[v] = running[v]
    BY <1>1 DEF StreamInvariant, WorkerTypes
  <2>2. \A v \in Worker : touched'[v - 1] = IF job = "initialize" /\ v = w THEN w ELSE touched[v - 1]
    BY <1>1, <1>3, WorkersAreNumbers DEF StreamInvariant, WorkerTypes
  <2>3. pc = "initializing" <=> job = "initialize" BY <1>2 DEF Opened, JobOf
  <2> QED BY <1>1, <2>1, <2>2, <2>3 DEF StreamInvariant, Touching
<1>7. Stamps'
  <2>1. pc # "evaluate" /\ pc' = pc BY <1>1, <1>2 DEF Opened
  <2>2. wpc[w] = "out" BY <1>1 DEF StreamInvariant, Window
  <2>3. \A v \in Worker : wpc'[v] = IF v = w THEN job ELSE wpc[v]
    BY <1>1 DEF StreamInvariant, WorkerTypes
  <2>4. Started' = Started /\ Stamped' = Stamped BY <1>1, <1>2, <2>1, <2>2, <2>3 DEF Started, Stamped
  <2> QED BY <1>1, <2>4 DEF StreamInvariant, Stamps
<1> QED BY <1>1, <1>4, <1>5, <1>6, <1>7, CallerUnmoved DEF StreamInvariant

\* Where it is in the kernel.
LEMMA InsideARound ==
    ASSUME StreamInvariant, NEW w \in Worker, wpc[w] \in InKernel
    PROVE  /\ running[w] = "measure" /\ w \notin finished /\ open
           /\ pc = "measuring" /\ slice[w] + 1 = w /\ round > 0
<1>1. running[w] = "measure" BY DEF StreamInvariant, Window
<1>2. w \notin finished /\ open /\ job = "measure" /\ pc \in Opened /\ job = JobOf[pc] /\ round > 0
  BY <1>1 DEF StreamInvariant, Window
<1>3. pc = "measuring" BY <1>2 DEF Opened, JobOf
<1>4. slice[w] + 1 = w BY <1>1, WorkersAreNumbers DEF StreamInvariant, Touching
<1> QED BY <1>1, <1>2, <1>3, <1>4

\* One worker goes on inside the kernel.
LEMMA KernelKeeps ==
    ASSUME StreamInvariant, NEW w \in Worker, wpc[w] \in InKernel,
           NEW p \in InKernel, wpc' = [wpc EXCEPT ![w] = p],
           UNCHANGED <<pc, request, memory, pool, samples, slice, touched, poolVars>>,
           round' = round, WorkerTypes', Stamps'
    PROVE  StreamInvariant'
<1>1. \A v \in Worker : wpc'[v] = IF v = w THEN p ELSE wpc[v]
  BY DEF StreamInvariant, WorkerTypes
<1>2. p \notin {"out", "initialize", "warmup"} BY DEF InKernel
<1>3. running[w] = "measure" BY InsideARound
<1>4. Window' BY <1>1, <1>2, <1>3 DEF StreamInvariant, Window
<1>5. Touching' BY DEF StreamInvariant, Touching
<1> QED BY <1>4, <1>5, CallerUnmoved DEF StreamInvariant

LEMMA StampStartKeeps ==
    ASSUME StreamInvariant, NEW w \in Worker, NEW d \in 0 .. 1, StampStart(w, d)
    PROVE  StreamInvariant'
<1>0. wpc[w] = "measure" /\ wpc[w] \in InKernel BY DEF StampStart, InKernel
<1>1. pc = "measuring" /\ slice[w] + 1 = w /\ w \notin finished /\ round > 0 BY <1>0, InsideARound
<1> DEFINE now == Now(d)
<1>2. /\ wpc' = [wpc EXCEPT ![w] = "kernel"] /\ tick' = tick + d
      /\ workerStart' = [workerStart EXCEPT ![w] = now]
      /\ began' = IF began = NoStamp THEN now ELSE began
      /\ UNCHANGED <<pc, request, memory, pool, samples, slice, workerEnd, workerCycles, round, ended,
                     stored, touched, poolVars>>
  BY <1>1 DEF StampStart
<1>3. now \in TimeStamp /\ now.round = round /\ now.tick = tick + d /\ tick \in Nat
  BY DEF StreamInvariant, WorkerTypes, Now, TimeStamp
<1> HIDE DEF now
<1>4. WorkerTypes' BY <1>2, <1>3 DEF StreamInvariant, WorkerTypes, InKernel
<1>5. \A v \in Worker : wpc'[v] = (IF v = w THEN "kernel" ELSE wpc[v])
                     /\ workerStart'[v] = IF v = w THEN now ELSE workerStart[v]
  BY <1>2 DEF StreamInvariant, WorkerTypes
<1>6. Started' = Started \cup {w} /\ w \notin Started /\ Stamped' = Stamped /\ Started \subseteq Worker
  BY <1>0, <1>1, <1>2, <1>5 DEF Started, Stamped, StreamInvariant, WorkerTypes
<1>7. Stamps'
  <2>1. /\ \A v \in Started : workerStart[v].round = round /\ workerStart[v].tick \in began.tick .. tick
        /\ IF Started = {} THEN began = NoStamp ELSE \E v \in Started : began = workerStart[v]
        /\ \A v \in Stamped : workerEnd[v].round = round /\ workerEnd[v].tick <= ended.tick
        /\ ended.tick <= tick
        /\ Stamped # {} => \E v \in Stamped : ended = workerEnd[v]
        /\ \A v \in Worker : workerCycles[v] # 0 => v \in stored
    BY <1>1 DEF StreamInvariant, Stamps
  <2>2. Started # {} => began # NoStamp BY <1>1, <2>1 DEF NoStamp
  <2>3. began' = IF Started = {} THEN now ELSE began BY <1>2, <2>1, <2>2
  <2>4. began.tick \in Nat /\ ended.tick \in Nat BY DEF StreamInvariant, WorkerTypes, TimeStamp
  <2>5. \A v \in Started' :
          workerStart'[v].round = round' /\ workerStart'[v].tick \in began'.tick .. tick'
    <3>1. CASE Started = {} BY <1>2, <1>3, <1>5, <1>6, <2>3, <3>1
    <3>2. CASE Started # {}
      <4>1. PICK u \in Started : began = workerStart[u] BY <2>1, <3>2
      <4>2. began.tick <= tick BY <2>1, <4>1
      <4>3. \A v \in Started : workerStart'[v] = workerStart[v] BY <1>5, <1>6
      <4> QED BY <1>2, <1>3, <1>5, <1>6, <2>1, <2>3, <2>4, <3>2, <4>2, <4>3
    <3> QED BY <3>1, <3>2
  <2>6. \E v \in Started' : began' = workerStart'[v]
    BY <1>5, <1>6, <2>1, <2>3
  <2>7. ended'.tick <= tick' BY <1>2, <1>3, <2>1, <2>4
  <2>8. Started' # {} BY <1>6
  <2> QED BY <1>1, <1>2, <1>6, <2>1, <2>5, <2>6, <2>7, <2>8 DEF Stamps
<1> QED BY <1>0, <1>2, <1>4, <1>7, KernelKeeps DEF InKernel

LEMMA StampEndKeeps ==
    ASSUME StreamInvariant, NEW w \in Worker, NEW d \in 0 .. 1, StampEnd(w, d)
    PROVE  StreamInvariant'
<1>0. wpc[w] = "kernel" /\ wpc[w] \in InKernel BY DEF StampEnd, InKernel
<1>1. pc = "measuring" /\ slice[w] + 1 = w /\ w \notin finished /\ round > 0 BY <1>0, InsideARound
<1> DEFINE now == Now(d)
<1>2. /\ wpc' = [wpc EXCEPT ![w] = "stamped"] /\ tick' = tick + d
      /\ workerEnd' = [workerEnd EXCEPT ![w] = now] /\ ended' = now
      /\ UNCHANGED <<pc, request, memory, pool, samples, slice, workerStart, workerCycles, round, began,
                     stored, touched, poolVars>>
  BY <1>1 DEF StampEnd
<1>3. now \in TimeStamp /\ now.round = round /\ now.tick = tick + d /\ tick \in Nat
  BY DEF StreamInvariant, WorkerTypes, Now, TimeStamp
<1> HIDE DEF now
<1>4. WorkerTypes' BY <1>2, <1>3 DEF StreamInvariant, WorkerTypes, InKernel
<1>5. \A v \in Worker : wpc'[v] = (IF v = w THEN "stamped" ELSE wpc[v])
                     /\ workerEnd'[v] = IF v = w THEN now ELSE workerEnd[v]
  BY <1>2 DEF StreamInvariant, WorkerTypes
<1>6. Started' = Started /\ Stamped' = Stamped \cup {w} /\ w \notin Stamped /\ Stamped \subseteq Worker
      /\ Started \subseteq Worker
  BY <1>0, <1>1, <1>2, <1>5 DEF Started, Stamped, StreamInvariant, WorkerTypes
<1>7. Stamps'
  <2>1. /\ \A v \in Started : workerStart[v].round = round /\ workerStart[v].tick \in began.tick .. tick
        /\ IF Started = {} THEN began = NoStamp ELSE \E v \in Started : began = workerStart[v]
        /\ \A v \in Stamped : workerEnd[v].round = round /\ workerEnd[v].tick <= ended.tick
        /\ ended.tick <= tick
        /\ \A v \in Worker : workerCycles[v] # 0 => v \in stored
    BY <1>1 DEF StreamInvariant, Stamps
  <2>2. /\ began.tick \in Nat /\ ended.tick \in Nat
        /\ \A v \in Worker : workerStart[v].tick \in Nat /\ workerEnd[v].tick \in Nat
    BY DEF StreamInvariant, WorkerTypes, TimeStamp
  <2>3. \A v \in Started : workerStart'[v].tick \in began'.tick .. tick' /\ workerStart'[v].round = round'
    BY <1>2, <1>3, <1>6, <2>1, <2>2
  <2>4. \A v \in Stamped' : workerEnd'[v].round = round' /\ workerEnd'[v].tick <= ended'.tick
    <3>1. \A v \in Stamped : workerEnd'[v] = workerEnd[v] BY <1>5, <1>6
    <3>2. \A v \in Stamped : workerEnd[v].tick <= now.tick BY <1>3, <1>6, <2>1, <2>2
    <3> QED BY <1>2, <1>3, <1>5, <1>6, <2>1, <3>1, <3>2
  <2>5. ended'.tick <= tick' BY <1>2, <1>3
  <2>6. \E v \in Stamped' : ended' = workerEnd'[v] BY <1>2, <1>5, <1>6
  <2> QED BY <1>1, <1>2, <1>6, <2>1, <2>3, <2>4, <2>5, <2>6 DEF Stamps
<1> QED BY <1>0, <1>2, <1>4, <1>7, KernelKeeps DEF InKernel

LEMMA StoreCyclesKeeps ==
    ASSUME StreamInvariant, NEW w \in Worker, NEW c \in 0 .. 1, StoreCycles(w, c)
    PROVE  StreamInvariant'
<1>0. wpc[w] = "stamped" /\ wpc[w] \in InKernel BY DEF StoreCycles, InKernel
<1>1. pc = "measuring" /\ slice[w] + 1 = w /\ w \notin finished BY <1>0, InsideARound
<1>2. /\ wpc' = [wpc EXCEPT ![w] = "counted"] /\ workerCycles' = [workerCycles EXCEPT ![w] = c]
      /\ stored' = IF c # 0 THEN stored \cup {w} ELSE stored
      /\ UNCHANGED <<pc, request, memory, pool, samples, slice, workerStart, workerEnd, tick, round,
                     began, ended, touched, poolVars>>
  BY <1>1 DEF StoreCycles
<1>3. WorkerTypes' BY <1>2 DEF StreamInvariant, WorkerTypes, InKernel
<1>4. \A v \in Worker : wpc'[v] = (IF v = w THEN "counted" ELSE wpc[v])
                     /\ workerCycles'[v] = IF v = w THEN c ELSE workerCycles[v]
  BY <1>2 DEF StreamInvariant, WorkerTypes
<1>5. Started' = Started /\ Stamped' = Stamped
  BY <1>0, <1>1, <1>2, <1>4 DEF Started, Stamped
<1>6. \A v \in Worker : workerCycles'[v] # 0 => v \in stored'
  BY <1>1, <1>2, <1>4 DEF StreamInvariant, Stamps
<1>7. Stamps' BY <1>2, <1>5, <1>6 DEF StreamInvariant, Stamps
<1> QED BY <1>0, <1>2, <1>3, <1>7, KernelKeeps DEF InKernel

LEMMA LeaveKeeps == ASSUME StreamInvariant, NEW w \in Worker, Leave(w) PROVE StreamInvariant'
<1>1. /\ wpc[w] \in {"initialize", "warmup", "stamped", "counted"}
      /\ running[w] # "none" /\ running' = [running EXCEPT ![w] = "none"]
      /\ finished' = finished \cup {w} /\ wpc' = [wpc EXCEPT ![w] = "out"]
      /\ UNCHANGED <<pc, request, memory, pool, samples, slice, workerStart, workerEnd, workerCycles,
                     clockVars, touched, open, job>>
  BY DEF Leave
<1>2. WorkerTypes' BY <1>1 DEF StreamInvariant, WorkerTypes
<1>3. \A v \in Worker : /\ running'[v] = IF v = w THEN "none" ELSE running[v]
                        /\ wpc'[v] = IF v = w THEN "out" ELSE wpc[v]
  BY <1>1 DEF StreamInvariant, WorkerTypes
<1>4. open /\ pc \in Opened BY <1>1 DEF StreamInvariant, Window
<1>5. Window' BY <1>1, <1>3, <1>4 DEF StreamInvariant, Window, InKernel
<1>6. Touching' BY <1>1, <1>3 DEF StreamInvariant, Touching
<1>7. Stamps'
  <2> SUFFICES ASSUME pc = "measuring" PROVE Stamps'
    BY <1>1, <1>4 DEF Stamps, Opened
  <2>1. wpc[w] \in {"stamped", "counted"}
    BY <1>1, <1>4 DEF StreamInvariant, Window, JobOf
  <2>2. Started' = Started /\ Stamped' = Stamped BY <1>1, <1>3, <2>1 DEF Started, Stamped
  <2> QED BY <1>1, <2>2 DEF StreamInvariant, Stamps
<1> QED BY <1>1, <1>2, <1>5, <1>6, <1>7, CallerUnmoved DEF StreamInvariant

-----------------------------------------------------------------------------
LEMMA StreamStep == ASSUME StreamInvariant, [Next]_vars PROVE StreamInvariant'
<1>0. samples \in Seq(Sample) BY DEF StreamInvariant, CallerTypes
<1>1. CASE Reject \/ AllocationFails
  <2>1. /\ pc = "validate" /\ pc' = "failed" /\ pc \notin Opened
        /\ UNCHANGED <<request, memory, pool, samples, taskVars, clockVars, touched, poolVars>>
    BY <1>1 DEF Reject, AllocationFails, Opened
  <2>2. memory = "none" /\ pool = "none" BY <2>1 DEF StreamInvariant, Holding
  <2> QED BY <1>0, <2>1, <2>2, CallerKeeps
<1>2. CASE Allocate BY <1>2, AllocateKeeps
<1>3. CASE CreatePool
  <2>1. /\ pc = "create" /\ pc' = "initialize" /\ pc \notin Opened /\ pool' = "alive"
        /\ UNCHANGED <<request, memory, samples, taskVars, clockVars, touched, poolVars>>
    BY <1>3 DEF CreatePool, Opened
  <2>2. ~single BY <2>1 DEF StreamInvariant, Holding
  <2> QED BY <1>0, <2>1, <2>2, CallerKeeps
<1>4. CASE PoolFails
  <2>1. /\ pc = "create" /\ pc' = "failed" /\ pc \notin Opened /\ memory' = "freed"
        /\ UNCHANGED <<request, pool, samples, taskVars, clockVars, touched, poolVars>>
    BY <1>4 DEF PoolFails, FreeMemory, Opened
  <2>2. memory = "held" /\ pool = "none" BY <2>1 DEF StreamInvariant, Holding
  <2> QED BY <1>0, <2>1, <2>2, CallerKeeps
<1>5. CASE Initialize
  <2>1. ~single BY <1>5 DEF Initialize, StreamInvariant, Holding
  <2> QED BY <1>5, <2>1, StartRoundKeeps DEF Initialize, Jobs
<1>6. CASE Warmup
  <2>1. ~single BY <1>6 DEF Warmup, StreamInvariant, Holding
  <2> QED BY <1>6, <2>1, StartRoundKeeps DEF Warmup, Jobs
<1>7. CASE Measure BY <1>7, StartRoundKeeps DEF Measure, Jobs
<1>8. CASE RoundReturns BY <1>8, RoundReturnsKeeps
<1>9. CASE FallbackClock
  <2>1. /\ pc = "clock" /\ pc' = "measure" /\ pc \notin Opened
        /\ UNCHANGED <<request, memory, pool, samples, taskVars, clockVars, touched, poolVars>>
    BY <1>9 DEF FallbackClock, Opened
  <2>2. ~single BY <2>1 DEF StreamInvariant, Holding
  <2> QED BY <1>0, <2>1, <2>2, CallerKeeps
<1>10. CASE Evaluate BY <1>10, EvaluateKeeps
<1>11. CASE Prepare
  <2>1. /\ pc = "prepare" /\ pc' = "measure" /\ pc \notin Opened
        /\ UNCHANGED <<request, memory, pool, samples, taskVars, clockVars, touched, poolVars>>
    BY <1>11 DEF Prepare, Opened
  <2>2. single BY <2>1 DEF StreamInvariant, Holding
  <2> QED BY <1>0, <2>1, <2>2, CallerKeeps
<1>12. CASE Report
  <2>1. /\ pc = "measure" /\ pc' = "reported" /\ pc \notin Opened /\ memory' = "freed"
        /\ pool' = (IF single THEN pool ELSE "destroyed")
        /\ UNCHANGED <<request, samples, taskVars, clockVars, touched, poolVars>>
    BY <1>12 DEF Report, FreeMemory, Opened
  <2>2. memory = "held" /\ pool = (IF single THEN "none" ELSE "alive")
    BY <2>1 DEF StreamInvariant, Holding, Acquired
  <2> QED BY <1>0, <2>1, <2>2, CallerKeeps
<1>13. ASSUME NEW s \in 0 .. 2, NEW c \in 0 .. 1, MeasureOnce(s, c) PROVE StreamInvariant'
  BY <1>13, MeasureOnceKeeps
<1>14. ASSUME NEW w \in Worker, Enter(w) PROVE StreamInvariant' BY <1>14, EnterKeeps
<1>15. ASSUME NEW w \in Worker, Leave(w) PROVE StreamInvariant' BY <1>15, LeaveKeeps
<1>16. ASSUME NEW w \in Worker, NEW d \in 0 .. 1, StampStart(w, d) PROVE StreamInvariant'
  BY <1>16, StampStartKeeps
<1>17. ASSUME NEW w \in Worker, NEW d \in 0 .. 1, StampEnd(w, d) PROVE StreamInvariant'
  BY <1>17, StampEndKeeps
<1>18. ASSUME NEW w \in Worker, NEW d \in 0 .. 1, StoreCycles(w, d) PROVE StreamInvariant'
  BY <1>18, StoreCyclesKeeps
<1>19. CASE UNCHANGED vars
  <2>1. (CallerTypes /\ Holding)' BY <1>19, CallerUnmoved DEF vars
  <2>2. WorkerTypes' BY <1>19 DEF vars, StreamInvariant, WorkerTypes
  <2>3. Window' BY <1>19 DEF vars, StreamInvariant, Window
  <2>4. Touching' BY <1>19 DEF vars, StreamInvariant, Touching
  <2>5. Started' = Started /\ Stamped' = Stamped BY <1>19 DEF vars, Started, Stamped
  <2>6. Stamps' BY <1>19, <2>5 DEF vars, StreamInvariant, Stamps
  <2> QED BY <2>1, <2>2, <2>3, <2>4, <2>6 DEF StreamInvariant
<1> QED
  BY <1>1, <1>2, <1>3, <1>4, <1>5, <1>6, <1>7, <1>8, <1>9, <1>10, <1>11, <1>12, <1>13,
     <1>14, <1>15, <1>16, <1>17, <1>18, <1>19
  DEF Next, Done

\* The invariant of one measurement on all CPUs or on one, error paths included.
THEOREM StreamInvariance == Spec => []StreamInvariant
BY StreamInit, StreamStep, PTL DEF Spec

\* No stream lies outside the allocation, for every request, number of CPUs and
\* width of the sizes: the total that is allocated has not wrapped (the checks
\* before aligned_allocate).
THEOREM StreamsInside == Spec => []StreamsInsideAllocation
<1>1. StreamInvariant => StreamsInsideAllocation
  <2> SUFFICES ASSUME StreamInvariant, memory = "held", NEW i \in 1 .. Streams
               PROVE  i * requested <= total
    BY DEF StreamsInsideAllocation
  <2>1. requested \in Nat /\ Streams \in Nat /\ total = requested * Streams
    BY StreamAssumption DEF StreamInvariant, CallerTypes, Holding, Streams
  <2> HIDE DEF Streams
  <2>2. i * requested <= Streams * requested BY <2>1
  <2> QED BY <2>1, <2>2
<1> QED BY <1>1, StreamInvariance, PTL

\* A slice is streamed by the worker that first touched it and by no other
\* (the comment on tpool_worker_index).
THEOREM FirstTouch == Spec => []FirstTouchStreams
<1>1. StreamInvariant => FirstTouchStreams
  <2> SUFFICES ASSUME StreamInvariant, NEW w \in Worker
               PROVE  /\ running[w] \in {"warmup", "measure"} => touched[slice[w]] = w
                      /\ \A v \in Worker \ {w} :
                           running[w] # "none" /\ running[v] # "none" => slice[w] # slice[v]
    BY DEF FirstTouchStreams
  <2>1. running[w] # "none" => slice[w] = w - 1 BY DEF StreamInvariant, Touching
  <2>2. ASSUME running[w] \in {"warmup", "measure"} PROVE touched[slice[w]] = w
    <3>1. pc \in Opened /\ job = JobOf[pc] /\ job = running[w] BY <2>2 DEF StreamInvariant, Window
    <3>2. pc \in {"warming", "measuring"} BY <2>2, <3>1 DEF Opened, JobOf
    <3>3. ~single BY <3>2 DEF StreamInvariant, Holding
    <3>4. touched[w - 1] = w BY <3>2, <3>3 DEF StreamInvariant, Touching
    <3> QED BY <2>1, <2>2, <3>4
  <2>3. ASSUME NEW v \in Worker \ {w}, running[w] # "none", running[v] # "none"
        PROVE  slice[w] # slice[v]
    <3>1. slice[v] = v - 1 BY <2>3 DEF StreamInvariant, Touching
    <3> QED BY <2>1, <2>3, <3>1, WorkersAreNumbers
  <2> QED BY <2>2, <2>3
<1> QED BY <1>1, StreamInvariance, PTL

\* Memory and pool outlive every kernel and no way out, whatever fails.
THEOREM Released == Spec => []ReleasedOnEveryExit
<1>1. StreamInvariant => ReleasedOnEveryExit
  <2> SUFFICES ASSUME StreamInvariant PROVE ReleasedOnEveryExit
    OBVIOUS
  <2>1. ASSUME NEW w \in Worker, running[w] # "none" PROVE memory = "held" /\ pool = "alive"
    <3>1. pc \in Opened BY <2>1 DEF StreamInvariant, Window
    <3> QED BY <3>1 DEF StreamInvariant, Holding, Acquired, Opened
  <2> QED BY <2>1 DEF ReleasedOnEveryExit, StreamInvariant, Holding
<1> QED BY <1>1, StreamInvariance, PTL

\* A sample runs from the first start to the last end of its own round, and is
\* called measured only if every worker's counter ran in it, for any number of
\* rounds whose stamps were never cleared (measure_parallel_stream_bandwidth).
THEOREM SamplesOfTheirRounds == Spec => SampleOfItsRound
<1> DEFINE A == Len(samples') > Len(samples) /\ ~single =>
                  LET sample == samples'[Len(samples')]
                  IN /\ sample.seconds = ended.tick - began.tick
                     /\ sample.source = "perf" => stored = Worker
<1>1. ASSUME StreamInvariant, [Next]_vars PROVE [A]_vars
  <2> SUFFICES ASSUME Len(samples') > Len(samples), ~single
               PROVE  LET sample == samples'[Len(samples')]
                      IN /\ sample.seconds = ended.tick - began.tick
                         /\ sample.source = "perf" => stored = Worker
    OBVIOUS
  <2>1. samples \in Seq(Sample) /\ Len(samples) \in Nat BY <1>1 DEF StreamInvariant, CallerTypes
  <2>2. samples' # samples BY <2>1
  <2>3. Evaluate
    BY <1>1, <2>2
    DEF Next, vars, Done, Reject, Allocate, AllocationFails, CreatePool, PoolFails, Initialize, Warmup,
        Measure, StartRound, RoundReturns, FallbackClock, Prepare, Report, MeasureOnce, Enter, Leave,
        StampStart, StampEnd, StoreCycles
  <2> DEFINE s == [seconds |-> Elapsed, source |-> SampleSource(AllWorkersHaveCycles)]
  <2>4. pc = "evaluate" /\ samples' = Append(samples, s)
    BY <2>2, <2>3 DEF Evaluate, Keep, GiveUp
  <2>5. s.seconds = Elapsed /\ (s.source = "perf" => AllWorkersHaveCycles)
    BY DEF SampleSource
  <2> HIDE DEF s
  <2>6. samples'[Len(samples')] = s BY <2>1, <2>4
  <2> QED BY <1>1, <2>4, <2>5, <2>6, ElapsedIsOfTheRound
<1> QED BY <1>1, StreamInvariance, PTL DEF Spec, SampleOfItsRound
=============================================================================
