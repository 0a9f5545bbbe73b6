--------------------------- MODULE ThreadPoolProofs ---------------------------
(***************************************************************************)
(* Proofs about ThreadPool, for any number of threads and calls, and about *)
(* ParallelMatmul, for any number of rows too, with the one driver thread  *)
(* sp_threadpool.h asks for.                                               *)
(***************************************************************************)
EXTENDS ParallelMatmul, FiniteSetTheorems, TLAPS

\* The workers that have counted themselves done in the current epoch.
Counted ==
  {w \in Spawned(n_threads) : last_epoch[w] = task_epoch /\ wpc[w] \notin {"run", "count"}}

\* A worker has the current epoch, or is one behind and owes its slice.
Owes(w) ==
  /\ InCall(Main)
  /\ w \in pending[Main]
  /\ wpc[w] \in {"check", "notify"}
  /\ last_epoch[w] + 1 = task_epoch

Working(w) == wpc[w] \in {"run", "count"}

WorkerInv(w) ==
  /\ wpc[w] = "none" <=> w \notin Spawned(n_threads)
  /\ w \in Spawned(n_threads) => last_epoch[w] = task_epoch \/ Owes(w)
  /\ Working(w) => InCall(Main) /\ last_epoch[w] = task_epoch
  /\ wpc[w] = "run" => t[w] = Main /\ w \in pending[Main]
  /\ last_epoch[w] = task_epoch /\ wpc[w] # "run" => w \notin pending[Main]
  /\ wpc[w] = "asleep" => last_epoch[w] = task_epoch /\ ~shutdown
  /\ wpc[w] = "exit" => shutdown

DriverInv ==
  /\ dpc[Main] = "join" => shutdown
  /\ shutdown /\ n_threads > 1 => dpc[Main] = "join"
  /\ dpc[Main] \in {"join"} \/ InCall(Main) => n_threads > 1
  /\ InCall(Main) => task = Main
  /\ ~InCall(Main) => pending[Main] = {}
  /\ 0 \in pending[Main] => dpc[Main] = "own"
  /\ \A s \in pending[Main] : s < n_threads
  /\ InCall(Main) => done_count = Cardinality(Counted)
  /\ AllDone /\ dpc[Main] = "asleep" => \E w \in WorkerIds : wpc[w] = "notify"

IInv ==
  /\ TypeOK
  /\ DriverInv
  /\ \A w \in WorkerIds : WorkerInv(w)

-----------------------------------------------------------------------------
\* How many workers an initialisation creates, and that they are finitely many.
LEMMA SpawnedCard ==
  ASSUME NEW n \in 1 .. MaxThreads
  PROVE  IsFiniteSet(Spawned(n)) /\ Cardinality(Spawned(n)) = n - 1
<1>1. n \in Nat /\ n >= 1 /\ MaxThreads \in Nat
  BY PoolAssumption
<1>2. Spawned(n) = 1 .. n - 1
  BY <1>1 DEF Spawned, WorkerIds
<1>3. IsFiniteSet(1 .. n - 1) /\ Cardinality(1 .. n - 1) = IF 1 > n - 1 THEN 0 ELSE (n - 1) - 1 + 1
  BY <1>1, FS_Interval
<1> QED
  BY <1>1, <1>2, <1>3

\* The workers that have counted are among the spawned ones, and are all of
\* them when their number says so.
LEMMA CountedCard ==
  ASSUME TypeOK, n_threads > 1
  PROVE  /\ IsFiniteSet(Counted)
         /\ Cardinality(Counted) \in 0 .. n_threads - 1
         /\ Cardinality(Counted) = n_threads - 1 => Counted = Spawned(n_threads)
<1>1. n_threads \in 1 .. MaxThreads /\ n_threads \in Nat
  BY PoolAssumption DEF TypeOK
<1>2. IsFiniteSet(Spawned(n_threads)) /\ Cardinality(Spawned(n_threads)) = n_threads - 1
  BY <1>1, SpawnedCard
<1>3. Counted \in SUBSET Spawned(n_threads)
  BY DEF Counted
<1>4. /\ IsFiniteSet(Counted)
      /\ Cardinality(Counted) <= Cardinality(Spawned(n_threads))
      /\ Cardinality(Spawned(n_threads)) = Cardinality(Counted) => Spawned(n_threads) = Counted
  BY <1>2, <1>3, FS_Subset
<1>5. Cardinality(Counted) \in Nat
  BY <1>4, FS_CardinalityType
<1> QED
  BY <1>1, <1>2, <1>4, <1>5

\* A driver that finds the count complete has no slice left to run: this is
\* what makes it safe for sp_parallel_for to return.
LEMMA CompleteCount ==
  ASSUME IInv, dpc[Main] = "wait", AllDone
  PROVE  pending[Main] = {} /\ \A w \in Spawned(n_threads) : last_epoch[w] = task_epoch /\ ~Working(w)
<1>1. InCall(Main) /\ n_threads > 1 /\ 0 \notin pending[Main]
  BY DEF IInv, DriverInv, InCall
<1>2. Counted = Spawned(n_threads)
  BY <1>1, CountedCard DEF IInv, DriverInv, AllDone
<1>3. \A w \in Spawned(n_threads) : last_epoch[w] = task_epoch /\ ~Working(w)
  BY <1>2 DEF Counted, Working
<1>4. pending[Main] \subseteq Slices /\ \A s \in pending[Main] : s < n_threads
  BY PoolAssumption DEF IInv, DriverInv, TypeOK
<1>5. \A w \in Spawned(n_threads) : w \notin pending[Main]
  BY <1>3 DEF IInv, WorkerInv, Working, Spawned
<1>6. \A s \in Slices : s # 0 /\ s < n_threads => s \in Spawned(n_threads)
  BY PoolAssumption DEF Slices, Spawned, WorkerIds, IInv, TypeOK
<1>7. pending[Main] = {}
  BY <1>1, <1>4, <1>5, <1>6
<1> QED
  BY <1>3, <1>7

\* The ranges of the counters hold what the actions put in them.
LEMMA Bounds ==
  /\ 0 \in 0 .. MaxThreads /\ 0 \in 0 .. MaxEpoch /\ 0 \in 0 .. MaxThreads - 1
  /\ \A n \in 1 .. MaxThreads : n \in 0 .. MaxThreads
  BY PoolAssumption

\* The initial state satisfies the invariant.
LEMMA InitIInv ==
  ASSUME Drivers = {Main}, Init
  PROVE  IInv
<1>1. TypeOK
  BY PoolAssumption, Bounds DEF Init, TypeOK
<1>2. DriverInv
  BY DEF Init, DriverInv, InCall, AllDone
<1>3. \A w \in WorkerIds : WorkerInv(w)
  BY DEF Init, WorkerInv, Working, InCall, Spawned, WorkerIds
<1> QED
  BY <1>1, <1>2, <1>3 DEF IInv

\* Start-up and shutdown keep the invariant.
LEMMA LifecycleIInv ==
  ASSUME Drivers = {Main}, IInv, Lifecycle
  PROVE  IInv'
<1> USE PoolAssumption
<1> DEFINE Sizes == 1 .. MaxThreads
<1>1. ASSUME NEW n \in Sizes, InitPool(n)
      PROVE  IInv'
  <2>1. dpc[Main] = "idle" /\ pending[Main] = {} /\ ~InCall(Main)
    BY <1>1 DEF InitPool, IInv, DriverInv, InCall
  <2>2. CASE n_threads > 1
    <3>1. TypeOK'
      BY <1>1, <2>2 DEF InitPool, BeginShutdown, NotifyAll, IInv, TypeOK
    <3>2. DriverInv'
      BY <1>1, <2>1, <2>2 DEF InitPool, BeginShutdown, IInv, TypeOK, DriverInv, InCall, AllDone
    <3>3. ASSUME NEW w \in WorkerIds PROVE WorkerInv(w)'
      BY <1>1, <2>1, <2>2 DEF InitPool, BeginShutdown, NotifyAll, IInv, TypeOK, WorkerInv, Working, Owes, InCall, Spawned
    <3> QED
      BY <3>1, <3>2, <3>3 DEF IInv
  <2>3. CASE ~(n_threads > 1)
    <3>1. TypeOK'
      <4>1. CASE n = 1
        BY <1>1, <2>3, <4>1, Bounds DEF InitPool, Spawn, IInv, TypeOK, workerVars, driverVars
      <4>2. CASE n # 1
        <5>1. /\ UNCHANGED <<task, dpc, pending, want>> /\ n_threads' = n
              /\ shutdown' = FALSE /\ task_epoch' = 0 /\ done_count' = 0
          BY <1>1, <2>3, <4>2 DEF InitPool, Spawn, driverVars
        <5>2. /\ wpc' \in [WorkerIds -> {"none", "check", "asleep", "run", "count", "notify", "exit"}]
              /\ last_epoch' \in [WorkerIds -> 0 .. MaxEpoch]
              /\ t' \in [WorkerIds -> Drivers \cup {NoTask}]
          BY <1>1, <2>3, <4>2, Bounds DEF InitPool, Spawn
        <5> QED
          BY <5>1, <5>2, Bounds DEF IInv, TypeOK
      <4> QED
        BY <4>1, <4>2
    <3>2. DriverInv'
      BY <1>1, <2>1, <2>3 DEF InitPool, Spawn, IInv, TypeOK, DriverInv, InCall, AllDone, driverVars
    <3>3. ASSUME NEW w \in WorkerIds PROVE WorkerInv(w)'
      <4>1. CASE n = 1
        BY <1>1, <2>1, <2>3, <4>1 DEF InitPool, Spawn, IInv, TypeOK, WorkerInv, Working, Owes, InCall, Spawned, driverVars, workerVars, WorkerIds
      <4>2. CASE n # 1
        BY <1>1, <2>1, <2>3, <4>2 DEF InitPool, Spawn, IInv, TypeOK, WorkerInv, Working, Owes, InCall, Spawned, driverVars, WorkerIds
      <4> QED
        BY <4>1, <4>2
    <3> QED
      BY <3>1, <3>2, <3>3 DEF IInv
  <2> QED
    BY <2>2, <2>3
<1>2. CASE Shutdown
  <2>1. dpc[Main] = "idle" /\ pending[Main] = {} /\ ~InCall(Main)
    BY <1>2 DEF Shutdown, IInv, DriverInv, InCall
  <2>2. TypeOK'
    <3>1. CASE n_threads > 1
      BY <1>2, <3>1, Bounds DEF Shutdown, BeginShutdown, NotifyAll, IInv, TypeOK
    <3>2. CASE ~(n_threads > 1)
      BY <1>2, <3>2, Bounds DEF Shutdown, IInv, TypeOK
    <3> QED
      BY <3>1, <3>2
  <2>3. DriverInv'
    BY <1>2, <2>1 DEF Shutdown, BeginShutdown, IInv, TypeOK, DriverInv, InCall, AllDone
  <2>4. ASSUME NEW w \in WorkerIds PROVE WorkerInv(w)'
    <3>1. CASE n_threads > 1
      BY <1>2, <2>1, <3>1 DEF Shutdown, BeginShutdown, NotifyAll, IInv, TypeOK, WorkerInv, Working, Owes, InCall, Spawned
    <3>2. CASE ~(n_threads > 1)
      BY <1>2, <2>1, <3>2 DEF Shutdown, IInv, TypeOK, WorkerInv, Working, Owes, InCall, Spawned, WorkerIds
    <3> QED
      BY <3>1, <3>2
  <2> QED
    BY <2>2, <2>3, <2>4 DEF IInv
<1>3. CASE Joined
  <2>1. pending[Main] = {} /\ ~InCall(Main) /\ dpc'[Main] = "idle" /\ pending' = pending
    BY <1>3 DEF Joined, IInv, TypeOK, DriverInv, InCall
  <2>2. TypeOK'
    <3>1. CASE want > 1
      <4>1. want # 1 /\ want \in 0 .. MaxThreads
        BY <3>1 DEF IInv, TypeOK
      <4>2. /\ n_threads' = want /\ shutdown' = FALSE /\ task_epoch' = 0 /\ done_count' = 0
            /\ wpc' = [w \in WorkerIds |-> IF w \in Spawned(want) THEN "check" ELSE "none"]
            /\ last_epoch' = [w \in WorkerIds |-> 0]
            /\ t' = [w \in WorkerIds |-> NoTask]
        BY <1>3, <3>1, <4>1 DEF Joined, Spawn
      <4>3. /\ task' = task /\ pending' = pending /\ want' = 0
            /\ dpc' = [dpc EXCEPT ![Main] = "idle"]
        BY <1>3 DEF Joined
      <4> QED
        BY <4>1, <4>2, <4>3, Bounds DEF IInv, TypeOK
    <3>2. CASE ~(want > 1)
      BY <1>3, <3>2, Bounds DEF Joined, IInv, TypeOK
    <3> QED
      BY <3>1, <3>2
  <2>3. DriverInv'
    <3>1. shutdown' /\ n_threads' > 1 => FALSE
      <4>1. CASE want > 1
        <5>1. want # 1
          BY <4>1 DEF IInv, TypeOK
        <5> QED
          BY <1>3, <4>1, <5>1 DEF Joined, Spawn
      <4>2. CASE ~(want > 1)
        BY <1>3, <4>2 DEF Joined
      <4> QED
        BY <4>1, <4>2
    <3> QED
      BY <2>1, <3>1 DEF DriverInv, InCall
  <2>4. ASSUME NEW w \in WorkerIds PROVE WorkerInv(w)'
    <3>1. CASE want > 1
      BY <1>3, <2>1, <3>1 DEF Joined, Spawn, IInv, TypeOK, WorkerInv, Working, Owes, InCall, Spawned
    <3>2. CASE ~(want > 1)
      BY <1>3, <2>1, <3>2 DEF Joined, IInv, TypeOK, WorkerInv, Working, Owes, InCall, Spawned, WorkerIds
    <3> QED
      BY <3>1, <3>2
  <2> QED
    BY <2>2, <2>3, <2>4 DEF IInv
<1> QED
  BY <1>1, <1>2, <1>3 DEF Lifecycle

\* The steps of a call keep the invariant.
LEMMA DriverIInv ==
  ASSUME Drivers = {Main}, IInv, DriverStep(Main) \/ DriverSpuriousWake(Main)
  PROVE  IInv'
<1> USE PoolAssumption
<1>1. CASE Publish(Main)
  <2>1. /\ ~InCall(Main) /\ InCall(Main)' /\ n_threads > 1 /\ dpc'[Main] = "own"
        /\ pending'[Main] = 0 .. n_threads - 1
        /\ \A w \in Spawned(n_threads) : last_epoch[w] = task_epoch
        /\ \A w \in WorkerIds : ~Working(w)
    BY <1>1 DEF Publish, RunsInline, IInv, TypeOK, DriverInv, WorkerInv, Owes, InCall, Spawned
  <2>2. TypeOK'
    BY <1>1, Bounds DEF Publish, RunsInline, NotifyAll, IInv, TypeOK, Slices
  <2>3. DriverInv'
    <3>1. Counted' = {}
      BY <1>1, <2>1 DEF Publish, Counted, Spawned, IInv, TypeOK
    <3>2. done_count' = Cardinality(Counted')
      BY <1>1, <3>1, FS_EmptySet DEF Publish
    <3>3. shutdown' = shutdown /\ n_threads' = n_threads /\ task' = Main /\ ~shutdown
      BY <1>1, <2>1 DEF Publish, IInv, DriverInv
    <3>4. \A s \in 0 .. n_threads - 1 : s < n_threads
      BY DEF IInv, TypeOK
    <3> QED
      BY <2>1, <3>2, <3>3, <3>4 DEF DriverInv, InCall
  <2>4. ASSUME NEW w \in WorkerIds PROVE WorkerInv(w)'
    BY <1>1, <2>1 DEF Publish, RunsInline, NotifyAll, IInv, TypeOK, DriverInv, WorkerInv, Working, Owes, Spawned, WorkerIds
  <2> QED
    BY <2>2, <2>3, <2>4 DEF IInv
<1>2. CASE RunOwnSlice(Main)
  <2>1. /\ InCall(Main) /\ InCall(Main)' /\ n_threads' = n_threads
        /\ last_epoch' = last_epoch /\ wpc' = wpc /\ task_epoch' = task_epoch
        /\ pending'[Main] = pending[Main] \ {0}
    BY <1>2 DEF RunOwnSlice, poolVars, workerVars, IInv, TypeOK, InCall
  <2>2. TypeOK'
    BY <1>2 DEF RunOwnSlice, poolVars, workerVars, IInv, TypeOK
  <2>3. Counted' = Counted
    BY <2>1 DEF Counted, Spawned
  <2>4. DriverInv'
    BY <1>2, <2>1, <2>3 DEF RunOwnSlice, poolVars, IInv, TypeOK, DriverInv, InCall, AllDone
  <2>5. ASSUME NEW w \in WorkerIds PROVE WorkerInv(w)'
    BY <1>2, <2>1 DEF RunOwnSlice, poolVars, workerVars, IInv, WorkerInv, Working, Owes, Spawned, WorkerIds
  <2> QED
    BY <2>2, <2>4, <2>5 DEF IInv
<1>3. CASE Return(Main)
  <2>1. /\ pending[Main] = {}
        /\ \A w \in Spawned(n_threads) : last_epoch[w] = task_epoch /\ ~Working(w)
    BY <1>3, CompleteCount DEF Return
  <2>2. TypeOK'
    BY <1>3 DEF Return, workerVars, IInv, TypeOK
  <2>3. ~InCall(Main)' /\ InCall(Main) /\ dpc'[Main] = "idle"
    BY <1>3 DEF Return, IInv, TypeOK, InCall
  <2>4. DriverInv'
    BY <1>3, <2>1, <2>3 DEF Return, workerVars, IInv, DriverInv, InCall
  <2>5. ASSUME NEW w \in WorkerIds PROVE WorkerInv(w)'
    BY <1>3, <2>1 DEF Return, workerVars, IInv, WorkerInv, Working, Owes, InCall, Spawned
  <2> QED
    BY <2>2, <2>4, <2>5 DEF IInv
<1>4. CASE DriverSleep(Main)
  <2>1. /\ InCall(Main) /\ InCall(Main)' /\ Counted' = Counted
        /\ dpc'[Main] = "asleep" /\ ~AllDone' /\ pending' = pending
    BY <1>4 DEF DriverSleep, poolVars, workerVars, IInv, TypeOK, InCall, AllDone, Counted, Spawned
  <2>2. TypeOK'
    BY <1>4 DEF DriverSleep, poolVars, workerVars, IInv, TypeOK
  <2>3. DriverInv'
    BY <1>4, <2>1 DEF DriverSleep, poolVars, IInv, DriverInv
  <2>4. ASSUME NEW w \in WorkerIds PROVE WorkerInv(w)'
    BY <1>4, <2>1 DEF DriverSleep, poolVars, workerVars, IInv, WorkerInv, Working, Owes, Spawned
  <2> QED
    BY <2>2, <2>3, <2>4 DEF IInv
<1>5. CASE DriverSpuriousWake(Main)
  <2>1. /\ InCall(Main) /\ InCall(Main)' /\ Counted' = Counted
        /\ dpc'[Main] = "wait" /\ pending' = pending
    BY <1>5 DEF DriverSpuriousWake, poolVars, workerVars, IInv, TypeOK, InCall, Counted, Spawned
  <2>2. TypeOK'
    BY <1>5 DEF DriverSpuriousWake, poolVars, workerVars, IInv, TypeOK
  <2>3. DriverInv'
    BY <1>5, <2>1 DEF DriverSpuriousWake, poolVars, IInv, DriverInv
  <2>4. ASSUME NEW w \in WorkerIds PROVE WorkerInv(w)'
    BY <1>5, <2>1 DEF DriverSpuriousWake, poolVars, workerVars, IInv, WorkerInv, Working, Owes, Spawned
  <2> QED
    BY <2>2, <2>3, <2>4 DEF IInv
<1> QED
  BY <1>1, <1>2, <1>3, <1>4, <1>5 DEF DriverStep

\* A worker's steps keep the invariant.
LEMMA WorkerIInv ==
  ASSUME Drivers = {Main}, IInv,
         NEW w \in WorkerIds, WorkerStep(w) \/ WorkerSpuriousWake(w)
  PROVE  IInv'
<1> USE PoolAssumption
<1>1. CASE WorkerExit(w)
  <2>1. TypeOK'
    BY <1>1 DEF WorkerExit, poolVars, driverVars, IInv, TypeOK
  <2>2. Counted' = Counted
    BY <1>1 DEF WorkerExit, poolVars, driverVars, IInv, TypeOK, Counted, Spawned
  <2>3. DriverInv'
    BY <1>1, <2>2 DEF WorkerExit, poolVars, driverVars, IInv, TypeOK, DriverInv, WorkerInv, InCall, AllDone
  <2>4. ASSUME NEW v \in WorkerIds PROVE WorkerInv(v)'
    BY <1>1 DEF WorkerExit, poolVars, driverVars, IInv, TypeOK, DriverInv, WorkerInv, Working, Owes, InCall, Spawned
  <2> QED
    BY <2>1, <2>3, <2>4 DEF IInv
<1>2. CASE WorkerTake(w)
  <2>1. TypeOK'
    BY <1>2 DEF WorkerTake, poolVars, driverVars, IInv, TypeOK
  <2>2. Counted' = Counted
    BY <1>2 DEF WorkerTake, poolVars, driverVars, IInv, TypeOK, Counted, Spawned
  <2>3. DriverInv'
    BY <1>2, <2>2 DEF WorkerTake, poolVars, driverVars, IInv, TypeOK, DriverInv, WorkerInv, InCall, AllDone
  <2>4. ASSUME NEW v \in WorkerIds PROVE WorkerInv(v)'
    BY <1>2 DEF WorkerTake, poolVars, driverVars, IInv, TypeOK, DriverInv, WorkerInv, Working, Owes, InCall, Spawned
  <2> QED
    BY <2>1, <2>3, <2>4 DEF IInv
<1>3. CASE WorkerSleep(w)
  <2>1. TypeOK'
    BY <1>3 DEF WorkerSleep, poolVars, driverVars, IInv, TypeOK
  <2>2. Counted' = Counted
    BY <1>3 DEF WorkerSleep, poolVars, driverVars, IInv, TypeOK, Counted, Spawned
  <2>3. DriverInv'
    BY <1>3, <2>2 DEF WorkerSleep, poolVars, driverVars, IInv, TypeOK, DriverInv, WorkerInv, InCall, AllDone
  <2>4. ASSUME NEW v \in WorkerIds PROVE WorkerInv(v)'
    BY <1>3 DEF WorkerSleep, poolVars, driverVars, IInv, TypeOK, DriverInv, WorkerInv, Working, Owes, InCall, Spawned
  <2> QED
    BY <2>1, <2>3, <2>4 DEF IInv
<1>4. CASE WorkerSpuriousWake(w)
  <2>1. TypeOK'
    BY <1>4 DEF WorkerSpuriousWake, poolVars, driverVars, IInv, TypeOK
  <2>2. Counted' = Counted
    BY <1>4 DEF WorkerSpuriousWake, poolVars, driverVars, IInv, TypeOK, Counted, Spawned
  <2>3. DriverInv'
    BY <1>4, <2>2 DEF WorkerSpuriousWake, poolVars, driverVars, IInv, TypeOK, DriverInv, WorkerInv, InCall, AllDone
  <2>4. ASSUME NEW v \in WorkerIds PROVE WorkerInv(v)'
    BY <1>4 DEF WorkerSpuriousWake, poolVars, driverVars, IInv, TypeOK, DriverInv, WorkerInv, Working, Owes, InCall, Spawned
  <2> QED
    BY <2>1, <2>3, <2>4 DEF IInv
<1>5. CASE WorkerRun(w)
  <2>1. TypeOK'
    BY <1>5 DEF WorkerRun, poolVars, driverVars, IInv, TypeOK
  <2>2. Counted' = Counted
    BY <1>5 DEF WorkerRun, poolVars, driverVars, IInv, TypeOK, Counted, Spawned
  <2>3. DriverInv'
    BY <1>5, <2>2 DEF WorkerRun, poolVars, driverVars, IInv, TypeOK, DriverInv, WorkerInv, InCall, AllDone, Spawned
  <2>4. ASSUME NEW v \in WorkerIds PROVE WorkerInv(v)'
    BY <1>5 DEF WorkerRun, poolVars, driverVars, IInv, TypeOK, DriverInv, WorkerInv, Working, Owes, InCall, Spawned
  <2> QED
    BY <2>1, <2>3, <2>4 DEF IInv
<1>6. CASE WorkerCount(w)
  <2>1. /\ InCall(Main) /\ n_threads > 1 /\ w \in Spawned(n_threads)
        /\ last_epoch[w] = task_epoch /\ w \notin Counted
    BY <1>6 DEF WorkerCount, IInv, DriverInv, WorkerInv, Working, Counted
  <2>2. Counted' = Counted \cup {w}
    BY <1>6, <2>1 DEF WorkerCount, LastToFinish, IInv, TypeOK, Counted, Spawned
  <2>3. /\ IsFiniteSet(Counted) /\ Cardinality(Counted) \in 0 .. n_threads - 1
        /\ Cardinality(Counted) = n_threads - 1 => Counted = Spawned(n_threads)
    BY <2>1, CountedCard DEF IInv
  <2>4. /\ Cardinality(Counted') = Cardinality(Counted) + 1
        /\ done_count = Cardinality(Counted) /\ done_count' = Cardinality(Counted')
    BY <1>6, <2>1, <2>2, <2>3, FS_AddElement DEF WorkerCount, IInv, DriverInv
  <2>5. done_count' \in 0 .. MaxThreads - 1
    <3>1. Cardinality(Counted) # n_threads - 1
      BY <2>1, <2>3
    <3> QED
      BY <2>3, <2>4, <3>1 DEF IInv, TypeOK
  <2>6. TypeOK'
    BY <1>6, <2>5 DEF WorkerCount, driverVars, IInv, TypeOK
  <2>7. AllDone' => wpc'[w] = "notify"
    BY <1>6 DEF WorkerCount, AllDone, LastToFinish, IInv, TypeOK
  <2>8. DriverInv'
    BY <1>6, <2>4, <2>7 DEF WorkerCount, driverVars, IInv, DriverInv, InCall
  <2>9. ASSUME NEW v \in WorkerIds PROVE WorkerInv(v)'
    BY <1>6 DEF WorkerCount, driverVars, IInv, TypeOK, WorkerInv, Working, Owes, InCall, Spawned
  <2> QED
    BY <2>6, <2>8, <2>9 DEF IInv
<1>7. CASE WorkerNotify(w)
  <2>1. /\ dpc[Main] = "asleep" => dpc' = [dpc EXCEPT ![Main] = "wait"]
        /\ dpc[Main] # "asleep" => dpc' = dpc
    BY <1>7 DEF WorkerNotify
  <2>2. /\ InCall(Main)' <=> InCall(Main)
        /\ dpc'[Main] # "asleep"
        /\ \A p \in {"own", "join"} : dpc'[Main] = p <=> dpc[Main] = p
    BY <2>1 DEF IInv, TypeOK, InCall
  <2>3. TypeOK'
    BY <1>7, <2>1 DEF WorkerNotify, poolVars, IInv, TypeOK
  <2>4. Counted' = Counted
    BY <1>7 DEF WorkerNotify, poolVars, IInv, TypeOK, Counted, Spawned
  <2>5. DriverInv'
    BY <1>7, <2>2, <2>4 DEF WorkerNotify, poolVars, IInv, DriverInv
  <2>6. ASSUME NEW v \in WorkerIds PROVE WorkerInv(v)'
    BY <1>7, <2>2 DEF WorkerNotify, poolVars, IInv, TypeOK, WorkerInv, Working, Owes, Spawned
  <2> QED
    BY <2>3, <2>5, <2>6 DEF IInv
<1> QED
  BY <1>1, <1>2, <1>3, <1>4, <1>5, <1>6, <1>7 DEF WorkerStep

-----------------------------------------------------------------------------
\* The invariant is inductive.
THEOREM Invariance ==
  ASSUME Drivers = {Main}
  PROVE  Spec => []IInv
<1>1. Init => IInv
  BY InitIInv
<1>2. IInv /\ [Next]_vars => IInv'
  <2> SUFFICES ASSUME IInv, [Next]_vars PROVE IInv'
    OBVIOUS
  <2>1. CASE Lifecycle
    BY <2>1, LifecycleIInv
  <2>2. ASSUME NEW d \in Drivers, DriverStep(d) \/ DriverSpuriousWake(d)
        PROVE  IInv'
    BY <2>2, DriverIInv
  <2>3. ASSUME NEW w \in WorkerIds, WorkerStep(w) \/ WorkerSpuriousWake(w)
        PROVE  IInv'
    BY <2>3, WorkerIInv
  <2>4. CASE UNCHANGED vars
    BY <2>4 DEF vars, poolVars, workerVars, driverVars, IInv, TypeOK, DriverInv,
                WorkerInv, Working, Owes, InCall, AllDone, Counted, Spawned
  <2> QED
    BY <2>1, <2>2, <2>3, <2>4 DEF Next
<1> QED
  BY <1>1, <1>2, PTL DEF Spec

\* Every variable keeps its type, the count of done workers its bound.
THEOREM TypeCorrect ==
  ASSUME Drivers = {Main}
  PROVE  Spec => []TypeOK
<1>1. IInv => TypeOK
  BY DEF IInv
<1> QED
  BY <1>1, Invariance, PTL

\* sp_parallel_for returns only when all slices are done.
THEOREM ReturnsComplete ==
  ASSUME Drivers = {Main}
  PROVE  Spec => []ReturnsWhenAllDone
<1>1. IInv => ReturnsWhenAllDone
  BY DEF IInv, DriverInv, ReturnsWhenAllDone
<1> QED
  BY <1>1, Invariance, PTL

\* No worker uses a task after the call that owns it, or runs a slice twice.
THEOREM NoDanglingTask ==
  ASSUME Drivers = {Main}
  PROVE  Spec => []TaskAliveAndOwed
<1>1. IInv => TaskAliveAndOwed
  BY PoolAssumption DEF IInv, WorkerInv, Working, TaskAliveAndOwed
<1> QED
  BY <1>1, Invariance, PTL

\* No wake-up is lost, neither the driver's nor a worker's.
THEOREM WakeupsKept ==
  ASSUME Drivers = {Main}
  PROVE  Spec => []NoLostWakeup
<1>1. IInv => NoLostWakeup
  BY DEF IInv, DriverInv, WorkerInv, NoLostWakeup
<1> QED
  BY <1>1, Invariance, PTL

\* Every step of the pool is a step of fork/join, or changes nothing there.
LEMMA StepRefines ==
  ASSUME Drivers = {Main}, IInv, IInv', [Next]_vars
  PROVE  [FJ!Next]_(FJ!vars)
<1> USE PoolAssumption
<1> DEFINE open == {d \in Drivers : InCall(d)}
<1>1. ASSUME pending' = pending, n_threads' = n_threads, InCall(Main)' <=> InCall(Main)
      PROVE  UNCHANGED FJ!vars
  <2>1. open' = open
    BY <1>1
  <2> QED
    BY <1>1, <2>1 DEF FJ!vars
<1>2. ASSUME pending' = pending, ~InCall(Main), ~InCall(Main)'
      PROVE  [FJ!Next]_(FJ!vars)
  <2>1. open = {} /\ open' = {}
    BY <1>2
  <2>2. n_threads' \in 0 .. MaxThreads
    BY DEF IInv, TypeOK
  <2> QED
    BY <1>2, <2>1, <2>2 DEF FJ!Next, FJ!Resize
<1>3. ASSUME NEW s \in Slices, s \in pending[Main], InCall(Main), InCall(Main)',
             pending' = [pending EXCEPT ![Main] = @ \ {s}], n_threads' = n_threads
      PROVE  FJ!Next
  <2>1. Main \in open /\ open' = open
    BY <1>3
  <2>2. FJ!Work(Main, s)
    BY <1>3, <2>1 DEF FJ!Work
  <2> QED
    BY <2>2 DEF FJ!Next, Slices
<1>4. CASE Lifecycle
  <2>1. pending' = pending /\ ~InCall(Main) /\ ~InCall(Main)'
    BY <1>4 DEF Lifecycle, InitPool, Shutdown, Joined, BeginShutdown, InCall, IInv, TypeOK, driverVars
  <2> QED
    BY <1>2, <2>1
<1>5. ASSUME Publish(Main) PROVE FJ!Next
  <2>1. Main \notin open /\ open' = open \cup {Main}
    BY <1>5 DEF Publish, InCall, IInv, TypeOK
  <2>2. FJ!Fork(Main)
    BY <1>5, <2>1 DEF Publish, RunsInline, FJ!Fork, IInv, TypeOK
  <2> QED
    BY <2>2 DEF FJ!Next
<1>6. ASSUME RunOwnSlice(Main) PROVE [FJ!Next]_(FJ!vars)
  <2>1. InCall(Main) /\ InCall(Main)' /\ n_threads' = n_threads
        /\ pending' = [pending EXCEPT ![Main] = @ \ {0}] /\ 0 \in Slices
    BY <1>6 DEF RunOwnSlice, poolVars, InCall, IInv, TypeOK, Slices
  <2>2. CASE 0 \in pending[Main]
    BY <1>3, <2>1, <2>2
  <2>3. CASE 0 \notin pending[Main]
    <3>1. pending' = pending
      BY <2>1, <2>3 DEF IInv, TypeOK
    <3> QED
      BY <1>1, <2>1, <3>1
  <2> QED
    BY <2>2, <2>3
<1>7. ASSUME Return(Main) PROVE FJ!Next
  <2>1. pending[Main] = {}
    BY <1>7, CompleteCount DEF Return
  <2>2. Main \in open /\ open' = open \ {Main}
    BY <1>7 DEF Return, InCall, IInv, TypeOK
  <2>3. FJ!Join(Main)
    BY <1>7, <2>1, <2>2 DEF Return, FJ!Join
  <2> QED
    BY <2>3 DEF FJ!Next
<1>8. ASSUME DriverSleep(Main) \/ DriverSpuriousWake(Main) PROVE UNCHANGED FJ!vars
  <2>1. pending' = pending /\ n_threads' = n_threads /\ (InCall(Main)' <=> InCall(Main))
    BY <1>8 DEF DriverSleep, DriverSpuriousWake, poolVars, InCall, IInv, TypeOK
  <2> QED
    BY <1>1, <2>1
<1>9. ASSUME NEW w \in WorkerIds, WorkerRun(w) PROVE FJ!Next
  <2>1. t[w] = Main /\ w \in pending[Main] /\ InCall(Main) /\ InCall(Main)' /\ w \in Slices
    BY <1>9 DEF WorkerRun, IInv, WorkerInv, Working, InCall, WorkerIds, Slices
  <2>2. pending' = [pending EXCEPT ![Main] = @ \ {w}] /\ n_threads' = n_threads
    BY <1>9, <2>1 DEF WorkerRun, poolVars, IInv, TypeOK
  <2> QED
    BY <1>3, <2>1, <2>2
<1>10. ASSUME NEW w \in WorkerIds,
              \/ WorkerExit(w) \/ WorkerTake(w) \/ WorkerSleep(w)
              \/ WorkerCount(w) \/ WorkerNotify(w) \/ WorkerSpuriousWake(w)
       PROVE  UNCHANGED FJ!vars
  <2>1. pending' = pending /\ n_threads' = n_threads
    BY <1>10 DEF WorkerExit, WorkerTake, WorkerSleep, WorkerCount, WorkerNotify, WorkerSpuriousWake,
                 poolVars, driverVars
  <2>2. dpc' = dpc \/ WorkerNotify(w)
    BY <1>10 DEF WorkerExit, WorkerTake, WorkerSleep, WorkerCount, WorkerSpuriousWake, driverVars
  <2>3. InCall(Main)' <=> InCall(Main)
    BY <2>2 DEF WorkerNotify, InCall, IInv, TypeOK
  <2> QED
    BY <1>1, <2>1, <2>3
<1>11. CASE UNCHANGED vars
  BY <1>1, <1>11 DEF vars, poolVars, driverVars, InCall
<1> QED
  BY <1>4, <1>5, <1>6, <1>7, <1>8, <1>9, <1>10, <1>11 DEF Next, DriverStep, WorkerStep

\* The pool with one driver implements fork/join: what sp_parallel_for
\* promises its callers holds for any number of threads and calls.
THEOREM PoolImplementsForkJoin ==
  ASSUME Drivers = {Main}
  PROVE  Spec => ForksAndJoins
<1>1. Init => FJ!Init
  BY DEF Init, FJ!Init, InCall
<1>2. IInv /\ IInv' /\ [Next]_vars => [FJ!Next]_(FJ!vars)
  BY StepRefines
<1> QED
  BY <1>1, <1>2, Invariance, PTL DEF Spec, ForksAndJoins, FJ!Spec

-----------------------------------------------------------------------------
(***************************************************************************)
(* The matmul kernels.  Every behaviour of ParallelMatmul is one of the    *)
(* pool, so what is proved above holds in it; to that the proofs add where *)
(* each thread stands in its slice.                                        *)
(***************************************************************************)

\* Rounding up, b slices hold at least a rows.
LEMMA SlicesHoldAll ==
  ASSUME NEW a \in Nat, NEW b \in Nat \ {0}
  PROVE  /\ (a + b - 1) \div b \in Nat
         /\ ((a + b - 1) \div b) * b >= a
  BY Z3

\* A later slice starts where an earlier one has ended, or after it.
LEMMA SlicesApart ==
  ASSUME NEW k \in Nat, NEW p \in Nat, NEW q \in Nat, p < q
  PROVE  p * k + k <= q * k
<1>1. PICK d \in Nat : q = p + 1 + d
  <2>1. q - p - 1 \in Nat /\ q = p + 1 + (q - p - 1)
    OBVIOUS
  <2> QED
    BY <2>1
<1>2. q * k = p * k + k + d * k
  BY <1>1
<1>3. d * k >= 0
  BY <1>1
<1> QED
  BY <1>2, <1>3

\* Every row is in the slice whose number is the row divided by the length.
LEMMA SliceOfRow ==
  ASSUME NEW r \in Nat, NEW k \in Nat \ {0}, NEW n \in Nat, r < k * n
  PROVE  \E p \in 0 .. n - 1 : p * k <= r /\ r < p * k + k
<1> DEFINE p == r \div k
<1>1. p \in Nat /\ p * k <= r /\ r < p * k + k
  BY Z3
<1>2. p < n
  <2> SUFFICES ASSUME p >= n PROVE FALSE
    BY <1>1
  <2> HIDE DEF p
  <2>1. p * k >= n * k
    BY <1>1
  <2> QED
    BY <1>1, <2>1
<1> QED
  BY <1>1, <1>2

\* The bounds of the slices are natural numbers, and the slices hold all rows.
LEMMA SliceTypes ==
  ASSUME RowsTypeOK
  PROVE  /\ m \in Nat /\ nt \in Nat \ {0} /\ rows_per \in Nat /\ rows_per * nt >= m
         /\ \A tid \in Slices : /\ tid \in Nat /\ i_start(tid) \in Nat /\ i_end(tid) \in Nat
                                /\ i_end(tid) <= m /\ i_end(tid) <= i_start(tid) + rows_per
<1>1. m \in Nat /\ nt \in Nat \ {0}
  BY RowsAssumption, PoolAssumption DEF RowsTypeOK
<1>2. rows_per \in Nat /\ rows_per * nt >= m
  BY <1>1, SlicesHoldAll DEF rows_per
<1>3. ASSUME NEW tid \in Slices
      PROVE  /\ tid \in Nat /\ i_start(tid) \in Nat /\ i_end(tid) \in Nat
             /\ i_end(tid) <= m /\ i_end(tid) <= i_start(tid) + rows_per
  <2>1. tid \in Nat
    BY PoolAssumption DEF Slices
  <2>2. tid * rows_per \in Nat
    BY <1>2, <2>1
  <2> QED
    BY <1>1, <1>2, <2>1, <2>2 DEF i_start, i_end
<1> QED
  BY <1>1, <1>2, <1>3

\* The slices of different threads do not overlap.
LEMMA Disjoint ==
  ASSUME RowsTypeOK, NEW p \in Slices, NEW q \in Slices, p # q, NEW r \in Int,
         i_start(p) <= r, r < i_end(p), i_start(q) <= r, r < i_end(q)
  PROVE  FALSE
<1>1. p \in Nat /\ q \in Nat /\ rows_per \in Nat
  BY SliceTypes
<1>2. r < p * rows_per + rows_per /\ r < q * rows_per + rows_per
  BY <1>1, SliceTypes DEF i_start
<1>3. p * rows_per <= r /\ q * rows_per <= r
  BY DEF i_start
<1>4. CASE p < q
  <2>1. p * rows_per + rows_per <= q * rows_per
    BY <1>1, <1>4, SlicesApart
  <2> QED
    BY <1>1, <1>2, <1>3, <2>1
<1>5. CASE q < p
  <2>1. q * rows_per + rows_per <= p * rows_per
    BY <1>1, <1>5, SlicesApart
  <2> QED
    BY <1>1, <1>2, <1>3, <2>1
<1> QED
  BY <1>1, <1>4, <1>5

\* Slices numbered n or later start behind the rows that n slices hold.
LEMMA BeyondAllRows ==
  ASSUME NEW k \in Nat, NEW n \in Nat, NEW a \in Nat, k * n >= a, NEW s \in Nat, s >= n
  PROVE  s * k >= a
<1>1. PICK d \in Nat : s = n + d
  <2>1. s - n \in Nat /\ s = n + (s - n)
    OBVIOUS
  <2> QED
    BY <2>1
<1>2. s * k = k * n + d * k
  BY <1>1
<1>3. d * k >= 0
  BY <1>1
<1> QED
  BY <1>2, <1>3

\* The rows a thread has written are those from its start to its next one.
Progress ==
  \A tid \in Slices :
    /\ SliceDone(tid) \/ i_start(tid) <= i[tid]
    /\ i[tid] <= i_end(tid) \/ i[tid] = i_start(tid)
    /\ \A r \in Rows : tid \in writers[r] <=> (i_start(tid) <= r /\ r < i[tid])

\* The pool has the slices of the latest matmul, and no others; a slice it
\* does not owe any more is done.
Delivered ==
  /\ InCall(Main) => nt = n_threads
  /\ \A tid \in Slices : tid \in pending[Main] \/ SliceDone(tid)

RowInv == RowsTypeOK /\ Progress /\ Delivered

LEMMA InitRows == MatmulInit => RowInv
<1> SUFFICES ASSUME MatmulInit PROVE RowInv
  OBVIOUS
<1>1. /\ m = 0 /\ nt = 1 /\ i = [tid \in Slices |-> 0] /\ Rows = {}
      /\ writers = [r \in Rows |-> {}] /\ ~InCall(Main)
  BY PoolAssumption DEF MatmulInit, Init, Rows, InCall
<1>2. RowsTypeOK
  BY <1>1, PoolAssumption, RowsAssumption DEF RowsTypeOK
<1>3. \A tid \in Slices : i_end(tid) \in Nat /\ i_end(tid) <= 0 /\ i[tid] = 0
  BY <1>1, <1>2, SliceTypes
<1>4. \A tid \in Slices : SliceDone(tid) /\ i[tid] <= i_end(tid)
  BY <1>3 DEF SliceDone
<1> QED
  BY <1>1, <1>2, <1>4 DEF RowInv, Progress, Delivered

\* A kernel that hands its slices to the pool.
LEMMA StartRows ==
  ASSUME Drivers = {Main}, IInv, IInv', NEW k \in 1 .. MaxRows, StartMatmul(k)
  PROVE  RowInv'
<1>1. /\ n_threads \in 2 .. MaxThreads /\ n_threads' = n_threads
      /\ m' = k /\ nt' = n_threads /\ i' = [tid \in Slices |-> i_start(tid)']
      /\ writers' = [r \in 0 .. k - 1 |-> {}]
      /\ pending'[Main] = 0 .. n_threads - 1
  BY PoolAssumption DEF StartMatmul, Inline, Publish, IInv, TypeOK
<1>2. k \in Nat /\ n_threads \in Nat \ {0} /\ k \in 0 .. MaxRows /\ n_threads \in 1 .. MaxThreads
  BY <1>1, PoolAssumption, RowsAssumption
<1>3. rows_per' \in Nat /\ rows_per' * nt' >= m'
  BY <1>1, <1>2, SlicesHoldAll DEF rows_per
<1>4. \A tid \in Slices : tid \in Nat /\ i_start(tid)' \in Nat
  <2>1. \A tid \in Slices : tid \in Nat
    BY PoolAssumption DEF Slices
  <2>2. \A k1 \in Nat, tid \in Slices : tid * k1 \in Nat
    BY <2>1
  <2>3. \A tid \in Slices : tid * rows_per' \in Nat
    BY <1>3, <2>2, Zenon
  <2> QED
    BY <2>1, <2>3 DEF i_start
<1>5. RowsTypeOK'
  BY <1>1, <1>2, <1>4 DEF RowsTypeOK, Rows
<1>6. Progress'
  <2> SUFFICES ASSUME NEW tid \in Slices
               PROVE  /\ i_start(tid)' <= i'[tid] /\ i'[tid] = i_start(tid)'
                      /\ \A r \in Rows' : tid \in writers'[r] <=>
                                           (i_start(tid)' <= r /\ r < i'[tid])
    BY DEF Progress
  <2>1. i'[tid] = i_start(tid)' /\ i_start(tid)' \in Nat
    BY <1>1, <1>4
  <2>2. ASSUME NEW r \in Rows' PROVE writers'[r] = {} /\ r \in Nat
    BY <1>1, <1>2 DEF Rows
  <2> QED
    BY <2>1, <2>2
<1>7. Delivered'
  <2>1. ASSUME NEW tid \in Slices, tid \notin pending'[Main] PROVE SliceDone(tid)'
    <3>1. tid >= nt'
      BY <1>1, <1>2, <1>4, <2>1
    <3>2. tid * rows_per' >= m'
      BY <1>1, <1>2, <1>3, <1>4, <3>1, BeyondAllRows
    <3>3. i_start(tid)' >= m' /\ i'[tid] = i_start(tid)'
      BY <1>1, <3>2 DEF i_start
    <3>4. i_end(tid)' <= m'
      BY <1>1, <1>2, <1>3, <1>4 DEF i_end
    <3>5. i_end(tid)' \in Int
      BY <1>1, <1>2, <1>3, <1>4 DEF i_end
    <3> QED
      BY <1>1, <1>2, <1>4, <3>3, <3>4, <3>5 DEF SliceDone
  <2> QED
    BY <1>1, <2>1 DEF Delivered
<1> QED
  BY <1>5, <1>6, <1>7 DEF RowInv

\* A kernel that does all rows itself.
LEMMA InlineRows ==
  ASSUME Drivers = {Main}, IInv, NEW k \in 1 .. MaxRows, InlineMatmul(k)
  PROVE  RowInv'
<1>1. /\ m' = k /\ nt' = 1 /\ i' = [tid \in Slices |-> i_end(tid)']
      /\ writers' = [r \in 0 .. k - 1 |-> {0}] /\ ~InCall(Main)'
  BY DEF InlineMatmul, vars, driverVars, InCall
<1>2. /\ k \in Nat \ {0} /\ k \in 0 .. MaxRows /\ 1 \in 1 .. MaxThreads /\ 0 \in Slices
      /\ \A tid \in Slices : tid \in Nat
  BY PoolAssumption, RowsAssumption DEF Slices
<1>3. rows_per' = k
  BY <1>1, <1>2 DEF rows_per
<1>4. \A tid \in Slices : i_start(tid)' = tid * k /\ tid * k \in Nat
  BY <1>2, <1>3 DEF i_start
<1>5. \A tid \in Slices : i_end(tid)' = k
  <2> SUFFICES ASSUME NEW tid \in Slices PROVE i_end(tid)' = k
    OBVIOUS
  <2>1. i_start(tid)' + rows_per' >= k /\ i_start(tid)' + rows_per' \in Nat
    <3>1. i_start(tid)' \in Nat
      BY <1>4
    <3> QED
      BY <1>2, <1>3, <3>1
  <2> QED
    BY <1>1, <1>2, <2>1 DEF i_end
<1>6. RowsTypeOK'
  BY <1>1, <1>2, <1>5 DEF RowsTypeOK, Rows
<1>7. \A tid \in Slices : i'[tid] = k /\ SliceDone(tid)'
  BY <1>1, <1>2, <1>5 DEF SliceDone
<1>8. ASSUME NEW tid \in Slices, NEW r \in Rows'
      PROVE  tid \in writers'[r] <=> (i_start(tid)' <= r /\ r < i'[tid])
  <2>1. r \in 0 .. k - 1 /\ writers'[r] = {0} /\ i'[tid] = k
    BY <1>1, <1>7 DEF Rows
  <2>2. CASE tid = 0
    BY <1>2, <1>4, <2>1, <2>2
  <2>3. CASE tid # 0
    <3>1. tid * k >= k
      BY <1>2, <2>3
    <3> QED
      BY <1>2, <1>4, <2>1, <2>3, <3>1
  <2> QED
    BY <2>2, <2>3
<1>9. Progress'
  BY <1>2, <1>5, <1>7, <1>8 DEF Progress
<1> QED
  BY <1>1, <1>6, <1>7, <1>9 DEF RowInv, Delivered

\* A kernel that computes nothing.
LEMMA RefuseRows == ASSUME RefuseMatmul PROVE RowInv'
<1>1. /\ m' = 0 /\ nt' = 1 /\ i' = [tid \in Slices |-> 0] /\ Rows' = {}
      /\ writers' = [r \in Rows' |-> {}] /\ ~InCall(Main)'
  BY DEF RefuseMatmul, Rows, InCall, vars, driverVars
<1>2. RowsTypeOK'
  BY <1>1, PoolAssumption, RowsAssumption DEF RowsTypeOK
<1>3. rows_per' \in Nat
  BY <1>1, SlicesHoldAll DEF rows_per
<1>4. \A tid \in Slices : i_end(tid)' \in Int /\ i_end(tid)' <= 0 /\ i'[tid] = 0
  <2> SUFFICES ASSUME NEW tid \in Slices PROVE i_end(tid)' \in Int /\ i_end(tid)' <= 0
    BY <1>1
  <2>1. tid \in Nat
    BY PoolAssumption DEF Slices
  <2>2. i_start(tid)' \in Nat
    <3>1. \A k \in Nat : tid * k \in Nat
      BY <2>1
    <3> QED  BY <1>3, <3>1, Zenon DEF i_start
  <2> QED  BY <1>1, <1>3, <2>2 DEF i_end
<1>5. \A tid \in Slices : SliceDone(tid)' /\ (i'[tid] <= i_end(tid)' \/ i'[tid] = i_start(tid)')
  <2> SUFFICES ASSUME NEW tid \in Slices PROVE i'[tid] <= i_end(tid)' \/ i'[tid] = i_start(tid)'
    BY <1>4 DEF SliceDone
  <2> QED  BY <1>1, <1>3, <1>4 DEF i_start, i_end
<1> QED
  BY <1>1, <1>2, <1>5 DEF RowInv, Progress, Delivered

\* One row written by one thread.
LEMMA WriteRowRows ==
  ASSUME RowInv, NEW tid \in Slices, WriteRow(tid)
  PROVE  RowInv'
<1>1. /\ m' = m /\ nt' = nt /\ pending' = pending /\ n_threads' = n_threads /\ dpc' = dpc
      /\ i' = [i EXCEPT ![tid] = i[tid] + 1]
      /\ writers' = [r \in Rows |-> IF r = i[tid] THEN writers[r] \cup {tid} ELSE writers[r]]
      /\ i[tid] < i_end(tid)
  BY DEF WriteRow, SliceDone, vars, poolVars, driverVars
<1>2. /\ Rows' = Rows /\ rows_per' = rows_per
      /\ \A p \in Slices : i_start(p)' = i_start(p) /\ i_end(p)' = i_end(p)
  BY <1>1 DEF Rows, rows_per, i_start, i_end
<1>3. /\ i \in [Slices -> Nat] /\ writers \in [Rows -> SUBSET Slices] /\ m \in Nat
      /\ \A p \in Slices : i_start(p) \in Nat /\ i_end(p) \in Nat /\ i_end(p) <= m
      /\ \A r \in Rows : r \in Nat
  BY SliceTypes DEF RowInv, RowsTypeOK, Rows
<1>4. i_start(tid) <= i[tid]
  BY <1>1 DEF RowInv, Progress, SliceDone
<1>5. RowsTypeOK'
  BY <1>1, <1>2, <1>3 DEF RowInv, RowsTypeOK
<1>6. ASSUME NEW p \in Slices
      PROVE  /\ SliceDone(p)' \/ i_start(p) <= i'[p]
             /\ i'[p] <= i_end(p) \/ i'[p] = i_start(p)
             /\ \A r \in Rows : p \in writers'[r] <=> (i_start(p) <= r /\ r < i'[p])
  <2>1. CASE p = tid
    <3>1. i'[p] = i[tid] + 1
      BY <1>1, <1>3, <2>1
    <3>2. ASSUME NEW r \in Rows
          PROVE  p \in writers'[r] <=> (i_start(p) <= r /\ r < i'[p])
      <4>1. p \in writers'[r] <=> (p \in writers[r] \/ r = i[tid])
        BY <1>1, <1>3, <2>1
      <4>2. p \in writers[r] <=> (i_start(p) <= r /\ r < i[tid])
        BY <2>1 DEF RowInv, Progress
      <4> QED
        BY <1>3, <1>4, <2>1, <3>1, <4>1, <4>2
    <3> QED
      BY <1>1, <1>3, <1>4, <2>1, <3>1, <3>2
  <2>2. CASE p # tid
    <3>1. i'[p] = i[p] /\ (SliceDone(p)' <=> SliceDone(p))
      BY <1>1, <1>2, <1>3, <2>2 DEF SliceDone
    <3>2. \A r \in Rows : p \in writers'[r] <=> p \in writers[r]
      BY <1>1, <1>3, <2>2
    <3> QED
      BY <3>1, <3>2 DEF RowInv, Progress
  <2> QED
    BY <2>1, <2>2
<1>7. Progress'
  BY <1>2, <1>6 DEF Progress
<1>8. Delivered'
  <2>1. \A p \in Slices : SliceDone(p) => SliceDone(p)'
    BY <1>1, <1>2, <1>3 DEF SliceDone
  <2> QED
    BY <1>1, <2>1 DEF RowInv, Delivered, InCall
<1> QED
  BY <1>5, <1>7, <1>8 DEF RowInv

\* A step of the pool by itself: it starts no call, and gives up no slice that
\* is not done.
LEMMA PoolStepRows ==
  ASSUME Drivers = {Main}, IInv, RowInv, UNCHANGED rowVars,
         \/ Lifecycle \/ SpuriousWake \/ DriverTurn
         \/ \E w \in WorkerIds : WorkerTurn(w)
  PROVE  RowInv'
<1>1. ASSUME InCall(Main)' => InCall(Main) /\ n_threads' = n_threads,
             \A tid \in Slices : tid \in pending[Main] => tid \in pending'[Main] \/ SliceDone(tid)
      PROVE  RowInv'
  <2>1. /\ m' = m /\ nt' = nt /\ i' = i /\ writers' = writers
        /\ Rows' = Rows /\ rows_per' = rows_per
        /\ \A p \in Slices : i_start(p)' = i_start(p) /\ i_end(p)' = i_end(p)
        /\ \A p \in Slices : SliceDone(p)' <=> SliceDone(p)
    BY DEF rowVars, Rows, rows_per, i_start, i_end, SliceDone
  <2>2. RowsTypeOK' /\ Progress'
    BY <2>1 DEF RowInv, RowsTypeOK, Progress
  <2>3. Delivered'
    BY <1>1, <2>1 DEF RowInv, Delivered
  <2> QED
    BY <2>2, <2>3 DEF RowInv
<1>2. CASE Lifecycle
  <2>1. pending' = pending /\ ~InCall(Main)'
    BY <1>2 DEF Lifecycle, InitPool, Shutdown, Joined, BeginShutdown, InCall, IInv, TypeOK, driverVars
  <2> QED
    BY <1>1, <2>1
<1>3. CASE RunOwnSlice(Main) /\ SliceDone(0)
  <2>1. /\ InCall(Main) /\ n_threads' = n_threads
        /\ pending'[Main] = pending[Main] \ {0}
    BY <1>3 DEF RunOwnSlice, poolVars, InCall, IInv, TypeOK
  <2> QED
    BY <1>1, <1>3, <2>1
<1>4. CASE Return(Main)
  <2>1. pending' = pending /\ ~InCall(Main)'
    BY <1>4 DEF Return, InCall, IInv, TypeOK
  <2> QED
    BY <1>1, <2>1
<1>5. CASE DriverSleep(Main) \/ DriverSpuriousWake(Main)
  <2>1. pending' = pending /\ n_threads' = n_threads /\ InCall(Main)
    BY <1>5 DEF DriverSleep, DriverSpuriousWake, poolVars, InCall
  <2> QED
    BY <1>1, <2>1
<1>6. ASSUME NEW w \in WorkerIds, WorkerRun(w), t[w] # NoTask => SliceDone(w)
      PROVE  RowInv'
  <2>1. t[w] = Main /\ SliceDone(w) /\ InCall(Main)
    BY <1>6, PoolAssumption DEF WorkerRun, IInv, WorkerInv, Working
  <2>2. pending'[Main] = pending[Main] \ {w} /\ n_threads' = n_threads
    BY <1>6, <2>1, PoolAssumption DEF WorkerRun, poolVars
  <2> QED
    BY <1>1, <2>1, <2>2
<1>7. ASSUME NEW w \in WorkerIds,
             \/ WorkerExit(w) \/ WorkerTake(w) \/ WorkerSleep(w)
             \/ WorkerCount(w) \/ WorkerNotify(w) \/ WorkerSpuriousWake(w)
      PROVE  RowInv'
  <2>1. pending' = pending /\ n_threads' = n_threads
    BY <1>7 DEF WorkerExit, WorkerTake, WorkerSleep, WorkerCount, WorkerNotify, WorkerSpuriousWake,
                poolVars, driverVars
  <2>2. dpc' = dpc \/ WorkerNotify(w)
    BY <1>7 DEF WorkerExit, WorkerTake, WorkerSleep, WorkerCount, WorkerSpuriousWake, driverVars
  <2>3. InCall(Main)' => InCall(Main)
    BY <2>2 DEF WorkerNotify, InCall, IInv, TypeOK
  <2> QED
    BY <1>1, <2>1, <2>3
<1> QED
  BY <1>2, <1>3, <1>4, <1>5, <1>6, <1>7 DEF DriverTurn, WorkerTurn, SpuriousWake

\* The driver has slice 0 and each worker the slice of its number.
LEMMA EverySlice == 0 \in Slices /\ WorkerIds \subseteq Slices
  BY PoolAssumption DEF Slices, WorkerIds

\* A step of a kernel is a step of the pool, or none.
LEMMA StepOfPool ==
  ASSUME Drivers = {Main}, [MatmulNext]_matmulVars
  PROVE  [Next]_vars
<1>1. ASSUME NEW k \in 1 .. MaxRows, StartMatmul(k) PROVE Next
  BY <1>1, PoolAssumption DEF StartMatmul, Next, DriverStep
<1>2. ASSUME NEW k \in 1 .. MaxRows, InlineMatmul(k) PROVE UNCHANGED vars
  BY <1>2 DEF InlineMatmul
<1>3. CASE RefuseMatmul \/ \E tid \in Slices : WriteRow(tid)
  BY <1>3 DEF RefuseMatmul, WriteRow, vars
<1>4. CASE Lifecycle
  BY <1>4 DEF Next
<1>5. CASE DriverTurn
  BY <1>5, PoolAssumption DEF DriverTurn, Next, DriverStep
<1>6. ASSUME NEW w \in WorkerIds, WorkerTurn(w) PROVE Next
  BY <1>6 DEF WorkerTurn, Next, WorkerStep
<1>7. CASE SpuriousWake
  BY <1>7, PoolAssumption DEF SpuriousWake, Next
<1> QED
  BY <1>1, <1>2, <1>3, <1>4, <1>5, <1>6, <1>7, EverySlice
     DEF MatmulNext, DriverGoesOn, WorkerGoesOn, matmulVars

\* The kernels use the pool as its drivers may: every behaviour of theirs is a
\* behaviour of the pool, and so of fork/join.
THEOREM MatmulUsesPool ==
  ASSUME Drivers = {Main}
  PROVE  MatmulSpec => Spec /\ ForksAndJoins
<1>1. MatmulInit => Init
  BY DEF MatmulInit
<1>2. [MatmulNext]_matmulVars => [Next]_vars
  BY StepOfPool
<1>3. MatmulSpec => Spec
  BY <1>1, <1>2, PTL DEF MatmulSpec, Spec
<1> QED
  BY <1>3, PoolImplementsForkJoin, PTL

\* The invariant of the kernels, on top of the pool's.
THEOREM RowsInvariance ==
  ASSUME Drivers = {Main}
  PROVE  MatmulSpec => [](IInv /\ RowInv)
<1>1. MatmulInit => RowInv
  BY InitRows
<1>2. IInv /\ IInv' /\ RowInv /\ [MatmulNext]_matmulVars => RowInv'
  <2> SUFFICES ASSUME IInv, IInv', RowInv, [MatmulNext]_matmulVars PROVE RowInv'
    OBVIOUS
  <2>1. CASE \E k \in 1 .. MaxRows : StartMatmul(k) \/ InlineMatmul(k)
    BY <2>1, StartRows, InlineRows
  <2>2. CASE RefuseMatmul \/ \E tid \in Slices : WriteRow(tid)
    BY <2>2, RefuseRows, WriteRowRows
  <2>3. CASE /\ \/ Lifecycle \/ SpuriousWake \/ DriverTurn
                \/ \E w \in WorkerIds : WorkerTurn(w)
             /\ UNCHANGED rowVars
    BY <2>3, PoolStepRows
  <2>4. CASE UNCHANGED matmulVars
    BY <2>4 DEF matmulVars, vars, poolVars, driverVars, rowVars, RowInv, RowsTypeOK, Progress, Delivered,
                InCall, Rows, rows_per, i_start, i_end, SliceDone
  <2> QED
    BY <2>1, <2>2, <2>3, <2>4, EverySlice DEF MatmulNext, DriverGoesOn, WorkerGoesOn
<1>3. MatmulSpec => []IInv
  BY MatmulUsesPool, Invariance, PTL
<1> QED
  BY <1>1, <1>2, <1>3, PTL DEF MatmulSpec

\* No two threads ever write the same row of the output of a matmul kernel.
THEOREM SingleWriter ==
  ASSUME Drivers = {Main}
  PROVE  MatmulSpec => []OneWriterPerRow
<1>1. RowInv => OneWriterPerRow
  <2> SUFFICES ASSUME RowInv, NEW r \in Rows, NEW p \in writers[r], NEW q \in writers[r], p # q
               PROVE  FALSE
    BY DEF OneWriterPerRow
  <2>1. r \in Int /\ p \in Slices /\ q \in Slices
    BY DEF RowInv, RowsTypeOK, Rows
  <2>2. i_start(p) <= r /\ r < i[p] /\ i_start(q) <= r /\ r < i[q]
    BY <2>1 DEF RowInv, Progress
  <2>3. r < i_end(p) /\ r < i_end(q)
    BY <2>1, <2>2, SliceTypes DEF RowInv, RowsTypeOK, Progress
  <2> QED
    BY <2>1, <2>2, <2>3, Disjoint DEF RowInv
<1> QED
  BY <1>1, RowsInvariance, PTL

\* A matmul kernel that returns has written every row, each by one thread.
THEOREM WholeOnReturn ==
  ASSUME Drivers = {Main}
  PROVE  MatmulSpec => []ReturnedWhole
<1>1. IInv /\ RowInv /\ OneWriterPerRow => ReturnedWhole
  <2> SUFFICES ASSUME IInv, RowInv, OneWriterPerRow, ~InCall(Main), NEW r \in Rows
               PROVE  \E tid \in Slices : writers[r] = {tid}
    BY DEF ReturnedWhole
  <2>1. \A tid \in Slices : SliceDone(tid)
    BY DEF IInv, DriverInv, RowInv, Delivered
  <2>2. /\ r \in Nat /\ r < m /\ m \in Nat /\ nt \in Nat \ {0} /\ rows_per \in Nat
        /\ r < rows_per * nt
    <3>1. r \in Nat /\ r < m
      BY SliceTypes DEF RowInv, Rows
    <3>2. /\ m \in Nat /\ nt \in Nat \ {0} /\ rows_per \in Nat
          /\ rows_per * nt >= m /\ rows_per * nt \in Nat
      BY SliceTypes DEF RowInv
    <3> QED
      BY <3>1, <3>2
  <2>3. rows_per # 0
    BY <2>2
  <2>4. PICK p \in 0 .. nt - 1 : p * rows_per <= r /\ r < p * rows_per + rows_per
    BY <2>2, <2>3, SliceOfRow
  <2>5. p \in Slices
    BY <2>4, PoolAssumption DEF RowInv, RowsTypeOK, Slices
  <2>6. i_start(p) <= r /\ r < i_end(p)
    BY <2>2, <2>4 DEF i_start, i_end
  <2>7. r < i[p]
    BY <2>1, <2>2, <2>5, <2>6, SliceTypes DEF RowInv, RowsTypeOK, SliceDone
  <2>8. p \in writers[r] /\ writers[r] \subseteq Slices
    BY <2>5, <2>6, <2>7 DEF RowInv, RowsTypeOK, Progress
  <2>9. writers[r] = {p}
    BY <2>8 DEF OneWriterPerRow
  <2> QED
    BY <2>5, <2>9
<1> QED
  BY <1>1, RowsInvariance, SingleWriter, PTL

\* A matmul kernel writes into its own output only, and only while its caller
\* waits for it.
THEOREM WritesStayInside ==
  ASSUME Drivers = {Main}
  PROVE  MatmulSpec => []WritesInsideCall
<1>1. IInv /\ RowInv => WritesInsideCall
  <2> SUFFICES ASSUME IInv, RowInv, NEW tid \in Slices, InTask(tid), ~SliceDone(tid)
               PROVE  InCall(Main) /\ i[tid] \in Rows
    BY DEF WritesInsideCall
  <2>1. InCall(Main)
    BY PoolAssumption DEF InTask, InCall, IInv, WorkerInv, Working
  <2>2. i[tid] \in Nat /\ i[tid] < i_end(tid) /\ i_end(tid) <= m /\ m \in Nat /\ i_end(tid) \in Nat
    BY SliceTypes DEF RowInv, RowsTypeOK, SliceDone
  <2> QED
    BY <2>1, <2>2 DEF Rows
<1> QED
  BY <1>1, RowsInvariance, PTL
=============================================================================
