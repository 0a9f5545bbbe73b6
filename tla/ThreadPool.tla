------------------------------ MODULE ThreadPool ------------------------------
(***************************************************************************)
(* The persistent fork/join pool behind the CPU matmul kernels             *)
(* (desktop/engine/src/sp_threadpool.cpp).                                 *)
(*                                                                         *)
(* A driver thread publishes the address of a task that lives on its own   *)
(* stack, bumps the epoch and wakes the workers; every worker runs its     *)
(* slice and adds one to done_count; the worker that completes the count   *)
(* wakes the driver, which returns and so destroys the task.               *)
(*                                                                         *)
(* The mutex needs no variable: what a critical section reads and writes   *)
(* is read and written under the mutex only, but for done_count, which it  *)
(* touches once, so a critical section is one action.  A thread that waits *)
(* on a condition variable is "asleep" until it is notified (or wakes      *)
(* spuriously) and then evaluates its predicate again.                     *)
(***************************************************************************)
EXTENDS Naturals, FiniteSets

CONSTANTS
  Drivers,     \* the threads that call into the pool
  Main,        \* the driver that initialises the pool and shuts it down
  NoTask,      \* the null task pointer
  MaxThreads,  \* the largest n_threads that is ever asked for
  MaxEpoch     \* bound: parallel calls since the last initialisation

ASSUME PoolAssumption ==
  /\ Main \in Drivers
  /\ NoTask \notin Drivers
  /\ MaxThreads \in Nat \ {0, 1}
  /\ MaxEpoch \in Nat

VARIABLES
  n_threads,   \* Pool::n_threads, 0 when the pool is not initialised
  shutdown,    \* Pool::shutdown
  task,        \* Pool::task: the driver whose stack holds the task, or NoTask
  task_epoch,  \* Pool::task_epoch
  done_count,  \* Pool::done_count
  wpc,         \* where each worker is in worker_main
  last_epoch,  \* worker_main's last_epoch
  t,           \* worker_main's copy of the task pointer
  dpc,         \* where each driver is
  pending,     \* the slices of a driver's task that have not been run
  want         \* the n_threads of the sp_threadpool_init that is joining

poolVars == <<n_threads, shutdown, task, task_epoch, done_count>>
workerVars == <<wpc, last_epoch, t>>
driverVars == <<dpc, pending, want>>
vars == <<poolVars, workerVars, driverVars>>

WorkerIds == 1 .. MaxThreads - 1
Slices == 0 .. MaxThreads - 1

\* The worker threads that sp_threadpool_init(n) creates.
Spawned(n) == {w \in WorkerIds : w < n}

InCall(d) == dpc[d] \in {"own", "wait", "asleep"}

-----------------------------------------------------------------------------
Init ==
  /\ n_threads = 0
  /\ shutdown = FALSE
  /\ task = NoTask
  /\ task_epoch = 0
  /\ done_count = 0
  /\ wpc = [w \in WorkerIds |-> "none"]
  /\ last_epoch = [w \in WorkerIds |-> 0]
  /\ t = [w \in WorkerIds |-> NoTask]
  /\ dpc = [d \in Drivers |-> "idle"]
  /\ pending = [d \in Drivers |-> {}]
  /\ want = 0

-----------------------------------------------------------------------------
(* Start-up and shutdown, called from the Main driver.                     *)

\* The end of sp_threadpool_init: the counters restart and the workers start.
Spawn(n) ==
  /\ n_threads' = n
  /\ IF n = 1
     THEN UNCHANGED <<shutdown, task_epoch, done_count, workerVars>>
     ELSE /\ shutdown' = FALSE
          /\ task_epoch' = 0
          /\ done_count' = 0
          /\ wpc' = [w \in WorkerIds |-> IF w \in Spawned(n) THEN "check" ELSE "none"]
          /\ last_epoch' = [w \in WorkerIds |-> 0]
          /\ t' = [w \in WorkerIds |-> NoTask]

\* cv.notify_all: every sleeping worker evaluates its predicate again.
NotifyAll == [w \in WorkerIds |-> IF wpc[w] = "asleep" THEN "check" ELSE wpc[w]]

\* Mutant: the shutdown flag is raised and nobody is told.
SilentShutdown(n) ==
  /\ shutdown' = TRUE
  /\ UNCHANGED wpc
  /\ dpc' = [dpc EXCEPT ![Main] = "join"]
  /\ want' = n

\* sp_threadpool_shutdown up to the joins: every sleeping worker is woken.
BeginShutdown(n) ==
  /\ shutdown' = TRUE
  /\ wpc' = NotifyAll
  /\ dpc' = [dpc EXCEPT ![Main] = "join"]
  /\ want' = n

\* sp_threadpool_init(n): nothing when the pool has that size already; with
\* workers of another size it shuts them down first.
InitPool(n) ==
  /\ dpc[Main] = "idle"
  /\ n_threads # n
  /\ IF n_threads > 1
     THEN /\ BeginShutdown(n)
          /\ UNCHANGED <<n_threads, task, task_epoch, done_count, last_epoch, t, pending>>
     ELSE /\ Spawn(n)
          /\ UNCHANGED <<task, driverVars>>

\* sp_threadpool_shutdown by itself, also run at exit.
Shutdown ==
  /\ dpc[Main] = "idle"
  /\ IF n_threads > 1
     THEN /\ BeginShutdown(0)
          /\ UNCHANGED n_threads
     ELSE /\ n_threads # 0
          /\ n_threads' = 0
          /\ UNCHANGED <<shutdown, wpc, dpc, want>>
  /\ UNCHANGED <<task, task_epoch, done_count, last_epoch, t, pending>>

\* The joins return: the vector of workers is cleared, and the initialisation
\* that asked for the shutdown goes on.
Joined ==
  /\ dpc[Main] = "join"
  /\ \A w \in WorkerIds : wpc[w] \in {"none", "exit"}
  /\ dpc' = [dpc EXCEPT ![Main] = "idle"]
  /\ want' = 0
  /\ IF want > 1
     THEN Spawn(want)
     ELSE /\ n_threads' = want
          /\ wpc' = [w \in WorkerIds |-> "none"]
          /\ UNCHANGED <<shutdown, task_epoch, done_count, last_epoch, t>>
  /\ UNCHANGED <<task, pending>>

-----------------------------------------------------------------------------
(* sp_parallel_for, called from any driver.                                *)

\* Without workers the task runs inline, as slice 0, and the call returns.
RunsInline == n_threads <= 1

\* Mutant: the epoch is bumped and the workers are not woken.
PublishSilently(d) ==
  /\ dpc[d] = "idle"
  /\ ~RunsInline
  /\ task_epoch < MaxEpoch
  /\ task' = d
  /\ task_epoch' = task_epoch + 1
  /\ done_count' = 0
  /\ dpc' = [dpc EXCEPT ![d] = "own"]
  /\ pending' = [pending EXCEPT ![d] = 0 .. n_threads - 1]
  /\ UNCHANGED <<n_threads, shutdown, wpc, last_epoch, t, want>>

\* The task, the epoch and the count are set under the mutex, then every
\* sleeping worker is woken.
Publish(d) ==
  /\ dpc[d] = "idle"
  /\ ~RunsInline
  /\ task_epoch < MaxEpoch
  /\ task' = d
  /\ task_epoch' = task_epoch + 1
  /\ done_count' = 0
  /\ wpc' = NotifyAll
  /\ dpc' = [dpc EXCEPT ![d] = "own"]
  /\ pending' = [pending EXCEPT ![d] = 0 .. n_threads - 1]
  /\ UNCHANGED <<n_threads, shutdown, last_epoch, t, want>>

RunOwnSlice(d) ==
  /\ dpc[d] = "own"
  /\ dpc' = [dpc EXCEPT ![d] = "wait"]
  /\ pending' = [pending EXCEPT ![d] = @ \ {0}]
  /\ UNCHANGED <<poolVars, workerVars, want>>

\* Mutant: one worker too few is waited for.
AllButOneDone == done_count >= n_threads - 2

\* The predicate of the wait on done_cv.
AllDone == done_count = n_threads - 1

\* The wait on done_cv: return when its predicate holds, else sleep.
Return(d) ==
  /\ dpc[d] = "wait"
  /\ AllDone
  /\ task' = NoTask
  /\ dpc' = [dpc EXCEPT ![d] = "idle"]
  /\ UNCHANGED <<n_threads, shutdown, task_epoch, done_count, workerVars, pending, want>>

DriverSleep(d) ==
  /\ dpc[d] = "wait"
  /\ ~AllDone
  /\ dpc' = [dpc EXCEPT ![d] = "asleep"]
  /\ UNCHANGED <<poolVars, workerVars, pending, want>>

DriverSpuriousWake(d) ==
  /\ dpc[d] = "asleep"
  /\ dpc' = [dpc EXCEPT ![d] = "wait"]
  /\ UNCHANGED <<poolVars, workerVars, pending, want>>

-----------------------------------------------------------------------------
(* worker_main.                                                            *)

WorkerExit(w) ==
  /\ wpc[w] = "check"
  /\ shutdown
  /\ wpc' = [wpc EXCEPT ![w] = "exit"]
  /\ UNCHANGED <<poolVars, last_epoch, t, driverVars>>

\* Mutant: the worker does not remember which epoch it took.
TakeForgetful(w) ==
  /\ wpc[w] = "check"
  /\ ~shutdown
  /\ task_epoch # last_epoch[w]
  /\ t' = [t EXCEPT ![w] = task]
  /\ wpc' = [wpc EXCEPT ![w] = "run"]
  /\ UNCHANGED <<poolVars, last_epoch, driverVars>>

\* A new epoch: copy the task pointer under the mutex, run it after releasing.
WorkerTake(w) ==
  /\ wpc[w] = "check"
  /\ ~shutdown
  /\ task_epoch # last_epoch[w]
  /\ t' = [t EXCEPT ![w] = task]
  /\ last_epoch' = [last_epoch EXCEPT ![w] = task_epoch]
  /\ wpc' = [wpc EXCEPT ![w] = "run"]
  /\ UNCHANGED <<poolVars, driverVars>>

WorkerSleep(w) ==
  /\ wpc[w] = "check"
  /\ ~shutdown
  /\ task_epoch = last_epoch[w]
  /\ wpc' = [wpc EXCEPT ![w] = "asleep"]
  /\ UNCHANGED <<poolVars, last_epoch, t, driverVars>>

WorkerSpuriousWake(w) ==
  /\ wpc[w] = "asleep"
  /\ wpc' = [wpc EXCEPT ![w] = "check"]
  /\ UNCHANGED <<poolVars, last_epoch, t, driverVars>>

\* The slice itself, through the copied pointer; a null pointer is skipped.
WorkerRun(w) ==
  /\ wpc[w] = "run"
  /\ wpc' = [wpc EXCEPT ![w] = "count"]
  /\ pending' = [d \in Drivers |-> IF d = t[w] THEN pending[d] \ {w} ELSE pending[d]]
  /\ UNCHANGED <<poolVars, last_epoch, t, dpc, want>>

\* Mutant: the count is compared with n_threads, the driver included.
LastIfDriverCounted == done_count + 1 = n_threads

\* Whether the worker that counts now is the last one.
LastToFinish == done_count + 1 = n_threads - 1

\* fetch_add outside the mutex; the worker that was last has a notify to do.
WorkerCount(w) ==
  /\ wpc[w] = "count"
  /\ done_count' = done_count + 1
  /\ wpc' = [wpc EXCEPT ![w] = IF LastToFinish THEN "notify" ELSE "check"]
  /\ UNCHANGED <<n_threads, shutdown, task, task_epoch, last_epoch, t, driverVars>>

\* notify_one wakes one sleeping driver, or none when none sleeps.
WorkerNotify(w) ==
  /\ wpc[w] = "notify"
  /\ wpc' = [wpc EXCEPT ![w] = "check"]
  /\ \/ \E d \in Drivers :
          /\ dpc[d] = "asleep"
          /\ dpc' = [dpc EXCEPT ![d] = "wait"]
     \/ /\ \A d \in Drivers : dpc[d] # "asleep"
        /\ UNCHANGED dpc
  /\ UNCHANGED <<poolVars, last_epoch, t, pending, want>>

-----------------------------------------------------------------------------
Lifecycle == (\E n \in 1 .. MaxThreads : InitPool(n)) \/ Shutdown \/ Joined

DriverStep(d) == Publish(d) \/ RunOwnSlice(d) \/ Return(d) \/ DriverSleep(d)

WorkerStep(w) ==
  \/ WorkerExit(w) \/ WorkerTake(w) \/ WorkerSleep(w)
  \/ WorkerRun(w) \/ WorkerCount(w) \/ WorkerNotify(w)

Next ==
  \/ Lifecycle
  \/ \E d \in Drivers : DriverStep(d) \/ DriverSpuriousWake(d)
  \/ \E w \in WorkerIds : WorkerStep(w) \/ WorkerSpuriousWake(w)

Spec == Init /\ [][Next]_vars

-----------------------------------------------------------------------------
TypeOK ==
  /\ n_threads \in 0 .. MaxThreads
  /\ shutdown \in BOOLEAN
  /\ task \in Drivers \cup {NoTask}
  /\ task_epoch \in 0 .. MaxEpoch
  /\ done_count \in 0 .. MaxThreads - 1
  /\ wpc \in [WorkerIds -> {"none", "check", "asleep", "run", "count", "notify", "exit"}]
  /\ last_epoch \in [WorkerIds -> 0 .. MaxEpoch]
  /\ t \in [WorkerIds -> Drivers \cup {NoTask}]
  /\ dpc \in [Drivers -> {"idle", "own", "wait", "asleep", "join"}]
  /\ pending \in [Drivers -> SUBSET Slices]
  /\ want \in 0 .. MaxThreads

\* sp_parallel_for "returns when ALL slices are done" (sp_threadpool.h): a
\* driver that is not inside a call has no slice left to run.
ReturnsWhenAllDone == \A d \in Drivers : ~InCall(d) => pending[d] = {}

\* The task is an object on the caller's stack: a worker that is about to use
\* its copy of the pointer finds a call in progress whose slice it still owes,
\* so it never uses a dead object and never runs a slice twice.
TaskAliveAndOwed ==
  \A w \in WorkerIds : wpc[w] = "run" =>
    /\ t[w] # NoTask
    /\ InCall(t[w])
    /\ w \in pending[t[w]]

\* No wake-up is lost: a driver asleep on a completed count has a notifier on
\* its way, and a worker asleep has no epoch to take and no shutdown to see.
NoLostWakeup ==
  /\ AllDone /\ (\E d \in Drivers : dpc[d] = "asleep") =>
       \E w \in WorkerIds : wpc[w] = "notify"
  /\ \A w \in WorkerIds : wpc[w] = "asleep" =>
       last_epoch[w] = task_epoch /\ ~shutdown

\* Every parallel call returns: no driver sleeps on a completed count, and no
\* worker sleeps through an epoch.
CallsReturn == \A d \in Drivers : InCall(d) ~> dpc[d] = "idle"

\* Every shutdown ends its joins: no worker stays asleep under the flag.
ShutdownEnds == dpc[Main] = "join" ~> dpc[Main] = "idle"

\* With one driver the pool implements fork/join: every slice of a call runs
\* while the call is in progress, a step runs at most one slice, and the call
\* returns after the last of them.
FJ == INSTANCE ForkJoin WITH
  Callers <- Drivers,
  MaxSize <- MaxThreads,
  size <- n_threads,
  open <- {d \in Drivers : InCall(d)},
  todo <- pending

ForksAndJoins == FJ!Spec
=============================================================================
