---------------------------- MODULE ParallelMatmul ----------------------------
(***************************************************************************)
(* The matmul kernels over the pool                                        *)
(* (desktop/engine/src/sp_kernels_cpu.cpp over sp_threadpool.cpp).  The    *)
(* rows, or columns, of the output are divided among the threads of one    *)
(* parallel call: contiguous slices of ceil(m / nt) rows, the last ones    *)
(* cut off at m and possibly empty.  Every thread writes the rows of its   *)
(* slice one after the other without any synchronisation.                  *)
(*                                                                         *)
(* The task of the pool is the loop over a slice, so the steps that        *)
(* ThreadPool takes with a slice as a whole (RunOwnSlice, WorkerRun) end   *)
(* the loops here, after the rows have been written one at a time.         *)
(***************************************************************************)
EXTENDS ThreadPool, Integers

CONSTANT MaxRows   \* bound: the largest number of rows

ASSUME RowsAssumption == MaxRows \in Nat \ {0}

\* The engine that calls the kernels is the only driver of the pool.
OneDriver == Drivers = {Main}

VARIABLES
  m,        \* the rows the latest matmul computes
  nt,       \* sp_threadpool_n_threads() as it read it; 1 when it runs inline
  i,        \* the next row of each thread
  writers   \* history: the threads that have written each row

rowVars == <<m, nt, i, writers>>

Rows == 0 .. m - 1

\* Mutant: the division rounds down.
RowsPerFloor == m \div nt

rows_per == (m + nt - 1) \div nt

\* Mutant: the slices overlap by a row.
StartOverlapping(tid) == IF tid = 0 THEN 0 ELSE tid * rows_per - 1

i_start(tid) == tid * rows_per

\* Mutant: the last slice is not cut off.
EndUncut(tid) == i_start(tid) + rows_per

i_end(tid) == IF i_start(tid) + rows_per > m THEN m ELSE i_start(tid) + rows_per

SliceDone(tid) == ~(i[tid] < i_end(tid))

\* With one thread, or fewer rows than threads, the caller does all the rows.
Inline(k) == n_threads <= 1 \/ k < n_threads

-----------------------------------------------------------------------------
MatmulInit ==
  /\ Init
  /\ m = 0
  /\ nt = 1
  /\ i = [tid \in Slices |-> 0]
  /\ writers = [r \in Rows |-> {}]

\* A kernel with k rows hands its slices to the pool.
StartMatmul(k) ==
  /\ ~Inline(k)
  /\ Publish(Main)
  /\ m' = k
  /\ nt' = n_threads
  /\ i' = [tid \in Slices |-> i_start(tid)']
  /\ writers' = [r \in 0 .. k - 1 |-> {}]

\* A kernel with k rows does them all itself; no other thread touches them.
InlineMatmul(k) ==
  /\ dpc[Main] = "idle"
  /\ Inline(k)
  /\ m' = k
  /\ nt' = 1
  /\ i' = [tid \in Slices |-> i_end(tid)']
  /\ writers' = [r \in 0 .. k - 1 |-> {0}]
  /\ UNCHANGED vars

\* The kernel of packed weights computes nothing for a length of row that is no
\* multiple of a block's; its caller is not told.
RefuseMatmul ==
  /\ dpc[Main] = "idle"
  /\ m' = 0
  /\ nt' = 1
  /\ i' = [tid \in Slices |-> 0]
  /\ writers' = [r \in 0 .. -1 |-> {}]
  /\ UNCHANGED vars

\* The thread is inside the task.
InTask(tid) ==
  \/ tid = 0 /\ dpc[Main] = "own"
  \/ tid \in WorkerIds /\ wpc[tid] = "run" /\ t[tid] # NoTask

\* matmul_f32_row or matmul_q5k_col for one row of the thread's slice.
WriteRow(tid) ==
  /\ InTask(tid)
  /\ ~SliceDone(tid)
  /\ i' = [i EXCEPT ![tid] = @ + 1]
  /\ writers' = [r \in Rows |-> IF r = i[tid] THEN writers[r] \cup {tid} ELSE writers[r]]
  /\ UNCHANGED <<vars, m, nt>>

\* The steps of the pool; a thread leaves the task at the end of its loop.
DriverTurn ==
  \/ RunOwnSlice(Main) /\ SliceDone(0)
  \/ Return(Main) \/ DriverSleep(Main)

WorkerTurn(w) ==
  \/ WorkerRun(w) /\ (t[w] # NoTask => SliceDone(w))
  \/ WorkerExit(w) \/ WorkerTake(w) \/ WorkerSleep(w)
  \/ WorkerCount(w) \/ WorkerNotify(w)

SpuriousWake == DriverSpuriousWake(Main) \/ \E w \in WorkerIds : WorkerSpuriousWake(w)

\* A thread goes on: the driver, or a worker, inside the task and outside.
DriverGoesOn == WriteRow(0) \/ (DriverTurn /\ UNCHANGED rowVars)
WorkerGoesOn(w) == WriteRow(w) \/ (WorkerTurn(w) /\ UNCHANGED rowVars)

MatmulNext ==
  \/ \E k \in 1 .. MaxRows : StartMatmul(k) \/ InlineMatmul(k)
  \/ RefuseMatmul
  \/ DriverGoesOn
  \/ \E w \in WorkerIds : WorkerGoesOn(w)
  \/ (Lifecycle \/ SpuriousWake) /\ UNCHANGED rowVars

matmulVars == <<vars, rowVars>>

MatmulSpec == MatmulInit /\ [][MatmulNext]_matmulVars

\* Threads that can go on do go on; nobody is obliged to call, to initialise
\* or to shut down, and spurious wake-ups may never happen.
MatmulFairness ==
  /\ WF_matmulVars(DriverGoesOn)
  /\ \A w \in WorkerIds : WF_matmulVars(WorkerGoesOn(w))
  /\ WF_matmulVars(Joined /\ UNCHANGED rowVars)

FairMatmulSpec == MatmulSpec /\ MatmulFairness

-----------------------------------------------------------------------------
RowsTypeOK ==
  /\ m \in 0 .. MaxRows
  /\ nt \in 1 .. MaxThreads
  /\ i \in [Slices -> Nat]
  /\ writers \in [Rows -> SUBSET Slices]

\* A matmul that has returned has written every row it computes, each by one
\* thread: neither the division of the rows nor the pool's return leaves
\* a row out.
ReturnedWhole ==
  ~InCall(Main) => \A r \in Rows : \E tid \in Slices : writers[r] = {tid}

\* No two threads write the same row of the output, however they interleave.
OneWriterPerRow == \A r \in Rows : \A p, q \in writers[r] : p = q

\* A thread that is about to write writes into the output of a matmul that has
\* not returned, and neither past its end nor into a buffer that is gone.
WritesInsideCall ==
  \A tid \in Slices : InTask(tid) /\ ~SliceDone(tid) => InCall(Main) /\ i[tid] \in Rows
=============================================================================
