# Shannon-Prime Burnhard: a verification project in TLA+

This directory holds TLA+ models of the parts of Shannon-Prime Burnhard whose
control is hard to get right, the TLC configurations that model-check them on
small instances, and theorems about them whose proofs TLAPS checks. Every
definition is a translation of the C and C++ sources; `PROJECT.json` maps each
one to the lines it stands for.

Contents: [1 the system](#1-the-system), [2 what is modelled](#2-what-is-modelled),
[3 the runs](#3-the-runs), [4 the proofs](#4-the-proofs),
[5 where code and documents disagree](#5-where-code-and-documents-disagree),
[6 what is not modelled](#6-what-is-not-modelled), [7 the plan](#7-the-plan),
[8 running it](#8-running-it).

## 1. The system

Burnhard runs a language model on a desktop ("Beast Canyon": CPU, a CUDA GPU and
an integrated GPU) with a phone as a *sidecar*. Most of its lines are numerical
kernels. What a test hardly reaches is around them: threads, a socket shared
without a lock, state machines over long sequences of events, caches, and loops
with many ways to fail.

| component | source | state it keeps | operations | talks to |
|---|---|---|---|---|
| CPU thread pool | `desktop/engine/src/sp_threadpool.cpp` | workers, the task, epoch, `done_count`, two condition variables | `sp_threadpool_init`, `_shutdown`, `sp_parallel_for`, `worker_main` | the CPU kernels call it; the HTTP server's handlers are its drivers |
| CPU matmul kernels | `.../sp_kernels_cpu.cpp` | none of their own; slices of the output | `sp_matmul_f32`, `sp_matmul_q5k`, ... | the pool |
| Bridge heartbeat | `bridge/heartbeat/` | liveness state, streaks, stop flag, a thread | start, stop, the loop, the callback | a socket, the engine that reads the state |
| Sidecar link | `desktop/beast_canyon/sp_sidecar_proto.h`, `sp_beast_canyon.c` | one socket, `sidecar.state` | ping, prime_pe, prefill, draft, accept, reset | the phone; the heartbeats use the same socket |
| Speculative decoding | `sp_beast_canyon.c`, `sp_beast_generate` | output, logits, drafts, the phone's context | prefill, draft, verify, accept, generate | the sidecar link, the forward pass |
| BURN_MOE operation | `.../burn_moe_op.cpp` | a bounded cache of dequantised experts | one call per graph computation | the two expert banks the loader makes |
| Speculative oracle | `.../speculative_oracle.cpp` | history, committed position, logits | prefill, step, predict_multi, accept, resync, reset | a native forward context |
| Phone decode loop | `.../qnn_bin_driver.cpp` | the text, `n_past`, the processor's keys and values | generate, set_oracle | the oracle, the tensor processor |
| KV cache and its files | `.../kv_cache.cpp`, `core/src/shannon_prime.c` | compressed keys and values by layer and position, masks of the calibration, files | create, calibrate, write, read, bind, save, load | the forward pass, the command line |
| Cauchy reset controller | `core/src/shannon_prime_cauchy.c` | last reset, schedule index, the sentinel's window | check, record_reset, calibrate, feed | the cache feeds it, the decode loops ask it |
| Command line: chat, perplexity | `.../cli/main.cpp` | the conversation, the cache and the controller of one process | prefill, decode, reset, chunk, load, save | the two above |
| CRT dispatch | `desktop/crt/` | device buffers, streams, a Vulkan queue, the quantisation in force | products on two residue rings, the Garner join | a CUDA and a Vulkan device, host fallback |
| Engine, HTTP server | `.../engine.cpp`, `http_server.cpp` | model, cache, sampler | generate, routes | everything above |
| Heterogeneous barrier, shadow steal, prefetch telemetry, thermal throttle | `desktop/beast_canyon/` | completion flags, slots, counters, zones | dispatch, wait, steal, poll | Beast Canyon's forward step |
| Forward graph, loaders, tokenizer, backends, mobile kernels | `desktop/`, `core/`, `mobile/` | tensors | numerical | devices |

How the hard behaviours arise:

* **Interleaving.** The pool copies a pointer to an object on its caller's stack
  and runs through it after releasing the mutex; counts completions outside the
  mutex; and sleeps on two condition variables. Heartbeat workers and the main
  thread send and receive frames on one socket without a lock.
* **Long sequences.** The heartbeat's hysteresis depends on runs of good and bad
  beats in each of three states; the expert cache's content depends on the whole
  history of hits, misses, evictions and failed loads.
* **Partial failure.** A forward pass may fail after its token was accepted; a
  draft may be lost on the way out or on the way back; a frame may be torn.
* **Crashes.** A conversation is saved to one file per layer and plane, one after the
  other, with nothing that ties them together; the process may die between two of
  them or in the middle of one, and a later process loads what is there.
* **Late answers.** The host stops waiting for a Vulkan fence after five seconds, and
  the operation it gave up is still in the queue, with the command buffer, the staging
  buffer and the fence the next one uses.
* **Boundaries.** `ceil(m / nt)` rows per thread; `max_tokens` reached while
  drafts are verified; the pivot between two expert banks; the cache at its
  capacity; a turn of the phone's loop that generates several tokens at once; numbers
  at the end of a 32-bit word or of the range two moduli can tell apart.
* **Roll-back.** The oracle drafts in its only context, and must be brought back to
  the committed text, also when one of its own steps fails.
* **Liveness.** Joins, shutdowns, replies that never come, loops that must end.

What makes each component correct is stated with its model below. The full list
of hazards, each at its line with the property that covers it or the reason why
none does, is in `PROJECT.json`.

## 2. What is modelled

### ThreadPool, ForkJoin (`sp_threadpool.cpp`)

`ThreadPool` has one variable for each field of `Pool` and for each local of
`worker_main` that survives a step. The mutex has no variable: a critical
section is one action. `done_count` is the one field touched outside the mutex,
and has an action of its own (`WorkerCount`). Waiting is two-step: a thread whose predicate is
false goes to sleep (`WorkerSleep`, `DriverSleep`), and wakes when it is notified or
spuriously. The task is named by the driver on whose stack it lives; `pending`
holds the slices of it that have not run. `InitPool`, `Shutdown` and `Joined`
are `sp_threadpool_init` and `sp_threadpool_shutdown`, including the re-sizing of a
pool that has workers.

* `ReturnsWhenAllDone`: no call returns before all its slices have run.
* `TaskAliveAndOwed`: a worker never runs through the pointer of a call that has
  returned, and never runs a slice twice.
* `NoLostWakeup`: nobody sleeps on a true condition without a notifier on its way.
* `ForksAndJoins`: the pool implements `ForkJoin`, the contract in
  `sp_threadpool.h`, in which there are no workers, epochs or counters.
* `CallsReturn`, `ShutdownEnds`: liveness, checked with the kernels on top.

### ParallelMatmul (`sp_kernels_cpu.cpp` over the pool)

Extends `ThreadPool`: the task that the pool runs is the loop of a matmul kernel over the slice of
one thread. The pool's actions are unchanged; a thread's loop writes its rows one at a time
(`WriteRow`), in any order with the other threads and with no synchronisation, and the pool's step
that ends a slice is taken at the end of the loop. One matmul follows another, on a pool that is
resized and shut down in between; with one thread, or fewer rows than threads, the kernel does all rows
itself (`InlineMatmul`); the kernels of packed weights compute nothing for a row length they do not know
(`RefuseMatmul`). Liveness is checked here: `MatmulFairness` lets a thread go on inside the loop and outside.

* `ReturnedWhole`: a kernel that has returned has written every row of its output, once.
* `OneWriterPerRow`: no row has two writers.
* `WritesInsideCall`: a thread about to write writes inside the output, of a call that has not returned.

### BeatRule, Heartbeat, HeartbeatContract (`sp_bridge_heartbeat.c`)

`BeatRule` is what one beat does to the published state, as the code computes it
from streaks. `Heartbeat` is the worker with the phone (external: answers, refuses,
falls silent, hangs up), the publication, the callback, and the owner's stop and
join. `HeartbeatContract` is what the header promises, from the results of the
beats alone.

* `KeepsContract`: the published state is the one the contract gives, in every interleaving.
* `CallbackInStep`: between beats, the callback has been told the published state.
* `ClosedIsNoticed`, `AnswersAreNoticed`, `StopEndsIfHeard`: a closed connection
  is found, an answering phone comes back, and stop returns if the phone is not
  silent for ever.

### SidecarLink (`sp_sidecar_proto.h`, `sp_beast_canyon.c`, the heartbeat again)

One socket, as two queues of frame halves (header, payload), because sends and
receives are two system calls each and threads interleave between them. `aligned`
is whether the next read starts at a header. `Believes` is what each caller looks
at before it takes a frame for its answer, which is less than the answer's
identity. A caller of `accept` does not wait. A reader without the memory for a payload leaves it on
the stream (`NoMemory`), and the next read starts in the middle of a frame; `starved` remembers it. The phone is
external: it answers in order, closes on a malformed stream, and may push a packet.

* `OwnReply`: a believed reply answers the caller's own, latest command, as long as no payload was left unread.
* `HealthyNeverMissed`: a phone that answers everything is never counted missing, on the same condition.
* `CallsEnd`: every call returns, also when the phone hangs up or memory runs out in the middle of a frame.

`AloneSafely` and `AloneSpec` are the executions in which one client makes all the calls; the run of
two heartbeats is without that restriction.

### SpecDecode (`sp_beast_generate`)

The model is abstracted to its greedy continuation, chosen once in `Init`:
`greedy[k]` is the argmax after `k` tokens of it. A model that is fed anything
else is astray and predicts no token of the continuation, so a mistake in
what is fed shows at once. Every failure path is there: a failed prefill, a draft
that fails on either way, forward passes that fail at the loop's head or for an
accepted draft, a lost accept. The phone's context is kept with it.

* `PlainTextKept`: nothing of the text that plain greedy decoding generates is lost or changed, whatever the phone
  drafts and whatever fails; a failed forward pass cuts the text short.
* `ModelInStep`: every decision is taken on a model fed exactly the generated text.
* `EosEndsText`: nothing is generated after the first end of text, unless that one was accepted from the phone,
  which the code does not stop at: after it, speculation is not lossless (see 5).
* `PhoneInStep`: the phone's context is the desktop's text, unless a command or a
  pass has failed or no draft of a round was accepted (then the phone is not told).
* `Ends`: generation ends.

### ExpertCache, LruCache (`burn_moe_op.cpp`, the split in `llama_weights.cpp`)

One call of `burn_moe_compute`: for each token and each selected expert, a lookup in
a cache of at most `SP_BURN_MOE_DEQUANT_CACHE_CAP` entries, dequantisation from
one of two banks on a miss, eviction by swapping the last entry into the oldest
one's place, and the use of a pointer into the cache. Weights are named by the expert they
belong to.

* `CacheSound`: the cache stays within what was reserved (so pointers into the vector
  stay valid) and holds no expert twice.
* `RightWeights`: an expert is used with its own weights.
* `EvictsLru`: ticks and positions implement `LruCache`, which has neither.

### SpOracle, QnnDecode (`speculative_oracle.cpp`, `qnn_bin_driver.cpp`)

`SpOracle` has the oracle's operations: `Commit` is `step`, `resync` and each turn of
`accept`, which decode a token and make it history even when the decode fails;
`DraftFirst`, `DraftNext`, `DraftBreaks`, `RollBack` and `RollBackFails` are the steps of
`predict_multi`. A context is named by the text it holds, and the logits by the
text they follow. `QnnDecode` is `QnnBinSession::generate`, call after call on
one session: what the processor predicts is any token; what the program decides, which
tokens are committed, how many, where the next batch is placed, is the model.
Locals of the loop are reset when they go out of scope (`TurnEnds`).

* `OracleInStep`: when the oracle drafts, its history is the generated text, and its
  context too unless a decode has failed since the last replay.
* `ReplayHeals`: after a draft the context is the text, even if decodes had failed before.
* `TextBounded`: the loop's counter is the length of the text, which never exceeds
  `n_predict` (but for the token the prefill makes).
* `EosIsLast`: an end of text is last, at each of the four places where it is met.
* `PrefixAttended` (violated, see 5): the slots attended to are those of the text before its last token.
* `CallsReturn`: every call returns.

### CauchyReset, KvCache, KvDisk, KvSession (`kv_cache.cpp`, `core/src/`, `cli/main.cpp`)

Four layers of one state, each extending the one below. `CauchyReset` is the controller as a record and
its operations as functions of it; what the sentinel's energies say past its warm-up
is any answer. `KvCache` is the stored planes: a slot names the vector that was written (its
token, its position, its model) and the calibration it was compressed under, so that a
vector taken for another, or read under other masks, shows. `KvDisk` is the files: the
order of writing, what a cut-off file holds, what each of the three cache kinds opens
and refuses on loading, and what an aborted load leaves behind. The hash in a file is that of the *path* of the
model (`Hash`), which models may share; 0 on either side passes, and a process started with
`SP_DISK_HASH_STRICT=0` takes any file: `lax` remembers a load that did not compare or did not insist. `KvSession` is the two commands that
decode against the cache, as processes that are started one after the other over the
same files, with any model and any flags, and may be killed at any point.

* `CacheInStep`: what decode attends to is the conversation, every position with its
  own token, at its own place, by this model, readable under the calibration in force,
  across resets, chunks of text, refused loads and files mixed by a crash.
* `DriftBounded`: in the fixed mode, no chain of decodes on the compressed past is
  longer than the mode, the cooldown or the warm-up allows (in a process's first chunk; see 5).
* `LookaheadComplete`: the index that saves the oracle the passed part of its schedule
  hides no flagged position ahead.
* `LoadSameHash`: without a lax load, no vector of a model with another hash is ever in the cache, whatever was
  saved, torn or mixed, and even after a load that was refused half-way. Of a model put at the same path the code
  promises nothing (see 5).
* `ResetsApart`: resets are a cooldown apart and never in a warm-up.
* `ResumedInStep` (violated, see 5): a resumed conversation is attended to as it was saved.

### CrtRing, CrtMatmul (`desktop/crt/`, the caller in `burn_moe_op.cpp`)

`CrtRing` is the integer arithmetic: the Mersenne reduction by folding, the plain
modulus, the compute shader's product split at the 32-bit word, the residue of a signed number and the
Garner join. The word size `B` is a constant, `2^31` in the code. `CrtMatmul` is a call: the hooks and
their fall-backs, the calibration of the quantisation to the length of the sum, which bounds each operand in the native
hook (`NativeCalls`), the product of the two bounds in the ggml hook, whose scales are swapped (`GgmlCalls`), and
nothing in an expert's products, quantised by whatever calibration is in force (`StartExpert`), and the ten steps of
`sp_crt_matmul_gpu` on the host, on two CUDA streams, or on a stream and a Vulkan queue. Every
device operation may be refused, fail, or be slow; the Vulkan device may hang. The host looks at no
return code. Device buffers start out as `Noise`, which spreads through a product. An operation whose fence timed out stays in the queue and is
carried out later (`LateEffect`), with whatever the command buffer and the staging
buffer hold by then. One element of the product stands for all.

* `TypeOK`: what is in the buffers of a ring is a residue of that ring or was never written, in every failure, and
  a call none of whose operations failed joins residues.
* `ProductExact`: a call that returns a result returns the product up to multiples of the combined range, and
  the product itself, sign included, if its operands are within the limits of a calibration for it; in every
  interleaving and also right after a call that failed, unless its own operations failed
  or the shader's sum wraps (see 5).
* `CallsReturn`: every call returns unless the Vulkan device hangs; then the host is
  at the last wait, which has no time limit.

## 3. The runs

| run | instance | shows |
|---|---|---|
| `threadpool_two_drivers` | two drivers, 1 worker | **violation** of `ReturnsWhenAllDone` (see 5) |
| `matmul` | one driver, up to 9 rows, up to 4 threads, 3 calls per initialisation of the pool, any re-sizing | all properties of ThreadPool and ParallelMatmul, liveness under fairness |
| `heartbeat` | runs of beats counted to 6 | all properties of Heartbeat |
| `sidecar_alone` | one client ever calls, 5 calls, 1 pushed packet, the phone may hang up, memory may run out | all properties of SidecarLink |
| `sidecar_two_beats` | two heartbeats, 3 beats each | **violation** of `HealthyNeverMissed` |
| `specdecode` | 3 tokens, one of them an end of text; `max_tokens` 3, up to 2 drafts | all properties of SpecDecode |
| `expertcache` | 4 experts, 2 per token, 3 tokens, capacity 3, every pivot, every unreadable bank | all properties of ExpertCache |
| `qnndecode` | a token and an end of text; drafts of 3 as in the code, up to 6 tokens asked for, any number of calls | all properties of QnnDecode but the next |
| `qnn_positions` | the same | **violation** of `PrefixAttended` |
| `kvsession` | 2 processes, 3 models, two with a hash and one with the hash 0, 2 layers, 10 positions, all 3 cache kinds and 3 modes; a reset every 3, cooldown 2, flagged positions 3, 5, 9, 11, lookahead 2; chats of 3 or 8 tokens, 2 chunks of 8 | all properties of KvSession but the next |
| `kv_load` | the same | **violation** of `ResumedInStep` |
| `crt` | words of 7 bits (`B` = 64, moduli 63 and 53), sums of 1 or 2 products of -17 or 450 by -2 or 26, 2 calls, 1 fault, the three ways the context can come up | all properties of CrtMatmul |

The `crt` and `kvsession` runs repeat `TypeOK` among their properties (there the type says something: the buffers
hold residues or noise, and neither the cache nor the text passes `max_seq`); the proofs establish it for every
module with variables.

Why the bounds are enough. The pool: three workers are the fewest with a last, a
middle and a first to finish, and three epochs let a worker be late by a call and
be re-used; the code compares epochs for equality only. The kernels drive the pool in the same run. Matmul: 9 rows and 4 threads contain the
cases m = nt, m divisible by nt, a short last slice and an empty last slice (9
rows, 4 threads: slices of 3, 3, 3, 0). Heartbeat: thresholds are 2, 3 and 5, so runs
above 6 behave like 6. Sidecar: five calls are the five misses to
OFFLINE, and enough for accepts, whose answer nobody waits for, before a command that is answered. Decoding: three tokens of output and two drafts are enough for a whole
round, a round cut off by the bound, and a partly accepted round. The cache: six
lookups of four experts through three places evict at every position, and
re-load what was evicted. The phone's loop: six tokens are the fewest with two rounds of
three drafts and single steps after them; with one token besides the end of text any two texts
that go on differ in their length, and a rejected draft still differs from what was verified.
The sessions: two processes are one that saves and one that loads or overwrites, two layers have
files before and after a crash, a chat of 8 tokens passes two resets and most of the
schedule, and the second chunk starts with a used controller. Files of two saves side by side take a third process, and are the proofs' business.
The action constraint `MCNeedsFiles` starts a process that loads nothing over an empty directory only: it never looks at
the files, so what it does is the same over any. Hashes and models are symmetric but for the hash 0. The rings: 26 is the
limit of an operand for two products, 450 * (-2) twice passes the range through the ggml hook's limits, and 450 * 26 passes it by far; 63 and 53 satisfy
the assumptions the real moduli satisfy, the product of two residues is wider than the
word as it is there, and the shader's sum does wrap; two calls are the fewest
in which an operation outlives its call; one fault is the fewest and the device it strikes is any.
What the bounds hide is the business of the proofs.

Deadlock is not checked where the system may rightly stop: a pool nobody calls, a
matmul that is done, a stopped heartbeat, a text that is finished, clients that
have made their last call.

Fairness. `ParallelMatmul` and its `ThreadPool`: weak fairness of each thread's own steps and of the join:
operating-system threads that can run do run, and nothing needs a particular
winner of the mutex. Nobody is obliged to call, and spurious wake-ups are never
relied on. `Heartbeat`: weak fairness of the worker and of the join, none of the
phone or the owner. `SidecarLink`: weak fairness of each client's next step and
of the phone's answer; the phone closes a connection whose stream is malformed. `SpecDecode`: one
sequential program that goes on. `QnnDecode`: weak fairness of the running call, none of the
caller. `CrtMatmul`: weak fairness of the host's steps, its time-out included, and of the devices:
a stream carries out what it holds, and the Vulkan queue does until it hangs. Nothing is assumed of
faults or of callers. `ExpertCache` and `KvSession` have no liveness property: the first is a bounded loop in a call,
and a session may be killed at any point.

Every property of a passing run has a *mutant*: a plausible bug in a definition
(a dropped reset, an off-by-one, a missing notify), beside the definition it
alters and marked in its comment, under which the property fails.

## 4. The proofs

TLC checks the instances above; the theorems hold for every value of the constants
that satisfies the module's assumption. Each module's invariant `IInv` was first
checked with TLC, then proved inductive, one lemma per group of actions.

| module | theorems | inductive invariant, and why it is needed |
|---|---|---|
| `ThreadPoolProofs` | `TypeCorrect`, `ReturnsComplete`, `NoDanglingTask`, `WakeupsKept`, `PoolImplementsForkJoin` | `DriverInv` and `WorkerInv`: `done_count` is the number of workers that have counted in the current epoch; a worker has that epoch, or is exactly one behind and owes its slice. Without the second, a late worker could take a stale task. For one driver (`Drivers = {Main}`, an assumption of each theorem), any number of threads and epochs |
| `ThreadPoolProofs`, on ParallelMatmul | `MatmulUsesPool`, `SingleWriter`, `WholeOnReturn`, `WritesStayInside` | `RowInv` beside the pool's: `Progress`, the rows a thread has written are those from the start of its slice to its next row; `Delivered`, a slice that the pool no longer owes is written to its end. `MatmulUsesPool` shows the steps are the pool's steps or stutters, so that the pool's theorems apply; arithmetic lemmas about rounding up show that slices are disjoint and cover the rows |
| `HeartbeatProofs` | `TypeCorrect`, `CallbackFollows`, `HeartbeatKeepsContract` | `StreakInv`, `LevelInv`: how the code's streaks, reset on changes of state, follow from the runs of beats the contract counts |
| `SpecDecodeProofs` | `TypeCorrect`, `NothingLost`, `InStep`, `StopsAtEos`, `PhoneFollows`, `FewStepsPerToken` | `HeadInv`, `StepInv`: between the loop's head and its forward pass, the token is stored, predicted and not yet counted. `NothingLost` and `InStep` hold each other up. `EosInv`: an end of text is behind the loop's head only if it was accepted from the phone. `PhoneInv`: the phone is ahead of the model by the token of the loop's head while a draft is asked for, and by the drafts not verified yet after it |
| `ExpertCacheProofs` | `TypeCorrect`, `CacheBounded`, `OwnWeights`, `CacheImplementsLru` | `Ordered`: no two ticks are equal, none is ahead of the clock, every entry has its own weights. Distinct ticks are what makes the entry with the least one the one used before *all* others |
| `QnnDecodeProofs` | `TypeCorrect`, `OracleFollowsText`, `ReplayRestores`, `Bounded`, `EosEnds`, `FewStepsPerToken` | `HistoryInv`: the history in the middle of a round is the text and the part of the round the oracle has committed; `CtxInv` leaves out the steps with drafts in the context; `RoundInv` keeps the room that makes the bound hold at the end of a round |
| `KvSessionProofs` | `TypeCorrect`, `CacheAlwaysInStep`, `NeverAnotherHash`, `DriftAlwaysBounded`, `LookaheadAlwaysComplete`, `ResetsStayApart` | `Phase`: where the counters stand in each phase, so that a prefill fits and starts where it should; `FilesOfOneHash`: without a lax load, the vectors of a file are of models with the hash in its header, which is what makes the hash check enough; `Watch`: how the controller's last reset and its schedule index relate to the positions decoded since. For any number of layers, positions, processes and chunks, any schedule and cooldown |
| `CrtMatmulProofs`, on CrtRing | `MersenneIsMod`, `StepsKeepResidues`, `ShaderMulUpToWrap`, `JoinInvertsSplit`, `RingProductIsExact` | no state: facts about the operators, for every word size, `2^31` included. The reduction is the modulus for every sum below `2 B^2` (`2^63`); each step of a sum keeps the residue, hence a whole sum does, by the least length at which it would not; the shader is right unless its sum wraps, and then wrong by exactly the word's residue; the join inverts the split, sign included, on the whole range of the two moduli |
| `CrtMatmulProofs`, on CrtMatmul | `Calibrated`, `LimitedInRange`, `TypeOKHolds`, `ProductExactHolds`, `CallsAreShort` | `PhaseInv`: which rings each step of the host has reached; `Shape` and `ResultInv`: every buffer holds residues or noise, whatever failed, and a call without a failure has joined residues; `QueueInv`: as long as nothing of the call has failed, a queue holds exactly the operations handed out and not carried out, in order, and nothing is left from a call before; `DataInv`: what the buffers hold after each of them. For every word size, length of the sum, operands, number of calls and number of faults |
| `SidecarLinkProofs` | `TypeCorrect`, `Invariance`, `OwnReplies`, `NeverMissed`, `StreamsStayFramed` | `SentFramed`, `ReadFramed`: both directions hold whole frames but for the one being sent or read; `Owed`: what is under way is the caller's current command or the answer to it, behind accepts that nobody answers; `Heard`: what the caller made of it. `IInv` says this of a client if no other has made a call, so it is an invariant of *all* executions; the theorems about `AloneSafely` follow. All of it ends when a payload is left unread for lack of memory (`starved`). For any number of calls and pushed packets, and a phone that hangs up at any time |

The refinements (`PoolImplementsForkJoin`, `HeartbeatKeepsContract`, `CacheImplementsLru`) are
step simulations: each step of the detailed specification is a step of the abstract one or a
stutter, under the mapping in the detailed module.

Half of termination is proved as safety. `FewStepsPerToken` (SpecDecode and QnnDecode) and
`CallsAreShort` (CrtMatmul) give a number, `StepsLeft`, that is never negative and that every step of
a running call makes smaller, or ends the call: no sequence of failures, rejected drafts, retries or
late completions can make a call go round for ever. That some step is always possible until then needs
`ENABLED` and stays with TLC (`Ends`, `CallsReturn`).

Assumptions on the constants are those of the modules, and each is as weak as the code allows. Two need a
reason. The pool's theorems are for one driver, which is what `sp_threadpool.h` asks of its callers (5 says
who does not comply). `CrtMatmul` assumes `64 * MaxDim <= M1 * M2`, so that the calibration leaves at least
one step for every length: a length is an `int`, and the product of the moduli is about `2^62`.

Only model-checked: the liveness properties (`CallsReturn` of the pool, QnnDecode and CrtMatmul, `ShutdownEnds`,
`ClosedIsNoticed`, `AnswersAreNoticed`, `StopEndsIfHeard`, `CallsEnd`, `Ends`), which need `ENABLED`, and the four violations. Every
safety property and every refinement that a passing run checks is also proved.
The theorems assume what the models
assume; in particular the greedy continuation stands for the forward pass.

## 5. Where code and documents disagree

A run finds the violation:

* **Two drivers of one pool** (`threadpool_two_drivers`). `sp_threadpool.h:36-38` says a parallel call "returns
  when ALL slices are done". The handlers of `http_server.cpp` share one engine, and
  take no lock; a second driver overwrites task, epoch and count, and a call returns
  early (`sp_threadpool.cpp:124`).
* **Two heartbeats on one socket** (`sidecar_two_beats`). `sp_beast_init` and the CLI each start one
  (`cli/main.cpp:1278`); they take each other's replies, and a phone that answers
  everything is counted missing.
* **`--load-cache`** (`kv_load`). The prompt is prefilled without the loaded positions: its vectors are
  computed from position 0, attend to nothing that was loaded, and are written behind it, and
  the calibration of that first prefill replaces the masks the loaded vectors were compressed under
  (`forward.cpp:3063`). The first reset then drops the loaded part.

* **The prefix after a batch** (`qnn_positions`). `qnn_bin_driver.cpp:625-630` says that `n_past` becomes
  "n_drafted+1 regardless of acceptance" and that masking "attends to the correct prefix
  automatically". A round adds the number of drafts (`:697`), which is right when exactly one
  draft was rejected: one too few when all are accepted, too many when more are rejected.

A property of a passing run had to be restricted, and the restriction is the finding:

* **Silence.** `sp_bridge_heartbeat.h:11` degrades the phone after two missed beats;
  the socket has no receive timeout, so a silent phone blocks the worker and stays
  ONLINE (`sp_bridge_heartbeat.c:86`). `ClosedIsNoticed` is about closed connections only.
* **Accepted end of text.** It leaves the verification loop only, and generation
  goes on after it (`sp_beast_canyon.c:2004`), to tokens that decoding without the phone, which stops at `:1957`,
  never generates; `docs/MODALITY-AUDIO.md:273` calls speculation "Lossless". `EosEndsText` leaves out the text
  after such an end of text, and `PlainTextKept` allows it.
* **The hash of a model.** `kv_cache.h:138-139` has it "detect loads against a different model". It is the hash of
  the path (`cli/main.cpp:1386`), so a model put at the same path is not noticed; a hash of 0 on either side is not
  compared (`shannon_prime.c:1598`), and `SP_DISK_HASH_STRICT=0` loads any file (`:1606`), as a test wants it.
  `LoadSameHash` compares hashes and leaves lax loads out.
* **Resets in later chunks.** `perplexity` keeps the controller from chunk to chunk
  (`cli/main.cpp:1035`), where the position starts again: no reset comes until it has passed the last one of
  the chunk before. `DriftBounded` and `LookaheadComplete` are about the first chunk.
* **The shader's word.** The sum in `sp_crt_matmul_mod.comp:114` can pass 2^32: for the residues 1957573850
  and 2107836383 the result is 38 too small. `ProductExact` leaves out such operands.
* **Dropped return codes.** `sp_crt_matmul_gpu` joins whatever the host buffers hold and returns 0 when an
  operation failed or its fence timed out (`sp_crt.c:506`). What was never written
  to a device buffer may be joined too. `ProductExact` leaves out calls with a failed operation.
* **The experts' calibration.** `burn_moe_op.cpp:127` multiplies with the calibration it finds, of another product
  or the default for one; nothing clamps its numbers (`sp_crt.c:499`), and their sum may leave the signed range.
  `ProductExact` promises such a product up to multiples of the range only.
* **The swapped scales.** `sp_crt_dispatch.c:234` calibrates the scale of each operand from the range of the other. The
  two errors cancel in the product but for rounding, which may carry the sum of a very large and a very small operand
  out of the range, in spite of "K-aware calibration to prevent overflow" (`:229`). `ProductExact` treats it like the experts.

Met while reading, without a property of their own:

* Stopping a heartbeat whose phone is silent does not return, and a second stop
  uses freed memory, although `sp_bridge_heartbeat.h:55` calls stop idempotent.
* An oracle packet on the heartbeat's socket is counted as a missed beat
  (`sp_bridge_heartbeat.h:62-64` sends them over "the SAME" socket);
  `sp_bridge_oracle_send` never returns the -2 of line 69.
* Accepted drafts each cost a forward pass, where `sp_sidecar_proto.h:8-11` counts on
  skipping it.
* A failing prefill jumps over the initialisation of `n_generated`, and returns it
  (`sp_beast_canyon.c:1870`); `Abort` returns any value there.
* The phone is not told when no draft was accepted (`sp_beast_canyon.c:2014`), and
  keeps the rejected tokens in its context; `sp_sidecar_proto.h:65-68` has it roll back.
* `sp_beast_init` passes no callback to the heartbeat (`sp_beast_canyon.c:254`), so
  the run mode never follows the phone as the comment above says.
* `speculative_oracle.h:73-80` restores the context "via a lightweight state snapshot" and
  stops a draft at an end of text; the code replays the whole history and drafts on.
  `speculative_oracle.cpp:254` skips the replay for one draft; the code does not.
* `burn_moe_op.h` says experts of the CPU bank are computed on the host; the operation
  sends all of them through the GPU rings when those are ready.
* `docs/CAUCHY-RESET.md:76` gives 0 as the default reset mode; `engine.h:151` has 2.
* The hierarchical cache is marked calibrated when its predictor file was named, also when
  the file held no predictor and was skipped.
* `chat` with system 1-2 routing reads the cache pointer it never set.
* `cauchy_disable_mertens` deletes the oracle without the function that frees its tables.
* The limit on the Vulkan fence is five seconds, the wait for an idle device after it has none.
* `sp_crt_native_mm_dispatch` has no caller that installs it; neither do
  `sp_hetero_mark_dispatched` and `sp_shadow_steal_speculate` have callers, so the barrier waits for nothing and
  the shadow thread steals nothing.

## 6. What is not modelled

* The arithmetic of kernels, dequantisation, transforms and encodings: data to every
  property here.
* In the modelled components: `std::thread` construction that throws (ThreadPool), the
  statistics counters (Heartbeat), connect, disconnect and load_draft (SidecarLink;
  load_draft has the shape of prefill), the oracle's `reset` and statistics (SpOracle), loading
  and splits of the processor's graphs (QnnDecode), the residue matmuls and the
  weighted sum (ExpertCache); the device-resident caches, cold storage, the dual cache, partial loads, the predictor
  file, debug and naive modes (KvSession); floats and their rounding, tiling, layout and the allocation of
  device buffers (CrtMatmul; what is in them before they are written is modelled).
* Assumptions of `KvSession`: the kind of cache is the same in every process over one
  directory, and a file that is loaded fits the cache of the process that loads it (a longer one is
  undefined behaviour of the C code). Of `SidecarLink`: a frame is read in halves, and a read that starts in the middle of
one takes a half, fails, and may or may not find the next header. Of `CrtMatmul`: the 64-bit integers that the
quantised numbers pass through and the double that the join returns hold the numbers exactly (an expert's number beyond
2^63, or the precision beyond 2^53, is not modelled); recording a command buffer that is still in the queue
  is undefined in Vulkan; the model lets the late operation do nothing, or do its work on what the host has
  written by then.
* The engine's own generate loop takes the steps of a chat without resets and files, which `KvSession`
  contains.
* Components with status `not_modelled` in `PROJECT.json`, each with its reason: numerical
  kernels behind device APIs, file parsing, scripts, logging and vendored code are
  left out for good; the others are in the plan. The thermal throttle has sensors that
  are never available in this code base, so its state never changes.

## 7. The plan

In this order; the first nine are done.

1. ThreadPool and ForkJoin. *Done, proved.*
2. BeatRule, Heartbeat and its contract. *Done, proved.* SidecarLink. *Done, proved for one client.*
3. SpecDecode. *Done, proved.*
4. ExpertCache and LruCache. *Done, proved.*
5. SpOracle and QnnDecode. *Done, proved.*
6. The KV cache, its files, the reset controller and the two sessions. *Done, proved.*
7. CrtRing and CrtMatmul. *Done, proved.*
8. `ParallelMatmul`: the pool with the row writes of a call between its fork and its join. *Done, proved.*
9. `SidecarLink` proofs: `OwnReply` for one client and any number of calls. *Done.*
10. The device-resident KV cache beside the one on the host, and the dual cache.

The barrier and the shadow thread of the earlier plan are dropped: no caller feeds them.

The modules are written to be proved about: constants with named assumptions, one
action per operation, no recursive operators.

## 8. Running it

    tlc -workers 2 -config MCParallelMatmul.cfg MCParallelMatmul
    tlapm ThreadPoolProofs.tla

`PROJECT.json` lists the module, the configuration and the expected result of every run.
