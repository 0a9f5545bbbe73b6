------------------------------- MODULE CrtMatmul -------------------------------
(***************************************************************************)
(* Matrix products through the two residue rings                           *)
(* (desktop/crt/sp_crt_dispatch.c, sp_crt.c, sp_crt_cuda.cu and            *)
(* sp_crt_vulkan.c).  A hook calibrates the quantisation of its operands   *)
(* and calls sp_crt_matmul, which computes both rings on the host, or      *)
(* sp_crt_matmul_gpu, which copies the residues to the devices, multiplies *)
(* in ring 1 on a CUDA stream and in ring 2 on a second stream or on a     *)
(* Vulkan queue, copies the results back, waits for both and joins them.   *)
(* The expert products of burn_moe_op.cpp call sp_crt_matmul_gpu directly, *)
(* quantised by whatever was calibrated last.                              *)
(*                                                                         *)
(* One element of the product stands for all: a and b are a row and a      *)
(* column of numbers that are scaled and rounded already, and the result   *)
(* is the sum before it is scaled back.  Every device operation of         *)
(* sp_crt_matmul_gpu may fail; its return code is not looked at.  Device   *)
(* buffers are not initialised.                                            *)
(***************************************************************************)
EXTENDS CrtRing, Sequences, FiniteSetsExt

CONSTANTS
  Setups,      \* how the context came up: "cpu", "cuda" or "hetero"
  MaxDim,      \* max_dim of sp_crt_dispatch_init
  Left, Right, \* the numbers tried in a row and in a column
  MaxCalls,    \* bound: the number of calls
  MaxFaults    \* bound: operations that report an error, and devices that hang

\* max_dim is an int, far below the product of the moduli (2^62): the rounded
\* limit of a calibration keeps its distance from the end of the range.
ASSUME MatmulAssumption ==
  /\ Setups \subseteq {"cpu", "cuda", "hetero"}
  /\ MaxDim \in Nat \ {0} /\ 64 * MaxDim <= M1 * M2
  /\ MaxCalls \in Nat /\ MaxFaults \in Nat
  /\ Left \subseteq Int /\ Right \subseteq Int

VARIABLES
  setup,    \* gpu_ready and vk_ring2
  call,     \* the call that runs or ran last
  pc,       \* the next step of sp_crt_matmul_gpu's program, or Idle
  queue,    \* the operations each ring's stream or Vulkan queue still holds
  waiting,  \* the host waits for the Vulkan fence
  fence,    \* the Vulkan fence is signalled
  stuck,    \* the Vulkan device finishes nothing any more
  dev,      \* d_a, d_b and d_c of each ring
  host,     \* h_residue_0 and h_residue_1
  out,      \* the element of the result
  result,   \* "ok", "naive" or "refused"
  faulted,  \* a device operation of the call failed
  calls,
  faults

request == <<call, calls>>
answer == <<out, result>>
vulkan == <<waiting, fence, stuck>>
devices == <<queue, vulkan, dev, host>>
failure == <<faulted, faults>>
vars == <<setup, request, pc, devices, answer, failure>>

Rings == {1, 2}
Modulus(r) == IF r = 1 THEN M1 ELSE M2
Elements == 1 .. MaxDim

-----------------------------------------------------------------------------
(* Quantisation.                                                           *)

\* Rounding q_max = 0.9 * sqrt(M1 * M2 / 2K), or its cap, gives at least q if
\* p = q.  Scaled by the limit of the other, two operands may reach p and q.
Fits(p, q, k) ==
  /\ 50 * k * (2 * p - 1) * (2 * q - 1) <= 81 * M1 * M2
  /\ (2 * p - 1) * (2 * q - 1) <= (M1 - 2) * (M1 - 2)

\* The largest number sp_crt_quant_calibrate_k lets an operand have that is
\* quantised by its own scale.
QMax == [k \in 1 .. MaxDim |-> Max({q \in 0 .. B : Fits(q, q, k)})]

Within(c, la, lb) ==
  \A i \in 1 .. c.k : c.a[i] \in -la .. la /\ c.b[i] \in -lb .. lb

-----------------------------------------------------------------------------
(* Products.                                                               *)

Exact(c) ==
  LET sum[i \in 0 .. c.k] == IF i = 0 THEN 0 ELSE sum[i - 1] + c.a[i] * c.b[i]
  IN  sum[c.k]

Step(r, acc, x, y) ==
  IF r = 1 THEN MersenneStep(acc, x, y)
  ELSE IF setup = "hetero" THEN ShaderStep(acc, x, y)
  ELSE GenericStep(acc, x, y)

\* What is in a word that was never written: anything.
Noise == -1

\* sp_crt_cpu_matmul_mersenne and _mod, the CUDA kernels and the shader.
RingProduct(r, a, b, k) ==
  LET acc[i \in 0 .. k] == IF i = 0 THEN 0 ELSE Step(r, acc[i - 1], a[i], b[i])
  IN  IF \E i \in 1 .. k : Noise \in {a[i], b[i]} THEN Noise ELSE acc[k]

\* The residues of the k numbers of v, written over what the buffer holds.
Split(v, k, r, buffer) ==
  [i \in Elements |-> IF i <= k THEN Residue(v[i], Modulus(r)) ELSE buffer[i]]

-----------------------------------------------------------------------------
(* sp_crt_matmul_gpu: the order in which the host hands out the steps.     *)
Program == << [op |-> "a", ring |-> 1],   [op |-> "b", ring |-> 1],
              [op |-> "a", ring |-> 2],   [op |-> "b", ring |-> 2],
              [op |-> "mul", ring |-> 1], [op |-> "mul", ring |-> 2],
              [op |-> "d2h", ring |-> 1], [op |-> "d2h", ring |-> 2],
              [op |-> "sync", ring |-> 1], [op |-> "sync", ring |-> 2] >>

Idle == 0
Running == pc \in DOMAIN Program
Here == Program[pc]
OnStream(r) == r = 1 \/ setup = "cuda"

\* What a device operation does when the device carries it out.
Effect(op, r) ==
  CASE op = "a"   -> /\ dev' = [dev EXCEPT ![r].a = Split(call.a, call.k, r, @)]
                     /\ UNCHANGED host
    [] op = "b"   -> /\ dev' = [dev EXCEPT ![r].b = Split(call.b, call.k, r, @)]
                     /\ UNCHANGED host
    [] op = "mul" -> /\ dev' = [dev EXCEPT ![r].c =
                                  RingProduct(r, dev[r].a, dev[r].b, call.k)]
                     /\ UNCHANGED host
    [] op = "d2h" -> /\ host' = [host EXCEPT ![r] = dev[r].c]
                     /\ UNCHANGED dev

-----------------------------------------------------------------------------
Init ==
  /\ setup \in Setups
  /\ call = [k |-> 0, a |-> <<>>, b |-> <<>>]
  /\ pc = Idle
  /\ queue = [r \in Rings |-> <<>>]
  /\ waiting = FALSE /\ fence = FALSE /\ stuck = FALSE
  /\ dev = [r \in Rings |-> [a |-> [i \in Elements |-> Noise],
                             b |-> [i \in Elements |-> Noise], c |-> Noise]]
  /\ host = [r \in Rings |-> 0]
  /\ out = 0
  /\ result = "none"
  /\ faulted = FALSE
  /\ calls = 0
  /\ faults = 0

NewCall(c) ==
  /\ pc = Idle
  /\ calls < MaxCalls
  /\ calls' = calls + 1
  /\ call' = c
  /\ faulted' = FALSE

\* The ggml hook computes the product itself when it cannot use the rings;
\* the native hook makes its caller do so, and the expert is left out.
GiveUp(who, c) ==
  IF who = "ggml" THEN result' = "naive" /\ out' = Exact(c)
                    ELSE result' = "refused" /\ UNCHANGED out

\* The operands tried: a column of one number, against all rows.
Tried(k) ==
  [k : {k}, a : [1 .. k -> Left], b : {[i \in 1 .. k |-> q] : q \in Right}]

\* The native hook calibrates each operand to itself.
NativeCalls(k) == {c \in Tried(k) : Within(c, QMax[k], QMax[k])}

\* The ggml hook calibrates each to the range of the other.
Magnitudes(S) == {IF x < 0 THEN -x ELSE x : x \in S}
GgmlCalls(k) ==
  {c \in Tried(k) : \E p \in Magnitudes(Left), q \in Magnitudes(Right) :
                       Fits(p, q, k) /\ Within(c, p, q)}

Hooks == {"ggml", "native"}
Callers == Hooks \union IF setup = "cpu" THEN {} ELSE {"expert"}

\* Which numbers are given up on does not matter.
Ones(k) ==
  [k |-> k, a |-> [i \in 1 .. k |-> 1], b |-> [i \in 1 .. k |-> 1]]

\* A dimension is larger than the context was made for: nothing is calibrated.
TooLarge ==
  \E who \in Hooks :
    /\ NewCall(Ones(MaxDim + 1))
    /\ GiveUp(who, call')
    /\ UNCHANGED <<setup, pc, devices, faults>>

\* The residue buffers cannot be allocated.
NoMemory ==
  \E who \in Callers, k \in 1 .. MaxDim :
    /\ NewCall(Ones(k))
    /\ GiveUp(who, call')
    /\ UNCHANGED <<setup, pc, devices, faults>>

\* Joined with noise the result is no number of the signed range in particular.
Undefined == M1 * M2
Joined(residues) ==
  IF Noise \in {residues[1], residues[2]} THEN Undefined
  ELSE GarnerSigned(residues[1], residues[2])

\* sp_crt_matmul: both rings on the host, one after the other.
ComputeOnHost ==
  /\ setup = "cpu"
  /\ \E k \in 1 .. MaxDim : \E c \in NativeCalls(k) \union GgmlCalls(k) :
       LET zero == [i \in Elements |-> 0]
           InRing(r) == RingProduct(r, Split(c.a, k, r, zero), Split(c.b, k, r, zero), k)
       IN  /\ NewCall(c)
           /\ host' = [r \in Rings |-> InRing(r)]
           /\ out' = Joined(host')
           /\ result' = "ok"
           /\ UNCHANGED <<setup, pc, queue, vulkan, dev, faults>>

\* sp_crt_matmul_gpu.
Launch(c) ==
  /\ setup # "cpu"
  /\ NewCall(c)
  /\ pc' = 1
  /\ UNCHANGED <<setup, devices, answer, faults>>

StartNative == \E k \in 1 .. MaxDim : \E c \in NativeCalls(k) : Launch(c)
StartGgml == \E k \in 1 .. MaxDim : \E c \in GgmlCalls(k) : Launch(c)

\* expert_ffn_one_token calibrates nothing: a weight or an activation larger
\* than those of the last calibration gives a number past every limit.
StartExpert == \E k \in 1 .. MaxDim : \E c \in Tried(k) : Launch(c)

-----------------------------------------------------------------------------
Enqueue ==
  /\ Running /\ Here.op # "sync" /\ OnStream(Here.ring)
  /\ queue' = [queue EXCEPT ![Here.ring] = Append(@, Here.op)]
  /\ pc' = pc + 1
  /\ UNCHANGED <<setup, request, vulkan, dev, host, answer, failure>>

\* The driver refuses the operation.
Refused ==
  /\ Running /\ Here.op # "sync" /\ ~waiting
  /\ faults < MaxFaults
  /\ faults' = faults + 1
  /\ faulted' = TRUE
  /\ pc' = pc + 1
  /\ UNCHANGED <<setup, request, devices, answer>>

\* The operations of a stream are carried out in the order they were enqueued.
StreamRuns(r) ==
  /\ OnStream(r) /\ queue[r] # <<>>
  /\ Effect(Head(queue[r]), r)
  /\ queue' = [queue EXCEPT ![r] = Tail(@)]
  /\ UNCHANGED <<setup, request, pc, vulkan, answer, failure>>

\* An error on a stream makes everything behind it fail too.
StreamFails(r) ==
  /\ OnStream(r) /\ queue[r] # <<>>
  /\ faults < MaxFaults
  /\ faults' = faults + 1
  /\ faulted' = TRUE
  /\ queue' = [queue EXCEPT ![r] = <<>>]
  /\ UNCHANGED <<setup, request, pc, vulkan, dev, host, answer>>

\* submit_and_wait: the fence is reset, the operation handed to the queue.
VulkanSubmit ==
  /\ Running /\ Here.op # "sync" /\ ~OnStream(Here.ring) /\ ~waiting
  /\ queue' = [queue EXCEPT ![2] = Append(@, Here.op)]
  /\ waiting' = TRUE /\ fence' = FALSE
  /\ UNCHANGED <<setup, request, pc, stuck, dev, host, answer, failure>>

\* An operation that is carried out after the host gave it up: the command
\* buffer and the staging buffer may have been written over by then.
LateEffect(op) ==
  \/ UNCHANGED dev
  \/ op \in {"a", "b"} /\ \E v \in {call.a, call.b} :
       dev' = [dev EXCEPT ![2][op] = Split(v, call.k, 2, @)]
  \/ op = "mul" /\ dev' = [dev EXCEPT ![2].c =
                             RingProduct(2, dev[2].a, dev[2].b, call.k)]

\* The one fence is signalled by whichever operation ends.
VulkanRuns ==
  /\ setup = "hetero" /\ queue[2] # <<>> /\ ~stuck
  /\ LET op == Head(queue[2])
         awaited == waiting /\ Len(queue[2]) = 1
     IN  \/ ~awaited /\ LateEffect(op) /\ UNCHANGED host
         \/ awaited /\ op = "d2h" /\ UNCHANGED <<dev, host>>  \* to the staging buffer
         \/ awaited /\ op # "d2h" /\ Effect(op, 2)
  /\ queue' = [queue EXCEPT ![2] = Tail(@)]
  /\ fence' = TRUE
  /\ UNCHANGED <<setup, request, pc, waiting, stuck, answer, failure>>

\* vkWaitForFences returns; the host copies a result out of the staging buffer.
VulkanReturns ==
  /\ waiting /\ fence
  /\ waiting' = FALSE
  /\ host' = IF Here.op = "d2h" THEN [host EXCEPT ![2] = dev[2].c] ELSE host
  /\ pc' = pc + 1
  /\ UNCHANGED <<setup, request, queue, fence, stuck, dev, answer, failure>>

VulkanHangs ==
  /\ setup = "hetero" /\ queue[2] # <<>> /\ ~stuck
  /\ faults < MaxFaults
  /\ faults' = faults + 1
  /\ stuck' = TRUE
  /\ UNCHANGED <<setup, request, pc, queue, waiting, fence, dev, host, answer, faulted>>

\* Mutant: the fence is waited for without a limit.
NeverExpires == FALSE

\* The fence is waited for 5 seconds.
Expires == waiting /\ ~fence

\* The device is slow or hangs: the host goes on, the operation stays queued.
VulkanTimesOut ==
  /\ Expires
  /\ stuck \/ faults < MaxFaults
  /\ faults' = IF stuck THEN faults ELSE faults + 1
  /\ faulted' = TRUE
  /\ waiting' = FALSE
  /\ pc' = pc + 1
  /\ UNCHANGED <<setup, request, queue, fence, stuck, dev, host, answer>>

\* Mutant: the Vulkan queue is taken to be idle once its fence was waited for.
StreamDrained(r) == OnStream(r) => queue[r] = <<>>

\* cudaStreamSynchronize and vkDeviceWaitIdle; the latter knows no time limit.
Drained(r) == queue[r] = <<>>

Sync ==
  /\ Running /\ Here.op = "sync" /\ Drained(Here.ring)
  /\ pc' = pc + 1
  /\ UNCHANGED <<setup, request, devices, answer, failure>>

Join ==
  /\ pc = Len(Program) + 1
  /\ out' = Joined(host)
  /\ result' = "ok"
  /\ pc' = Idle
  /\ UNCHANGED <<setup, request, devices, failure>>

Next ==
  \/ TooLarge \/ NoMemory \/ ComputeOnHost \/ StartNative
  \/ StartGgml \/ StartExpert
  \/ Enqueue \/ Refused \/ VulkanSubmit \/ VulkanRuns \/ VulkanReturns \/ VulkanHangs
  \/ VulkanTimesOut \/ Sync \/ Join
  \/ \E r \in Rings : StreamRuns(r) \/ StreamFails(r)

(***************************************************************************)
(* The host goes on while it can, a time-out included; a CUDA stream       *)
(* carries out what it holds, and so does the Vulkan queue until it hangs. *)
(***************************************************************************)
Fairness ==
  /\ WF_vars(Enqueue) /\ WF_vars(VulkanSubmit) /\ WF_vars(VulkanReturns)
  /\ WF_vars(VulkanTimesOut) /\ WF_vars(VulkanRuns)
  /\ WF_vars(Sync) /\ WF_vars(Join)
  /\ \A r \in Rings : WF_vars(StreamRuns(r))

Spec == Init /\ [][Next]_vars /\ Fairness

-----------------------------------------------------------------------------
(***************************************************************************)
(* What is in the buffers of a ring is of that ring, or was never written; *)
(* and noise is joined only when an operation of that very call failed.    *)
(***************************************************************************)
Residues(r) == 0 .. Modulus(r) - 1
Cells(r) == Residues(r) \union {Noise}

TypeOK ==
  /\ setup \in Setups
  /\ pc \in Idle .. Len(Program) + 1
  /\ \A r \in Rings :
       /\ queue[r] \in Seq({"a", "b", "mul", "d2h"})
       /\ host[r] \in Cells(r) /\ dev[r].c \in Cells(r)
       /\ \A i \in Elements : {dev[r].a[i], dev[r].b[i]} \subseteq Cells(r)
       /\ pc = Idle /\ result = "ok" /\ ~faulted => host[r] \in Residues(r)
  /\ result \in {"none", "ok", "naive", "refused"}
  /\ {faulted, waiting, fence, stuck} \subseteq BOOLEAN

\* The shader meets a pair whose sum passes its word.
ShaderWraps(c) ==
  /\ setup = "hetero"
  /\ \E i \in 1 .. c.k : SumWraps(Residue(c.a[i], M2), Residue(c.b[i], M2))

(***************************************************************************)
(* A call that returns a result returns the product, sign included, if its *)
(* operands are within the limits of a calibration for it (the native      *)
(* hook's always are), and otherwise, as for the ggml hook and the         *)
(* experts, the product up to multiples of the combined range: on every    *)
(* path, in every interleaving of the host with the two devices, right     *)
(* after a call whose operations failed or are still queued.  Nothing is   *)
(* promised of a call of which an operation failed itself (the return      *)
(* codes are dropped) or with a pair that wraps in the shader.             *)
(***************************************************************************)
Limited(c) == c.k \in 1 .. MaxDim /\ Within(c, QMax[c.k], QMax[c.k])

ProductExact ==
  pc = Idle /\ ~faulted =>
    /\ result = "naive" => out = Exact(call)
    /\ result = "ok" /\ ~ShaderWraps(call) =>
         /\ out = Wrapped(Exact(call))
         /\ Limited(call) => out = Exact(call)

(***************************************************************************)
(* Every call returns, whatever fails, unless the Vulkan device hangs - and *)
(* then the host gets past every fence, by its time limit, as far as the   *)
(* final vkDeviceWaitIdle, which has none.                                 *)
(***************************************************************************)
AwaitsIdle == stuck /\ Running /\ Here = [op |-> "sync", ring |-> 2]
CallsReturn == pc # Idle ~> pc = Idle \/ AwaitsIdle
=============================================================================
