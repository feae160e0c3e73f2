# A verification project for cuInfer (nano-vllm.cpp)

cuInfer serves a language model over HTTP. A Python process (`src/cuinfer/`)
accepts requests and owns a child process, the engine core
(`src/csrc/engine/`), which batches the requests, runs the model on a GPU and
sends tokens back over ZeroMQ sockets. This directory holds TLA+ modules of
that system, TLC configurations that check them on small instances, and proofs
of the results that matter most for every size of the system.

Source paths below are relative to `src/`.

## 1. The system

| part | state | operations | talks to |
|---|---|---|---|
| KV block pool `csrc/scheduler/kv_cache_manager.cpp` | free list, block table per request | `allocate_slots`, `release_blocks` | called by the scheduler |
| Scheduler `csrc/scheduler/scheduler.cpp` | three lists (running, preempted, waiting), map from id to request | `add_request`, `abort_requests`, `schedule` (two passes), `update` | pool; its entries go to the model runner |
| Model input, batch buffer `csrc/executor/model_input.cpp`, `batch_buffer.cpp` | one device buffer and its pinned twin | flatten a step's entries, upload, download the samples | model runner |
| Model runner, KV cache `csrc/executor/model_runner.cpp`, `kv_cache.cpp`, `csrc/ops/unified_kv_cache_update.cu` | slots of keys and values, in-flight samples | `run_model`, `finish` | everything on the device |
| Paged attention `csrc/ops/paged_attention.cu` | shared memory and copies in flight of a thread block | grid of tiles, search, mask, barriers, online softmax | reads the KV cache through block tables |
| Row kernels `csrc/ops/*.cu`, `csrc/model/rope_cache.cpp` | registers, shuffled between lanes | embedding, norms, rotation, residual, swiglu, cache update, projection | activations, weights |
| Sampler `csrc/ops/sampler.cu` | scratch rows | top-k, temperature, top-p rejection sampling | logits in, token out |
| Workspace and model `csrc/executor/workspace.cpp`, `csrc/model/causal_lm.cpp` | activations that share one buffer | forward pass, logits | kernels |
| Weights `csrc/model/model_weights.cpp` | device buffer, views | plan, upload, views | read by the kernels |
| Engine core `csrc/engine/engine_core.cpp` | two sockets, the scheduler, the runner | receive, step, send | parent process |
| Protocol `csrc/engine/protocol.h`, `cuinfer/protocol.py` | — | ADD, ABORT, SHUTDOWN; READY, OUTPUTS | both processes |
| Engine client `cuinfer/engine.py` | futures `_ready`, `_exited`, `_dead`, queue per request, reader and close tasks | `start`, `generate`, `abort`, `close`, `_on_exit` | server above, engine below |
| Server, tokenizer, launcher `cuinfer/server.py`, `tokenizer.py`, `__main__.py` | a stream per request | HTTP handlers, incremental detokenization, watchdog | engine client |
| CUDA context and buffers `csrc/cuda/` | device allocations, the stream, pinned memory | allocate, resize, move, free; asynchronous copies, synchronize | every member of the runner |
| Model config `csrc/model/model_config.cpp`, `load_model` in `cuinfer/tokenizer.py` | — | read config.json and generation_config.json | both processes, each on its own |
| Tensor, logging, bindings | — | — | — |

What is hard about it:

* **Long sequences of legal calls.** A request is chunked, preempted, computed
  again and aborted at any of these points, and five data structures (lists, map,
  status, block table, free list) must agree each time.
* **Stale data on the device.** Blocks are reused without being cleared, tables
  are padded with a real block's number, samples land on top of the step's input,
  activations share memory.
* **Threads of a kernel.** Warps share memory that asynchronous copies fill; lanes
  exchange words and sums by index arithmetic that depends on the shapes.
* **The host and the stream.** Calls return before the device has done anything; one
  pinned buffer serves every step, and pointers outlive the moves of the buffers they
  point into.
* **Interleavings in one asyncio loop.** `generate`, `abort`, `close`, the reader
  and the exit callback share futures and a dictionary and change them between
  awaits.
* **Process failure.** The engine dies in the middle of a step, hangs, or is
  killed while messages are under way; sends block when the other end is slow.
* **Endless loops.** The scheduler could preempt in circles, the sampler rejects
  in an unbounded loop inside a kernel, the engine waits without a timeout.

`PROJECT.json` lists these hazards at their lines with the properties that would
catch them.

## 2. Modules

```
 KVCacheManager <- Scheduler <- SchedulerProperties <- EngineCore <- MCEngineCore
                        |            |    |                 \--- refines EngineService
                        |            |    \--- refines RequestQueue
                        |            \- ModelExecution <- MCModelExecution
                        |                  (+ ModelInput, PagedAttention, BatchBuffer)
                        \- SchedulerInvariant
 EngineService <- EngineClient <- EngineClientProperties <- MCEngineClient
                        |            \--- refines GenerationService
                        \--- Server <- MCServer
 Detokenizer
 WarpReduce <- OnlineSoftmax, RowKernels
 ModelInput, PagedAttention, AttentionBlock, OnlineSoftmax, RowKernels <- MCKernels
 DeviceMemory, DeviceStream <- ModelRunner <- MCModelRunner
 Sampler <- MCSampler
 ModelConfig <- ModelWeights, Workspace <- CausalLM <- MCCausalLM
 proofs: SequenceLemmas, SchedulerProofs, ModelExecutionProofs, EngineCoreProofs,
         ServerProofs (of EngineClient, Server and Detokenizer), ModelRunnerProofs,
         CausalLMProofs, KernelProofs (of PagedAttention, AttentionBlock and Sampler)
```

**KVCacheManager.** `freeBlocks` and `allocatedBlocks` are `free_blocks_` and
`req_to_allocated_blocks_`; the actions are the two operations, with the
assertions as a contract (`AllocateContract`) that the scheduler is shown to keep.

**Scheduler.** The lists, the map and the locals of `schedule()`. Both passes of
`schedule()` and the loop of `update()` are one action per iteration
(`ScheduleRunning`, `PreemptTail`, `AdmitNext`, `UpdateToken`, …), and `phase`
says which loop runs: a property is therefore checked between two iterations as
well. `AddRequest` and `AbortRequest` happen between steps, as in the engine
thread. Of the tokens of a request only the number is kept; which token is
sampled is the choice of `stop`.

**RequestQueue** is what "FCFS, preemptive" means: one line in order of arrival,
those served are always its front. `SchedulerProperties` maps the three lists to it.

**ModelInput, PagedAttention, BatchBuffer, ModelExecution.** A key, a value or a
row of logits is represented by the token it belongs to, `<<id, position>>`, so
that a wrong slot, a wrong row or somebody else's data is visible. `ModelInput`
flattens a step, `PagedAttention` says which keys each row of each tile reads,
`BatchBuffer` where each array lies. `ModelExecution` runs them on every step the
scheduler makes.

**AttentionBlock** is one thread block of that kernel: `pc` says where each warp is
between two `__syncthreads`, `inFlight` which groups of `cp.async` it has committed and not
yet seen land, `smem` what the cells of the shared memory hold. A cell is `[c][r]`, copied by
warp `c` and in the rows of warp `r`, which is as much of the layout as the barriers are about.
`Land` may happen at any time; `WaitKeys` and the like are `cp_async_wait_group<n>`.
**OnlineSoftmax** is what the lanes of one row do with their scores (`SoftmaxStep`, `Rebased`,
`Rescale`), in exact arithmetic on powers of two, compared with the softmax itself.

**RowKernels** writes each remaining kernel as the set of its writes: which thread, which
cell, which term (a sum of these elements, this element times that cosine …). `Computes` says
that the writes are the promised ones, each made once, and that no thread reads what another
writes. The index arithmetic is the kernels' own: `Gathered`, `Exchanged`, `CacheIndex`,
`RotatedPairs` and `Scattered` are the words, shuffles, swaps and angles of `rope.cu`, which
`RotationOf` then describes in one line. **WarpReduce** has the butterfly of shuffles.

**DeviceMemory** is `CudaDeviceBuffer`: the live allocations, what each buffer object holds,
and a device that may break, after which nothing can be freed. **DeviceStream** is a step
between the host and the stream: what the pinned memory and the device's copy of it hold,
operations that execute in order at any later time, and `Synchronize`. **ModelRunner** puts
both in the life of the engine process. `StartRunner` is the reading of the model's directory
by parent and engine; `Program` lists what the constructors do, in the order of the members
and with the locals and temporaries a buffer passes through; any instruction may fail, and
then `Unwind` destroys what exists, the last constructed first. A copy that fails leaves the
device broken: from then on the frees fail as well, of buffers, of the pinned memory and of
the context. An object whose constructor fails is not destroyed (`OpenContext`).

**EngineCore** wraps the scheduler in the process' loop: blocking and
non-blocking receives, dispatch, step, send. It may die between any two actions.
**EngineService** is the process as the protocol header describes it; its actions
are abstract (a set of requests worked on, a number of answers each).

**EngineClient** is the other side, composed with `EngineService` as its engine.
What a coroutine does from one await to the next is one action; futures, the
dictionary of queues, the sends that wait in the PUSH socket and the positions of
the tasks are its state.
**GenerationService** is what is left of all this for a caller of `generate()`: a call that is
open or has come to one of its ends, outputs made and given, and whether the client is down.
It says nothing of queues, tasks or messages; `CallState` maps the places of a coroutine to it,
`gone` is an engine that has stopped, known or not, and `down` a client dead or closing.

**Server** extends the client with what calls it: the handler of each request, in one
piece or as a stream, and `serve()`. A handler's state is where it is suspended (before
the head of a stream, between two frames, in the error or the `[DONE]` frame, in its
cleanup); `Digest` is what it does with what `generate()` came back with. A stream goes on
only when its frame has been sent (`FrameSent`), at the pace of its reader, who may also go
away (`Disconnect`). `ShutDown` is the end of uvicorn's drain: all handlers gone or
cancelled, then `engine.close()`.

**Detokenizer** is `IncrementalDetokenizer` over tokens that are words, parts of a
character, special or final.

**Sampler** takes one row through the two kernels, with the split of the row over
threads and tiles. **ModelConfig, ModelWeights, Workspace, CausalLM** load a
safetensors file into one allocation with views and run the operators of a pass
row by row over shared memory.

A definition preceded by `\* variant:` is not part of any specification. It is the
form the definition after it would have with a plausible mistake, and is put in its
place to see that the properties notice (`mutants` in `PROJECT.json`).

## 3. Runs

| run | what it asks | instance |
|---|---|---|
| `scheduler` | blocks exclusive and never leaked, tables stable, assertions hold, entries of a step current, chunk only at the tail, oldest advances, FCFS | 3 ids, 4 blocks of 2, length 7, budget 3, prompts of 1, 3, 6 |
| `kernels` | causality exact and every row in one tile, for every batch of up to 3 requests; shared memory intact in every interleaving of a thread block; the softmax exact; every row kernel what it promises | groups of 3, tiles of 4 rows × 3 keys; 3 warps, 2 key steps; rows of up to 6 scores, a gap of 1; the supported hidden sizes and heads |
| `execution` | attention reads only the request's own tokens, samples come from the last token, uploads fit, array by array | as `scheduler` |
| `engine_core` | one output per token; the process implements `EngineService`; every request answered, SHUTDOWN obeyed | 2 ids, 3 blocks of 2, length 6, outboxes of 2 |
| `client` | no output lost or doubled, no wait for what cannot come, no orphan and no ABORT ahead of its ADD; the client implements `GenerationService` | 2 ids, 2 outputs each, socket of 1 |
| `client_liveness` | with an engine that may hang: `close()` ends and releases everybody; with one that answers: `start()` and every `generate()` end | 1 id |
| `server` | responses end as promised, nothing left behind by a handler or by `serve()`, `serve()` ends | 1 id, 3 outputs, socket of 1 |
| `detokenizer` | the pieces joined are the text | prompts of up to 3 tokens of which 2 are kept, 5 tokens |
| `sampler` | top-k exact with ties, draws proportional, nucleus, loop ends | 5 logits of 4 values, 2 threads |
| `sampler_small_top_p` | **violated**: the sampler does not end for a tiny `top_p` | as above |
| `model_runner` | pointers live and memory owned once, all given back, admitted requests fit, steps separated | 100 bytes of device memory of which others take 0 to 85, 3 lengths, 5 forms of each end-of-sequence field, 3 steps |
| `model_memory` | weights whole under every view, sharing of activations invisible | 2 layers, 3 rows, files in every rotation of the planned order and five others |

Why the bounds are enough to meet the interesting cases:

* Scheduler: 4 blocks of 2 slots hold one request of the longest length (7 tokens)
  but not three, so pass 1 preempts others and itself, several times in one step;
  a budget of 3 cuts a prompt of 6 in chunks and a request of 3 + 3 tokens over
  two steps when it is computed again; a prompt of 6 meets `max_model_len` after
  one token, the others `max_output_tokens`. Ids come back after a request left,
  which the frontend does not even do, so runs go on for ever; only
  `ModelExecution` uses each once. Symmetry is over ids and used for safety only.
* Attention: query lengths 1, 2, 3, 5 times a group of 3 give tiles that are
  exactly full, partly full and several per request, and prefixes 0, 2, 3 put the
  causal edge before, at and after a step of keys.
* Thread block: with three warps one can be ahead, one behind and one in between; two key
  steps are enough to load a tile over one that is still read, and the output over the last
  keys. `KernelProofs` has no bound.
* Softmax: two keys a step and scores 0, 1, 2, 5 with a gap of 1 give steps that stay, that
  exceed the reference by the gap exactly and that exceed it, up to three in a row.
* Row kernels: the warp, the vector and the sizes 1024 and 2048, 64 and 128 are the code's
  own. The threads of the strided loops are scaled down (8, 2) so that rows of 8 to 60
  elements take none, one or several rounds, with and without a tail.
* Runner: other users' bytes are chosen so that on some device the first allocation to fail is
  that of the weights, of the angles, of the sampler, of the workspace or of the batch, on
  others the check of the pool fails, and on the rest nothing. The pool's own allocation takes
  what profiling found free and cannot fail while others take no more (section 6). The calls
  of the context, the copies and the pinned memory may fail on every device. The sizes
  differ, so that a wrong one shows.
* Engine: outboxes of 2 messages fill up, so that the send blocks; two requests
  compete for blocks that hold one of the longer.
* Client: an input socket that takes 1 message makes ADD, ABORT and SHUTDOWN wait.
  In the liveness runs one id suffices for this, since the messages of one request
  and SHUTDOWN already compete for that place; per-id fairness makes ids independent
  otherwise, and the safety run has two.
* Server: handlers share nothing but the client, so one is enough here; three outputs
  make a first, a middle and a last frame. The close of the server meets a handler in each
  of its states.
* Detokenizer: a character has three bytes in two tokens or more, a completion five tokens, so
  that a character can be completed, broken off or begun anew, and the kept context of 2 may
  begin within one.
* Sampler: every row of 5 logits out of four bit patterns, a positive one, minus
  zero and two negative ones, in two pairs that share the high radix digit: ties at
  the threshold, a threshold found in either digit, and weights of zero all occur.
* Memory: an alignment of 4 elements against sizes that are not multiples of it. Rotations,
  the reverse and the odd places before the even ones separate every pair of tensors that
  a fused view joins and put either first; a tensor of no use shifts all offsets. That any
  other order does as well is proved (`WeightsAreWhole`).

CHECK_DEADLOCK FALSE is used where the system really stops: the engine after
SHUTDOWN, the client after `close()`, the server after `serve()`, the detokenizer at its
bound, the sampler after its token, a load that failed, the runner at its end, and the
thread block and the enumeration of batches in `kernels`.

### Fairness

* `FairEngineSpec`: the engine thread is not stopped by the
  system, one weak fairness on its step; the parent keeps collecting outputs
  (`_read_outputs` loops for as long as the client is open). Nothing is assumed
  about when messages come. That every request leaves the scheduler is part of
  `EveryInputServed`.
* `FairClientSpec`: an asyncio loop runs every ready callback, one weak fairness on
  `LoopStep` as a whole; consumers come back for the next output. Users are free to
  cancel, abort, close or do nothing. The engine may hang.
* `EngineKeepsGoing` is a premise of `EveryCallEnds`, not a part of the specification:
  the engine becomes ready or dies, takes its messages and finishes each request, which
  is what `EveryInputServed` shows of `EngineCore`.
* `FairServerSpec`: one weak fairness on `ServerStep`, what the asyncio loop does by
  itself. Nothing is assumed of readers (a frame may never be sent), and the engine may
  hang. uvicorn gives up waiting after `timeout_graceful_shutdown`, so that `ShutDown`
  is part of that step.
* `SamplerSpec`: a launched kernel runs on. Its rounds draw any token a uniform
  number can lead to, so `SamplingEnds` holds without any assumption on chance.

## 4. What is proved

All for every value of the constants that satisfies the named assumptions. Those are
sizes greater than zero, prompts shorter than `max_model_len` (`protocol.h:36-38`), and
`PoolAssumption`: the pool holds one request of the longest length, which
`engine_core.cpp:114` enforces at start-up.

* `SchedulerProofs`, the block pool: with any caller that keeps the contract, no block is
  held twice (`KVExclusive`), none is lost (`KVNoLeak`), tables only grow or go
  (`KVTablesStable`).
* `SchedulerProofs`, the scheduler: `SchedInvariant` is the inductive invariant and the theorems
  `SchedQueuesConsistent` … `SchedOneOutputPerStep` are its consequences. That the
  lists, the map and the status fields agree (`QueuesConsistent`) is proved and no longer run.
  Every step of the scheduler is one of `RequestQueue` or a stutter
  (`SchedFirstComeFirstServed`), and its use of the pool is one of `KVCacheManager`'s
  (`SchedKeepsPoolContract`).
* `ModelExecutionProofs`: executing the steps leaves the scheduler what it is
  (`ExecImplementsScheduler`), no key is lost between the step that computes it and those that
  need it (`ExecCacheHolds`), each request attends to its own tokens
  (`ExecReadsOwnTokens`), each row to the keys up to its own and no others
  (`ExecAttendsCausally`), samples come from the last token of their request
  (`ExecSamplesFromLastToken`), and the arrays of a step fit their buffer (`ExecUploadFits`).
* `EngineCoreProofs`: the engine process runs the scheduler
  (`EngineImplementsScheduler`), sends one output per token however often a request
  is computed again (`EngineOneOutputPerToken`), and implements `EngineService`
  (`EngineImplementsService`), which is what the client is checked against.

* `CausalLMProofs`, the workspace: whatever an operator is about to read is what was last
  written to that view (`WorkspaceSharing`), for any model, batch and alignment and the rows
  of an operator in any order.
* `CausalLMProofs`, the weights: once a model is loaded, every view holds its tensors' elements,
  whole and in order (`WeightsAreWhole`), for any sizes, alignment and chunk, either choice of
  the configuration, and any well-formed file (`WellFormed`, with which `ModelSpec` begins):
  its tensors in any order, any others among them, any names (`OtherNames`) and any length.
  What is missing or cut off is refused (`BuildPlan`).
* `KernelProofs`, attention: for any batch and any sizes of a tile, one tile computes each row,
  finds its request and reads the keys up to the row's own position
  (`KernelsCausalAttention`). `BlockInv` is inductive (`BlockInvariant`), and no warp reads a
  cell that has not landed or that is being overwritten (`BlockSharedMemoryIntact`), for any
  number of warps and key steps. Of the batches that the run enumerates it is assumed that
  requests have at least one row (`BatchesAssumption`); `ExecAttendsCausally` is the same
  fact about the batches that the scheduler makes, without it.
* `KernelProofs`, the sampler: for any row, radix, number of threads and width of a load the
  cutoff of top-k is exact with all ties (`SamplerTopK`), a round draws each token in
  proportion to its weight (`SamplerDraws`), and no round loses a token of the nucleus nor
  accepts another (`SamplerNucleus`).
* `ServerProofs`, the client: `ClientInv` is inductive for any number of requests, of outputs and
  of messages in the socket (`ClientInvariant`); no output is lost or doubled
  (`OutputsKept`), nobody waits for what cannot come (`NobodyWaits`), the engine has no
  request that nobody wants (`NoOrphans`), and outcomes are justified
  (`OutcomesAreJustified`). The client with its engine implements `GenerationService`
  (`ClientImplementsGeneration`); the run checks this in place of `OutcomesJustified`, which
  follows from it.
* `ServerProofs`, the server: `ServerInv` is inductive on top of the whole client (`ServerInvariant`);
  streams and responses are what they claim to be (`ResponsesAreFaithful`), and nothing of
  a request outlives its handler nor an engine process `serve()` (`NothingIsLeftBehind`).
* `ServerProofs`, the detokenizer: for any prompt, tokens and kept context the pieces are a
  beginning of the text, and all of it whenever it ends with a whole character
  (`DetokenizerPiecesFaithful`).
* `ModelRunnerProofs`: any program that creates, resizes, moves and destroys buffers keeps
  one owner per allocation (`BuffersOwnMemory`); the runner's program is one of them. For
  any device and any models, wherever the start or a step fails (`RunnerInvariant`): views
  point where their members' buffers are (`RunnerViewsLive`), everything is given back if the
  device works to the end, but for the handle of a context whose constructor failed
  (`RunnerGivesBack`), admitted requests fit the pool and the pool fits the budget
  (`RunnerAdmits`), and steps on the stream do not mix (`RunnerStepsSeparated`).
  Of a model's directory it is assumed only that `maxModelLen` is not zero, which
  neither reader of the directory asks (`Inputs`).

The workspace's invariant (`PassInv`) says which views live after each operator (`LiveAfter`:
a later operator reads them) and that all their rows are intact but for those the running
operator has still to write; that is not inductive unless it also says so of what is still to
be read. A step keeps it because a row that is written shares no element with a live row
other than itself nor with one that another row of the operator reads (`Separate`). Most
views that meet there are apart as a whole (`Placement`); `gated` lies on `gate_up` with the
same stride, so that different rows are apart; and `sampling_hidden` may reach into the
residual it is gathered from, but not with as many rows as a step has tokens (`ApartGather`).
The rows sampled are as many as the tokens at most since they increase (`Increasing`).

`WeightsInv` says of the loading that each element of each tensor is in its place or that a
copy plan which is left will still bring it, the plan in progress only beyond what it has
copied. A chunk touches no other tensor, because the places that `build_plan` hands out
follow one another (`PlacesApart`), and it reads the right elements whatever tensors come
before it in the file, because an offset in the file is the sum of their sizes
(`SourceOffset`) and no two tensors there are the same, each being named once (`FilesDistinct`). A joined view is
whole because the places of its parts leave no gap: all but the first are not aligned
(`ViewsCovered`), and name and layer determine a tensor's place (`PlannedOnce`).

`BlockInv` says that between two barriers all warps are in the same stage of the same step,
and for each stage what each warp's row of a region holds or will hold when its copies have
landed. The one delicate stage is the load of the keys: the values of the step may land
before the keys, and a warp that is at the barrier already may still have values in flight;
what is safe to read is then only the keys, which is what `wait_group<1>` promises.

A batch is a sequence of rows, cut into tiles by offsets that are sums over the requests. The
search of a tile for its request ends at the last offset that is not beyond it, offsets
increase strictly because every request has a row, and so a row lies in exactly one tile of
one request (`RowsCovered`); the key steps of the tile reach its last row, and the mask
leaves of them what the row may see (`RowsCausal`).

`SamplerInv` says what each buffer of the sampler holds at each barrier. The range of a tile,
and of all tiles merged, is the largest logit at its least index, because `MergeRange` keeps
one of its arguments and the order of merging does not matter. The histograms add up to the
numbers of keys with each high digit; the radix select finds the digit at which fewer than k
keys are above and at least k reach it, for the high digit and again for the low one, so that
fewer than k keys exceed the key it puts together and at least k reach it: that is the k-th
largest. A draw is proportional since both levels of the sums cut an interval into stretches
as long as the weights (`Shares`): threads have disjoint intervals, and the passes of a bucket
read each token of its thread once. The rounds keep every token of the nucleus because a low
bound that is not 0 has at least the target mass above it. The proofs rest on sums over finite
sets (`SumOf` in `SequenceLemmas`), which the fold of the library is shown to compute
(`SumAlong`), with induction from least counterexamples.

The invariant (`SchedulerInvariant`) is needed in this strength because of three
arguments that no single property carries:

1. *Chunks.* Only the last running request may lack more than one token
   (`TailLacksMore`). When the budget runs out it does so at the last entry
   (`InSchedule`: an entry that does not sample is last and left no budget), so
   what is behind it was admitted later or not at all. For this pass 1 must have
   budget left for one token of each request still to come (`InPass1`), which
   holds since at most `max_num_scheduled_tokens` requests run (`RunningBounded`).
2. *The oldest always fits.* `BlocksMatchComputed` and exclusiveness imply that
   when only the oldest runs all other blocks are free; a live request has fewer
   than `MaxModelLen` tokens (`RequestSane`), so by `PoolAssumption` its allocation
   succeeds. Hence pass 1 never preempts it and no step with a live request is empty.
3. *Updates.* The entries left in `update()` are running requests, each once, and
   every request that lacks nothing is among them (`InUpdate`), so the next step
   again has something to compute for everybody.

The execution of the steps rests on `SchedInv`, which holds of it because it implements
`SchedSpec`, and on one fact more for each property. *Cache* (`CacheHolds`): the slot of each
computed token of a running request holds that token's key, or the token belongs to an entry
of the step that is being scheduled (`Pending`), since the host counts tokens as computed
before the device has seen them. It survives because tables only grow while a request runs,
because a preempted request counts nothing as computed, and because an executed step writes
to slots no two tokens share (blocks are exclusive), each of them pending. *Samples*
(`SampledInv`): what is left of the samples matches what is left of the entries in `update()`,
in order, and each is of a request whose number of tokens has not changed since. *Budget*
(`BudgetSpent`): the tokens of the entries and the budget left add up to the limit, so that
no array of a step outgrows what `create()` reserved. The arrays are recursive functions of
the entries; `RecursionUpTo` and `InductionUpTo` (`SequenceLemmas`) say what such a function
is at each step, from least counterexamples.

`ClientInv` follows a request along its two ways. *To the engine*: inbox and waiting sends
are one pipe, in which an ADD occurs once and before the ABORT of its request (`PipeOK`), so
that an engine which has, or will have, a request that is not registered will also find its
ABORT (`WantedOK`). *Back*: an end (`EngineDied` or `None`) is the last item of its queue and
only of a request no longer registered (`QueueOK`, `WaitOK`); what was consumed, waits in the
queue and is in the outbox adds up to what was answered (`CountOK`); and nothing follows a
final output (`OutboxOK`), so that a consumer which has seen it has seen all. The engine
answers at most `MaxOutputs` times and less while it works (`PipeOK`).

For the refinement of `GenerationService` three facts are missing (`CallOK`), inductive beside
`ClientInv`: no ADD of a refused call is anywhere, so that nothing is made for it; the queue of
an aborted call has no output left, so that none is given; and an end without an error in the
queue of an open call comes from an abort. Every step is then one of the service or seen by no
caller (`UnseenStep`): a request that the engine answers is a call that was let in and has not had
its final output (`AnswerSeen`), and an output taken from a queue is one that was made and not
yet given, the last made if it is final (`GiveSeen`, from `CountOK`).

The server uses the client in three ways that no action of `ClientNext` covers: an output
is dropped when its decode raises, a response in one piece takes output after output
without a pause, and a second cancellation drops an ABORT that waits to be sent. The first
two keep all of `ClientInv`. The third breaks `WantedOK`, the promise that an abandoned
request has its ABORT on the way. So `ClientInv` is split: `ClientCore` is what holds
however the client is used, and each step is shown to keep `WantedOK` separately
(`WantedKept`). `ServerInv` is `ClientCore`, `WantedOK` until the close task exists
(`ServerWanted`; only the end of `serve()` cancels twice, `ServeOK`), where the
generate() of each handler is (`HandlerOK`), and which frames it has sent (`FramesOK`: only
texts, as many as outputs were consumed; these and a last frame; all of it). For the
frames to be bounded an output in the queue must count as answered, hence the inequality
in `CountOK`, which holds after a cancellation too.

`RunnerInv` has five parts. `StreamInv` says which operations of a step are still queued and
what the device has done already: the pinned memory is not written before the last download
that reads it; `Idle` that no step is under way before the model runs, so that a copy of the
start-up that fails meets an empty stream. `MemoryInv` is ownership, with numbers of allocations never used
again (`MemoryTypeOK`), so that a new allocation cannot have an owner yet. `ProgramInv` says
for each place in the start-up in which buffer the data of a member is at that moment
(`Home`), that the other local buffers are empty, and what has been allocated (`PoolFits`).
`LifeInv` says what unwinding has still to do: what holds memory is an object that exists, the
pinned memory has its batch buffer or a broken device, and what else can have been taken
depends on whether the context was constructed (`Taken`). The bytes in use are a sum over a set of
allocations of unknown size; `FoldOf` and `FoldEquation` give its value element by element.
Where an argument needs induction it takes a least counterexample (`LeastNumber`), since the
theorems of the library that take a predicate cannot be used here.

`EngineInv` adds that an ADD is read once and that outputs sent plus the output about to
be sent equal the tokens beyond the prompt.

Only model-checked: liveness of every kind; the online softmax (`SoftmaxExact`), whose weights
are powers, of which the provers know nothing; the row kernels (`RowKernelsExact`), whose
sums are folds over symbolic terms and whose shapes are those that the code supports.

## 5. What was found

`sampler_small_top_p`: the server accepts any `top_p` with `0 < top_p <= 1`
(`cuinfer/server.py:33`) as a double; the engine unpacks it into a `float`
(`csrc/engine/protocol.h`), where a value below half the smallest denormal is
`0.f`. Then `target_mass` is zero, no sum is below it, and `sample_rows` rejects every
draw: the kernel never ends, the engine hangs and no request is answered, although
`protocol.h:69-71` promises a final output. In the model a top_p of 1/16 is below half of
the float's unit of 1/4. The run `sampler` leaves that value out and the loop ends.

And a leak, which has no run of its own: `cuda_context.h:10` calls the stream and the cuBLAS
handle "one RAII unit", but when the third call of the constructor, `cublasSetStream`
(`cuda_context.cpp:14`), throws, the `catch` destroys the stream only, and the destructor does
not run: the handle stays. `OpenContext` has that outcome, and `NothingLeftOnDevice` grants
this one exception (`ContextFailed`) and no other; without it TLC refutes the property in
three steps.

## 6. Abstractions

* Tokens, texts and tensors have no contents; see the representation of keys,
  activations and weights above (an element is the tensor element it was copied from,
  an activation the operator and row that wrote it).
* The sampler's weights are whole numbers and its sums exact. Rounding appears in
  two places: a `top_p` may become zero, and a draw may fall in a gap between two
  tokens of the prefix sums, where the code falls back on the largest logit.
  Midpoints are rounded down.
* The kernels of a step run in the order of one stream, and `finish()` waits for it:
  a step on the device is one action of `ModelExecution`. `DeviceStream` is where that is
  justified: `StepsSeparated` says that no step sees another's input or samples.
* The copies of a group by one warp land together; which cell of them first makes no
  difference to a reader, who needs all of them. Copies of different groups and warps land in
  any order.
* Terms of the row kernels and weights of the softmax are exact: rounding and the
  approximations of `rsqrtf` and `exp2f` are left out. A score is a power of two.
* `cudaMalloc`, `cudaFree` (external): a free waits for the work on the device; after an error
  every later call fails. Fragmentation is left out, so an allocation fails only when the
  bytes do not suffice. What other users of the device hold (`otherBytes`) is any number but
  does not change during the start: another process that allocates between the profiling and
  the pool's `cudaMalloc` is left out, which would end the start like any other failed
  allocation, or take the use of the device beyond the budget.
* A copy to the device that fails leaves it broken (`CopyToDevice`), of the weights and of
  the angles of RoPE alike; errors of `cudaMemcpy` from which a device recovers are left out.
* A safetensors file has its tensors one after the other, as the format asks; a gap between
  two is a tensor that the model does not use.
* ZeroMQ (external): ordered channels that lose what is in them when a process dies.
  multiprocessing and asyncio (external): a sentinel that fires after the exit,
  futures, cancellation at an await; at most one cancellation per consumer of the client alone,
  while in `Server` another may reach the handler in its cleanup (`CancelArrives`).
* uvicorn and Starlette (external): a signal starts a drain, after which handlers that
  are left are cancelled once and the lifespan ends; only a stream notices that its reader
  is gone, by a cancelled scope or by an error of `send()`. A second signal, which makes
  uvicorn leave at once, is not modelled.
* The tokenizer's `decode` (external) skips special tokens, drops a space at the beginning of
  a text, and gives one replacement character for bytes that make up no character.
* A response carries for each output only what kind of frame it is; the optional usage frame
  and the role of a chat are parts of the frame next to them.
* Real time: the 3 seconds of `close()` may pass at any moment.

## 7. Not modelled

* Floating-point results: rounding, the layout of the mma fragments and the swizzle of shared
  memory (a permutation that loads and stores share), the frequencies of RoPE, cuBLAS inside.
* Parsing of JSON, safetensors and msgpack: formats. A refusal or an error there is a death
  of the engine while loading (`Refused`, `ReadWeights`).
* Logging, bindings, tensor shapes: no behaviour.
* `/health`, `/v1/models`, what is checked of a request's contents, arguments, exit codes.
* Two things met while reading, which no comment or document contradicts: the shapes that no
  kernel supports, and a block size that is no power of two, are refused at the first forward
  pass, after READY (`LaunchStep` throws there); and `load_model` accepts a config.json without
  `eos_token_id`, which the engine then refuses (`LoadInfo`, `Refused`).

## 8. Plan

Done, in this order: pool and scheduler with their invariant and proofs; execution of
a step; engine process and its service; client; sampler; memory of the model; detokenizer;
server and launcher; kernels; the runner's life with device memory, stream and configuration;
the proofs about the workspace, the weights, attention, the sampler, the client with its engine
and its callers, the server on top of it, the detokenizer, the runner with its memory and stream,
and the execution of the scheduler's steps.

Next:

1. *Server and client*: a refinement from the server's handlers to a service of responses,
   as `GenerationService` is one for the calls of the client.
