# TLA+ models of FortAI

FortAI is a native inference server: a C transport accepts HTTP connections, a
Fortran handler turns them into completion requests, and a Fortran service runs
them on one resident Qwen3.5 model (CPU or CUDA) with a single-slot prefix cache
and optional speculative decoding. This directory models the parts whose
correctness depends on interleavings, on what a failure leaves behind, or on
long sequences of calls. Paths below are relative to the repository; the source
files named `src/...` are those of its `src/` directory.

## 1. The system

| Part | State it keeps | Operations | Hard because |
|---|---|---|---|
| Threaded transport (`src/server/fortai_http_server.c`) | listener, `fortai_stop`, ring of descriptors (`fds`, `head`, `tail`, `count`, `active`, `stopping`), two condition variables, `fortai_dispatch_mutex` | accept, push, pop, read, dispatch, close, signal, stop, join | threads, a flag written by a signal handler without a lock, blocking system calls, shutdown |
| Process slots (same file) | child list, one `fortai_stop` per process, shared listener | fork, accept, serve, kill, wait, fall back | processes, signals, partial failure of `fork` |
| Request reader and authorization (same file) | read buffer | receive, grow, scan, compare key | buffer limits, clients that stop sending |
| Request dispatch (same file, `src/server/fortai_native_http.f90`) | response buffer, counters, defaults kept as environment variables | route, validate, update properties, generate for one or many prompts, copy the result, retry with a larger buffer | the retry repeats the whole handler; partial updates |
| JSON, templates, tool calls, bodies (`fortai_native_http.f90`) | none | parse, format | long string scanners |
| Completion service (`src/server/fortai_native_service.f90`) | resident model, prefix cache (tokens, next token, logits, validity), optional external draft | initialize, complete, close | state of one request is the start of the next; four generation branches; failures halfway |
| Token sampler (same file, `src/fortai_mt19937.f90`) | random generator, per-request work arrays | penalties, top-k heap, top-p, min-p | numeric edges |
| Model runtime (`src/models/qwen35/fortai_qwen35_cpu.f90`) | KV rows, recurrent states and their checkpoints, MTP cache | reset, forward, batch, verify, accept | rollback of rejected drafts |
| CUDA backend (`src/backend/cuda/`, `backend/cuda/`) | scratch buffers, weights, recurrent and attention state, captured graphs, two devices | upload, launch, capture, replay, synchronize, reset | work divided among thread blocks and put together again, warps that share memory, buffers that move under a captured graph, failing calls |
| llama.cpp fast path (`src/backend/cpu/fortai_llama_fast.c`) | a late-bound library, a target and a draft context with their memories | open, create, decode, verify, roll back, reset, destroy | eleven resources with four error paths, rollback of two memories |
| GGUF runtime (`src/fortai_gguf_runtime.f90`, `fortai_gguf_mmap.c`) | mapping, tensor table | open, look up, close | offset arithmetic, lifetime |
| Tokenizer (`src/fortai_native_tokenizer.f90`) | vocabulary, merges | encode, decode | merge order |
| Whisper (`src/models/whisper/`) | model, decoder cache | load, transcribe | segment state machine |
| Launcher (`app/fortai_server.f90`) | environment variables | parse options, start service, run transport, close | order of start and stop |

How they interact: the launcher initializes the service, runs the transport
until it returns and then closes the service. The transport calls the handler
under `fortai_dispatch_mutex` (threads) or in a forked copy of the process
(slots), so the service sees one request at a time. The handler calls
`fortai_native_service_complete_text_sampling` once per prompt; the service
calls the model runtime, which calls the numeric backends.

What makes each part correct:

- transport: every accepted descriptor is served or closed exactly once, the
  handler is never entered twice, nobody sleeps through a wake-up, shutdown
  ends and leaves nothing behind;
- slots: no child outlives the server, each connection goes to one process,
  a failed `fork` leaves a working server;
- dispatch: what is sent fits, the retry loop ends, a success is a complete
  success, defaults change only when they may;
- service: the cache says exactly what the model has consumed, a failed request
  never influences a later one, caching and speculation are invisible in greedy
  answers, no work array is overrun, every request ends;
- model on the device: whatever was drafted, rejected or rolled back, the
  recurrent states, the KV rows and the row the draft starts from stand for the
  tokens that were kept;
- kernels: every output is made of each of its inputs exactly once, however the
  work is divided, and selection agrees with its definition;
- device memory and handles: every allocation has one owner on every error path,
  and what a kernel or a graph uses is alive.

`PROJECT.json` lists the hazards behind these at their lines.

## 2. The modules

| Module | Models | Composition |
|---|---|---|
| `HttpTransport` | the threaded transport | its `dispatch` state is one execution of `RequestDispatch` |
| `HttpTransportProofs` | theorems about it | extends `HttpTransport` |
| `ProcessSlots` | the forked slots and the fallback | falls back to `HttpTransport` |
| `ProcessSlotsProofs` | theorems about them | extends `ProcessSlots` |
| `RequestDispatch` | `fortai_dispatch_request` and the handler | `Generate` is one request of `NativeService` |
| `RequestDispatchProofs` | theorems about it | extends `RequestDispatch` |
| `NativeService` | `complete_text_sampling`, the prefix cache | shown to implement `StatelessCompletion` |
| `NativeServiceProofs` | theorems about it, and that it implements `StatelessCompletion` | extends `NativeService` |
| `StatelessCompletion` | what a completion promises: an answer that depends on the request alone | abstract |
| `DeviceSession` | decoding state on two devices and its speculative rounds | its rounds are the ones `NativeService` assumes |
| `DeviceSessionProofs` | theorems about it | extends `DeviceSession` |
| `AttentionPartition` | how attention divides the keys of a row | a launch of `DeviceSession`'s attention layer |
| `GroupedAttention` | the warps of one block of such a launch | |
| `Q8Matmul` | the batched matrix product | |
| `Selection` | argmax and top-k | gives `DeviceSession` its choices |
| `KernelProofs` | theorems about attention, the matrix product and `Selection` | extends the four |
| `DeviceBuffers` | scratch memory, objects and graph slots of a context | the memory of all of the above |
| `DeviceBuffersProofs` | theorems about it | extends `DeviceBuffers` |
| `LlamaFast` | the llama.cpp adapter | |
| `LlamaFastProofs` | theorems about it | extends `LlamaFast` |
| `MCBackend` | puts the six backend models side by side | extends the six |
| other `MC*` | instances for TLC | |

**HttpTransport.** One action per critical section or system call. A critical
section of `queue->mutex` is atomic because the mutex protects all it touches;
`fortai_queue_push` is split into lock, test and enqueue, since it reads
`fortai_stop`, which the signal handler writes without the mutex. The state
`call` of the main thread is the gap between reading the flag and entering
`accept()`; `Signal(inMain)` is the handler in the main or another thread.
Condition variables are the control states `waitAvailable` and `waitSpace`, with
spurious wake-ups. `Silent` clients connect and never finish a request; `Unread`
clients send one and do not read the answer, so that the worker stays in `send()`
with the dispatch mutex (`DispatchReturns` is for the others, `AnswerBuffered` is
the answer that fits the socket's buffer all the same, or the client's reset, and
may never come). `pthread_create` and `accept` may fail.

**ProcessSlots.** Each process has its own control state, flag, pending signal
and descriptor; `Fork` copies the flag. `Stalling` clients keep their child in
`recv()` or `send()` (`Serve` is for the others, `StalledServiceEnds` may never
come). `AfterSlots` is the code after
`fortai_run_cpu_process_slots`, with its `close(listener)`.

**RequestDispatch.** The handler is a phase machine: `call`, `update` (POST
/props, one property at a time), `validate`, `generate`, `copy`, `send`. A
response is its length, and any length may come out of any call. Real properties
are in hundredths. A completion is `single` (one prompt, counted before
`copy_result`) or `batch` (an array, counted after it).

**NativeService.** The model's numeric state is abstracted to `resident`, the
tokens its KV cache and recurrent state have consumed, and a logits array to the
sequence it was computed after. `damage` says what else the state may hold: after a
call that failed halfway ("call"), or after a reset that failed ("reset"), which
`qwen35_cpu_reset` only logs. `Reset` can fail when the model is on a device
(`OnDevice`); on the CPU it is an assignment. A damaged model chooses any token.
`Argmax` is an arbitrary function, a sampled or penalized choice any token. The
four ways to continue (greedy and sampled speculation, scalar sampled, scalar
greedy or penalized) are separate actions with their own bookkeeping of
`state_tokens`. An element of `state_tokens` that the code never assigns is a
nondeterministic token. Speculative rounds return what the runtime promises:
one to three tokens of the target's own choice.

**StatelessCompletion.** Begin, produce one to three tokens (greedy ones are the
model's choice), end. `exact` says that the greedy choices are the model's: a
request that begins with it keeps it, and only where resets may fail
(`ResetMayFail`) can one begin without. `NativeService` implements it with
`running <- phase # "idle"`, `exact <- Whole` and
`ResetMayFail <- Faults /\ OnDevice`; run `MCServiceScalar` checks it as a property.

**DeviceSession.** A recurrent layer and an attention layer on the first device
and a recurrent layer on the second. A hidden row is the token sequence it was
computed from, or `Wrong`; a state is the sequence it has consumed. `Prompt`,
`Scalar`, `SingleRound`, `GreedyRound` and `SampledRound` run
`forward_batch` or `forward_body` through the kernels, which copy checkpoints
after rows zero and one of a batch, and `Restore` brings the checkpoint back
that the accepted drafts need. Verification segments are run, captured and
replayed per slot and regime (`graph_step`); a replay computes the captured
number of rows and, for an F16 cache, the captured position. `Fail` leaves any
prefix of a pass's launches, or a stream in capture mode; `Reset` clears each
part separately. `taint` remembers why the device state may be wrong: a reset
that failed, a replayed graph of another shape or another position. A tainted
session is followed to its next reset only.

**AttentionPartition.** Which keys each block, tile or warp of each attention
kernel takes, which kernel and how many blocks a launch uses, the scratch cells
the blocks leave, and the kernel that combines them.

**GroupedAttention.** One thread block, a warp per query head. The steps lie
between the barriers of the kernel: load, barrier, score, softmax, value,
barrier. The kernels differ in what they stage, in the barrier at the end of a
tile, and in what their output tiles overlay.

**Q8Matmul.** `fortai_cuda_q8_matmul_device_f32`: the choice of a path, the two
packed layouts of the activations, the tiles, stream-K and its fix-up, the split
tail. A cell's value is how often each block of the inner dimension was added to
it; the thread blocks of a launch run in any order.

**Selection.** Logits are a small ordered set with NaN and minus infinity.
Argmax is the strided walk, the halving reduction and the host's scan; top-k the
radix kernels or `cub::DeviceTopK` with the host's sort.

**DeviceBuffers.** The ensure functions with their three policies for a failing
allocation, seventeen entry points by what they make sure of, creation and
destruction of weights, buffers, recurrent and attention state, graph slots with
the pointers they were captured with. An allocation is its owner and a number.
A context is `ready` when the set-up reserved its scalar scratch and `bare` when it
did not: `setup_cuda_device_pipeline` returned early or the reserve failed
(`cuda_enabled` stays, and the host entry points run), or it is the second device's
context, for which nothing is ever reserved.

**LlamaFast.** The library and its symbols, the resources of a handle in the
order in which they are asked for, the four error paths, and decoding: the
memories of target and draft map positions to tokens, and decoding twice at a
position without a rollback is a `Clash`.

## 3. The runs

| Run | Checks | Instance |
|---|---|---|
| `MCTransport` | `TypeOK`, `OwnedOnce`, `DispatchExclusive`, `DrainedAtExit`, `NoLostWakeup`, `ServedDespiteSilent`, `StopReturns` | 2 workers, 4 clients of which one is silent and one does not read, ring of 2 |
| `MCSlots` | `TypeOK`, `NoOrphans`, `ServedByOne`, `StopReaps` | 3 slots, 2 clients of which one stalls |
| `MCServiceScalar` | `TypeOK`, `CacheExact`, `NoBrokenReuse`, `Stateless`, `RequestEnds` | 3 tokens, prompts up to 2, budgets 1 and 2, context 3, batches of 2, failing calls and resets |
| `MCServiceMtp` | `CacheExact`, `ModelInStep`, `GreedySuffixExact`, `BudgetRespected` | 3 tokens, prompts up to 2, budgets 1 and 3, context 5, speculation, failing calls and resets |
| `MCDispatch` | `TypeOK`, `BufferFits`, `HonestSuccess`, `RetryGrows`, `SettingsGuarded` | 2 requests, buffer of 4 to 8, two properties |
| `MCDevice` | `TypeOK`, `SessionExact`, `GreedyNext`, `PendingInStep` | 2 tokens, context 4, prompts of 1, convolution of width 3, long regime from position 3, F16 and quantized caches, graphs on, one failing call |
| `MCBackend` | `RowsComplete`, `WarpsInStep`, `MatmulExact`, `ArgmaxExact`, `TopkExact`, `NothingLeaks`, `LaunchBacked`, `ReservedStays`, `FastExact`, `DraftNeverStale`, `HandleReleased` | six families: see below |

Why the bounds are enough to be interesting: a ring of two slots fills and wraps
with three clients, and the fourth then finds a worker busy and the ring full;
three slots let `fork` fail before, between and after children; the service's
state carries over from request to request without a bound on their number, a
budget of three allows one full speculative round and a stop inside it, and a
context of three or five is reached before the budget; response lengths lie
below, at and above every capacity the buffer can have.
In `MCDevice` a context of four holds a prompt and a full round behind it, with
every outcome of the two drafts; a segment's graph is captured by the second
round of a regime and replayed by the third, with resets in between. In `MCBackend` a behaviour belongs to
one family (attention launches, grouped attention, product, selection, memory,
adapter), and the code's tile, warp and grid sizes are scaled down together so
that one and several tiles, partial tiles, divided rows and full and ragged grids
all occur: dividing position 4 in a context of 8, 3 warps with 2 tiles, products
up to 8 rows, 8 blocks and 6 columns on a grid of 3, rows of 7 logits in blocks
of 2 threads, buffers of two sizes under every pair of entry points that differ,
and rounds of two drafts in a context of 4. One call fails in each of the last
two families.

Deadlock is checked for the device session and the backends, and for the
service, which always takes another request; the transport, the slots and the
bounded dispatch really stop.

Fairness. `HttpTransport`: the kernel runs every thread that can run
(`WF` of the main thread and of each worker), and spurious wake-ups of the main
thread do not go on for ever; clients, signals and errors are never obliged. That
a request is read and that its dispatch returns is assumed for clients that send
and read only: `recv()` and `send()` have no timeout.
`ProcessSlots`: every process is scheduled, a sent signal is handled and a request
ends, unless its client stalls.
`NativeService`: the function runs on (`WF` of `Next`); the calls it makes are
bounded loops in the code.

### Disagreements between code and text

Five runs end in a counterexample; each states what a comment, a message or the
README says.

- `MCSlotsFallback` (`FallbackServes`): after a failed `fork` the message
  announces one serialized model, but the listener is already closed, so the
  server returns at once with status 0.
- `MCServiceSampled` (`CacheExact`): the cache is said to keep the exact tokens
  of the resident state; the scalar sampled branch never stores its token.
- `MCServiceStopInside` (`GreedyExact`): greedy output is said to stay exact; a
  stop token inside an accepted round leaves a stale next token in the cache,
  which a later request for exactly the cached tokens returns first.
- `MCServiceDraft` (`DraftSynchronized`): the draft is said to be kept in step;
  it is given the token after the target's, at the target's position.
- `MCBackendTail` (`TailsReadTheirColumns`): the pointers of a split batch's
  second launch are said to be offset to the tail; the activation pointer is
  offset by 36 bytes per column where a packed row has 144, so the tail's columns
  are computed from earlier ones.

Some properties name a case in which the code does not do what they say, and
hold in all others:

- `StopReturns` and `StopReaps` leave out a signal that is handled between the
  test of `fortai_stop` and `accept()`, or by a worker thread: nothing then
  interrupts `accept()`, although the comment at
  `src/server/fortai_http_server.c:70` relies on it. They also leave out a worker
  or a child that waits for ever in `recv()` or `send()` for its client: it never
  tests the flag, and the join or `waitpid` behind it does not return.
- `ServedDespiteSilent` leaves out a worker that waits in `send()` for a client
  that does not read: it holds `fortai_dispatch_mutex`, and no other request is
  dispatched. Half-sent requests do not do that, since they are read before the
  mutex is taken.
- `CacheExact`, `GreedySuffixExact` and `Stateless` leave out the state after a
  reset of the device that failed. `NoBrokenReuse` does not say that such a state
  is not used: it is, because the failure is only logged. It says that a state
  which a failed call left is never used before a reset has been tried.
- `SessionExact`, `GreedyNext` and `PendingInStep` leave out sessions after a
  failed reset (which is only logged), after a replayed graph of another number
  of rows (`forward_greedy` shares its graphs with the rounds) and after one
  whose F16 kernels carry the captured position. A failure inside a capture
  leaves the stream capturing, and no later reset of that device succeeds.
- `RowsComplete` leaves out a staged batch that straddles the dividing position:
  its first rows write one cell, and the combination reads all.
- `WarpsInStep` leaves out the tensor-core kernel: its output tiles lie in the
  score storage of other warps and only warp barriers separate them.
- `MatmulExact` leaves out the split tail and the shapes `Reached` names: plain
  rows whose blocks outnumber the threads by less than a stride, and odd batches,
  unpaired rows and tiles of 96 columns on tensor cores.
- `ArgmaxExact` says that a row without a number gives `INT_MAX`, which
  `src/models/qwen35/fortai_qwen35_cpu.f90:3827` takes as a token.
- `LaunchBacked` allows a null pointer, after an allocation has failed, for a
  buffer of `KeepSize`. The ensure functions of these four keep the recorded size
  when the allocation behind the free fails, so the next call takes the buffer for
  large enough, and the host does make a next call
  (`src/models/qwen35/fortai_qwen35_cpu.f90:4202`). Where the set-up reserved the
  scratch only `aux` is left; on a `bare` context it is all four.
- `ReservedStays` speaks of the reserved scratch of a `ready` context: batch, tile
  and partition buffers may move under a graph, and on a `bare` context, which the
  second device's always is, so may every other.
- `HandleReleased` allows the MTP embeddings to remain when their tokens could
  not be allocated. A library that lacks a symbol is refused by the first open
  and handed out by the next (`fortai_llama_fast.c:404`): the state `crashed`.

Reading the model also shows that a response that does not fit its buffer is
generated a second time and counted a second time by `fortai_requests_total`
("HTTP requests handled by FortAI.", `src/server/fortai_native_http.f90:3660`)
and by the generation counter: `CallHandler` follows every `Retry`.

## 4. The proofs

For every number of workers, clients and slots (`HttpTransportProofs`), from the
assumptions that the ring has a slot, the workers are finitely many and the two
"none" values are not members of the sets they stand beside:

- `TypeCorrect`. `TypeOK` alone is not inductive: that `count` stays within the
  ring needs what `fortai_queue_push` tested one step earlier, and that `active`
  (unsigned in C) stays a natural number needs to know what it counts.
  `TypeInv` adds both.
- `MutualExclusion`. `LifeInv` ties the mutex's owner to the control states and
  the main thread's `done` to exited workers.
- `Ownership`. `OwnInv` says that `tail` is `count` slots after `head`, that
  pending slots, busy workers and the main thread hold pairwise different
  clients, and that the held clients are exactly the open ones. The arithmetic
  of the wrap-around is in the lemmas `Wrap`, `PendingEnqueue` and `PendingTake`.
- `Drained`: from ownership, since an exited transport has no holder left.
- `NoWakeupLost`. `NoLostWakeup` is inductive beside `TypeInv`; the argument counts
  woken workers: a pop takes one of them and one descriptor away together, a push
  that leaves a sleeper wakes another one, and every other step can only add
  woken workers.

For every number of slots and clients (`ProcessSlotsProofs`):

- `TypeCorrect` and `ChildrenReaped`. `ChildrenInv` says that children are
  forked in order and that those up to `children`, which the parent has waited
  for, have exited once it has left the slots.
- `OneServer`. `HeldInv`: a process holds a connection exactly while it serves it,
  a connection is open exactly while it is held, and no two processes hold the
  same one.

For every buffer size, response length and request (`RequestDispatchProofs`),
from the assumptions that the initial buffer is within the limit and that the
largest accepted integer is at least the default 64:

- `ResponseFits` and `RetriesGrow` need only that a buffer never shrinks within a
  request and that lengths are naturals;
- `SuccessIsHonest` needs to know what holds at each phase of the handler
  (`HandlerInv`): the properties are accepted from `validate` on, and the
  defaults do not change under a completion;
- `SettingsAreGuarded` uses that every stored property was accepted
  (`SettingsInv`);
- `TypeCorrect` is the type invariant, which the others rest on.

For every vocabulary, prompt, budget, context and microbatch
(`NativeServiceProofs`). Besides the shape of the constants one assumption
matters: the greedy choice after tokens is a token. It is false of a row that is
all NaN (`ArgmaxExact` says what happens then), and no theorem here is about a
model that computes one.

- `TypeCorrect`, `BudgetsKept` and `BrokenStateNotReused` hold under every option,
  failing calls and failing resets included. What follows of exactness holds while
  the state is `Whole`.
  `LengthInv` is the bookkeeping: in each phase, how long the model's state,
  `state_tokens` and the answer are and what `state_count` says of them. The
  budget needs it, because a round adds up to three tokens between two tests of
  the budget; and a valid cache entry never belongs to a running request, so a
  request that fails halfway leaves none.
- `CacheIsExact` and `InStep` assume that no request samples (`NoSampling`),
  since the scalar sampled branch does not store its token: `MCServiceSampled` is
  the counterexample. `ExactInv` adds contents to the lengths: `state_tokens`
  is what the model has consumed and logits belong to the last consumed token.
- `GreedySuffix`. `GreedyInv` adds that the token a loop is about to emit is the
  greedy choice after the prompt and the answer so far. It says nothing of the
  first token, which may come from the cache.
- `CacheIsInvisible` is the refinement: without sampling and without MTP, where
  also the first token is the greedy choice (`ScalarInv`), every step is one of
  `StatelessCompletion` or a stutter. `Begin` is its `Begin`, an emitted token
  its `Produce` with one token, `SaveCache` its `Complete`, a failing call its
  `Fault`; consuming the prompt, leaving the loop and evaluating the next token
  change nothing that it sees. `Begin` without a hit is where `exact` can change,
  both ways, by the outcome of the reset. With MTP it is false:
  `MCServiceStopInside`.

For every number of warps, tiles and fragments (`KernelProofs`):

- `BarriersSuffice`. `WarpsInStep` speaks of what was attended only; `InStep` adds
  how far apart two warps can be. In a kernel with block barriers all warps are in
  the same tile and on the same side of the barrier behind the loads (`Together`),
  so what a warp reads is what was staged for its tile, and what it wrote is still
  there (`Fresh`). That the score regions of two warps are disjoint is the lemma
  `RegionsApart`.

For every context, batch, tile size and number of blocks
(`KernelProofs`), from the assumption that they are naturals and the
divisors positive:

- `RowsAreComplete`. The arithmetic core is that shares rounded down are
  consecutive, disjoint and exhaustive; tiles and dealt keys follow from it. The
  inductive part (`PartitionInv`) is that every cell the combination reads was
  written by this launch, which is false for a batch that straddles the dividing
  position: such a batch is left out.

For every row length, number of threads and tile (`KernelProofs`), from the
assumptions that the threads of a block are a power of two (their strides halve
without remainder) and that a row's indices are below `INT_MAX`, which the wrappers
check:

- `DeviceArgmax`. A pair wins a set when it is in it and none of the set is preferred
  to it (`Wins`). `BestOfWins` is a running best, by induction over the set of
  lengths. `FoldedCovers` is a step of the halving reduction: whatever pair the
  threads' bests beat is beaten by a lane below the next stride; `StrideFacts` says that
  the strides end at 0. `EveryElementWalked` says that the strided threads of a grid
  visit each element. So the host's pick wins the row and the lowest pair, and
  `RowArgmax` reads off that its index is that of `maxloc`.
- `DeviceTopk`. `OrderExists` and `SortedFacts` are about sorting: a finite set can be
  put in order, and in order nothing is above anything earlier. `LeftFacts` is what
  makes tiles safe: a candidate its block left out has `TopKMax` others that it is not
  above, so one of them is at or behind place `k` of the final sort (`RadixTopk`).
  `HostTopk` is the other path, where any `k` largest may come in any order.

For every shape, tile width, grid and number of threads (`KernelProofs`), from the
assumptions that the sizes are positive, the columns of a tile even and its rows
whole tensor-core fragments:

- `ProductsAreExact`. A cell lies in one tile (`InTileMeans`), a tile's K tiles are
  consecutive units, and each unit has one holder among the blocks (`OneHolder`,
  from the same lemma on shares as attention). `ContributionOf` is the packed
  layout: the rows a block of the first launch reads are those of its columns.
  `WritesAll` says that the four-cell writes of the tensor-core lanes reach every
  cell of a reached shape. `ProductInv` says, while blocks are still to run, what
  the others have left: in the scalar tiled kernel a chunk is in a cell exactly when
  the block it was dealt to has run (`Dealt`); in the tensor-core kernel a cell is
  settled by the holder of its last unit (`Settled`), and the other holders of its
  units have them in their fix-up slots (`LeftOver`). The fix-up kernel adds for
  each chunk one slot or none (`FixupIsExact`); where the code launches none, blocks
  take whole tiles (`WholeGrid`, `WholeTiles`). The second launch of a split call
  writes no column before its own (`InTileColumns`).

For every context, draft length and vocabulary (`LlamaFastProofs`), from the
same assumption about the greedy choice and that token 0, with which a handle
starts, is one:

- `SpeculationExact` and `DraftFollows`. `SessionInv`: while no call has failed
  since the last reset, the target's memory holds the kept tokens at their
  positions and nothing behind them, and the draft's memory a part of them. The
  lemmas `TargetKeeps` and `DraftKeeps` follow a decode and the rollback behind
  it; that a round fits the context is needed for both.
- `ReleasedInOrder`. `ResourceInv`: what is still to be acquired is the end of the
  handle's list, what exists is of its beginning, and what is still to be freed is
  the end of one of the error paths; so a path never frees a model before its
  context, and a finished one leaves what no path names.

For every size, set of entry points, number of graph slots and of failing calls
(`DeviceBuffersProofs`), from the assumption that a model only uses entry points
and objects that exist:

- `NothingIsLost`. `HeapInv` says that a buffer's pointer, its recorded size and its
  live allocation agree, and so do an object's fields. `HeapStep` is the core:
  some buffers are reallocated, of others the allocation is freed and the new one
  fails. It needs that one call never asks twice for a buffer, which is proved of
  every entry point (`EntryWellFormed`), and that no two objects have a field in
  common (`ObjectFields`), so that an error path frees what its own creation made.
- `LaunchesAreBacked`. A buffer that a call asked for is as large as it asked, or
  was large enough before; what `HeapInv` leaves is a recorded size without an
  allocation, in a buffer of `KeepSize` and after a failure. `ReservedInv` excludes
  it for all but `aux` where the scratch was reserved; on other contexts nothing
  does.
- `ReservedStay`. `ReservedInv`: once the set-up has reserved them, the four buffers
  have the full size, so no request makes them grow and none fails on them.
  `GraphInv`: what captures, graphs and replays recorded points there.

For every vocabulary, context, prompt length, width of the convolution, position of
the long graph and number of failing calls (`DeviceSessionProofs`), from the shape of
the constants and the assumption that the greedy choice after at most `MaxContext`
tokens is a token:

- `TypeCorrect`, `Speculation`, `GreedyAsSingle` and `DraftFromLastRow` are the parts
  of one invariant (`Inv`): a round starts from exact layers because the session is
  able to go on, and the next token has its type because the row it is chosen from is
  exact.
- `recurrent_run_batch` is a recursion over the rows of a batch. Its value is that of a
  chain of rows (`ChainExists`, `RunBatch`), and what holds of a chain is proved by
  induction over the set of row numbers at which it holds (`NatSet`, from the library's
  theorem that "less than" on the naturals is well-founded). `BatchTyped` says that a
  batch keeps the types whatever a graph replayed; `BatchExact` that a layer in step
  with the tokens before a batch is in step with those behind it, hands every row on,
  and holds the states of the batch's first two rows in its checkpoints.
- `WindowNext` is the convolution: shifting a token into the last `ConvKernel` - 1
  elements of a history gives those of the longer history. It is what a checkpoint
  taken one row too early or too late breaks.
- `ForwardExact` composes the three layers over two devices: rows written to the cache
  at their own positions are the ones the batch attends to, and rejected rows of an
  earlier round lie behind them. `UntaintedFits` says that a round without taint
  launched what the call asked for, also when it replayed a graph; `RolledExact` picks
  the checkpoint for each number of accepted drafts.

Every safety property of the runs that pass has its theorem. Only model-checked: all
liveness (`ServedDespiteSilent`, `StopReturns`, `StopReaps`, `RequestEnds`), which
rests on fairness and is out of the prover's reach.

## 5. What is left out

Floating-point kernels, sampling distributions and the text of bodies and
templates are not modelled. A failing `malloc` before a request reaches the
handler drops it and changes nothing. The `drained` condition variable has no
waiter in the code. Listener options, host names and the scan of headers are
outside the transport model. That the runtime's rounds are the ones
`NativeService` assumes is shown for the device path by `DeviceSession`, in a run
of its own and not as a refinement; the CPU path's rollback is assumed.

Not modelled, and why:

- arithmetic of the numeric kernels (`fortai_q8_dot.c`, `fortai_ggml_quant.c`,
  norms, embeddings, feed-forward): real numbers and large tensors;
- `fortai_cuda_q4_backend.cu` and `fortai_cuda_fattn_backend.cu`: the same kernels
  for other formats and a bridge to foreign kernels; `fortai_cuda_stub.c` answers
  every call with an error;
- JSON, templates, the tokenizer, GGUF, Whisper and the launcher: planned, or pure
  text.

## 6. Plan

In this order:

1. `ServiceLifecycle`: initialization, its error paths, the MTP sidecar's
   mapping and closing; composed with the launcher and the transport.
2. `RequestReader`: buffer growth, header scan and limits.
3. The CPU path and the MTP cache of the rounds in `DeviceSession`, and
   `DeviceSession` as an implementation of the rounds of `NativeService`.
4. `Sampler`: heap selection of the top-k against a reference definition,
   penalties, top-p and min-p over ranks.
5. `GgufRuntime` and `Tokenizer`: offset arithmetic with its widths, mapping
   lifetime, byte-pair merging against a reference definition.
6. Placement and events of the Q4 backend.
7. `Whisper`: request path and decoder.
8. Proofs: the rounds of `DeviceSession` as an implementation of those of
   `NativeService` (with 3).
