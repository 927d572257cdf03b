# SmolVLM2 on the KV260: a TLA+ model of the FPGA path

The repository runs the SmolVLM2 vision-language model on a Kria KV260. An HLS
project (`src/smolvlm2_kv260`) holds the kernels, a C++ runner over XRT, and a C
API; a fork of llama.cpp (`src/llama.cpp`) calls that API from `llama-server` and
contains an experimental `ggml-xrt` backend. These modules model the parts with
control state of their own, from the server's queue down to the streams inside one
kernel launch, and the integer layouts and conversions that can be stated exactly.

To check a run: `tlc -config <file>.cfg <module>.tla`. To check the proofs:
`tlapm <module>Proofs.tla`.

## 1. The system

    HTTP handler threads          llama-server, server.cpp
       |  queue_tasks / queue_results                   ServerQueue
       v
    task loop thread -- text --> CPU slots              ServerQueue
       |  media                    |  graphs
       |                           +--> CPU backend     CpuThreadPool
       |                           +--> ggml-xrt        XrtBackend
       v
    run_fpga_completion_task                            FpgaCompletion (promise: CompletionService)
       |  session created once, or the CPU serves       HardwareSession
       |  C API: one call at a time, a return code each
       v
    SmolVlm2XrtRunner: buffers, launches                FpgaRunner
       |  XRT runs, run.wait()
       v
    kernels: patch_embed / qkv -> attention -> connector -> bridge -> decoder layer
                 streams inside a launch                KernelDataflow
                 cache kept between launches            KvCache
                 where weights are fetched from         DecoderWeights
                 widths of the integers                 KernelNumerics

| Component | State it keeps | Operations | What makes it correct |
|---|---|---|---|
| Queue, slots and results of llama-server (`tools/server/server.cpp`) | `queue_tasks`, `queue_tasks_deferred`, `waiting_task_ids`, `queue_results`, the slots | post, pop, defer, cancel, release and pop-deferred, update_slots, send, receive, give up | no task lost or duplicated, no result left behind, everybody served |
| FPGA completion path (`run_fpga_completion_task`) | the request, `seq_len`, `cur_pos`, generated tokens; the session it reuses | admit or refuse, one call per stage, sample, answer | one answer per request, computed from this request's data alone |
| Hardware manifest and session creation | sizes of files and buffers, what is loaded | read, open, allocate, compare, load | an export that is complete starts; a failure leaves the CPU |
| Session and runner (`llamacpp_fpga/`) | `act_ping_`, `act_pong_`, the vision chain's buffers, cache, logits | write patches, encode, build prefill, prefill, decode, write a token, read logits | buffers hold what the stage that reads them means, whatever failed before |
| Decoder kernel (`src/decoder_kernel.cpp`) | streams between concurrent functions | one launch per layer and tile | completes; every function gets the element it means; streams end empty |
| K/V cache (`src/attention.h`) | the cache in DDR, two on-chip banks | load a head, write new tokens, attend | layers, heads and positions apart; attention over the request's own history |
| Weight layout (exporter, manifest, kernel) | none | place a matrix, fetch a pack | what is fetched for a column is what was exported for it |
| Numerics (`unified_w4a8_gemm.h`, `act_quant.h`, `attention.h`) | none | packed products, quantisation | exact against integer arithmetic, within the width of each type |
| ViT, connector, bridge kernels | none between launches | loops over buffers | the pixel shuffle mixes up nothing |
| `ggml-xrt` backend | static scratch buffers, cached weights, one runtime | init, supports_op, mul_mat | a buffer is never used for a shape it was not sized for; a weight is unpacked from its own blocks |
| Thread pool of the CPU backend | counters, pause and stop flags, sleeping workers | kick off, poll, sleep, barrier, take a chunk, pause, resume, free | a node is whole before the next; no wake-up lost |
| `host_driver`, scripts, build files, C-simulation testbench, the rest of llama.cpp | - | - | not modelled, see section 7 |

**What is hard here.** Handlers and the loop thread interleave on two mutexes, and
the client may leave at any moment. A launch may throw between any two steps of a
32-layer loop, and the next request runs on the same buffers, which nobody clears.
Two places must agree on which of two buffers a layer reads, two programs on where a
weight lies and how large a file is. Inside a launch 21 functions run concurrently on
streams of fixed depth, and a function that takes elements in another order, or in
another number, than its producer writes them stops the region or reads somebody
else's data. The cache is a flat array, and its banks are left by earlier heads,
layers and requests. The thread pool's workers read counters of several graphs at
once. `PROJECT.json` lists these hazards one by one at the lines where they bite.

Everything said of the FPGA path is about a session that came up. `HardwareSession`
shows that, with the sizes as they are in the repository, none does for the model it
is written for (section 4); the path is modelled as it would run after that.

## 2. Modules

| Module | Role |
|---|---|
| `FpgaRunner`, `MCFpgaRunner` | buffers, C API calls, one action per sync or launch; its instance, a caller that calls in any order |
| `FpgaCompletion`, `MCFpgaCompletion` | extends `FpgaRunner` with the server's control flow; its prompts |
| `CompletionService` | abstract specification of what a client is promised |
| `FpgaClaims` | what notes and comments claim of the path, refuted |
| `KernelDataflow`, `MCKernelDataflow` | the functions and streams of one decoder launch; the launches looked at |
| `KvCache` | cache, banks, launch arguments |
| `ServerQueue`, `MCServerQueue` | queue, slots, results; its instances |
| `HardwareSession` | from the server's environment to a loaded session |
| `XrtBackend`, `MCXrtBackend` | the ggml-xrt backend under several threads; its weights and graphs |
| `CpuThreadPool` | the CPU backend's threads |
| `DecoderWeights`, `KernelNumerics` | operators without state |
| `FpgaCompletionProofs` (the runner's too), `KernelDataflowProofs`, `KvCacheProofs`, `ServerQueueProofs`, `XrtBackendProofs`, `CpuThreadPoolProofs`, `HardwareSessionProofs`, `KernelArithmeticProofs` | theorems, section 5 |

### FpgaRunner

A row of an activation buffer is abstracted to its provenance: whose request
(`who`), which prompt element (`kind`, `idx`), which decoder layer produced it
(`stage`). A vision buffer records whose image it derives from and the kernels it
went through. `kv[l][p]` is the row, and the position, last written for layer `l` at
position `p`; `logits` the row and position last scored.

| Action | Code |
|---|---|
| `WriteVisionPatches`, `WriteDecodeTokenActivation` | shape and range checks, host write, `sync` |
| `EncodeImage`, `EncodeLaunch` | the four launches of `encode_image`, over `vit_hidden_` and `vit_tmp_` alternately |
| `BuildPrefillActivations`, `BridgeLaunch` | memset, two layout passes, sync, then `run_image_bridge`; the length check comes after the first pass |
| `RunPrefill`, `PrefillLaunch` | layers outermost, tiles of `kPrefillTokenTile` rows |
| `RunDecode`, `DecodeLaunch` | all layers over rows `0 .. window - 1`, `lm_head` on the last |
| `ReadLogits`, `Return` | the copy out; the return code reaches the caller |

`Xrt` is the outcome of an XRT operation: it completes, or it throws with or without
having had its effect. A call stays in `op` between its launches, its result in
`ret` until the caller has read it. `DecoderLayer` gives the effect of one launch on
whole rows; what happens inside one is the subject of the two kernel modules.
`KvCells` says which cells a position beyond the cache layout reaches: the first
rows of the next head, or of the next layer.

### FpgaCompletion and CompletionService

`pc` is the place in `run_fpga_completion_task`. `FallBack`, `Reject`, `Admit` and
`Crash` are the four outcomes of the checks before the first call: a text request
goes to the CPU slots; streaming, audio, or a second image is refused; a table that
`fpga_token_embedding_i8` cannot read is an exception that leaves the task loop.
`CallSession` makes the call of the current stage, `SessionStep` lets the runner
advance, and one action per stage consumes the return code. Any failure is answered
by `CallFailed`. `embeddable` is chosen initially: both kinds of table are checked
in one run. A text token with id 49190 (`"lit"`) is read as an image placeholder
when the prompt is laid out, as in the code: beside the image it makes a further
placeholder, the image moves to the last one, and the rows of the others stay zeroed.
The code answers such a request, from a prompt that is not the one it was sent; the
properties name the case (`SeveralPlaceholders`) and count the zeroed rows as the
request's own, so that what they say of other requests' data holds there as well.

`CompletionService` knows none of this. Its state is the answers, the request being
served, the tokens so far and whether the process is up. It serves one request at a
time, and gives one answer, with at most `NPredict` tokens at consecutive positions,
none of them from another request's data. `ServiceSpec` is that specification under the
refinement mapping at the end of `FpgaCompletion`, its fairness included.

### HardwareSession

One action per step: `Configure` (the environment variables), `LoadManifest`,
`OpenDevice`, `AllocateBuffers`, `RequireFit`, `LoadArtifact` file by file,
`Created`. `Exported` gives the sizes a file has for a model of `layers` layers,
`Allocated` the sizes of the buffers, both translated from the programs that compute
them. Any step may fail by itself (`fault`), and any file may be missing; every
failure ends in `"cpu"`, as the server goes on without the FPGA. Of the manifest's text
only that it may be refused is modelled.

### KernelDataflow

A function of the region is the sequence of stream reads and writes its loops make
(`Program`), its loops unrolled by a recursive function (`Unrolled`). An element is its place `<<token, column>>`, a column being one
attention head, which is also a column tile of the GEMM. `Read` and `Write` are one
transfer; an empty or full stream blocks. Streams that carry whole rows through a
memory between functions carry one hand-over element. Streams of data have their
depth in heads, streams of scales in elements; a data stream shallower than a head is
given a whole one, so that the model never waits where the kernel does not. A launch
is chosen initially among `Launches`: its rows and the depths of its streams.

### KvCache

`LoadHead`, `WriteHead` and `AttendNextHead`/`AttendLastHead` are the three steps of
`multi_head_attention` for one head; banks alternate from head to head. The
remaining actions are the launches as the runner makes them: `Prefill` tile by tile
and layer by layer, `Decode` one position after the other, `GiveUp` when a launch
throws. A packed half of the cache is abstracted to where it comes from: request,
layer, head, position, group. K and V use the same indices; one of them is modelled.
Nothing bounds the position of a decode, here as in the code (`run_decode_ttft`,
`xrt_runner.cpp:251-281`); the host does bound what follows it, because the row of the
next token has to be written (`Done`, `xrt_runner.cpp:381-385`). So a full layout is
decoded once, at position `MaxSeq` (`Overruns`), and then the request is over. There
`WriteHead` does what the flat index comes to: position `MaxSeq` of a head is position 0
of the next one, and that of the last head lies behind the cache, where V's may follow
K's, or something else. In the bank the store is out of bounds; what it hits is
undefined, position 0 of either bank or nothing.

### DecoderWeights and KernelNumerics

`DecoderWeights` says where the exporter puts the packs of 32 weights of a column
(`PackOf`, `LmHeadPackOf`) and where the kernel fetches them and their scales
(`ReadPack`, `ReadMeta`, `LmHeadReadPack`), for every matrix, layer, column and group,
from the manifest's word offsets and the kernel's own offsets. `KernelNumerics` holds
the integer conversions at their widths: two int8 products from one multiplication,
the INT8 scale and values of a row, the INT4 groups of the cache, and the pixel
shuffle. A range of bits of an `ap_int` is taken to be unsigned, as the HLS library
defines it. Neither module has state, so neither has a run: what they say is proved.

### ServerQueue

A step is what one thread does under one lock of `mutex_tasks` or `mutex_results`.
A handler enlists its task ids (`Enlist`), posts the tasks (`Post`), receives
results (`Receive`) and, when the client is gone or a task failed, drops the ids and
posts cancel tasks to the front (`RemoveWaiting`, `PostCancel`). The loop pops and
processes until the queue is empty, then updates the slots, then sleeps.
`Release` frees a slot and moves one deferred task to the front, as the callback
`pop_deferred_task` does. `RunOnFpga` is `FpgaCompletion` seen from here: one
answer. Choices made in the model:

- `is_connection_closed` is read anew at each receive, nondeterministically.
- The ids of a request are an `unordered_set` in the code; their order is taken to be
  that of the ids.
- `FailSlot` follows `send_error` into the null task of an idle slot: the process
  ends. Where a batch fails is not tracked beyond that.
- `returned` is a history variable, read by `DeferredOnce` only.

### XrtBackend

`EnterOnce` and `InitOnce` are `call_once` around the opening of the device, which may
fail; `Schedule` is `supports_op` deciding which products come here. A product then
goes through the steps of `mul_mat`: the scratch buffers are rekeyed for its shape
(`Enter`, `AllocAct`, `AllocOut`, `ResizeHost`), each of which may throw, the weight is
found or unpacked (`FindWeight`, `UnpackWeight`), the activation quantised, sent,
launched on and read back. The scratch is one static object although the comment at
`ggml-xrt.cpp:36` calls it per backend instance, so two threads interleave in it;
what holds is therefore said of a product whose thread was alone (`solo`), and, for
sizes, after a rekey that went through (`whole`): the key is stored last, so a rekey
that throws leaves new, smaller buffers under the old key, and the next product of
the old shape takes them to fit. What is left of a thread's graph (`nodes`) is kept by
position: cutting the graph and finishing a product take positions away.

### CpuThreadPool

The build without OpenMP: `GGML_OPENMP` is on by default, and the OpenMP build has no
code of its own here. One atomic access is one step, in program order; what is done
under the mutex is one step; the two loads that begin a barrier are one step. The
relaxed loads and stores are taken in an interleaving order. Every node is a product
(`MUL_MAT`), which is the operation that shares a counter of chunks. The number of
threads may differ from graph to graph, and the caller may pause, resume, abort or
free between graphs. Thread priorities and affinities are left out.

`grown` records that some graph used more threads than the one before it.
The comment at `ggml-cpu.c:3155`, that no worker accesses the parameters when they
are reset, fails then: a polling worker can read the number of an earlier graph it had no part in,
then the thread count of the next one, join that graph, take the number of it for
news, and work on it once more, alone. The properties say what holds while it is false.

## 3. Passing runs

Each run's properties are in `PROJECT.json`, with a mutant of the code each one
catches. Deadlock checking is off where the system stops by design: no more calls
(`runner`), every request answered or the process gone (`completion`, `queue`), the
launch finished or stopped (`dataflow`), the pool freed or no more graphs (`thread_pool`).

**`runner`** (`MCFpgaRunner`). Three calls in any order, every argument, throws
everywhere. Three calls is what it takes to encode, then build, then prefill, or to
repeat a failed encode. Four rows with tiles of three gives a full and a partial
tile; two layers give both buffer orders; image tokens are two rows, so an image is
more than a row and the four-token prompt is too long. It shows:
`PrefillLayout` (the two-pass layout agrees with a left-to-right reading of the
prompt, for at most one placeholder), `PrefillFillsKv` (no gap in the cache after a
prefill, last tile included), `EncodeOrder` (no stage of the vision chain reads a
buffer a later stage has overwritten).

**`completion`** (`MCFpgaCompletion`). Two requests, one after the other, in either
order, over one session; eight prompts: an image alone, first and between text, text
only, two images, audio, and a literal 49190 before and after the image, some of them
exactly `MaxSeq` rows long; two tokens to generate. Two requests are enough for a
failed one to leave its buffers to another; three layers for an odd layer between two
even ones; two tokens for the second decode to differ from the first. `HwMaxSeq` is
one more than `MaxSeq` and `HistoryIsOwn` is stated below it, because decode does not
check its position. It shows that scores about to be sampled belong to this request
and this position (`LogitsOfThisStep`), that decode finds only own history in the
cache (`HistoryIsOwn`), that the prompt staged for prefill is the request's own
(`StagedIsOwn`; all three against what failed and earlier requests leave), that only
the last token of an answer is decoded past the rows (`OnlyLastTokenPastLimit`), one
answer per request (`AnswerOnce`, `EveryRequestAnswered`), no second token from an
activation nobody wrote (`NoEmbeddingNoSecondToken`), and that the path implements
`CompletionService` (`ServiceSpec`).

**`dataflow`** (`MCKernelDataflow`). Launches of one and of two rows, two KV heads,
ratio two, `lm_head` on, on streams just deep enough and one short. A launch completes
if its streams hold what has to wait in them (`Completes`), and a launch in which no
function can go on has completed if and only if they do (`EndsAsHeld`). What has to
wait (`StreamsHold`): all queries of a token come before its first key, while
attention reads keys first, so they must fit in `s_q_pre`, in RoPE's hands and in
`s_q_rot`; the keys of all heads of a token come before its first value, while
attention reads a value after each key, so the other keys must fit in `s_k_pre`,
RoPE's hands and `s_k_rot`; and a GEMM reads the data of all rows of a tile before the
first scale, so the scales must fit in their stream. With two KV heads the condition
on keys always holds; with five, as the kernel has, streams of one head fail it. No run
has as many; the proof covers every number. It shows that every function takes the element its loops
mean (`InOrder`), except on the eight streams between a GEMM or attention and its
neighbour, where more than one row is always mixed up (`MoreRowsMixedUp`: the GEMM
emits column tile by column tile, attention head by head, the neighbours take it to be
row by row, `rope.h:80`, `decoder_kernel.cpp:188`), and that nothing is left for the
next launch (`NothingLeft`). Applied to the real kernel, `StreamsHold` asks for 15 query
heads to be held in `FIFO_ATTN` (64 elements, one head), `FIFO_D` (16, less than a
head) and one pair of hands, and for the keys of four heads to be held in two streams
of `FIFO_D` and one pair of hands: for each of the two reasons a launch of the kernel as it is in the repository never
completes under this reading of its streams.

**`kv_cache`** (`KvCache`). Two requests, two layers, three heads (so that a bank is
used again), four positions, two groups, tiles of two: prompts with one tile, a
partial tile and two full ones; any number of requests and of decodes, up to the one
behind a full layout, as states repeat. It shows that a half of the cache holds nothing
but K/V of its own layer, head, position and group (`CacheIsOwn`), except that position
0 may hold position `MaxSeq` of the head in front; and that a launch attends over its
own request's K/V up to its last token (`AttendsOwn`), except, in a decode behind a full
layout, at position 0, which belongs to the head in front by then, and at the token's
own position, which the bank has no place for. What such a decode has overwritten
reaches no later request. Without either exception the run fails. All three properties
are proved for all constants.

**`queue`** (`MCServerQueue`). Two slots; request `a` has three tasks, request `b` one
that asks for slot 1 and may carry an image; two tokens per slot. Four tasks over two
slots defer, and defer a pinned task behind others; three tasks in one request make
its errors cancel tasks that are queued, deferred and running at once. It shows that a
task has never two copies and none is lost while its handler waits (`EachTaskOnce`),
no result stays for nobody (`NoStrayResult`), a task taken off the deferred queue for
a slot gets it (`DeferredOnce`), and, if no request is given up, all are served
(`EveryRequestServed`).

**`xrt_backend`** (`MCXrtBackend`). Two threads, two graphs of two products with shapes
that grow one buffer and shrink the other; three weights, one in the GGUF and, if its
manifest entry is there, in the sidecar, one in the sidecar only, and one of a shape
the backend refuses. It shows that a weight is never unpacked from blocks of another
type (`WeightIsItsOwn`), that a product alone in the scratch is launched in buffers that
fit it (`LaunchedInBuffersThatFit`) and reads back its own result (`ReadsOwnProduct`),
and that every graph ends (`GraphEnds`), the device opened or not.

**`thread_pool`** (`CpuThreadPool`). Three threads (two workers, so that one can be late
while another is early), two graphs (for a worker left in the first), two nodes (a
barrier between them and a last one without), at most three chunks; one chunk per
thread is enough, so two threads share by counter and three by place.
It shows that no chunk is computed twice (`ChunkOnce`), a node is whole before the
next begins (`WholeBeforeNext`), no worker is left in a graph its caller has left
(`NoWorkerInGraph`; one on its way out of the last barrier may be, it accesses nothing
any more), and that graphs end and the pool can be freed (`CallerReturns`). This run and
the one before it are the longest, with about a million states each.

**Fairness.** The task loop thread and the handlers are threads of a process that
the operating system schedules, `run.wait()` is assumed to return (which the run
`dataflow` denies for streams as shallow as the repository's: there the answer waits for
a launch that never completes, and `EveryRequestAnswered` is about a kernel whose
streams hold what must wait in them), and the loop takes
a posted task when it has none: weak fairness on `NextServer`, on `Loop` and on each
`Handler`. `GiveUp`, a client leaving, is not fair: no client has to. `Receive` may
find the connection closed, and `EveryRequestServed` is stated under the assumption
that this does not end a request. In hardware every function of the dataflow region
runs whenever its streams let it: weak fairness per function. The threads of
`XrtBackend` and `CpuThreadPool` are scheduled and granted their locks: weak fairness
on each thread's `Step`, while starting a graph, pausing or freeing is up to the
caller. No launch has to succeed, no call has to be made.

## 4. Runs that refute a statement of the repository

Each of these checks one statement found in a comment, a note or a check script; TLC
finds a behaviour of the code against it. `PROJECT.json`, "findings", quotes them.

| Run | Statement | Behaviour |
|---|---|---|
| `claim_LayerFeedsNext` | a layer's output is used by the next layer | host and kernel both swap the buffers on odd layers; an odd layer reads what the even layer before it read |
| `claim_DecodeReadsNewToken` | `window_tokens = 1` is exact generation | the new token's activation is written to row `cur_pos`, the kernel reads row 0 |
| `claim_kv_len` | `kv_len` is the valid length | all tiles of a prefill get `seq_len`, more than is written yet |
| `claim_deferred` | a task is deferred until a slot is available | its wake-up can be used up by a task that is then cancelled or fails to launch |
| `claim_valid_export_starts` | an export of these sizes is valid | its session is refused and the server falls back to the CPU |

The last one has two causes, each enough. The meta buffers are sized at half of what a
scale and a zero point per group take, so `require_fit` refuses (`"BO too small"`); and
the gamma buffers hold one layer, so loading the gamma files throws. Beside it, found
on the way: `manifest_extract_int` searches the whole rest of the text, so a manifest
without a layer's offsets silently yields those of a later section; only the repaired
manifest has them all. And one gamma buffer of one layer is passed to every layer.

## 5. Proofs

Checked by TLAPS for every value of the constants, from the named assumptions on the
constants and nothing else: `RunnerAssumption`, `CompletionAssumption`,
`KvAssumption`, `QueueAssumption`, `XrtAssumption`, `PoolAssumption`, `DataflowAssumption`;
`SmolVlm2`, the shapes of the model, for the weights.

**Runner** (the first part of `FpgaCompletionProofs`), under a caller that calls in any order.
- `RunnerTypes`: `Spec => []RunnerTypeOK`. Beyond types, `OpSet` says what the code has
  checked by the time a launch runs: a prefill launch has at least one row and all of
  them exist, a bridge call has a prompt that fits. The invariant is inductive as it
  stands, because the progress of a call is part of it. There is one lemma per
  operation, stated for any caller.
- `RunnerEncodeOrder`: `Spec => []EncodeOrder`. The chain alternates between two
  buffers, so "a beginning of the chain" is inductive only together with how long a
  beginning the buffer read by the launch in progress holds (`ChainOK`).
- `RunnerLaysOutPrompt`: `Spec => PrefillLayout`, an action property, for prompts of any
  length and images of any number of rows. While the bridge is about to run, act_ping
  holds the staged prompt (`BridgeOK`). On one side, what memset and the two copies come
  to (`Staged`), row by row: the tokens cover the rows (`RowOfToken`), and the rows of
  two tokens are disjoint (`OneTokenARow`). On the other, the reading: the recursion of
  `Denoted` is proved to exist and to put every token in its place (`DenotedPlaces`), by
  the least-number principle over the tokens read. `RowsAgree` joins the two; it needs
  "at most one placeholder" where the row of a placeholder must be the one the image
  is bridged to.
- `RunnerPrefillFillsKv`: `Spec => PrefillFillsKv`, an action property, from `TilesOK`:
  layers done are filled over the whole prompt, the layer in progress up to the tile
  (`PrefillReached`). That the tiles leave no gap is arithmetic for every tile size;
  that a layer keeps who and where a row is from, although its data changes, is
  `LayerKeepsRows`.

**Completion path** (`FpgaCompletionProofs`), for any number of requests, prompts,
layers, rows and tokens.
- `ServerTypes`, `OneTokenWithoutEmbedding`, `PastLimitOnlyLast` and `AnsweredOnce`
  follow from one inductive invariant, `IInv`. The properties speak of answers; what
  makes them inductive is which call can be in progress at which stage and what it
  left when it returned (`StageOK`: a decode that returned well has copied scores of
  position `cur_pos`; a token that was written had a row), and how far the token loop
  is at each stage (`TokensOK`). `AnsweredOnce` needs that whoever is served has not
  been answered (`AnswersOK`).
- `PathImplementsService`: every behaviour is, step by step, one of
  `CompletionService`, crashes included. It needs to know where the data is, which is
  `DataOK`: at every stage of the vision chain the buffer about to be read derives
  from this request's image, and from the staging of the prompt on no row of
  `act_ping_`, which every layer reads, is another request's. This holds although
  nobody clears a buffer, because every row is staged anew. The fairness of the
  service is left to the run `completion`.

**One request's data** (`FpgaCompletionProofs`, on top of the invariants above).
`PathStagesOwn`, `PathHistoryOwn` and `PathScoresOwn` are `[]StagedIsOwn`,
`[]HistoryIsOwn` and `[]LogitsOfThisStep`, from one invariant, `RequestOK`, that
follows the data through a request:
- `PromptOK`: each call works on this request's prompt, and `seq_len` is its length;
- `EncodedOK`: the buffer the next vision launch reads has gone through exactly the
  launches before it, and `image_tokens` through all of them;
- `StagedOK`: the two layout passes leave in every row up to that length a text row of
  this request or a zeroed row that the bridge will fill. This is the step that takes
  most: for a prompt of any length the rows of its tokens are disjoint and leave no
  gap (a token's first row is counted from the tokens before it), so nothing an earlier
  request staged shows through although the buffers are never cleared;
- `CacheOK`: prefill, and then each decode, has filled the cache of each layer up to
  the launch in progress with this request's rows, each at its own position.

The statement about history is limited to `op.pos < HwMaxSeq`, as the run's is: past it
a decode writes into the next head's rows. The proof first failed on prompts with the
literal 49190 more than once, where there are three placeholders and more; the run had
only ever had two, and the properties' exception said so. `SeveralPlaceholders` is what
they say now.

**Cache** (`KvCacheProofs`). `KvTypes`, `CacheKeptApart`, `AttendsOwnHistory`:
`[]KvTypeOK`, `[]CacheIsOwn`, `[]AttendsOwn`, all from `KvInvariance`. `AttendsOwn`
speaks of the moment of attention only; what makes it inductive is
- `HistoryInCache`: how much of each layer and head is filled with this request's
  K/V (`Filled`): all of the call in layers done, up to the launch's tile in this
  layer, and nothing further yet in a prefill, or the earlier positions in a decode;
  in a decode behind a full layout, position 0 is left out;
- `HistoryInBank`: after the load the bank holds the positions before the launch, with
  the same exception.

`CacheIsOwn` rests on `HalfIndexOwn`: the flat index determines its four digits, within
the layout; on `HalfIndexBehind`: position `MaxSeq` meets nothing but position 0 of the
next head, in the same group; and on `HalfIndexFirst`, for what runs over from K's cache
into V's. An earlier version guarded `Decode` by the room in the layout, a check the code
does not make, and claimed all this without the exceptions. `KvInvariance` holds although the cache and the banks start with, and keep, whatever
other requests left.

**Session** (`HardwareSessionProofs`). `SessionFromOneLayer`: a session only ever comes
up from an export of one decoder layer or none, because the gamma files are loaded ninth and tenth
and their buffers hold one layer; hence `AcceptedNeverEnabled`: the FPGA path is never
in use with an export the repository's check accepts. These are safety facts, for every number of layers; the run refutes the
statement itself.

**Queue** (`ServerQueueProofs`), for any number of requests, tasks per request, slots
and tokens: `QueueTypes`, `QueueEachTaskOnce`, `QueueNoStray`, `QueueDeferredOnce`, from
`QueueInvariant`.
- `Places`: a task, or its result, is in at most one of five places (queue, deferred
  queue, loop, slot, results), and there at most once;
- `Requested` says what a handler's place means for its tasks. While it waits, the
  tasks that are somewhere (`Live`) are as many as the results it has not received;
  before it posts there is none, and after the last result there is none either,
  which is why `remove_waiting_task_ids` leaves no stray result behind. A cancel is only
  ever queued for tasks nobody waits for any more, so the loop may drop a task for it;
- `QueueOrder` and `LoopOrder`: the tasks that `pop_deferred_task` moved back are ahead of
  every other task, also of the one in the loop's hands;
- `RoomOK`: there is an idle slot for each of them. One release makes one slot idle and
  moves one task, a launch takes a slot only for one of them, or when there is none
  left. Together these two are why such a task need not be deferred again;
  `DeferredOnce` by itself says nothing of slots and is not inductive.

`EachTaskOnce` counts copies; the theorem rests on a bijection between the copies of a
request and its live tasks. Erasing from a queue is stated by positions (`Keep`), and
the order of ids by rank (`Nth`), because nothing is known of `SelectSeq` and of folds
that could be cited.

**ggml-xrt backend** (`XrtBackendProofs`), for any number of threads, weights, graphs
and shapes. `XrtTypes`, `XrtWeights`, `XrtFits` and `XrtOwnProduct` follow from
`XrtInvariant`, which is inductive by
- `NodesOK`: while a thread has a product here, the runtime is initialised and every
  product left to it is one `supports_op` accepts still: `init_once` is over, so what
  the scheduler was told cannot change before `mul_mat` looks again;
- `NothingForeign` and `WeightOK`: a cached weight was unpacked from Q8_0 blocks by
  whichever thread came first, and is there from unpacking to launch;
- `AloneOK`: of two threads in `mul_mat` neither was alone, so the steps of one cannot
  disturb what `ScratchIs` says of the scratch of a thread that was;
- `RekeyOK`: the buffers fit the key they are kept under, unless a rekey is under way
  or the last one failed or was not alone. That is all that makes the shortcut for
  equal shapes right, and it is where the exception of `whole` comes from.

**Thread pool** (`CpuThreadPoolProofs`), for any number of threads, nodes and chunks:
`PoolTypeOK`, `PoolChunkOnce`, `PoolWholeBeforeNext`, `PoolNoWorkerInGraph`, from
`PoolInvariant`. `Types` holds always, the rest of the invariant until a graph uses more
threads than the one before it (`grown`). A graph is cut by its barriers into segments,
two per node (`Seg`), and a thread that the barrier has released counts as in the next
one although it has not seen that yet (`Eff`).
- `Together`: all threads of the graph are in the same segment, those that have not
  woken up yet included, for which the graph has not got past its first;
- `BarrierOK`: the counter of the barrier is the number of threads that wait; between
  the last arrival and the opening everybody else waits. This is what carries the proof:
  the counter is reset before the generation is advanced, and a thread that leaves may
  arrive at the next barrier while others have not left this one;
- `ChunksOK`: a chunk is computed exactly if it was taken and nobody holds it, and no
  two threads hold the same one, though the first chunks are taken by place and the
  rest from a counter.

**Dataflow** (`KernelDataflowProofs`), for any number of rows, heads, columns and tiles and
any depths: `TypeCorrect`, `StreamsEndEmpty`, `TakenInOrder`, `CompletedOnlyIf`,
`NeverStuckEarly` and `CompletesExactlyIf`.
- *What the programs compute.* The recursion of `Unrolled` is proved by the
  least-number principle (`UnrolledStep`), so a loop need not be of known length:
  `Elements` gives what a program reads from or writes to one stream, and the lemmas up
  to `LmOutSole` say, function by function, that each stream has one function that
  writes it and one that reads it, and in which order (`Written`, `Wanted`).
- *The invariant* (`Inv`, part `Carries`): a stream holds what its writer has written
  so far less what its reader has taken so far. With it `NothingLeft` says that a
  stream's two ends travel equally many elements, and `InOrder` that they have them in
  the same order: for any number of rows on the streams that are row by row at both
  ends, and on all of them if there is one row.
- *Only if* (`CompletedOnlyIf`): an operation that comes before another in a program
  has been done when the other has. For each condition of `StreamsHold` there is a
  read of attention or of a GEMM, and the writes that must have gone before it,
  passed on by RoPE (`HandsOn`), less the reads that cannot have been made yet
  (`MetSoFar`).
- *If* (`NeverStuckEarly`, deadlock freedom). In a state where none is ready: the last
  function takes whatever comes, so from it upstream nothing waits to write, one stream
  after the other (`FlowsAlone`; `FlowsInPair` where the data and its scale travel on
  two streams and the scales fit). That leaves SPLIT and attention, joined by three
  streams: for each of the three SPLIT may wait to write and each of the three
  attention may wait to read, either `StreamsHold` gives room or the element is there.
  So nothing waits to write at all, and then, from the first function downstream,
  nothing waits to read: all are finished.

Whether a function can go on is said by its guards (`Ready`, with `StuckStays` for its
relation to `Next`), not by ENABLED. Together with fairness, which the prover does not
reach, this is `Completes`. The proof first failed on the case of SPLIT waiting to write
a key while attention waits for a value: `StreamsHold` then had no condition on the
keys, and TLC confirmed, with five KV heads, a launch that met it and stopped.

**Weights** (`KernelArithmeticProofs`). The exporter splits a matrix in the middle and
puts one half behind each port; the kernel takes even columns from one port and odd
ones from the other, at offsets counted over whole matrices. What that comes to:
`QkvColumns` (which columns of the first matrix get their own weights),
`LaterMatrices` (of the other matrices, none), `MetaOfOtherWeights` (nor do weights
meet their own scale), `PastTheEnd` (the last layer's product fetches past the file),
`LmHeadColumns` (even columns only).

**Numerics** (`KernelArithmeticProofs`). For which operands a conversion is right, and
what happens above: `LowProduct`, `HighProduct` (a negative low weight sign-extends over the
high one), `RowQuantised` and `RowScaleWraps` (right up to a maximum of 16128,
then negative scales and a zero), `GroupQuantised` and `GroupScaleWraps` (up to 1023,
then negative up to 2047, then from 1 again),
`ShuffleInRange` and `ShuffleKeepsApart`.

**Model-checked only.** Liveness (`Completes`, `MoreRowsMixedUp`,
`EveryRequestAnswered`, `EveryRequestServed`, `GraphEnds`, `CallerReturns`, the
fairness part of `ServiceSpec`) and anything with ENABLED are outside what the prover
handles. So is induction over data by the library's theorems, which take an operator as
parameter. Where it could be replaced by the least-number principle on positions it
was, as in the queues, the loops of `KernelDataflow` and the reading of a prompt. That
`KvCache` refines what `FpgaRunner` says of `kv` is neither stated nor proved.

## 6. Plan

1. Done: all modules above; the proofs of section 5.
2. Done: the proofs about `CpuThreadPool`, `XrtBackend` and `ServerQueue`; `StagedIsOwn`,
   `HistoryIsOwn` and `LogitsOfThisStep`; `EncodeOrder`, `PrefillLayout` and
   `PrefillFillsKv`.
3. Done: the proofs about `KernelDataflow`, deadlock freedom included.
4. Next: `KvCache` as a refinement of what `FpgaRunner` says of `kv`.

## 7. Not modelled

- **Values** of activations and weights, and the approximations whose result is only
  approximately specified (RMSNorm, SiLU, softmax): rows carry provenance, and where an
  answer's number is wrong but its provenance right, no property here notices.
- **ViT, connector and bridge** beyond the buffers they read and write and the shuffle.
- **`host_driver`**: sequential, with buffers of its own and no failure handling; it
  replays a dump and shares no state with the server.
- **Streaming, metrics, slot save/restore, LoRA and control tasks, shutdown** of the
  server; a request for a slot id that does not exist (it would be deferred for ever,
  taking another task's wake-up each time); later parts of a batch that fail to
  decode, beyond the fact that slots may have been served by then.
- **Launch states**: `run.wait()` returns a command state the runner throws away.
  A launch here throws or has its effect.
- **OpenMP**, thread priorities and affinity, hybrid memory-order effects of relaxed
  atomics in the thread pool; operations other than products.
- **Scripts, build and link files, the testbench**: offline, sequential, or
  configuration. The testbench is written for an older argument list of the kernel.
  What the exporter and its check compute of sizes and places is in `HardwareSession`
  and `DecoderWeights`.
- **The rest of llama.cpp**: upstream, hundreds of thousands of lines of other
  backends, models and operators that the FPGA path does not meet; of it the server's
  queue and the CPU thread pool, which have concurrency of their own, are modelled.
