# Verification of the LuZ DSV41 serving stack

TLA+ models, model-checking runs and machine-checked proofs for the parts of this
repository that carry its own concurrent and failure-handling logic. All paths below are
relative to the repository root. The project is built in stages: what is done is described
in sections 2 to 6, what comes next in section 7.

## 1. Inventory

The repository serves one model on four nodes: a gateway in front of the engine, an engine
(SGLang with overlays, patched kernels and adapters) that runs as one rank per node, and
scripts that boot and watch the fleet.

| component | state | operations | what is hard | what makes it correct |
|---|---|---|---|---|
| gateway, all requests (`gateway/concurrency_proxy_v2.py`) | the semaphore and its waiters, `INFLIGHT`, gauges and counters | arrive, wait, time out, claim a key, open, finish | a timeout or cancellation after the waiter was given its unit; failures between two acquisitions | slots, keys and gauges are conserved on every path; one prefill per prompt; no stranded waiter |
| gateway, one stream (`handle_stream`) | frame queue, four tasks, timers, engine response | connect, retry, pump, write, heartbeat, cancel, clean up | two tasks report the same failure; full queue; client gone; server shutdown; cap looked at late | what is acquired is released; a client sees a prefix of the answer, then at most errors, then the end; truncations are attributable; the handler returns |
| gateway, body rewriting | none (pure) | find `stream`, inject, sanitize | idempotence, fail-open | planned |
| Engram row store, pool (`adapter/row_store.cpp`) | job, ticket counter, countdown, active workers | run, drain, sleep, wake | straggler on the next job's tickets; lost wake-up; buffers reused too early | each position once, before the call returns; every call returns |
| Engram row store, cache | sets of ways, mutexes, seen bitmap, counters | probe, read, mark, evict, fill | replacing a row while it is copied; duplicates; CAS race | whole and right rows; counters add up |
| Engram row store, set-up and Python side (`adapter/engram_backend.py`, `scripts/pack_engram.py`) | range, packed shard, pinned scales, staging buffers | open, range, pin, attach, look up | once, in one thread; buffers ordered by one stream | not modelled, see section 6 |
| FlashInfer autotune (`sglang-overlay/flashinfer_autotune.py`) | one cache file per rank that outlives the boot | gather, vote, rewrite, load, tune, save | ranks that disagree hang in a collective; torn files; environments that drift | all ranks run one table; a table once common stays |
| fleet scripts (`start.sh`, `stop.sh`) | containers, image tags and calibration tables of four hosts | serve, stop | remote calls that fail before or after their effect; containers that die; interrupts | "ready" means a fleet of this serve with one image and one table; "clean" means no container |
| boot supervisor (`boot.py`) | argument list, overlay files | build, install, exec | options that disagree with the image | planned |
| MoE adapter (`adapter/moe_b12x.py` and others) | prepared weights, bucket ladder | prepare, select, hold | a selection outside the prepared buckets | planned |
| RoCE one-shot transport (`b12x-site/b12x/comm/roce/`, `sglang-overlay/roce_pynccl.py`) | two slots per peer, doorbell, epoch, poison and error words, block counters, queue pairs | launch, stage, ring, post, wait, reduce, accept | slots reused without acknowledgement; a level doorbell; blocks that disagree on a timeout; ranks that leave | a result a host takes is the sum of one operation of all ranks; a fleet without failures completes, one with failures raises |
| request window (`sglang-overlay/dsv41_request_window.py` and its callers) | rings of tagged rows per slot and layer, one workspace, the prepared key | reset, activate, buffer, commit | slot reuse, rejected drafts, chunks, layers that are skipped | a query attends to the rows of its own request at their positions, and the check for missing history is never a false alarm |
| prefill reuse (`sglang-overlay/dsv4_prefill_reuse.py`) | reuse keys | look up, commit | commit of a stale key | planned |
| SGLang scheduler/cache/model overlays, b12x kernels, MLA runtime | upstream classes | | | not modelled, see section 6 |
| benchmarks, gates, data, documents | none of the system's | measure | | not modelled |

How they interact: clients talk HTTP/SSE to the gateway, which holds at most
`MAX_CONCURRENCY` requests open towards the engine. The engine's ranks step together; inside
a step each rank's captured graph calls `row_store_lookup` as a host callback and exchanges
partial sums over the RoCE transport, and the attention layers read and write the request
windows; at boot all ranks tune kernels together, after `start.sh` has started the
containers. The cache files of the autotuner are the only state here
that survives a restart.

The hazards the properties answer to are listed with their lines in `PROJECT.json`.

## 2. Modules

| module | what it is |
|---|---|
| `Admission` | abstract: at most `Limit` clients inside, no two with one claimed key |
| `Gateway` | `dispatch`, `acquire_or_none`, the dedup claim, accounting; implements `Admission` |
| `MCGateway`, `Gateway_proofs` | instance for TLC; theorems |
| `ClientView` | abstract: what a client may see of one stream |
| `GatewayStream`, `GatewayStream_proofs` | the handler, producer, consumer and heartbeat of one stream; implements `ClientView` |
| `RowLookup` | abstract: every position of a lookup once, before it returns |
| `RowPool` | `Pool::run`, `drain`, `loop`, and the serial path; implements `RowLookup` |
| `MCRowPool`, `RowPool_proofs` | instance; theorems |
| `RowCache` | `serve` and `fetch_row` |
| `MCRowCache`, `RowCache_proofs` | instance; theorems |
| `AutotuneVote` | the vote over cache files, the load, the collective profile, the save, over several boots |
| `MCAutotuneVote`, `AutotuneVote_proofs` | instances; theorems |
| `Collective` | abstract: a host takes only sums of one operation, given by all ranks |
| `RoceOneshot` | kernel, proxy thread, queue pairs and host of every rank; implements `Collective` |
| `MCRoceOneshot`, `RoceOneshot_proofs` | instances; theorems |
| `RequestWindow`, `RequestWindow_proofs` | `window_layout`, `RequestWindow` and the tail of the late layers, over whole requests; theorems |
| `FleetServe`, `FleetServe_proofs` | `start.sh serve` and `stop.sh`; theorems |

Operators named `X_Something` beside an action `X` are deliberately broken variants of it, a
bug of a plausible kind each; every property is shown to fail for one of them.

### Gateway

asyncio runs one task at a time, so an action is the code between two awaits. In `Gateway` a
request's `pc` is the await it is parked at. `value`, `waiters` and `woken` are
`asyncio.Semaphore`'s `_value`, `_waiters` and the waiters whose future is set, modelled
from CPython 3.11/3.12, where a waiter that is cancelled after its future was set gives the
unit to the next one (the code needs 3.10 or later: line 179 has `float | None`).
`INFLIGHT` is the code's set, `registered` the local variable of the same name per stream.
`relay_plain` and `relay_get` are one step each: they hold nothing but the slot. A body is
what `body_key` sees of it.

`GatewayStream` opens up the label "streaming" of `Gateway`. `pc` has one entry per task;
`cancelled` holds the tasks that will get a `CancelledError` at their await; `q` is the
frame queue. `wire` records what was handed to the client's transport, `expired` that
`TOTAL_STREAM_TIMEOUT` has passed. Engine and client are nondeterministic: each await may
end in any way the library allows, the timers race everything. Chunks are numbered modulo
`QueueSize + 3`, more than can be in flight, so a stream of any length has a finite model.
aiohttp's default (3.7 and later) does not cancel a handler when its client leaves; a
server shutdown does (`ServerCancels`). When the handler is parked in `await consumer_t`
the cancellation goes to the consumer.

### Row store

`RowPool` has one action per block under `mutex_` and one per access of an atomic outside
it, so every interleaving that sequentially consistent atomics allow is explored. The
orderings in the code are weaker in places; every access whose order matters is either under
`mutex_` or an acquire/release pair, and the countdown is `acq_rel`. Condition variables
have spurious wake-ups and notifications that find nobody. The destructor never runs (the
pool is a leaked static) and `fail()` ends the process.

`RowCache` splits the two `memcpy`s of a row in halves, so a reader that could overlap a
writer would deliver a mixed row: it is the mutex of the set, not the grain of the model,
that prevents it. The table file is never written while it is served, so a read returns the
row, whichever of the three ways (packed shard, resident map, direct read) is used.

### Autotune

`file[r]` is the cache file of a rank, which survives `Restart`; a boot may end anywhere,
also after `write_text` truncated a file (`torn`) and before it filled it. A digest is exact
(sha256 over the contents and the environment) and is "nothing" for a missing or unreadable
file. FlashInfer's side is external and modelled from its use and from what the comments say
of it: a file with a foreign `_metadata` stamp is ignored, a hit skips the profile, the
profile all-reduces its timings and so needs all ranks and gives all the same tactics, the
save replaces the file with the rank's own stamp (in one step: a torn save is not modelled,
the vote's own write is).

### RoCE one-shot

Every rank has its kernel, of one or two blocks, its proxy thread and one queue pair per
peer and HCA. A block is at a label of `pc[r][b]`: it stages its packs into the send slot,
arrives at the staging counter (the last one publishes the size and rings the doorbell),
waits for the flags of all stripes of all peers, reduces unless some block's wait has run
out (`poison`), and arrives at the tail counter (the last one advances `epoch`). `door` is
the doorbell, a level that holds the newest number only; `Poll` and `Post` are the proxy's
loop, one queue pair a step; `wire` holds what was posted and not yet written, data before
flag, each queue pair in order. Sequence numbers are taken modulo `Word` (2^32 in the code).
Contents are the number of the operation that staged them, so a sum is right when all its
terms have the number of the host's own operation. Faults are chosen by a constant: `late`
(a bounded wait may run out at any time), `link` (a write fails) and `leave` (a process ends
or closes the engine at any time). The host side is `all_reduce` (`Launch`) and
`synchronize_and_check_roce` (`Accept`), which hands on the results of kernels that have
finished, when neither the proxy nor the error word shows a failure. With overlap it waits for
the copies of one pass only, so the kernel of a later pass may be running; without, for the
whole device: `Results` allows for both.

### Request window

A row is a request, a position and whether the token will be kept. One thread runs the
model; `pc` alternates between `Buffer` and `Commit`, once per layer. The kinds of pass are
the replay of a cached prefix, a chunk of prompts and a verification of drafts, eager or as
a captured graph (which runs no Python: no check, and nothing remembered as prepared). Which
requests a pass takes and how prompts are cut is left open. `window_layout` is translated
row by row (`Index`, `HistoryPos`, `Committed`); that two rows of one pass may fall on one
cell, where an indexed store may keep either, is in `Commit`. `skipTail` is
`DSV41_SKIP_NONFINAL_DECODER`, on in the shipped environment (`.env.tp4.example:103`), and
both values are explored. `gap` records, for the properties only, up to where the late
layers were left out.

### Fleet scripts

One script at a time drives the hosts; `pc` and `at` say which command at which host is
next. A remote call may fail before or after its effect, so `Removed` may leave the
container while the script, which does not look, goes on; a container may die or be seen
running at any step, and the operator may replace an image or the head's tables between two
scripts. `gated` says whether a container got the variables of `EXTRA_DOCKER_ENV` that name an
engine gate: `engine_env_assert` compares those in `_ENGINE_GATE_KEYS` (`start.sh:246-254`) and
no others, so a "ready" says nothing of a missing `NCCL_*` or `DSV41_ROCE_RING`. An `inspect`
that fails reads an empty environment, and a head whose log or state cannot be read counts as
dead, so those ends of a script are always possible. The two tables are one version number: they are pushed by the same loop with the
same handling. `unseen` is a ghost: the workers whose docker failed while ssh did not, which
`stop.sh` cannot tell from an empty listing, since the listing ends in a pipeline whose exit
code is `tr`'s (`stop.sh:179`).

## 3. Runs

| run | configuration | shows |
|---|---|---|
| `gateway` | 6 requests (2 retries of one body, another stream, 2 plain, 1 GET), 2 slots | slots, keys, gauges exact on every path; FIFO; `Admission` implemented; the queue drains without timeouts |
| `stream` | queue of 2, one reconnection, every timer, client loss, server cancellation, fairness | everything released exactly once; truncations attributable; error frames and counters agree; `ClientView` implemented; the handler returns after the cap; a client that left gives the slot back without it |
| `row_pool` | calls of 3 and 2 positions over 2 workers, one serial call | no straggler, no lost completion; `RowLookup` implemented; calls return |
| `row_cache` | 2 threads, 3 owned rows and one of another rank, one set of 2 ways, two rows in one byte of the bitmap, 5 lookups | exact rows and counters; fetches end |
| `autotune` | 3 ranks, 2 environments (the same on all ranks), 2 tables, 3 boots | one table on all ranks; no torn load; last copy kept; settled tables stick; a boot left alone ends; the discard branch is dead |
| `roce` | 2 ranks, 2 HCAs, 5 operations of alternating size (grids of 1 and 2 blocks), numbers modulo 4, no faults | the proxy never skips a doorbell; queued writes carry their operation; all operations complete, with no acknowledgement anywhere |
| `roce_faults` | 2 ranks, 1 HCA, 3 operations, all three faults | no block reduces a foreign operation; `Collective` implemented; ranks raise instead of hanging |
| `window` | 2 slots, 1 early and 1 late layer, window 2, 2 drafts, chunks of up to 4, prefixes of up to 2, 2 requests, both values of `skipTail` | attention sees its own request's rows; no false alarm |
| `fleet` | 2 workers, 2 versions, 3 scripts | ready means this serve, with its gates; clean means clean |
| `autotune_drift` | one boot, nodes of two environments, all with the table of the boot before under their own stamps | what the comment of the vote says and the code does not do |
| `late_readers` | 1 slot, window 3 | what the comment on the late layers says and the code does not do |
| `refused_never_serves` | 2 workers | what the refusal in `start.sh` says and the code does not do |

Bounds. Two slots and six requests give queues of up to three waiters, so a unit can be
passed on twice; the retries and a third stream exercise both outcomes of the dedup test. A
queue of two holds an error frame and `DONE`, and with one chunk in it only one of them, so
full and dropped frames both happen. One reconnection distinguishes the last attempt from the others. Two workers
and two pooled calls are what a straggler needs (a thread of the old job, the new job), and
one more than that. Two ways and three rows reach eviction, wrap-around of the cursor and
duplicate insertion. Three ranks are the smallest fleet with a majority, ties and an empty
file at once; three boots let a write torn in one and repaired in the next be used in the
third. Two ranks are enough for the transport's hazards, which are between a rank and one
peer; five operations use each of the two slots more than twice and wrap the four sequence
numbers, and a queue pair of depth 1 blocks the proxy in the middle of an operation. With
faults three operations are enough to reuse a slot behind a failure; `Word` is then 8, so
that no number wraps onto 0 (see below). A window of 2 with a page of 2 and two drafts gives
a ring of four rows that five positions wrap, and two requests in two slots reuse a slot
beside a live one. Three scripts are a serve, one that leaves something behind, and one that
meets it.

`CHECK_DEADLOCK FALSE` where the system stops: all requests done, the stream over, the
lookups or boots used up. In `row_pool` a sleeping worker can always wake spuriously and
look at its predicate again, so no state stops and the run leaves deadlock checking on; that
every call returns is what its liveness property says.

Findings (see `PROJECT.json` for lines and quotations):

- after the ranks have tuned together, a rank whose node has another environment is outvoted
  at the next boot, overwrites its file with the winner's and then ignores it for its stamp,
  so it tunes alone: its peers never join the all-reduce (`autotune_drift`);
- after a last chunk shorter than the window, a decode step of a late layer reaches rows that
  were never written for it, whatever the comment says of "dead output" (`late_readers`);
- a head refused for a missing gate variable is left running, and serves without the gate
  (`refused_never_serves`).

Definitions that state a documented behaviour the code does not have, and that TLC refutes
when they are put into a configuration; they have no run of their own:

- `CutsAreExplicit`, in `GatewayStream`: a stream cut by `TOTAL_STREAM_TIMEOUT` ends with a
  clean EOF and no error frame;
- `ReadFailuresAreExplicit`: a read failure that meets a full frame queue loses its error
  frame, and the client sees a clean end;
- `FramesStartAtBoundaries` (with `TornChunks` not empty): keep-alive comments can land
  inside an SSE event, since chunks are not aligned to events;
- `DisconnectIsPropagated`: a disconnect met before the first byte does not cancel the
  upstream request;
- `NoRetuneLottery`, in `AutotuneVote`: caches of an older environment can win the vote; all
  ranks then tune afresh behind a log line that says they do not.

And four observations without a definition that could fail: the branch that logs "tuning from scratch"
cannot be reached (`DiscardIsDead`, proved), though `scripts/boot-signature.sh:148` looks for
that line; with `FIRST_TOKEN_TIMEOUT=0` the total cap does not end a stream whose engine
never answers (`HandlerReturns` needs `Budgeted`); a producer cancelled while its queue is
full and its consumer gone parks in its `finally` block for good, so `DONE` is not always
enqueued (`producer`'s docstring, line 411); and a wait of the RoCE kernel that runs out at
the sequence number 0, after 2^32 operations, records 0, which every reader takes for "no
failure" (`_oneshot_cute.py:274`): with `Word` at most `MaxOps` and `late` in `Faults` the
model shows the poisoned result being taken.

## 4. Fairness

- `Gateway`: an admitted waiter runs; a request with a slot moves on, which is
  `HandlerReturns` for streams, a total timeout for plain relays and, for the body, the
  assumption that it arrives or the connection dies (nothing in the code bounds that wait).
  `QUEUE_TIMEOUT` is not needed.
- `GatewayStream`: ready tasks run and armed timers fire. Nothing is assumed of the engine
  or the client, nor that the cap elapses.
- `RowPool`: running threads keep running; no worker needs to wake (line 234 claims this).
- `RowCache`: running threads keep running. Weak fairness is enough because lookups are
  bounded; under an endless load a mutex could starve a thread.
- `AutotuneVote`: running ranks keep running. `Restart` is not fair, and bounded.
- `RoceOneshot`: hosts go on launching and checking, kernels, proxies and NICs that have not
  failed go on running (each is a thread or a device of its own). That waits run out is
  assumed only as the hypothesis of `RaisesInsteadOfHanging`, and only when `spin_limit` is
  set does the code promise it; failures are never assumed.
- `RequestWindow` and `FleetServe` state safety only, and no fairness.

## 5. Proofs

All theorems hold for every value of the constants that the assumptions of the module admit.

**`Gateway_proofs`.** `SlotInv` joins conservation (free units, units given to woken waiters
and units held add up to the capacity), FIFO order and "no free unit beside a waiter that
is not woken": none of the three is inductive alone, since a release is right only if the
waiter it wakes is the first one. `KeyInv` ties `INFLIGHT` to the streams between claim and
cleanup, `GaugeInv` the gauges to the stages. Together they give the invariants and the
refinement of `Admission` for any number of requests and slots.

**`RowPool_proofs`.** Three layers: `HolderInv` (the caller in the pool holds `caller_`, its
job is published, and `active_` counts exactly the workers between taking a job and leaving
it), `TicketInv` (tickets out are distinct and below `next_`; a position of the job was
served once iff its ticket was drawn and is not still at "serve"; `remaining_` plus the
tickets drawn equals the chunks plus the tickets out) and `ServedInv` (other calls). Overdrawn
tickets make the countdown equation two-sided. They give `NoStraggler`, `NoLostCompletion`
and the refinement of `RowLookup`, for any number of calls, workers and ids.

**`RowCache_proofs`.** `RowInvariant` says who holds which mutex and that a live way not under
replacement holds both halves of the row its key names; with the mutex excluding the
replacing thread the copy is whole. The counting theorems are separate invariants
over cardinalities, on top of it, and joined in `CountersAgree`. They cover a disabled cache (`sets = 0`) and any sharing of mutexes.

**`AutotuneVote_proofs`.** For a fleet whose nodes have one environment at a time (hypothesis
`Uniform`; `autotune_drift` shows it is needed). `GatherInv` says what the gathers hold and
that votes are taken only by ranks that disagree; `EnterInv` that a rank past the vote holds
what was agreed, until the first save; `RepairInv` that a torn file always has a readable one
beside it. That the most common digest exists is proved by well-founded choice over a
finite set. From `VoteInv` follow the safety properties and that the discard branch is dead.

**`FleetServe_proofs`.** `ServeInv` follows the script: from the preflight on all hosts have
the head's image (`SameImage`), behind the push they have its tables (`SameTable`), and the
workers already checked, then the head, run in a container that this script made, with
its gate variables, from that image, which has read that table or none yet (`WorkersUp`, `HeadUp`). A container
that survived its removal cannot be one of them: `docker run` is refused while the name is
taken, and the script dies. `BannerIsTrue` ties the head's banner to this fleet: a head made
by this script is not ready before every rank has read its table. `Listings` says of
`stop.sh` that every worker already listed is without container, in `failed` or in `unseen`.
For any number of workers, versions and scripts.

**`RoceOneshot_proofs`.** For any number of ranks, HCAs and blocks, operations of any size and
any of the faults, as long as the numbers do not wrap (hypothesis `MaxOps < Word`, 2^32
operations in the code; beyond it only run `roce` looks, with `Word = 4`). No message says that
a slot is free; what protects it is that nobody passes an operation that a peer has not
posted. `Posted(r, p, h)` counts what a proxy has posted to a peer, and `Sync` has the
lag that follows, `epoch[r] <= Posted(p, r, h) <= door[p] <= epoch[p] + 1` and the same with
the ranks exchanged, beside the two block counters (`KernelSync`, `TailSync`), the order
of each queue pair (`Flow`) and the proxy's place in its round (`ProxySync`). With two slots
nobody can then be writing the slot another still reads. `Data` follows the contents: of the
send slot while blocks stage it (`StageSync`) and until it has been written out (`SendSync`),
and of the receive slot from its flag on (`RecvSync`, `FlagsStay`). `Exact` carries them
into the result. After a failure nothing is claimed of a rank's results: the error word or
the proxy's state shows it, and the host takes none.

**`GatewayStream_proofs`.** For any queue size and number of reconnections, with and without
a first-token budget and cancellations. `Phases` says which task may be where and what is
held there: a handler behind its finally block has left no task that could still touch the
stream. For as long as the consumer reads, `Order` says that the chunks in the queue go on
from the last one on the wire to the last one read (`Linked`), so a chunk the producer holds
while the queue is full is the next one, and `Silence` that no chunk stands behind an error
frame, neither in the queue nor still with the producer; from the two follows the refinement
of `ClientView`. The two claims about the end of a stream need what led to it: `Explain` says
of a consumer that stopped, of a producer in its finally block and of every queued `DONE` what
the reason will be found to be, and `Counted` that the error frames on the wire and in the
queue, and the one that a rejection still owes, are all counted.

**`RequestWindow_proofs`.** For any finite set of slots, any number of layers, requests and
tokens, and any window, page size, chunk and number of drafts. The first half is about
`window_layout` alone: in the layout of a batch the rows lie slot by slot (`RowHasSlot`,
`RowHasOneSlot`: sizes of sets of tokens, so no induction over the batch), every group has one
number and every number one group (`BatchNumbers`), and the index of a row, k tokens back, is
nothing, a valid history row of its own slot for that very position, or the row of that token
(`BatchIndex`). `WorkspaceSize` and `BatchSize` say that the workspace, sized once, has room.

The second half is the inductive invariant `Inv`. `HistoryIsOwn` speaks of the moment between
buffer and commit; what it rests on is what the rings hold when nobody looks. `WindowInv`
says it for every layer: the ring holds the last `Window` tokens the layer has been given,
which are `len` of them before its commit of a pass and `len + outcome` behind it (`LenAt`),
less what the late layers skipped (`gap`). `Fits` says how far the rows of a pass may
reach beyond the tokens that will be kept (less than `Drafts`: so none of them can land on a
cell of the window, which is why the ring has `Window + Drafts` cells), and that they begin
where the ring ends or need none of it; `LayoutInv` carries it for the layout in use and, up
to the late layers, for the tail to come. `SlotInv` bounds `gap` without `skipTail`. Besides
the invariants of the run they give two statements that no run makes: without
`DSV41_SKIP_NONFINAL_DECODER`, and before the late layers always, the exceptions of
`HistoryIsOwn` and `NoFalseAlarm` do not exist (`AttentionOwnUnlessSkipping`,
`RaisesOnlyWhenSkipping`; `late_readers` shows that the restriction is needed), and no commit
has two rows for one cell, so that the order of the copies, which the code leaves to the
device and the model to `pick`, never matters (`CommitWritesDistinctCells`). `Inv` was
checked by TLC on the instance of `window` and on one with a single slot, a window of 3, and
pages of one row before it was proved.

Every invariant, every safety property and every refinement that a passing run checks is
proved. Only model-checked is all liveness (`QueueDrains`, `HandlerReturns`,
`DisconnectReleasesSlot`, `CallsReturn`, `FetchesEnd`, `BootEnds`, `CollectivesComplete`,
`RaisesInsteadOfHanging`): fairness and ENABLED are outside the provers' reach, and so is
what the numbers of `RoceOneshot` do once they wrap.

Assumptions about the outside: the semaphore of CPython 3.11/3.12; `asyncio.wait_for` and
task cancellation as documented there; aiohttp without `handler_cancellation`; sequentially
consistent atomics in `RowPool`; exact digests; FlashInfer as described above; queue pairs
that write in order, data before flag, and memory that is seen in that order (the kernel's
acquires and the proxy's fences); `docker run --name` that refuses a taken name.

## 6. Not modelled

Timings, sizes in bytes, log texts and metrics that no property is about. In the gateway:
body rewriting (planned), the metrics endpoints, authorisation. In the row store: per-slot
counters, set-up. In the autotuner: `SGLANG_FLASHINFER_AUTOTUNE_CACHE=0`, groups of one rank,
the gates that skip tuning, the draft and extend passes (each repeats what is modelled), and
a container that is recreated, which is a new initial state. The SGLang overlays are whole
upstream files with local patches: their state lives in upstream classes that are not in this
repository.

In the RoCE transport: connecting the queue pairs, the all-gather kernel (the same protocol
without the sum), capture into graphs and the choice among several runtimes by size, and the
statistics. In the request window: the capture path (`initialize_dummy_history`), and what
the rows hold. In the fleet scripts: the development mode (`SGLANG_CODE_MOUNTS=1`),
`SKIP_SMOKE=1`, which waits for `/health` instead of the banner, the read-only gates, the
other commands, and two scripts at once, which nothing locks out. The staging buffers of
`engram_backend.py` are ordered by one CUDA stream per layer, and the prefetch on a second
stream is off by default: there is no interleaving of the host's to explore.

The b12x package is by far the largest part of the tree: numerical kernels (MoE, attention,
GEMM, normalisation) and their tuning tables. They are data-parallel arithmetic without
state that outlives a call, so there is no transition system to model; only its transport is one.

## 7. Plan

In this order; each with its abstract contract, runs and, where it says so, proofs.

1. `BootSupervisor` (`boot.py`): options against image, overlay and environment.
2. `BodyRewrite`: `is_stream`, `maybe_inject`, `sanitize` as functions, against a reference
   definition over small bodies (idempotence, fail-open, key stability).
3. `MoeLadder` (`adapter/moe_b12x.py`): bucket choice and scale hold.
4. `PrefillReuse` (`sglang-overlay/dsv4_prefill_reuse.py`).

The number of runs is kept small: a later component's runs replace the narrower of the
present ones rather than add to them.
