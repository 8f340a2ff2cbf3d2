# A TLA+ verification project for flashmla-rs

flashmla-rs wraps DeepSeek's FlashMLA sparse-attention CUDA kernels in three
layers: a C ABI (`flashmla-sys`), a Rust wrapper that validates parameters
(`flashmla`) and a Candle integration that allocates tensors and launches
(`candle-flashmla`). The kernels themselves are a git submodule and not part of
the repository. What can go wrong in *this* code is the bookkeeping around them:
thread-local error state, a cached device check, independent computations of the
same sizes and alignments in Rust and in C, plans that outlive the call they were
made for, kernels that still run after the call that launched them returned, and
a build script that decides by itself what its build directory is good for.

## 1. The system

| Part | State | Operations | Interacts with |
|---|---|---|---|
| C ABI (`csrc/flashmla_c_api.cu`) | per thread: `g_last_error`, `g_validated_device`; the CUDA runtime's current device and pending error | `flashmla_last_error`, `_get_device_info`, `_sparse_prefill_bf16`, `_sparse_decode_plan`, `_sparse_decode_bf16_fp8` | called by `flashmla`, launches upstream kernels on the caller's stream |
| Decode sizing (`flashmla/src/sparse_decode.rs`, `fill_sparse_decode_plan_result`) | none | partitions, metadata, accumulator element counts, on both sides of the ABI | compared by the candle layer, which sizes tensors with them |
| Decode planning (`candle sparse_decode_plan`) | a planning in progress, the `SparseDecodePlan` it returns | validate, size-only call, compare, allocate, generate | C ABI twice, Candle's allocator |
| Decode launch (`candle sparse_decode`) | borrowed plan, outputs | validate, compare workspaces, allocate outputs, launch decode (one or two kernels) and combine | C ABI, plan, stream |
| Device stream (external) | queued operations | execute in order, free in order | all of the above |
| Prefill (three layers) | a call in progress; the current device | validate tensors, query their device, allocate outputs, convert, check again in C, choose a kernel, launch | C ABI, Candle's allocator, which makes the device current |
| Tensor pointers and guards (`candle tensor.rs`) | read locks of storages, cudarc's events | lock, take a pointer (wait), drop the guard (record), unlock | every launch; refills and drops by the program |
| Graph capture and replay (smoke tests) | the graph | capture a call, copy its output, replay | stream, allocator; needs cudarc's events switched off |
| Architecture selection (`build.rs`) | environment, GPUs of the host | `FLASHMLA_ARCHS`, `CUDA_COMPUTE_CAP`, `nvidia-smi` | decides what the build compiles, or that it compiles stubs |
| Build script (`build.rs`), Cargo, rustc | build directories with objects and archives; what Cargo recorded | compile sources one by one, remove and pack the archive, bundle it | other builds that share `FLASHMLA_BUILD_DIR` |
| Stubs (`unsupported_arch`) | none | every call fails with one status | replace the C ABI |

Hard behaviours: threads with private and with shared state; errors CUDA reports
at a later call than the one that failed; a call that launches three kernels of
which the second fails; plans used for tensors they were not made for; buffers
dropped while kernels that use them are queued; locks taken one by one while
writers wait; streams ordered by events only; a graph replayed long after its
tensors went; arithmetic in two widths; builds that are cut off, that share a
directory, or that Cargo wrongly believes to be up to date. Each is a hazard in
`PROJECT.json`, at its line, with the properties that guard it.

What makes each part correct: the message and status a caller reads are those of
its call and success means everything was launched (C ABI); the two sizings are
the same function and cannot wrap (sizing); a plan can be launched, only on the
compiled architecture, and a launch never uses workspaces of another shape
(planning, launch); the outputs of a success are computed from its own data in
memory that is still allocated, and do get computed (stream); a prefill that
reaches a kernel fits it, is on its tensors' device and stays in their storages,
and C rejects nothing Rust accepted (prefill); a kernel reads what its tensors
held when it was launched, and every call returns (guards); a library holds one
architecture and nothing stale, and repeating the build gets there (build).

## 2. Modules

| Module | What it models | Code |
|---|---|---|
| `CApi` | the C ABI as its threads see it | `flashmla_c_api.cu`, `error.rs`, `device.rs` |
| `DecodeSizing` | the pure sizing functions of Rust, C and candle | `plan_for_arch`, `fill_sparse_decode_plan_result`, `decode_workspace_shapes` |
| `DecodePlanning` (extends `DecodeSizing`) | planning and the checks of a launch | `sparse_decode_plan`, `validate_*`, `validate_plan_tensors` |
| `DecodeStream` | threads, shared plans, launches, stream and buffers | `sparse_decode_plan`, `sparse_decode`, C decode entry |
| `DecodeService` | what `sparse_decode` promises; `DecodeStream` implements it | its signature and safety comment |
| `Prefill` | a prefill through all layers | the three `sparse_prefill.rs`, `device.rs`, C prefill entry and dispatch |
| `TensorGuards` | locks, pointers, guards and streams; graphs | `tensor.rs`, the order of locks in `sparse_decode`, the capture of the smoke tests |
| `StorageService` | what storages, locks, events and streams promise a program; `TensorGuards` implements it | `tensor.rs`, the safety comment of `sparse_decode` |
| `ArchSelection` | the choice of the architecture | `selected_arch`, `parse_arch`, `parse_detected_archs` |
| `Build` (extends `ArchSelection`) | Cargo, the script, build directories, rustc | `build.rs` |
| `CApiProofs`, `DecodePlanningProofs`, `DecodeStreamProofs`, `PrefillProofs`, `BuildProofs` | the theorems of the module they are named after | |
| `TensorGuardsOrderProofs`, `TensorGuardsMemoryProofs`, `TensorGuardsServiceProofs` (each extends the one before) | the theorems of `TensorGuards` | |
| `MC...` | constants for TLC | |

A definition `Foo` preceded by a variant such as `FooIgnored` has that variant
only to show that a property notices the bug it contains: the project's
`mutants` substitute it. They are not part of any specification.

### CApi

A thread is `idle`, `launching` (validated, some kernels left) or `returned`
(the C function has returned, the Rust wrapper has not read its message yet).
Entering a call is one step with the outcomes of the validators; every launch is
a step; the check of `cudaGetLastError` and the return are one step; reading the
message (`Consume`) is another, so that other threads come between. `validated` is
`g_validated_device`, `lastError` is `g_last_error` abstracted to the number of
the call that wrote it. `lastFailure`, `faults` and `reports` are histories. A
launch fails in one of two ways the code tells apart: an exception (the rest is
skipped, `cudaGetLastError` is not asked) or an error that only the runtime
knows, after which the code goes on launching.

### DecodeSizing and DecodePlanning

`NumSmParts`/`CNumSmParts` and `PlanForArch`/`FillPlanResult` are the Rust and
the C version of the same sizes, kept apart because the code has both. Overflow
of a checked operation is a value, and `I32Max` and `UsizeMax` are constants.
`DecodePlanning` runs `sparse_decode_plan` as five steps, because the device that
is current may not be the one of the tensors until the first allocation (`Bind`)
makes it so, and `Launch` as one step with the validators of all three layers.
Requests carry the few attributes the checks tell apart: `extra` says that the extra
cache is given, which planning goes by, while a launch goes by its dimensions; `ints`
and `bases` stand for what only a launch looks at. A block stride of zero (a cache
expanded over its blocks) and an extra cache that is given and empty are requests too:
planning accepts them and every launch refuses them (`LaunchLayoutAccepted`).

### DecodeStream and DecodeService

Threads build plans, borrow them for a call (`&mut SparseDecodePlan` is the
guard `Unborrowed`), enqueue kernels one at a time and return, while the device
executes the head of the stream. `rows` records which call last wrote each half
of the heads of each accumulator row; a combine is `own` only if everything it
reads was written by its own call. The metadata kernel chooses any schedule the
contract of upstream allows; a schedule is the `num_splits` array itself, prefix
sums of the splits of each request. A free is an operation on the stream, as in
Candle's allocator; the error return of a call frees what the call allocated.
The model records which buffers are freed, so a use of a freed buffer is visible.

`DecodeService` has three variables: the status of a call, the calls that had
succeeded when it began, and the calls whose outputs are complete. Its fairness
says that successful calls are completed. The refinement mapping reads `written`
off `output` and forgets plans, threads, rows and the stream.

### Prefill

One thread makes calls and switches devices. A call of the candle layer is
`PrefillCall` (its tensors are accepted), `Query` (`get_device_info` of the
tensors' device, then the Rust rule), `Allocate` (the outputs; this is what makes
the device current), `Convert` (`to_sys`) and `Reject` or `Launch` in C; a
`RawCall` enters at `Convert`. `Alignment` is the top-k rule of Rust,
`TopkAlignment` that of C and `KernelOf` the choice of a kernel, three places that
repeat one boundary. Tensors are views with shape, strides and offset; a pointer
remembers its storage, so that a layout leading out of it is visible. The library
(SM90a, SM100f or stubs) is an initial choice.

### TensorGuards and StorageService

A call locks its storages one by one (`Lock`; std's `RwLock` lets no reader in
while a writer waits), takes their pointers (`Point`: the stream waits for the
last write), launches, and returns: the guards record the reads, then the locks go
(`Return`). Around it the program refills storages on any stream (`RefillBegin`
waits for the lock, `Refill` enqueues), drops inputs and outputs. Events are
numbers of records and a wait names the record it waits for. With cudarc's events
off everything is on one stream, and a call may be captured (`BeginCapture`,
`CopyOut`, `EndCapture`) and replayed. A call may fail in a capture as anywhere else:
its allocation and release stay on the tape, and the program ends the capture only
when it has copied an output. `given` is a history: what the inputs hold
once everything before the launch is done. Outputs and workspaces stay on the
stream that allocates them, so their events are left out. Assumed of the program:
storages are locked in one order; it keeps the inputs of a captured call, of which
a graph has only raw pointers. `Depth` is that order: a call locks storages of
falling depth. It is one order for all calls, since an order for each pair of them
would not do: three calls that each share two storages with the next can lock them
in a circle.

`StorageService` is the same program with one thread and one stream. `version` are
the refills so far; `Issue` takes a snapshot of all inputs of a call (or of every
call in a graph), `Compute` makes an output from a pending snapshot that is not
later than the others of its call. The refinement mapping reads `Pending` off the
decodes that are queued anywhere and `Computed` off the contents of the outputs, and
forgets locks, events, streams and the tape. A snapshot that was issued twice is
pending once, which is why `Compute` may keep it.

### ArchSelection and Build

`SelectedArch` gives an architecture, a warning (the build goes on with stubs) or
a panic. `BuildStart` is Cargo's: it runs the script unless what the script
announced (`Watched`: variables, package, listed sources) is as it was. A
`FLASHMLA_ROOT` that is set to nothing ends it, with stubs too (`Accepted`). Then the
script compiles one source per step (`CompileSource`, objects numbered because
file names repeat), looks for an old archive (`FindArchive`), removes it
(`RemoveArchive`) and packs (`PackObjects`, `PackFails`); `Stop` ends it at any
step and may leave a file cut off. `Rustc` bundles whatever archive the build
directory holds then. The world edits the package, a checkout (a listed source or
a header), the crate, the environment and the GPUs. An object records what it was
compiled from, so staleness is visible in a library.

## 3. Runs

| Run | Instance | Result |
|---|---|---|
| `capi` | 2 threads (symmetric), 2 devices, 3 calls | about 300 000 states; five properties hold |
| `capi_last_error_doc` | the same, 2 calls | the documented meaning of the error string is refuted |
| `planning` | 5 devices (both architectures, neither, 1, 4 and 400 multiprocessors), some 170 requests, with zero strides and empty extra tensors | about 1 800 states; five properties hold |
| `plan_reuse_doc`, `num_splits_doc`, `stream_device_doc` | the same | three documented conditions are refuted |
| `stream` | 2 threads, 2 calls (symmetric), a plan of three parts and one of one, batch 2, two halves | about 2.4 million states; five properties hold |
| `stream_live` | one plan, no symmetry | about 70 000 states; liveness and refinement hold |
| `prefill` | 3 devices (both architectures and neither), 3 libraries, requests around every check | about 7 600 states; five properties hold |
| `guards` | 2 calls that share a storage, 2 streams, 1 refill, 2 replays | about 670 000 states; nine properties hold, among them liveness and refinement |
| `build` | 2 targets, one of which may build in the other's directory, 9 and 2 environments, 1 edit, 1 fault | about 800 000 states; five properties hold, one of them liveness |
| `mixed_host_doc` | one target that detects its GPUs | the documented rejection is refuted |

Bounds. Three calls in `capi` are a failure, a success and a call of another
thread between them, in every order; calls are numbered, so the number has to be
bounded (`MaxCalls`). One device of each kind suffices because the code compares
ordinals and architectures only for equality. In `planning` the widths are scaled
down (`I32Max` 2047, `UsizeMax` 2^22), so that an int and a workspace product do
overflow with small dimensions; `MaxParts` is the real 160. In `stream`, three
parts and a batch of two give schedules in which none, one or both requests are
split; two calls are what it takes to mix accumulators or to come in the wrong
order; a third plan or thread would add no new pair. `stream_live` leaves out the
second plan and symmetry, which liveness checking does not admit. In `prefill`
the constants of the code (64, 128, 512, 576, 1280) are the real ones and only
`I32Max` is scaled (131071), to put a stride of 200 000 beyond it. In `guards` one
refill (`MaxRefills`) is a writer before, between or after two readers; two
replays (`MaxReplays`) are one that a replay may disturb and one with the refill
before it. In `build` the lists are short but have what makes the real ones hard:
two files of one name, and a package version that drops one, so that numbers
shift; one edit (`MaxEdits`) and one interruption (`MaxFaults`) come at every
point of two interleaved builds.

`AllDoneWhenIdle`, checked of `stream` and of `guards`, is what a program that
synchronises with the device may count on, and the part of the liveness properties
that needs no fairness: the streams are idle only when everything is written and
everything that was dropped or failed is freed, and nothing else is.

Deadlock. Calls, plans and edits are used up, so `capi`, the two stream runs,
`guards` and `build` may come to rest and are not checked for deadlock (that
every call of `guards` returns is `CallsReturn`); `planning` and `prefill` are.

Fairness. `DecodeStream`: only `Exec` is weakly fair: the device executes what is
queued, the one assumption the code makes when it returns from a launch; no host
thread has to call, to finish or to drop anything. `TensorGuards`: a thread inside
a call or a refill goes on, and the streams work. A reader may be overtaken by
every refill there is, so with the bound on refills `CallsReturn` says that a call
returns unless refills go on forever: std promises no more. The fairness of
`StorageService`, that every call that was issued is computed, follows from that of
the streams. `Build`: somebody
repeats `cargo build` (`BuildStart`, `ScriptStep`, `Rustc`) until it succeeds;
nobody has to edit anything and no fault has to happen.

Findings (`findings` in `PROJECT.json`). Five statements of the documentation are
not what the code does: the error string is cleared by the next success; a launch
accepts a plan made for another `topk`, `d_qk` or lengths; a plan without splits
is accepted for a larger batch than its split offsets cover; the size-only
planning call passes a stream of a device that need not be current, and has the
architecture of the current device checked instead of the tensors'; and a host
with GPUs of two architectures is not rejected by the build, which goes on with
stubs and a warning.

`PlanIsLaunchable` is about what planning checks. A launch is stricter where it looks
at strides (each positive, each fitting an int), at the pointers of extra tensors that
are given and empty, and at 16-byte boundaries; the property names these conditions in
`LaunchLayoutAccepted`, and no document says that planning checks them.

A promise that no property covers: `PLAN.md:448` asks the script to watch "selected
upstream source roots". It announces the listed sources only, and headers of the
checkout are compiled in all the same, so after an edit of a header a library is up to
date for Cargo and not what the script would compile. `LibraryIsCurrent` leaves the
version of the headers open: it says that they are of some moment up to now.

Not promised by any document, and therefore outside the properties: with a shared
`FLASHMLA_BUILD_DIR` a target may bundle what another one wrote there
(`LibraryIsCurrent` and `BuildsFinish` are about directories that are not shared,
`LibraryIsOfOneArch` about all); a prefill for a device of the other architecture
may be refused as an invalid argument, because C looks at the top-k before it
looks at the device.

## 4. Proofs

`tlapm` checks eight modules, for all values of the constants allowed by the named
assumptions.

`CApiProofs`. The checked invariants are not inductive alone. `IInv` adds that a
cached device has the compiled architecture (`DeviceInv`; otherwise the cache hit
of the next call proves nothing), that launches done and left add up to those of
the entry unless an error is pending (`LaunchInv`; this is why success means all
were launched), and that a pending error is a fault not yet reported (`FaultInv`).
There is one lemma per conjunct, with one step per action; `Inductive` puts them
together. Assumed: the initial device ordinal is not a device.

`DecodePlanningProofs`. `SizingAgrees` shows `PlanForArch = FillPlanResult` for
all valid dimensions that fit an int, by `SameParts` (the divisions in their
different orders agree) and `SameProducts` (dividing first and `checked_mul`
detect the same overflows). The invariant `IInv` of planning says what is known of
the request at each step, which yields that a generated plan passes the checks of
a launch (`GeneratedPlan`); from it follows `PlansAreLaunchable`, up to the conditions
of `LaunchLayoutAccepted`. That a split launch has the planned shape follows from
`ShapesPinDims`: a *shape*, unlike the element counts, determines batch, queries
and heads. Assumed: `WidthAssumption` (an int plus 160 and 160 * 8 fit a size_t)
and `PlanningAssumption` (types of the constants).

`DecodeStreamProofs`. `StreamInductive` is the invariant `IInv`: at most one
thread borrows a plan or makes a call (`BorrowsOK`), what a thread still has to do
fits what it did (`ThreadsOK`), a free is the last operation on its buffer
(`FreesOK`), a plan's metadata kernel precedes whatever needs the schedule
(`MetaOK`), the rows that a queued combine will read are last written by its own
call (`RowsOK`; an operation already executed or queued after another writer must
be excluded), and combines are enqueued once, in the order in which the calls
succeed (`OrderOK`). There is one lemma per action, and `DropStep` is shared by
all that free. From it follow type correctness, `UseBeforeFree`, `SuccessIsOwn`
and `ImplementsServiceSafety`: every step is a step of `DecodeService` or leaves
its variables alone. `NothingLeftWhenIdle` is about the converse of `FreesOK`, which
that invariant does not contain: a buffer that is gone is freed or its free is queued
(`GoneIsFreed`). `RowsAllocated` needs no invariant of the stream but the bound
on prefix sums that increase strictly (`SplitRows`). Assumed: `StreamAssumption`
and `NoneAssumption` (names of plans, calls and the absent value differ).

`PrefillProofs`. `AlignmentsAgree` and `ChosenKernelTakes` are about the three
copies of the top-k rule; the invariant of a call in progress says which checks
it has passed and that its device is current from the allocation on. `StaysInTensors`
follows from the checked lengths and from views lying within their storages, for
any views. Assumed: `PrefillAssumption` (types of the constants, an int holds 1280).

`BuildProofs`. `OneArchitecture` needs that every object and archive in a
directory is of the directory's architecture, whoever wrote it (`ArchInv`).
`Currency` needs that what a script compiled so far is what its run says
(`ScriptInv`), and that the archive of a recorded run is what it packed
(`OutputInv`); both hold only for directories that are not shared, because only
the one target of such a directory writes in it. Both say of headers only that their
version is not later than the present one, which is what `Currency` has of them. `DetectedRuns` adds that the
architecture of a run is the one its environment and its host chose (`ChosenInv`).
Assumed: `BuildAssumption` and `FilesAssumption` (no file and a cut-off file are not objects).

`TensorGuardsOrderProofs`. Several streams are ordered by nothing but events and
locks. The invariant `Ordered` says what the code's `device_ptr` and `SyncOnDrop`
achieve together: the fills of a storage are executed one after the other wherever
they are queued (`FillsOK`: a fill comes after a wait for the one before it), the
record of a write follows the write (`RecordsOK`), and every queued decode comes
after the fills it was given and before all later ones (`DecodesOK`). The last is
inductive only with `HeldOK`: as long as the decode's call holds its locks there is
no later fill, and when it lets go, the latest record of a read of the storage,
which the next fill waits for, follows the decode; and with `NextOK`: a call that
has taken all its pointers launches behind every fill there is. Without events the
same follows from everything being on one stream (`ModeOK`), replays included.
`CallsReadWhatTheyWereGivenAlways` is `DecodesOK` at the head of the stream.

`TensorGuardsMemoryProofs` adds to it, for `NeverUsedAfterFree`, that an output is
allocated before whatever uses it and not released between, on the stream, on the
tape of a capture and in the graph (`OutputsOK`; each of the two must hold for a
tape that starts with nothing allocated, because a replay puts it anywhere), that a
dropped input is freed once, behind its fills and its decodes (`InputsOK`), and
that what a graph uses is kept and copied after it is computed (`GraphsOK`; of a call
that failed in the capture only the allocation and the release are there). For
`StableAlwaysFromLastReplay` the last copy on the stream copies what an earlier
decode of the same replay writes, or has written, and nothing comes between
(`StableOK`).

`TensorGuardsServiceProofs` is about what never stops and about the whole. That some
thread goes on (`SomeThreadAlwaysGoesOn`) needs that a call that waits for a lock has
only locks that it took before, in its order (`HoldersOK`). If every call waited
for a writer and every writer for a reader, the reader of the storage that is last in
the order would wait for a storage after it; so the argument takes the least depth at
which anybody waits. `LeastNatural` (a set of numbers has a least one) comes from the
library's well-founded relations and needs no induction of its own. That some stream
goes on (`SomeStreamAlwaysGoesOn`) is not a matter of the heads of the streams alone:
`WaitsOK` says that all queued operations can be numbered such that numbers grow along
a stream and every wait has a larger number than the record of what it waits for,
unless that is done; the head with the least number can be executed. The numbering is
extended when operations are enqueued, because a wait is for events as they were last
recorded and these are done or queued (`EventsOK`), and shifted when the device
finishes one. `ImplementsServiceSafety` shows that every step is a step of
`StorageService` or leaves its variables alone: `DecodesOK` gives the order of the
computed snapshots, `CallsReadWhatTheyWereGiven` that the output is made of the
snapshot. `NothingLeftWhenIdle` needs the converses of what was proved before, as one
invariant, `LeftOK`: an output that no call holds is not allocated any more at the end
of what is queued, captured or in the graph (`ReleasedOK`; `OutputsOK` says that one
which is held is), a dropped input's free (`DroppedOK`), a refill's fill (`FilledOK`)
and a launched call's decode (`ComputedOK`) are done or queued. Assumed: `GuardsAssumption` (the types; storages locked in one order)
and `NoneAssumption` (the absent value is no content and no list of operations).

Only model-checked: liveness (`FailuresAreFreed`, `BuildsFinish`, `CallsReturn`
and the fairness parts of the two `ImplementsService`), which is beyond the prover
like `ENABLED`, and the refuted statements. For `CallsReturn` and the streams the
absence of deadlock, which liveness needs beside fairness, is proved, and for what
the streams achieve that nothing is left when they come to rest. No definition
is recursive, so no proof needs an induction over data, which the prover could not do.

## 5. Not modelled

- Attention arithmetic and the upstream kernels' internals: not in the repository.
- Ranks, dtypes and contiguity of the tensors of a decode: independent checks
  without state (for prefill they are in `Prefill`).
- `pad_heads`, a field of both configurations that no layer reads; compiler flags
  and the search for NVCC; messages; re-exports and conversions of errors.
- The multiplication of head and stride in an int when the halves' pointers are
  advanced (`flashmla_c_api.cu:749`): the candle layer builds no layout that large.
- Two views of one storage in one call, and a prefill that shares `attn_sink` and
  `topk_length` with a decode and locks them in the opposite order: with threads
  that wait to write them, these can wait for each other. They are excluded by
  `GuardsAssumption`.
- A relative `FLASHMLA_BUILD_DIR`, which the script and rustc resolve differently.
- Asynchronous faults of kernels, after which CUDA's context is lost.

External parts are modelled by what the repository relies on: a stream executes
in order, allocation and free are ordered on it, an event that was recorded is
waited for, the metadata kernel writes a schedule whose parts are contiguous
ranges of the batch's work (the reason for the `batch + num_sm_parts` accumulator
rows), and the combine waits for the decode kernels before it (also with
programmatic dependent launch); Cargo forgets what it knew of a script when it
runs it again; `ar` refuses a file that is no archive.

## 6. Plan

Done, in this order: `CApi`, `DecodeSizing` and `DecodePlanning` with proofs;
`DecodeStream` and `DecodeService`; `ArchSelection` and `Build`, `Prefill`, each
with proofs; `TensorGuards` with capture and replay; the proofs about
`DecodeStream` and `TensorGuards`; `StorageService` and the refinement of it.

Next:

1. Outputs on a second stream in `TensorGuards`, with the events that the
   read-side pointers of outputs leave out.
2. Ranks, dtypes and strides of a decode's tensors, as in `Prefill`, down to the
   pointers of the two halves.
