# TLA+ verification of azure-storage-gst-plugin

The plugin adds two elements to GStreamer: `azuresink` writes a stream to a blob of Azure
storage, `azuresrc` reads one. Everything hard in it is in three C++ classes that talk to
the service from background threads, and in the queue they share. This directory models
those classes and the elements that use them, checks the models with TLC, and proves
theorems about them with TLAPS.

All paths below are relative to the repository.

## 1. The system

| part | code | state | operations | who calls it |
|---|---|---|---|---|
| `BlockingQueue<T>` | `include/utils/blockingqueue.hpp` | a deque, `closed`, one mutex, conditions `cond` (content) and `emp` (empty) | `push`, `pop`, `pop_for`, `wait_empty`, `empty`, `close`, `clear` | all threads of the two classes below |
| `BlockAzureUploader` | `src/blockazureuploader.cpp`, `include/blockazureuploader.hpp` | the stream being filled, two queues, the reassembly `window`, `nextCommitId`, `block_list`, `committedId`, the flush gate (`flushing`, `sem`, one mutex, two conditions) | `init`, `upload`, `flush`, `destroy`; threads: `worker_count` workers, one committer | the streaming thread of `azuresink` |
| `SimpleAzureUploader` + `UploadWorker` | `src/simpleazureuploader.cpp`, `include/simpleazureuploader.hpp` | the stream not sent, `finished`, `stopped`, two mutexes, two conditions | `init`, `upload`, `flush`, `destroy`; one worker thread | the streaming thread of `azuresink` |
| `AzureDownloader` | `src/azuredownloader.cpp`, `include/azuredownloader.hpp` | `read_cursor`, `write_cursor`, a request queue, the heap `window` of downloaded blocks, `comp_lock` and `comp_cond` | `init`, `read`, `seek`, `get_size`, `destroy`; `worker_count` workers | the streaming thread of `azuresrc` |
| `azuresink` | `src/gstazuresink.c` | configuration, an uploader, bytes written | `start`, `render`, `event` (EOS flushes), `query`, `stop`, properties | GStreamer |
| `azuresrc` | `src/gstazuresrc.c` | configuration, a downloader, `read_position` | `start`, `fill`, `get_size`, `stop`, properties | GStreamer |
| block ids | `src/utils/base64.cpp` | none | `base64_encode` | `BlockAzureUploader` |
| the service | external | uncommitted blocks, the committed list, an append blob | Put Block, Put Block List, Create and Append Block, Get Blob | the three classes |

How they interact. The element's thread appends data to an uploader. A block uploader cuts
it into blocks, which the workers take from `reqs`, stage with Put Block and report in
`resps`; the committer puts the reports back in stream order and, every
`commit_block_count` blocks or `commit_interval_ms`, commits the list. `flush()` and
`destroy()` run the same `doCommit()` **on the client's thread**, while the committer runs.
A commit raises a gate (`flushing`), waits until no worker is between `enterJob()` and
`leaveJob()`, collects what they reported, commits, and lowers the gate. The append
uploader has one worker that sends whatever has been appended. The downloader's reader
pushes requests for what it needs and some blocks more, and consumes blocks in offset order
from a heap the workers fill.

What is hard: condition variables whose predicate is changed without the lock (`close()`,
`stop()`), one `notify_one()` for two kinds of waiter, state tested unlocked and used later,
commit state shared by two threads without a lock, uploads and downloads that finish in any
order, answers of the service that get lost after the request took effect, and calls
(`seek`, `flush`, `destroy`) that meet work in progress, and objects that are destroyed by
`stop()` and initialised again by the next `start()`. `PROJECT.json` lists each as a
hazard at its line, with the properties that cover it or the reason none does yet.

What makes each part correct:

* queue: elements reach exactly one consumer, in order; nobody sleeps on what is there; closing reaches everybody;
* block uploader: what a reader of the blob sees is always a prefix of the stream and only grows, no block is lost, `flush()` and `destroy()` return, and only when their work is done;
* append uploader: every byte is sent, once, in order; `flush()` and `destroy()` likewise;
* downloader: `read()` copies the blob from the cursor, fills what it says it filled, and returns; memory is bounded;
* elements: offsets and positions agree with those of uploader and downloader through seeks and restarts, calls reach uploader and downloader in an order they can take, no exception leaves the element;
* block ids: two blocks never get one name.

## 2. The modules

| module | models | instance |
|---|---|---|
| `AtomicQueue` | the queue as its users see it: one step per operation | - |
| `BlockingQueue` | the queue at the grain of its mutex and condition variables; implements `AtomicQueue` | `MCBlockingQueue` |
| `BlockingQueueProofs` | theorems about `BlockingQueue` | - |
| `BlobLog` | what either uploader promises: a blob that is a growing prefix of the data accepted | - |
| `Base64` | `base64_encode()`, and base64 as a reference definition | through `BlockUploader` |
| `Base64Proofs` | theorems about `base64_encode()` and the names of blocks | - |
| `BlockUploader` | `BlockAzureUploader` and the service; its queues are `AtomicQueue`s, its block names `Base64`; implements `BlobLog` while only the committer commits | `MCBlockUploader` |
| `BlockUploaderProofs` | theorems about `BlockUploader`: types, the blob, `destroy()`, the places of a block, the gate, the refinement, block names | - |
| `AppendUploader` | `SimpleAzureUploader`, `UploadWorker` and the service; implements `BlobLog` when nothing fails and no chunk is cut | `MCAppendUploader` |
| `AppendUploaderProofs` | theorems about `AppendUploader` | - |
| `Downloader` | `AzureDownloader`; its request queue is an `AtomicQueue` | `MCDownloader` |
| `DownloaderProofs` | theorems about `Downloader` | - |
| `AzureSink` | the azuresink element without its uploader: the order of its calls, and its counter | - |
| `AzureBlockSink` | the composition of `AzureSink` and `BlockUploader`, with `init()` of a used uploader | `MCAzureBlockSink` |
| `AzureAppendSink` | the composition of `AzureSink` and `AppendUploader`, with a new worker per `start()` | `MCAzureAppendSink` |
| `AzureSrc` | the azuresrc element over `Downloader` | `MCAzureSrc` |
| `AzureBlockSinkProofs`, `AzureAppendSinkProofs`, `AzureSrcProofs` | theorems about the elements, over any number of starts; each extends the proofs of the part it is composed with | - |

`AzureBlockSink`, `AzureAppendSink` and `AzureSrc` extend the module they are composed with:
an action of the element is the conjunction of the element's own step and the operation it
calls, by way of the vtable and the C entry point; while the operation runs, the steps of its
module are steps of the composition and leave the element alone (`InCall`, `Background`,
`Within`). A call that returns is an action of its own (`RenderDone`, `EosDone`, `StopDone`,
`StartDone`, `Return`), because other threads run before the element goes on: `render()` hands its
buffer to `upload()` in one step and counts the bytes in another (`gstazuresink.c`, lines 516 and
523), and in between workers send them and a position query is answered. What GStreamer calls and in which order
is external: one call at a time, `start()` and `stop()` while the streaming thread is at rest.

**How a model corresponds to the code.** A thread has a program counter whose values are the
places where another thread can observe it: between critical sections, at a wait, at an
unlocked access (`pc` the client and the committer of `BlockUploader` and every thread of
`BlockingQueue`, `cpc` the client or reader elsewhere, `wpc` a worker). What runs under one
mutex is one step. A wait on a condition variable is two steps when the predicate can
change without the mutex (evaluate, park) and a wait for the predicate otherwise. Variables
have the names of the members. Data is reduced to what properties tell apart: a block is
its id, a byte its number, a download its offset, a request to the service its effect
and whether its answer arrives. `PROJECT.json`, "map", names the lines of each definition.

Definitions whose comment begins with "fault" are not part of any specification: each is a
plausible mistake in the code (a missing notification, a removed reset, a swapped order).
They are what the "mutants" of `PROJECT.json` put in the place of the definition they stand
before, so that every checked property is shown to notice something.

**History variables.** `raced` (block uploader) becomes true when client and committer are
in the unlocked commit state at the same time; that this happens, and what it does, is a
finding (`block_order`). `written` counts the bytes appended, `from` and `buffer` are where
a read began and what it copied, `sought` is true from the first seek on. `pushed` and
`popped` are what went into the queue and came out. `lives` counts the calls of `start()`,
`base` is what was appended before the last one, `kept` says that its create has left
old contents in the append blob, and `refused` holds the bytes since then that were in a request the
service refused.

## 3. The runs

Passing runs:

| run | instance | shows |
|---|---|---|
| `queue` | 2 producers, 2 `pop`, 1 `pop_for`, 1 `wait_empty` caller, one unlocked `close()`, 3 elements | exactly once in order, no lost wake-up of `push()`; while the queue stays open, delivery and return of `wait_empty()`; refinement of `AtomicQueue` |
| `block_stream` | 2 workers, 3 blocks, only the committer commits (`StreamFairSpec`) | prefix, the gate, names of blocks, refinement of `BlobLog`; every block is committed unless the race of `block_lost` has dropped one |
| `append_whole` | streams of up to 5 bytes in pieces of 1 and 2, all within the limit, no failures, `flush()`, `destroy()` | every byte accounted for, and sent unless `destroy()` stops the worker; refinement of `BlobLog` |
| `sink_block` | the element, 2 workers, 3 blocks, buffers of 1 and 3 over blocks of 2, EOS and `stop()` at any time, 2 lives | unless the two committing threads have raced on the commit state (`~raced`; `block_order` shows what the race does), one place per block, and a blob that only grows and in the first life is a prefix of the stream; raced or not, `destroy()` ends after the last upload, in the first life nothing throws and a raised gate has a thread that will lower it, the position query accounts for blocks, stream and the buffer in `render()`, and the second life sends nothing, its `start()`, EOS and `stop()` included |
| `sink_append` | the element, up to 6 bytes in pieces of 1 and 3 over a limit of 2, refused requests, EOS and `stop()`, 2 lives | order, the size of every request, one stream per blob (unless its create was refused), only refused requests lose bytes of it, no sleep over content, EOS ends |
| `source` | the element, 2 workers, 4 blocks of 2 bytes (the last one short), fills of 1 and 3, seeks to 0 and 5, a blob found or not, `stop()`, 2 lives | copies the blob; nothing missing, where a request counts that is still queued; `read()` returns in the first life only: `stop()` closes the request queue for good, and a request left in it, which `NothingMissing` counts too, is never served; before the first seek nothing twice, memory bounded, element and downloader agree where they are; nothing throws in the first life |

Runs expected to fail, each a disagreement between the code and what a comment, a test or
the documentation says (details under "findings" in `PROJECT.json`):

| run | what happens |
|---|---|
| `queue_close` | `close()` between a waiter's test and its park: the waiter sleeps for ever |
| `block_lost` | a worker between `pop()` and `enterJob()` is not waited for; the commit discards staged blocks |
| `block_hang` | two waiters in `waitFlush()`, one `notify_one()`: `flush()` never returns |
| `block_order` | client and committer in `commitBlock()` at once: a block is committed twice |
| `download_fills` | a stale block in front ends `read()` early; it still returns the full size |
| `source_seek` | `fill()` seeks and leaves `read_position` alone: the next request at the old count reads from another place |

What the second life of an element does is stated as it is: `RestartSendsNothing` and
`AbortsOnlyRestarted` of `sink_block`, `AbortsOnlyInSecondLife` of `source`, and the condition of
its `ReadReturns` describe a restart that cannot work, because nothing reopens the queues that `stop()` has closed. The
repository promises nothing about it; a change that repairs it has to change these properties.

The models show more behaviours of this kind, which have no run of their own:
`flush()` of the block uploader may return while a popped block is still uploading, and its
`destroy()` closes `resps` with reports in it; `flush()` of the append uploader may return
early because `finished` is set from a stale test, a refused Append Block drops its chunk,
the byte at the cut of a long stream is sent twice (`copy_n` does not advance past the last
byte), and `stop()` between the worker's test and its sleep makes `destroy()` hang; a read
past the end of the blob waits for ever. The hazards of `PROJECT.json` name their lines.

**Bounds.** Two workers are enough for the races between workers, because they share only
queues and counters; three blocks give one that
overtakes, one that is overtaken and one committed before; a commit after one or two blocks
gives several commits in a behaviour. The queue run has enough threads that a wake-up can go
to the wrong one. In the append uploader the chunk limit is below, at and above the sizes
appended. In the downloader reads end inside a block, at its end and across blocks, the last
block is short, and seeks land aligned and unaligned. Bounds in guards: `MaxPush` (elements
pushed), `MaxBlocks` and `MaxBytes` (stream length), `MaxPending` (requests queued when a
read starts; without it seeking grows the queue without limit, which is a hazard of its
own), `MaxLives` (calls of `start()`; the second life of an object is like every later one),
`MaxFilled` (bytes asked of the source). Block names are also compared with those of a few
ids far beyond the bound, at the edges of each byte. Retries are not bounded: a retry leads back to the same state.

**Fairness.** Every thread the classes start runs (weak fairness of its steps), and the
client finishes a call it is in; it is never required to make another. In the compositions the
same holds for the element: a call that has been made is finished
(`InCall \/ Reinit \/ CallDone`, `Streaming`), no buffer, EOS, seek or `stop()` is owed. In `BlockingQueue`,
where threads compete for the mutex step by step, consumers and `wait_empty()` callers have
strong fairness: a mutex that is free again and again is obtained. `TimeOut` is only the
step of a thread whose wait has already ended; no timeout is required to elapse. A request
repeated for ever succeeds in the end: the code retries without limit and its liveness rests
on nothing else. In the models an attempt that fails changes nothing, so it is a stutter, and
one whose answer is lost changes the service at most once. Deadlock is not checked where the
stream, the blob or the object's life ends, or where a run is about a hang.

## 4. What is proved

Every theorem is for all values of the constants and rests on the assumption of its
model (`QueueAssumption`, `UploaderAssumption`, `AppendAssumption`, `DownloaderAssumption`,
and `SinkAssumption`, that the element is started at least once), which TLC evaluates in the
runs. Where a theorem needs a hypothesis more, it is named with it below. The theorems about the classes are about one
life of an object, from `init()` to `destroy()`; those about the elements are about any number.

**`BlockingQueueProofs`**, for any finite sets of producers, consumers and callers of
`wait_empty()`, any number of elements and a `close()` at any time:

* `TypeCorrect`: `Spec => []TypeOK`, in which the mutex has at most one owner;
* `ExactlyOnceInOrderHolds`: `Spec => []ExactlyOnceInOrder`;
* `EnoughAwakeHolds`: `Spec => []EnoughAwake`: no `push()` loses its wake-up;
* `ImplementsAtomicQueueHolds`: `Spec => ImplementsAtomicQueue`, what the compositions rely on.

`EnoughAwake` needs that a consumer that has found its predicate false and still owns the
mutex parks on an empty queue (`ParksOnEmpty`): no element can come before it sleeps, so the
`notify_one()` of the next one finds it. The step lemma counts the consumers awake: a push adds an element and
wakes one more, or nobody sleeps; a pop takes an element and leaves its consumer awake. Nothing
is claimed after `close()`, which takes no mutex: the run `queue_close` shows why.

**`BlockUploaderProofs`**, for any number of workers, blocks, commit thresholds and
with any client calls:

* `TypeCorrect`: `Spec => []TypeOK`;
* `BlobIsPrefixHolds`: `Spec => []BlobIsPrefix`: the blob is the first blocks of the stream, no more than are in order and no less than are believed committed, as long as client and committer have not raced;
* `BlobOnlyGrowsHolds`: `Spec => BlobOnlyGrows`: no commit takes anything from the reader.

`TypeOK` needs that `sem` counts the workers outside the gate (`SemCount`); the two together
are inductive (`TypeInv`). `BlobIsPrefix` is not: a commit sends `blockList`, so one must
know that it is `1 .. nextCommitId - 1` in order (`ListInOrder`, plus the block just being
appended by the one thread in `commitBlock()`), and that the blob is a prefix of it that
covers what `committedId` says is committed (`BlobInList`). With `OneInside`, under
`~raced`, those facts are the invariant `ListInv`; it is also what makes the blob after a
lost answer (committed on the service, still *latest* here) acceptable. The step lemma
`ListStep` goes action by action; actions that touch neither list nor service are one frame
lemma. The window of finished blocks and the staged blocks need no facts: whatever
`commitBlock()` takes from the front, it appends only the next id. `BlobOnlyGrowsHolds` uses
the same invariant at the one step that writes the blob.

What `destroy()` leaves behind and where a block is, with any calls:

* `DestroyedAfterUploadsHolds`: `Spec => []DestroyedAfterUploads`;
* `EveryBlockInOnePlaceHolds`: `Spec => []EveryBlockInOnePlace`.

The first follows from three facts (`DestroyInv`): a worker between two jobs holds no block, the
queue is empty once `wait_empty()` has returned and stays so, and the client passes the
joins only after every worker. For the second, `Placed` says of every block which of six
places it is in and that it is in none of the others (`Waiting`, `InHand`, `Reported`, `Popped`,
`Reordered`, `Listed`), with the places told apart by quantifiers rather than by the
cardinality the property uses; lemma `OnePlaceOneHolder` leads back to it. A block enters the list by
being the least of the window when it is the next one, and nothing else may take it out
in between, which is what a race of two committing threads breaks (`FrontReady`, under `~raced`).

For any number of workers and blocks, while the client calls neither
`flush()` nor `destroy()` (`StreamSpec`, whose steps are steps of `Spec`, lemma `StreamIsNext`):

* `QuietWhileCommittingHolds`: `StreamSpec => []QuietWhileCommitting`: the gate of `waitFlush()` keeps every worker out while the committer collects and commits;
* `ImplementsBlobLogHolds`: `StreamSpec => ImplementsBlobLog`.

The invariant `StreamInv` adds three parts to the two above. `Alone`: the client never enters
commit code, so `raced` stays false. `QuietInv`: the gate is up from the moment the committer
waits at it, and nobody is inside once it has been let through; that needs `SemCount`, by
which `sem = worker_count` means that every worker is outside. `CutInv`: whatever is on its
way was cut from the stream, so the blob is never longer than what the client handed over.
`CommitExtends` is the one step that extends the abstract blob.

**`AppendUploaderProofs`**, for any chunk limit, buffer sizes, stream length and calls:

* `TypeCorrect`: `Spec => []TypeOK`;
* `ChunkWithinLimitHolds`: `Spec => [](TypeOK /\ ChunkWithinLimit)`, with failures;
* `OrderKeptHolds`: `Spec => []OrderKept`, with failures and cuts;
* `AccountedForHolds`: if nothing fails and `MaxBytes <= ChunkMax`, `Spec => []AllAccountedFor`;
* `ImplementsBlobLogHolds`: under the same condition `Spec => ImplementsBlobLog`.

The type invariant is strengthened by what the worker holds where (`TypeInv`: every byte was
appended, and the worker takes no empty stream, which is why no request is empty). Order is
an invariant of the concatenation: blob, chunk and stream are each ordered and
everything in one is at most everything in the next (`OrderInv`), which survives the
duplicated byte at a cut (it is equal to its neighbour) and the loss of a chunk.
`AllAccountedFor` needs that the blob exists when the worker leaves `create` and that the
stream is never longer than a chunk (its length is bounded by `written`); the refinement
reads off it that the blob is the numbers up to its length.

**`DownloaderProofs`**, for any set of workers, blob, block size and prefetch, reads inside
the blob, and seeks to any offset at any time between them:

* `TypeCorrect`: `Spec => []TypeOK`;
* `CopiesTheBlobHolds`: `Spec => []CopiesTheBlob`;
* `NothingMissingHolds`: `Spec => []NothingMissing`;
* `NothingTwiceHolds` and `MemoryBoundedHolds`: `Spec => []NothingTwice`, `Spec => []MemoryBounded`.

The types need that everything requested begins inside the blob (`InBlob`), and that a window
that is not empty has a front: a least element, from the library's theorem that `<` on the
naturals is well-founded. `CopiesTheBlob` follows once `read_cursor` is known to be as far
from the beginning of the call as it has copied (`CopyInv`). `NothingMissing` is inductive up to its way
of counting (`Supplied`): `RequestedShape` shows that the blocks requested by the loop of
`read()` cover everything up to the new `write_cursor`, division and short last block included, and a block leaves
the window only when `read_cursor` has passed its end. The other two hold until the first seek. Their
invariant `OnceInv` is the order of the requests (`Increasing`), that no two blocks held
overlap (`Apart`), and that each ends between the cursors (`AllAhead`); it makes the branch
for stale blocks unreachable. With `ReachInv`, by which nothing is asked for further than the
prefetch behind the last target, the blocks held begin a block apart in a bounded
stretch, so that dividing by the block size maps them one to one into as many numbers as the bound says.

**`Base64Proofs`**, whatever stands behind the buffer that `base64_encode()` prints without a
terminator unless it is said otherwise, and the two theorems of `BlockUploaderProofs` they serve:

* `EncodesBase64`: where nothing stands behind the buffer, the text is base64, for every sequence of bytes that is empty or has a length that three does not divide (the code leaves three last bytes out);
* `NamesIdentify`, `NamesAlike`: two ids with one name are the same eight bytes; all names have as many pieces of the same length, as the service asks;
* `NameIdentifiesId`: two counters below 2^63 have two names;
* `NamesAreBase64Holds`: `Spec => []NamesAreBase64`;
* `NamesIdentifyBlocksHolds`: `Spec => []NamesIdentifyBlocks`, if `MaxBlocks` is a number of a `long long` (what the counter does beyond is undefined).

Base64 is defined by bits. `CharsAreBits` writes each of the four characters of a piece as the
number of six bits of its bytes, `PieceIsBits` finds those bits in the input, zeros behind its end, and
`PiecesOfLength` counts the pieces and shows that each begins with a byte that is there. For
identity, the characters of a piece determine its bytes (`GroupDetermines`, `PairDetermines` for the tail),
what stands behind a piece does not hide it (`BehindHidesNothing`), and two full pieces and a tail
hold the eight bytes. `BytesOfId` is recursive, but over eight steps: `ShiftedExists` exhibits the
function that its equation defines, after which seven shifts leave one byte of a number below 2^63
(`OneByteLeft`) and the bytes give the number back from the highest down (`ShiftsDetermine`).

**Elements: what carries over.** The step lemmas of the classes are about `AnyStep`: for the
uploaders `[Next]` and `flush()` and `destroy()`, whatever `ClientCalls` says, for the
downloader its steps with reads of any size and seeks to any offset. A step of an
element is a step of its part, leaves it alone, or is a new `start()` (`Reinit`, `Init` of the
part): `UploaderStep` and its like. An invariant of a class is one of the element as soon as the
third kind of step keeps it too.

**`AzureAppendSinkProofs`**, with failures, EOS and `stop()` at any time and any number of starts:

* `UploaderLimits`: `SinkSpec => [](TypeOK /\ ChunkWithinLimit)`; `OrderKeptInEveryStream`: `SinkSpec => []OrderKept`;
* `OneStreamHolds`: `SinkSpec => []OneStream`;
* `OnlyRefusedLostHolds`: `SinkSpec => []OnlyRefusedLost`;
* `SleepsHolds`: `SinkSpec => []SleepsOnlyWhenFlushed`.

`CallInv` is where the client of the uploader is in each state of the element (`ClientInv`) and what the
counter is worth (`CountInv`): with the buffer in `render()` it is `written - base`, except between the
`init()` of a `start()` and the reset of the counter (`Renewed`). `OneStream` says of stream and chunk what it
says of the blob, and nothing of the blob before the worker has left `create` or when the create was refused
(`kept`); `FreshInv` carries it through the cut of a long stream. `LostInv` is `OnlyRefusedLost`, with the
doubled byte at a cut in both parts of it. `SleepInv` is the worker's side of the wait: from the test
of line 45 to the wait only an append can bring content, and an append ends the wait.

**`AzureSrcProofs`**, for any workers, blob and sizes, seeks and any number of starts:

* `NothingMissingInEveryLife`, `MemoryBoundedInEveryLife`: what `Downloader` promises of its reads, with requests and blocks of an earlier start still there;
* `StreamsInOrderHolds`: `SrcSpec => []StreamsInOrder`;
* `FillDeliversUntilSeek`: until the first seek, a `fill()` that returns has delivered what it was asked for (an action property; without the condition the run `download_fills` refutes it);
* `AbortsHolds`: `SrcSpec => []AbortsOnlyInSecondLife`.

`StreamInv` says which of the offset, `read_position` and `read_cursor` agree in which state; that
`fill()` leaves `read_position` alone when it seeks is why it is claimed only until then. That a `fill()` has
been served in full needs the part of `ReachInv` by which, without seeks, a reader that has left `read()` is at
its target; together with `CopyInv` that is the whole buffer. `ClosedInv` is
when the queue is closed: by a `stop()`, and for good.

**`AzureBlockSinkProofs`**, with EOS and `stop()` at any time and any number of starts:

* `UploaderTypesHold`, `OnePlaceInEveryStart`, `StopLeavesNothing`, `GrowsInEveryStart`: `TypeOK`, `EveryBlockInOnePlace`, `DestroyedAfterUploads` and `BlobOnlyGrows` under `SinkSpec`;
* `GateHasHolderHolds`: `SinkSpec => []GateHasHolder`;
* `FirstStreamIsPrefixHolds`: `SinkSpec => []FirstStreamIsPrefix`;
* `AbortsOnlyRestartedHolds`: `SinkSpec => []AbortsOnlyRestarted`;
* `RestartSendsNothingHolds`: `SinkSpec => RestartSendsNothing`;
* `PositionAccountsHolds`: `SinkSpec => []PositionAccounts`, if `FrameSizes` has a greatest element, which the property names.

The invariant `SinkInv` tells the two kinds of life apart. In the first stream (`FirstStream`: up to the
`destroy()` that the second `init()` calls) the invariants of the class hold (`FirstInv`) and no queue is
closed before `destroy()` is past its joins (`OpenInv`, `CloseOrder`), so nothing throws. From then on
(`Reborn`) the uploader is `Idle`: no block is cut, the queues are closed, each
thread is at the pop that ends it, and the client's `flush()` and `destroy()` find nothing to
wait for; what `Reborn` may do never stages nor commits. Where a step lies is decided by
`ClientAt`, the place of the client in each state of the element.

`GateHasHolder` and `RestartSendsNothing` rest on `HolderInv`, which follows a commit from the gate to its end
on both threads (`Move` is what one thread does to the gate, the answers and the commit state).
`GateInv`: a raised gate is held by client or committer, or every worker has ended; two threads may hold it
at once, and the first to lower it leaves it down, so the invariant is about the raised gate only. An
exception can leave `doCommit()` with the gate raised only when the answers are closed, which comes after the
joins. `SettledInv`: a committer about to end leaves everything committed, an answer in the queue, or a client that is
at it (`Settled`, `Counting`). So when the first `stop()` is back (`Ended`) nothing is left to commit, or the
closed queue holds an answer at whose `pop()` the client is thrown out before it sends anything; the
`destroy()` of the second `start()` can therefore send nothing either, and from then on `Idle` takes over.

`AccountInv` bounds the position, with the buffer in `render()` (`Given`), by the
fewest and the most bytes a block can hold; the product of blocks and longest block makes it nonlinear, so its
step is one lemma about one block more (`OneMoreBlock`).

Out of the prover's reach: liveness (fairness, `ENABLED`), and what a recursive definition
computes over an unbounded number of steps, because the induction theorems of the library cannot be instantiated.

Only model-checked, all of it liveness: `EverythingDelivered`, `DrainersReturn`,
`EverythingCommitted`, `EverythingSent`, `EosReturns`, `ReadReturns` and what the failing runs refute. Every
invariant and action property of a passing run, and every refinement, is stated by a theorem.

## 5. Not modelled, and plan

Not modelled: property handling, logging and registration (no protocol); what the service
does beyond the requests made; time (a timeout may happen whenever its wait would go on);
memory exhaustion; the 50000-block limit of the service; `clear()` of the queue (no caller).
`raced` only marks the data race on the commit state: the model interleaves the operations of
both threads at the grain of container operations and does not give torn containers. What
stands behind the buffer of `base64_encode()` may differ from call to call, which the language
allows and one build on one stack does not show; names are compared with the same bytes behind
both. A buffer that cannot be mapped ends the call of the element before it changes anything.

Done: the queue and its atomic abstraction; both uploaders and the downloader; both elements
over them with restarts; block names; the proofs above. What is left, in order:

1. Runs for the behaviours listed after the second table of section 3, each against the comment it contradicts.
2. The safety half of the liveness properties, proved: which states of each thread have no step of their own, written out without `ENABLED`, and that only the failing runs end in them.
3. The commit state with torn containers, as far as what `std::vector` and `std::list` do under a race can be enumerated.
