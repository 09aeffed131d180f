# A formal model of the FileMagic backend

This directory holds TLA+ models of the conversion service in this repository,
the configurations that model-check them with TLC, and proofs that TLAPS checks.
Paths below are relative to the repository. Everything is written from the Go
code; where a comment or a document says something else, the disagreement is
listed under "Findings".

## The system

A Go server takes uploads, converts them one at a time with external tools in a
sandbox, and hands each result out once. Everything is kept in memory and on a
tmpfs.

| Component | Code | State | Operations |
|---|---|---|---|
| Conversion queue | `internal/queue/queue.go` | table of published job snapshots (`sync.Map`), bounded channel, position list and per-client counters under a mutex | `Submit`, `GetJob`, `GetPosition`, `DeleteJob`, `GetAllJobs`, the worker goroutine |
| Status polling | `internal/api/handlers/queue.go` | none | `Position` (two reads of the queue), `Status` |
| Upload handlers | `internal/api/handlers/convert.go` | one directory per job on the tmpfs | make the directory, write the input, `Submit`, remove the directory on failure |
| Download handlers | the same file | the `downloaded` flag all snapshots of a job share | `Download`, `DownloadZip` (single-shot), `DownloadFile` (repeatable), a goroutine that removes the job afterwards |
| Cleaner | `internal/cleanup/cleanup.go` | none of its own | each tick: expired jobs, then directories no job owns |
| Rate limiter | `internal/api/middleware.go` | per-address minute and hour windows | `Allow`, a cleanup every five minutes that forgets addresses |
| Statistics store | `internal/stats/cloudflare_kv.go` | pending increments, unconfirmed writes, confirmed values, a cache; the counters live in a remote key-value service | `Increment*`, `flush`, `Get`, `Close` |
| Certificate inspection | `internal/api/handlers/inspect.go`, `internal/api/turnstile.go` | two parser slots, a one-place channel per request | Turnstile check, `parseCertWithTimeout` and its goroutine |
| Sandbox runner | `internal/converter/nsjail.go` | one child process and a limited buffer | run with a time limit, kill, kill again, capped output |
| Converters | `internal/converter/*.go` | files of the job directory, the file the next command reads | one `Convert` per conversion type |
| Validators, inspectors | `internal/validator`, `internal/inspector` | none | tables and parsers |
| Process | `cmd/server/main.go`, `deploy/filemagic.service` | the worker's context | start, graceful stop, restart after a crash |

How they interact: an upload handler writes a directory and calls `Submit`; the
worker receives the job, publishes "processing", runs the converter, publishes
the outcome and returns the client's slot. Status requests read the table and
the position list. A download reads the table, opens the file, claims the job
with a compare-and-swap, streams, counts it in the statistics and starts a
goroutine that removes the directory and then the job. The cleaner does the same
for expired jobs and removes directories that belong to no job. Nothing but the
table, the mutex of the queue and the flag synchronises them.

What is hard in it:

- the waiting jobs are recorded in two places which change in different steps;
- `Submit` sends on a bounded channel while it holds the mutex the worker needs;
- snapshots are published outside the mutex and read without it;
- the directory of a job is touched by an upload, the worker, several downloads,
  their goroutines and the cleaner without a lock, and removals may fail half way;
- after a crash the directories are there and nobody knows their jobs;
- counters with windows, retries of ambiguous writes and caches (rate limiter,
  statistics);
- a parser or a tool that does not come back: it must neither hold up its request
  nor be forgotten while it runs;
- what a validator lets through, twenty-six converters must be able to finish, in
  a sandbox where only `output/` is writable, whatever options come together.

`PROJECT.json` lists the hazards at their lines, with the property that covers
each or the reason why none does.

## The modules

| Module | Models | Composes |
|---|---|---|
| `FifoJobs` | abstract: a line of jobs with room for `Capacity`, one served at a time in order of arrival, each with one outcome, then forgotten | |
| `JobQueue` | `queue.go` | refines `FifoJobs` |
| `StatusPoll` | `handlers/queue.go` and the 202 of an upload | extends `JobQueue` |
| `JobService` | the uploads and downloads of `handlers/convert.go`, `cleanup.go`, crash and restart | extends `JobQueue` |
| `StatsStore` | `internal/stats/cloudflare_kv.go`, with the key-value service as its environment | |
| `RateLimiter` | the limiter of `internal/api/middleware.go` | |
| `RequestGate` | the way of a certificate inspection: limiter, Turnstile, `handlers/inspect.go`; the routes that share the limiter | extends `RateLimiter` |
| `FileTypes` | `internal/validator` and the tables of extensions | |
| `Uploads` | the upload handlers of `handlers/convert.go` for one request | extends `FileTypes` |
| `Converters` | every `Convert` of `internal/converter` as a sequence of steps | extends `FileTypes` |
| `NsjailRunner` | `internal/converter/nsjail.go` | |
| `ArchiveListing` | the listing checks of `internal/converter/decompress.go` | |
| `Conversion` | one request from its form to the recorded output | extends the five above |
| `TargetSize` | `jpegTargetSize` of `internal/converter/image_compress.go` | |
| `JobQueueProofs` | theorems about `JobQueue`, the last that it implements `FifoJobs` | extends `JobQueue`, TLAPS |
| `StatusPollProofs` | theorems about `StatusPoll` | extends `StatusPoll`, `JobQueueProofs` |
| `JobServiceProofs` | theorems about `JobService` | extends `JobService`, `JobQueueProofs` |
| `StatsStoreProofs` | theorems about `StatsStore` | extends `StatsStore`, TLAPS |
| `RequestGateProofs` | theorems about `RateLimiter` and `RequestGate` | extends `RequestGate`, TLAPS |
| `ListingProofs` | theorems about `ArchiveListing` | extends `ArchiveListing`, TLAPS |
| `ConverterProofs` | what each script of `Converters` can rely on | extends `Converters`, `NsjailRunner`, TLAPS |
| `ConversionProofs` | theorems about `Uploads`, `NsjailRunner` and `Conversion` | extends `Conversion`, `ConverterProofs`, `ListingProofs` |
| `MC...` | instances for TLC | |

Definitions called `Mutant...` are plausible bugs in the definition that follows
them. No specification uses them; they show that a property would notice.

### JobQueue

Variables carry the names of the fields of `Queue`: `jobs` (the status in the
published snapshot), `jobChan`, `queueOrder`, `inflight`. `worker` is the program
point of the worker goroutine and `current` its private copy of a job.
`submitting` is the id whose `Submit` has passed the checks and is about to send;
it holds `mu`, and so every action that takes `mu` waits for `MuFree`. A critical
section that neither blocks nor is seen half done from outside is one action;
`Submit` is two (`SubmitAdmit`, `SubmitSend`) because a channel send can block.
`deleting` holds the ids whose `DeleteJob` is between its two calls.

| Action | Code |
|---|---|
| `SubmitAdmit`, `SubmitSend`, `SubmitRefuses` | `Submit` |
| `WorkerReceive`, `WorkerExit` | the `select` |
| `WorkerDequeue` | `removeFromOrder` |
| `WorkerPublish`, `WorkerStore` | the two `jobs.Store` |
| `WorkerRelease` | `releaseSlot` |
| `DeleteJobEntry`, `DeleteJobOrder` | `DeleteJob`, for its callers, which hold a finished job |
| `Cancel`, `Stopped` | the end of `main`, which waits for nobody after `cancel()`: the process may end at any point of the worker |

A UUID is drawn once, so a job is submitted once (`issued`). A processing
function that fails, returns too much or succeeds is the choice of `Result`. The
owner of a job is a constant function: the address comes with the request.

### StatusPoll

A client is told its position by the 202 and then by polls. `PollGetJob` and
`PollGetPosition` are the two reads of `QueueHandler.Position`; the queue moves
in between. `told` is the last answer each client has.

### JobService

`dir` says what the directory of a job holds: nothing, its input, its output, or
rubble (a removal or a creation that failed half way). Time is two sets of ids
that grow by themselves: directories (`dirOld`) and results (`doneOld`) older than
`CleanupMaxAge`. They age independently, which is more than can happen. The one
assumption about time is that an upload handler is done with its directory
before `CleanupMaxAge` (ten minutes): the body is read before the directory is
made, and the server's read timeout is 30 seconds. (The one handler that may take
longer, because its search for a file name does not end, is in `Uploads`.)

| Actions | Code |
|---|---|
| `UploadMkdir`, `UploadWrite`, `UploadSubmit`, `UploadRefused` | every upload handler: `MkdirAll`, the copies, `Submit`, the clean-up on failure |
| `ConvertBegins`, `ConvertEnds` | the worker's two publications with what the converter does to the directory |
| `DownloadFinds`, `DownloadOpens`, `DownloadMarks` | both single-shot downloads: `GetJob`, open (for a zip: check all files), `MarkDownloaded` |
| `DownloadStreams` | the rest of `Download` |
| `ZipCopies`, `ZipStops`, `ZipEnds` | the loop of `DownloadZip`, its early return, its end |
| `ReapRemoves`, `ReapDeletes` | the goroutine both leave behind |
| `SweepBegins` ... `SweepEnds` | the cleaner: one action per job or directory and step |
| `DirAges`, `ResultAges` | time |
| `Crash` | the process dies and starts again; memory is lost, the tmpfs is not |

Requests that are turned down without changing anything (404, 400) are not
actions. `DownloadFile` changes nothing either. A graceful stop leaves the same
state behind as a crash, so it needs no action of its own here.

### StatsStore

The store counts in memory (`pending`) and adds to a value that lives in a remote
service. `writes` is the value whose PUT has not been confirmed and `confirmed` the
last one that was, as in the code. The flush is a little process: `flusher` says
who holds `flushMu` (the loop or `Close`), `keysLeft` which keys it has not come
to (Go's map order is any order), `asked` the request it waits for, so that
increments, readers and a shutdown fall between a request and its answer.

The service is external and modelled by what the code must live with: a read
returns the last accepted value or an older one (`lagging`), any request may fail,
and a PUT that failed may have been accepted or may be accepted later (`late`).
`disturbed` and `calls` are history: the keys for which `Close` promises nothing,
and the true counts.

| Action | Code |
|---|---|
| `Increment` | `IncrementProcessed`, `IncrementThanks` |
| `LoopFlushes`, `FlushKey`, `FlushEnds` | `flushLoop`, the loop of `flush` |
| `GetAnswered`, `PutConfirmed` | the two requests that succeed |
| `RequestFails`, `PutAmbiguous` | those that do not |
| `CloseBegins`, `CloseFlushes` | `Close` |
| `GetReads`, `GetCaches`, `CacheExpires` | `Get` |
| `LateWriteLands`, `Settles` | the service by itself |
| `Restart` | a new process |

A disabled store (no credentials) does nothing and is left out. At most one `Get`
is between its reads and the cache.

### RateLimiter and RequestGate

`clients` is the map of the limiter; the resets are kept as the time that is left,
-1 when they have passed. A tick is a fraction of a minute. `admitted` is history:
how many requests were let through within the last t ticks, for every span t up to
an hour, which is what the sliding windows speak about; `forgotten` tells when the cleanup last deleted the address.

| Actions | Code |
|---|---|
| `AllowTrue`, `AllowFalse` | `Allow`, which renews ended windows in both cases |
| `Cleanup` | one pass of the cleanup loop |
| `Tick` | time |
| `Limit`, `Verify` | `Middleware`, `TurnstileMiddleware` |
| `HandlerRefuse`, `TakeSlot`, `ParserBusy` | `Certificate` up to the `select` on `certParseSlots` |
| `ParserReturns`, `Send`, `ReleaseSlot` | the goroutine of `parseCertWithTimeout` |
| `Receive`, `Deadline` | its final `select` |
| `Traffic` | a request for another route behind the same limiter |

Statuses and bodies of answers are not kept: a request is answered or it is not.

### FileTypes, Uploads, Converters, NsjailRunner, ArchiveListing, Conversion

A request `q` has a conversion type, the options that change the course of its
conversion (numbers that are only passed on or range-checked are a check that may
refuse), a target format where one matters, and its files. A file is what the
server can tell of it: the type its first bytes claim, whether the structure
behind them is sound, its extension and name, and whether it is too big.

`Uploads` is the handler: `ReceiveForm` (refused at once), `MakeJobDir`,
`StoreFile` (one file of a list at a time, each of which may be refused after
others are on disk), `SubmitJob`. A refusal removes the directory, unless
`RemoveAll` fails, whose error the handlers ignore; `osFailed` remembers that, and a
failing `MkdirAll`. The files of an archive keep their names. How many suffixes
still fit into a name of 255 bytes is `spare`; if none of them is free, the loop
for a free name never sees the answer it waits for. The handler then stays in
`searching` until the cleaner takes the directory away (`SearchCutOff`).

`Converters` translates each `Convert` method into a sequence of steps: a command
with its sandbox profile and what it reads and writes, a file the server writes
itself, a check, a copy or removal, the switch to an intermediate file, and the
way the output is recorded. Branches on options are made when the sequence is
built, branches on sizes and contents are left open in it (`Maybe`).
`Conversion` says what each kind of step does, so each of its actions stands for
one kind of statement in all converters. The content of a file is the number of
the step that wrote it; a recorded size is true if it is the size of the content
on disk.

A command goes through `NsjailRunner`: it writes, exits, is killed when its
context ends, may survive that, is killed again by `waitOrKill`, and is then
waited for. It can only succeed if its inputs exist and what it writes lies under
`output/`, the one directory the sandbox may write to; otherwise the choice is
free. A command that exits with 0 may still have written nothing, which the code
finds out where it stats or reads the file (`FinishCommand`); only a command whose
failure is tolerated is taken to have written its file if it exits with 0.
Which suffixes vips can write, and for which of them its writer takes a compression
level, are the constants `VipsSaves` and `VipsCompresses`: the image compressor
names its outputs with the suffix of the name the client gave. `ListingStep` runs `validate7zListing`, line by line, on what 7z prints for
an archive chosen by the environment. The blocks of that listing are well formed; an
entry may be of either kind of directory, have no size, an unsafe name, or a name of
white space only, which loses its `Path` key in the reader. Sizes are parsed and added as int64, so a
greater one is refused and a sum beyond `MaxInt64` comes out negative (`Plus`).

`blame` is history: some tool, the disk or a check of options or content failed.
Without blame a failure is the code's own.

### TargetSize

The encoder is whatever function from quality to size, growing with the quality,
is consistent with the tries so far (`encoder`). `TimesRoot` is the code's
`int(factor * math.Sqrt(a / b))` in integers.

## The runs

| Run | Instance | Question |
|---|---|---|
| `queue` | 5 jobs (3 of client A, 1 of B, 1 trusted), 3 slots, shutdown at any time | consistency of the queue's records, no blocking under the mutex, exact counters, fairness cap, positions, refinement of `FifoJobs` |
| `queue_live` | 4 jobs, 2 slots, fair | outcomes and slots come, unless the server is shut down |
| `queue_tiny` | 4 jobs, 2 slots | finding: one client fills both slots while the job of another is converted |
| `status_poll` | 3 jobs, 2 slots | what a polling client sees |
| `service` | a single-file and a two-file job, 1 slot, one download at a time, one crash | results and inputs stay as long as they may be needed |
| `service_live` | one job, two racing downloads, one crash, fair | single hand-out; everything is removed in the end |
| `service_zip` | one two-file job, no crash | finding: the truncated zip |
| `stats` | one counter, 2 increments, one late write, one restart, fair | no double count, no loss, every increment gets through |
| `stats_close` | both counters, no restart | finding: what `Close` leaves behind |
| `gate` | 1 address, 2 inspections, 1 parser slot, 2 requests a minute, 4 an hour, a minute of 2 ticks, an hour of 6, fair | limits over sliding minutes and hours, no unfounded refusal, slots, answers |
| `conversion` | some 260 requests of all 26 types, fair | what is stored and what stays after a refusal, what is recorded, what succeeds, that it ends |
| `target_size` | a target of 100, inputs of 150 and 400, encodings from 40 to 130 | finding: the last try stays on disk |

Why the bounds are enough. Three slots are the smallest queue in which the cap
(2) is smaller than the queue and it can be full; five jobs fill the worker, the
channel and a refused submission at once. Two jobs in `service` make one wait or
be refused while the other is converted, downloaded or reaped, so the cleaner's
two passes meet jobs in every stage; one slot is enough because the queue is
checked by itself. Two files are the smallest zip that can be cut short, two
requests the smallest race for a claim. After one crash the memory is empty and
directories of every stage are left; a second crash only repeats that.

The statistics keep the two counters apart, so one of them is enough to check; the
second increment is the one that arrives while the first is being written, and
one late write is enough to land after its retry.

In `gate`, two requests fill a minute and two full minutes an hour, so either
limit can be the one that refuses; a closed sliding minute spans three ticks,
which is what three windows need to meet in it (the last bound of
`SlidingMinute` is needed: with twice the limit throughout, TLC finds a
violation). An hour of three minutes is the shortest in which twice the minute
limit is reached without the cleanup, and all but one of twice the hour limit. Two inspections and one slot are the smallest competition; the
parser of the first may never return.

In `conversion` the requests are chosen by the branches of the code: each type
with good, unsound, oversized and foreign files; each option and each
combination the code treats together; lists of none, one, some and too many
files; archives of files whose names collide, also with a name the server
makes up, and names with room for no suffix or only one; and archives of one entry of any kind and two or three that may add up,
against limits of two files and one unit of size, with 3 for the greatest int64:
one size is as great as that, one greater, and two of them wrap the sum, and a file
with a blank name has that size. Commands
write up to three units against limits of one and two.

The properties, in the words of the code:

- `OrderMatchesChannel`: the position list is the job in the worker's hand, then
  the channel, then the job being sent. `PositionNeverGrows` follows for clients.
- `SendNeverBlocks`: the send under `mu` finds room.
- `NoJobStranded`: a published "queued" or "processing" is always about to change.
- `InflightExact`: a client's counter is the number of its unreleased jobs.
- `NoClientFillsQueue`: a full channel never belongs to one capped client.
- `ImplementsFifo`: all of that together is a FIFO line of `MaxSize + 1` places.
  (`README.md` calls the setting "Max concurrent jobs"; up to `MaxSize + 1` jobs
  are unfinished at once, of which one is converted.)
- `PositionOnlyWhileQueued`, `RepliesNeverRegress`: replies put together from two
  reads never contradict an earlier one. "queued" with position 0 is possible.
- `DoneJobDownloadable`: a result stays until it is claimed or expired.
- `LiveJobKeepsInput`: the age rules never remove the files of a job that waits
  longer than the age limit or is being converted.
- `HandedOutOnce`: whatever races and crashes, one delivery and one count.
- `DirectoriesRemoved`, `JobsForgotten` (liveness): nothing stays for ever.
- `NeverOvercounts`: no value anywhere in the store or the service exceeds the
  increments made and not pending; failures, retries, lagging reads, late writes
  and restarts included.
- `NothingLost`: until the process ends, every increment is in exactly one place.
- `CountsReachService` (liveness): each increment gets into a confirmed value.
  Confirmed, not stored: a late write that lands after its successor lowers the
  stored counter until the next increment is flushed. After a restart the
  confirmed values are forgotten, and a lagging read can lose counts for good.
- `SlidingMinute`: fixed windows let through at most two limits in any minute,
  three if the cleanup forgot the address while its minute was open.
- `SlidingHour`: at most two hour limits in any hour: the cleanup only forgets an
  hour that is over.
- `RefusedOnlyOverLimit`: whoever is refused had a full limit admitted within the
  last minute or hour; no window outlives its time.
- `SlotsAreParsers`: the semaphore counts the parser goroutines, those of
  requests answered long ago included.
- `EveryRequestAnswered`, `ReturnedParserFreesSlot` (liveness): a stuck parser
  holds up nobody's answer; a late result goes into the buffer and the slot
  comes back. Slots of parsers that never return do not come back.
- `AcceptedIsComplete`: a queued job has all its files, each checked and under a
  name of its own. `RefusedLeavesNothing`: a refused one has none and no
  directory, unless `MkdirAll` or `RemoveAll` itself failed.
- `OnlyLongNamesSearch`: the search for a free name goes on for ever only for an
  archived file whose name has room for fewer suffixes than files were stored
  before it.
- `SucceedsExactlyOutsideGaps`: with everybody doing their part an accepted
  request is converted, except for the requests listed as `KnownGap`, which never
  are.
- `OutputTrue`: what a finished job records exists and has the recorded size
  (the size is not claimed for the JPEG search, see finding 4).
- `StdoutWhole`: output that is used was not cut at the limit.
- `OnlyListedWithinLimits`: an archive is extracted only if its entries with a
  name keep to every limit, with one exception: when the declared sizes add up to
  more than an int64 the sum (`decompress.go:170`) wraps, and the check of the
  total says nothing. Nothing is claimed of files with a blank name, which are
  dropped uncounted (`decompress.go:151`); after the extraction the walk over the
  output counts what is there.
- `ConversionReturns` (liveness): every request ends, whatever its tools do, or is
  in the search of `OnlyLongNamesSearch`.

Fairness. The scheduler runs every runnable goroutine (weak fairness of its next
step); steps that need the mutex get strong fairness, since Go's mutex hands
itself to a starving waiter. All of that holds until `main` cancels: then the
process may end at any point, and nothing is promised (`QueueFairness`). Converters return because every sandboxed command
has a time limit. Nobody is obliged to upload, poll, download or stop the
server. For the cleaner: time passes, and a removal that is attempted again and
again, or a `ReadDir`, succeeds at last. The goroutine a download leaves behind
needs no fairness: the cleaner makes up for it. For the statistics: the ticker
ticks, every request ends because the client has a timeout (weak fairness of the
flush), and a request repeated for ever succeeds at last (strong fairness of the
two answers; without it nothing could be promised). For inspections: the handler goes
on (calls out have timeouts, the deadline passes), and a goroutine whose parser
has returned sends and releases; a parser is not assumed to return. For
conversions: handler and worker go on, the time limit of a command passes,
`waitOrKill` sends its second kill, a process dies of that (not of the first), and
`Wait` returns. A tool is not assumed to exit.

## Findings

1. `queue_tiny`: with two slots the cap's minimum of 2 lets one client fill the whole
   channel while a job of another client is converted (a running job of its own
   would count towards the cap). Until that conversion ends everybody else is
   refused, which the comment at `queue.go:88` rules out. From
   three slots on the claim holds (`FairnessCapHolds`).
2. `service_zip`: the cleaner does not look at the claim of a download. If a job
   expires between the check of its files and their copy, `DownloadZip` returns
   early, and the deferred `Close` makes a well-formed archive of what was
   copied; the claim forbids another try.
3. `stats_close`: if the last PUT of a key was not confirmed, the flush of `Close`
   only repeats it and goes on to the next key; increments made since stay
   pending and are lost with the process, although no request of `Close` failed. The
   comment at `cloudflare_kv.go:101` says "Close flushes pending counters".
4. `target_size`: after a quality that met the target the JPEG search tries a
   higher one in the same file. If its last try is over the target, that file is
   handed out with the size of the better one recorded: the guard that should
   encode the best quality again asks for `bestSize == 0`. The comment at
   `image_compress.go:227` promises output "not exceeding targetSize bytes".

Requests that are accepted and can never be converted (`KnownGap` of
`Conversion`; the run shows that these are all among the modelled requests, and `SucceedsCorrect` in `ConversionProofs` for every request):

- OCR of a TIFF: accepted by the validator, unknown to `preprocess`.
- A PDF merge with an image: the converted page is written beside the image,
  where the sandbox may not write. A PDF merge of one file: the handler takes
  it, the converter wants two.
- Image compression of a file whose name, as the client gave it, has an extension
  that vips cannot write, or none, with crop: vips goes by the suffix of the output.
- Image compression with resize or a target size (unless the file is small enough
  already) of a file whose name ends in anything but `.jpg` or `.jpeg`, where the
  writer of that suffix takes no compression level: every such name gets the option
  `[compression=N]` (`image_compress.go:172` and `449`), which `.png` knows and, for
  instance, `.webp` and `.jfif` do not.
- A certificate converted to the format it has.
- A target size for a video of less than a second: the whole seconds of the
  duration are a divisor (`video_compress.go:113`), nothing recovers the panic in
  the worker, and the process ends.

More observations, without a run of their own:

- The search for a free name of an archived file never ends if the name is taken and
  too long for any free suffix: `Stat` then never says that there is no such file
  (`convert.go:1019-1025`). The handler runs until the cleaner removes its directory.
- An archive entry whose name is white space only is not counted before the
  extraction, and an archive of nothing but such files is refused as empty.
- The size search for PNG keeps its last try even if it is over the target.
- The PEM branch of `parseP7B` cannot be reached.

## The proofs

`JobQueueProofs` proves, for any sets of jobs and clients, any owners and any
size, that `TypeOK`, `OrderMatchesChannel`, `SendNeverBlocks`, `NoJobStranded` and
`InflightExact` are invariants of `QueueSpec`, `NoClientFillsQueue` when
`MaxSize` is at least 3, and that `PositionNeverGrows`. The only assumption is `QueueAssumption`.

None of these is inductive by itself. The order and the channel are shown equal
together with facts about where an id can be: the ids in hand, in the channel
and being sent are distinct and were issued, `jobs` says for each what its place
implies, and ids in `deleting` are finished, so that `DeleteJobOrder` removes
nothing. That conjunction is the inductive invariant; there is one lemma per
action, and lemmas on sequences (the first occurrence removed from a sequence
with distinct elements, appending, taking the tail) carry the data. The counters
add a second layer: the holders of a client's slots form a finite set that
gains, keeps or loses one element with each action, and the counter follows its
cardinality. The cap then bounds what one client can have in a full channel. For
the positions, a step leaves the order alone, appends to it or takes its head.

Its last part proves `ImplementsFifo` from the same invariant. Under the mapping
stated in `JobQueue`, `SubmitAdmit` is `Accept`, `WorkerPublish` is `Serve`,
`WorkerStore` is `Finish` and `DeleteJobEntry` is `Forget`, or nothing when the
entry was gone; every other step is a stutter, because sending and receiving only
move an id along the concatenation that stands for the line.

`StatusPollProofs` proves `PollTypeOK`, `PositionOnlyWhileQueued` and
`RepliesNeverRegress` of `PollSpec`. The invariant says that clients lag behind the
truth and never run ahead of it: what a client was told last is at most the stage
its job has now, with a position at least the present one (`Behind`), and the status
a handler has read lies between the two (`Between`). The queue only moves the truth
forward (`StageGrows`, `PositionFalls`), so a reply put together from an old status
and a new position still lies in between.

`JobServiceProofs` proves all four invariants of `ServiceSpec`, `ServiceTypeOK`,
`DoneJobDownloadable`, `LiveJobKeepsInput` and `HandedOutOnce`, for any jobs,
downloads, output files and crashes, from `QueueAssumption` and
`ServiceAssumption`. A step of the service is a step of the queue, leaves the
queue alone or is a crash (`StepOfQueue`), so the invariant of `JobQueueProofs`
carries over. `ServiceInv` adds why stale knowledge does no harm. Whatever is
claimed, expired, requested or reaped has finished (`ClaimsFinished`), and a
finished job never waits or runs again, not even after a crash
(`FinishedStable`). A request knows a job that is still in the table unless it
was claimed or expired meanwhile. What the cleaner chose some steps ago it may
still remove (`CleanerInv`): an orphan belongs to an upload that is over, so its
id can no longer be submitted. A result that was sent or counted has no owner,
and either its flag is set or the flag went down in a crash together with the
job and all its requests (`OnceInv`); that disjunction is what a crash needs.
The proofs go variable by variable: one lemma says what any step can do to
`jobs`, to `dir`, to the requests, to the flags and to the counts, and the
invariants follow from those.

`StatsStoreProofs` proves, for any keys and bounds, that `StatsTypeOK`,
`NeverOvercounts` and `NothingLost` are invariants of `StatsSpec`, from
`StatsAssumption`. `NothingLost` needs to know that the service is never ahead
of what the process knows, late and lagging values included (`Behind`): that is why
the larger of a read and the confirmed value is always the confirmed one before a
restart. Both need that a GET is only under way for a key without an
unconfirmed write (`Requests`), and `NeverOvercounts` is restated place by place
(`Bounds`). Again there is one lemma per action. The bounds on increments, late
writes and restarts are constants of the module, so the theorems hold for all
values of them.

`RequestGateProofs` proves the five invariants of `GateSpec` for any addresses,
limits, windows, requests and slots, from the assumptions of the two modules.
The types contain the claim that no counter passes its limit. `GateInv` adds to
them that a request which has not come to the parser has no goroutine, and that
the goroutines that run are finitely many and as many as slots are taken.
The sliding windows need an invariant of each client's history (`Windows`): while
a window is open, its counter is what was admitted since it was opened, and
what was admitted before within the same span is at most one limit, all of it in one
earlier window; a minute that was opened after the client was forgotten has
counted everything since then, and at most two limits came before. An ended
window leaves at most one limit within its span. The hour needs no such
distinction, because nobody is forgotten before it is over. The invariant is
stated of a count, a rest and a history, so that each step of the limiter
(renewing, admitting, a tick) is a lemma about these values.

`ListingProofs` proves of the reader of listings, for archives with any number of
entries, that what it lets through keeps to every limit in its entries with a name, or
has sizes that add up to more than an int64 (`ListingSound`), and that what keeps to
the limits is let through (`ListingComplete`). Entries with a blank name count for
neither; all that is asked of them is that a size is an int64. Its invariant says what the state is after the lines of the
first entries (`After`, `NextEntry`): while nothing was refused, the files counted are
those of the entries, and the total is their sum as long as that fits. An
induction over the number of entries is needed, and the library's theorem for it
cannot be used here; `Induction` derives it from the least number of a non-empty set
(`LeastNumber`). The recursive functions `Reading` and `Sizes` are unfolded in the
same way.

`ConverterProofs` follows each script of `Converters` from the facts that hold
before it to the facts that hold behind it. A fact is a file that is there,
the output directory (`Prepared`), a recorded result (`Ended`) and its true sizes
(`Recorded`). `Needs` says which facts a step must find so that only a tool, the disk
or a check can fail it, `Gains` what a step that went well adds, `Rests` what it
leaves, and `Blocks` which steps can never go well in this sandbox. `Flow(clear, s, A,
B)` says that the script `s` can be annotated with facts, from `A` to `B`, without a
blocking step if `clear`. It composes over the sequence (`FlowThen`) and over steps
that may be skipped (`FlowMaybe`); there is a lemma for each converter, for
any options and, for the lists, any number of files. They are the place where the
known gaps show: on their branches the flow ends in `Never`. Of the suffixes vips can
write they assume only `VipsAssumption`: `.jpg` and `.png` are among them, and only a
suffix that can be written takes a compression level, `.png` for one.

`ConversionProofs` proves the eight invariants of `ConvSpec` for any requests,
archives and limits. `StdoutWhole` needs to know of a command, while it still runs,
that what it wrote is kept unless the truncation is remembered (`Traced`).
`RefusedLeavesNothing` holds because there is nothing before the form has passed
(`Clean`), and a later refusal goes through the removal, where only a failing call
leaves something.
`AcceptedIsComplete` needs that the files on disk are as many as were stored
(`Stored`), so each must have got a new name. For pages that follows from their
numbers; for archives the name that is taken is a free one (`FreeName`).
`OnlyLongNamesSearch` is a pigeonhole argument on the same fact: if every suffix that
fits is taken, at least as many files are on disk beside the one whose name is
wanted, so more files were stored than suffixes fit (`LongName`). `RequestAssumption` says
what a request is: a finite list of files, at most one unless the type takes a
list.

`OutputTrue`, `SucceedsExactlyOutsideGaps`, `OnlyListedWithinLimits` and `ConvTypeOK`
rest on one more layer. An accepted upload has the files its script is given, each of a
type the converter's flow covers (`AllAccepted`, `ScriptFlow`), so when the worker takes
the job there is an annotation whose facts hold at the first step. `RunInv` says that
the job goes on along this annotation: at the step it is at, every fact of the
annotation is true of the disk (`Holds`), of a file unless a command that ended well is to
blame for not having written it. There is one lemma per kind of step. Where a
step goes well, what it gains is shown to be there and what rests to be still true
(`Onward`, `Gaining`); where it fails, somebody is to blame or the request is of a known
gap (`Broken`), because its needs were met. A command takes many steps of its own:
`CallInv` says that it fails only for a reason, and succeeds only if it was possible.
At the end of the script the facts behind it are the outcome (`Outcome`). That a job
of a gap is never done is the fact `Never`, which no state has. The values on disk, and
that every command names a checked profile, follow from the same annotation.

Model-checked only: all liveness (`JobsFinish`, `SlotsComeBack`,
`DirectoriesRemoved`, `JobsForgotten`, `CountsReachService`, `EveryRequestAnswered`,
`ReturnedParserFreesSlot`, `ConversionReturns`), because temporal proofs under
fairness are beyond the prover used. The four runs that end in a violation
have no theorem either. `TargetSize` only has such a run.

## Not modelled

- The inside of certificate parsing (`internal/inspector`): X.509, PKCS#7 and
  PKCS#12 structures are data. That a parser panics, returns or does not is
  modelled.
- The byte patterns of the validator, the arguments of the external tools, their
  seccomp policies and cgroups, the wording of messages.
- Ranges of numeric options: a check that passes or refuses.
- Path and name strings: a path is safe or not, a name is a base and suffixes;
  `SanitizeFilename` and the download name are spelling.
- Stateless endpoints and calls out: contact mail, health, CORS, headers, the
  request to Turnstile itself.
- Configuration and cgroup set-up, which run once at start; the check of the
  sandbox profiles at start is `RequiredConfigs`.

`PROJECT.json` gives each component with its reason.

## Plan

Done: the queue, polling, uploads, downloads, cleaner, statistics, limiter,
inspections, converters and sandbox; every invariant and every action property the
runs check is a theorem, and so is the refinement of `FifoJobs`. What would come next:

- a theorem about the JPEG search: what it records is the size of a file it wrote,
  whatever the encoder does, although it may not be the file that stayed;
- an abstract request (`form`, then refused or done or failed, once) that
  `Conversion` implements, and an abstract counter for `StatsStore`;
- the nesting limits of the PKCS#12 guard.
