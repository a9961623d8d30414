# AscendAI in TLA+

TLA+ models of the parts of AscendAI where threads, stores and failures meet,
TLC configurations that check them on small instances, and TLAPS proofs of the
results that hold for every instance. Every definition is translated from the
code; `PROJECT.json` gives the lines each one stands for.

Contents: [the system](#the-system) - the models: [chat history](#chat-history),
[manual ingestion](#manual-ingestion), [automatic ingestion](#automatic-ingestion),
[document routing](#document-routing), [extraction of memories](#extraction-of-memories),
[AscendMemory](#ascendmemory), [browser pool](#browser-pool), [web reader](#web-reader),
[transcription](#transcription), [Audacity projects](#audacity-projects), [OCR](#ocr) -
[the runs](#the-runs) - [counterexamples](#counterexamples-kept-beside-the-runs) - [bounds and fairness](#bounds-and-fairness) - [the proofs](#the-proofs) -
[findings](#findings) - [limits](#limits) - [not modelled](#not-modelled) - [plan](#plan) -
[running](#running).

## The system

| Component | State it keeps | Operations | What is hard | What makes it correct | Here |
|---|---|---|---|---|---|
| **Chat history** (`AscendAgent`: `memory/PersistentChatMemory`, `memory/ChatHistoryCompactionService`) | a Redis list and Postgres rows per conversation | load before a prompt, save after it, compaction job after each save | two stores without a common transaction; jobs on virtual threads that hold what they read across a model call; TTL; failures between two commands | no turn lost or repeated, cache agrees with table, every key expires, long histories are compacted | `ChatMemory`, `ChatArchive` |
| **Manual ingestion** (`service/ingestion/ManualIngestionService`, `DocumentService`) | S3 bucket, JDBC metadata store of markers, Qdrant collections | upload, run over a bucket (list, claim, read, delete old, add new) | overlapping runs, uploads meanwhile, a marker that outlives a failure | one run per object version; a collection holds exactly the latest content | `Ingestion` |
| **Automatic ingestion** (`config/IngestionPipelineConfig`) | accepted versions in the metadata store, the same vector store | poll, filter accepted-once, handle on an executor | marked before processed; error channel only logs; versions overtake each other | an object at rest is exactly indexed | `IngestPipeline` |
| **Document routing** (`service/ingestion/DocumentRouter`, its clients) | a pool of page threads per request | route a file to its service, a PDF page by page | one page fails, an interrupt while threads go on, page order | a PDF whole or not at all, nothing left at work | `DocumentRouter` |
| **Semantic memory in the agent** (`service/memory/*`) | none of its own | extract facts from a model's answer, insert one by one, wipe | loose text; partial failures that nobody hears of; two services' contracts | every fact found is inserted or counted | `MemoryExtraction`; its requests in `MemoryService` |
| **RAG, providers** (`service/rag`, `service/provider`) | registries built at start | look-ups | none of its own | - | not modelled: pure look-ups |
| **Prompt caching** (`service/cache`) | counters | decorates requests | none of its own | - | not modelled: formatting |
| **AscendMemory** | one mem0 client per provider, a lock, readiness flag, memories | search, insert, delete, wipe, warm up, probe | double-checked locking between the loop and threads; a lock that blocks the loop; wipes of many steps | one client per provider; no memory lost but by its own wipe or delete; nothing hangs | `MemoryService` |
| **Browser pool of AscendWebSearch** (`runtime/browser_pool.py`, `strategies/playwright_strategy.py`, `main.py`) | one driver process, one browser, a lock | get the browser, relaunch it, use a context in it, stop | many readers find it dead at once; launches that fail half way; shutdown | one driver, one launcher, no reader robbed of its browser, nothing left at the end | `BrowserPool` |
| **Reading in AscendWebSearch** (`reader/web_reader.py`, `strategies/*`, `cookies/*`) | sessions of a domain in Redis and memory, noVNC browsers | tiered read, escalate, monitor | a budget over the tiers, walls that come up late or unrecognised, a monitor that outlives its request, stale sessions | one human session per read, no wall the detector knows as content, everything ends | `WebReader` |
| **Transcription in AudioScribe** (`api/rest`, `transcription/*`, `downloader/*`) | uploads, directories, chunks, a GPU semaphore, event queues, registry of transcripts | transcribe, stream progress, store, download, sweep | threads nobody can cancel, clients that leave, bounded queues, files swept while served | a job that said complete can be downloaded; every job ends and cleans up | `Transcription` |
| **Audacity projects in AudioScribe** (`transcription/audacity_parser.py`, `conversation_merger.py`) | none | parse a project, rebuild tracks, merge | the order of blocks, offsets, gaps, missing files, tracks in any order | the transcript is the conversation | `AudacityProject` |
| **PaddleOCR** | LRU of engines, temporary files, the default executor | recognise, evict, time out | worker threads share the LRU without a lock; jobs go on after their time-out | no engine goes away under a request, nothing piles up, every request is answered | `OcrService` |
| **WeatherMCP** | two expiring caches of a library | geocode, forecast | little: read-only | - | not modelled |

**How they interact.** `AscendAgent` is the hub: the chat service loads history
from *chat history*, asks *semantic memory* (AscendMemory over HTTP) and *RAG*
(Qdrant) for context, puts a document a prompt brings along through *document
routing* (PaddleOCR, Docling or Unstructured over HTTP), calls a model with the
MCP servers (web search, speech, OCR, weather) as tools, saves the exchange and
starts the *extraction of memories*. Both ingestion paths write the Qdrant
collections that RAG reads. The Python services share nothing with each other but
Redis (cookies).

The models are of one service each, with the calls of its callers and the faults
of what it calls as inputs; where two meet, the receiving side has the caller's
request as it is sent (`MemoryService` has the agent's wipe).

# The models

## Chat history

`ChatMemory` models one conversation. Every Redis command names the key of one
conversation and every SQL statement one `user_id`, so conversations share
nothing and one is enough.

| Model | Code |
|---|---|
| `redis`, `ttl` | list at `chat:<id>` and whether it has an expiry; an empty list is an absent key |
| `rows`, `nextId` | the conversation's rows of `chat_history` |
| `pc`, `msg`, `history` | a prompt's thread in `AscendChatService.prompt`: load, model call, save of two messages |
| `job`, `prefix` | the compaction job each finished prompt dispatches, and the rows it decided to replace |
| `unsaved`, `lastDone`, `lastSeen` | for the properties only: INSERTs whose failure was logged and swallowed; the exchange finished last |
| `met` | for the properties only: which interferences there have been - a prompt that began while something was under way, two jobs at a time, a key that expired meanwhile |
| `faults` | failures so far |

One action is one Redis command, one SQL statement or transaction, or one model
call, since that is what other threads interleave with:

- load: `BeginPrompt`, `LoadFromRedis`, and after a miss `LoadFromPostgres`,
  `PopulateCache`, `ExpireHydrated`;
- `ChatReply`, then for each of the two messages `PushMessage` and
  `PersistToDb` (or `PersistFails`, which the code logs), then `TrimCache`,
  `ExpireCache`, which ends the prompt and dispatches the job;
- job: `ReadAndDecide`, `Summarise`, `ReplacePrefix` (one transaction),
  `TrimPrefix`, `PushSummary`, `ExpireSummary`;
- `PromptFails`, `JobFails`: the exceptions the code catches or lets out, at any
  command; `KeyExpires`; `Crash`.

A turn is one message of one prompt, a summary the set of turns it was made
from. That is the only thing the properties need of a text: what it tells.

Points that a reader of the code may stumble over:

- `persistToDb` is annotated `@Async` but called on `this`, so no proxy is
  involved and it runs on the caller's thread. The model keeps it synchronous.
- `created_at` order is modelled as id order: rows are stamped right before
  their INSERT, and nothing in the model depends on ties.
- `LoadLimit` (100) never bites at these sizes. `clear()` has no caller in the
  program and is left out.
- The summary row is created *now*, so it is the newest row although it tells
  the oldest turns. The model keeps that.
- The properties `Serial...` speak of a history in which nothing failed and every
  prompt began when the compaction before it was over (`Serial`), and of a `Roomy`
  configuration: the cache is larger than the trigger, and the trigger more than
  twice what is kept raw. The defaults of `application.yaml` (`max-size` 5,
  `turn-trigger` 20) are *not* roomy; `ChatCacheDropsNewest` shows what then happens.

`ChatArchive` is what the table promises: a set of turns that only grows, each
turn once. `ChatMemory` implements it with `kept <- Covered(rows)`, the turns
the rows carry raw or folded.

## Manual ingestion

`Ingestion` models the bucket, the metadata store, the collections and any
number of overlapping requests `POST /api/v1/ingestion/run`.

| Model | Code |
|---|---|
| `objects`, `uploaded` | the bucket; the ETag of an object identifies its content |
| `markers` | the metadata store's keys `<key>_<ETag>` |
| `points` | the points of each collection, with the source they carry and an identity of their own |
| `stage`, `provider`, `page`, `token` | a request's thread: where it stands in `ManualIngestionService.run`, its collection, the listed page, the continuation token |
| `fetched`, `chunk`, `failed` | the content it is adding, how far it is, whether it counted a failure |
| `met`, `outages` | for the properties only, and as a bound: uploads under a run, uploads of an earlier content, overlapping runs; crashes and markers that could not be removed |

One action is one call to S3, the metadata table or Qdrant: `StartRun`,
`ListPage`, `Claim` (`putIfAbsent`), `Fetch`, `RemoveOldDocuments`, `AddChunk`
for each chunk, `Close`, `Unclaim`, `UnclaimAndAbort`. Failures: `ProcessFails`
(an `IngestionException`, counted, the run goes on), `StepFails` (anything else,
the run ends after its claim was removed), `ListOrClaimFails`, `UnclaimFails`,
`Crash`. `Upload` is the other endpoint.

Abstractions: `Fetch` reads *whatever the key holds by then*, while the marker
holds the version that was listed - that difference is kept. What the parsers
make of a file is the number of its chunks, `ChunkCount`, with 0 for a file
without text. Only ingestable keys are in `Keys`, and a run's prefix is the
whole bucket. Two providers that share a collection (`lmstudio` and `gemini`)
are one element of `Providers`. A request for an unknown provider ends like
`StepFails`.

`MarkedIsIndexed` is said of histories that are `Undisturbed` (no upload came under a
run or brought back an earlier content, no outage), `RetryLeavesLatest` of those that are
`Serial` besides (one run after the other), and both of objects that have text: a file
without text leaves what the version before it left.

## Automatic ingestion

`IngestPipeline` models the poller that `app.ingestion.auto.enabled` switches on:
it lists the bucket, takes each version once, and hands the open stream to a
handler on a virtual thread.

| Model | Code |
|---|---|
| `uploads`, `current` | every `putObject`, in the order of `lastModified`, and how many chunks it makes; the bucket, as the last upload of each key |
| `stamp` | the filter's entry in the metadata store: the time last accepted for a key |
| `backlog` | the listed files the poller's thread has not come to |
| `jobs` | the handlers: key, version opened, step of the flow, chunks added |
| `points` | the vector store |
| `lost`, `overtaken` | for the properties only: versions whose handler failed or died; keys uploaded again while an earlier version was not yet taken or its handler not yet through |

`ListFiles`, `SkipFile`, `ReceiveFile` are the message source with its accept-once
filter, which goes through the listed files by `lastModified` (`First`); `ReceiveFails` is an object that cannot be opened, which the filter
forgets again (`OpeningFails` has the part the mutant shares). `RouteFile`,
`ProcessMessage`, `RemoveOldDocuments`, `AddChunk` are the two flows;
`HandlerFails` ends in `errorChannel`, which logs; `Crash` loses handlers and
backlog and keeps the stores.

Points that a reader of the code may stumble over: the handler opens the object
*as it is by then*, the filter stores the time *listed*; an unstructured file in
which nothing is found leaves the chunks of its last version, a markdown file
without text removes them; a file no route matches ends the flow with its stream
open. The adapters of Spring Integration are external: they are modelled as far
as the configuration relies on them.

## Document routing

`DocumentRouter` models one request of a prompt with a document: `Route` by
extension, `CallService` for anything but a PDF, and for a PDF the pool made for
this request. `SlicePage` cuts on the request's thread, `SubmitPage` hands to the
pool, `StartPage`, `PageDone`, `PageFails` are its threads, `AllPagesOver` is the
end of `allOf(...).join()` with the results in page order, `Interrupt` what
`awaitAllPagesOrThrow` and `shutdownPool` do when the waiting thread is
interrupted.

A page is the length of its text, whether it can be read and cut out, and whether
a service finds anything on it. What the code decides by it is kept: a text below
the threshold, or one that cannot be read, goes to PaddleOCR, any other to
Docling. `future` is a page's `CompletableFuture`; the pool has
`min(ParallelPages, pages)` threads, and a task starts when one is free. A thread
that was created with a first task of its own may start it after `shutdownNow`,
so an interrupted request may leave as many pages at work as the pool has threads:
they end by the clients' time-outs.

## Extraction of memories

`MemoryExtraction` models the virtual thread a prompt starts after its answer:
`Answered`, `CacheRefused` (asked once more without the prompt cache), `CallFails`,
then one `InsertMemory` or `InsertFails` per fact, and the `Tally`.

What happens between an answer and its facts is a pure algorithm, written with
recursive functions over symbols: `RemoveMarkdownCodeBlocks`, `ReadValue` (Jackson reading
an array of strings from the head of a text), `BracketScanState` as `Consume`,
`FindLastBalancedJsonArray`, `EmbeddedFacts`, `ExtractFactsFromJson`. Symbols are
the brackets, quotes, backslashes and fences the code looks for; anything else is a
word. The references it is checked against do not scan: `TopLevelArrays` is
stated with quantifiers over the positions of brackets outside strings.

Also met: an array at the head of the text wins over the last one, since
`readValue` ignores what follows it; so `[]` before the real array hides it.

## AscendMemory

`MemoryService` models the registry of mem0 clients, every endpoint and tool, the
warm-up, the readiness probe, and the memories in Qdrant's collections.

| Model | Code |
|---|---|
| `input`, `at`, `answer` | what each call asks, where it is, what it was told |
| `loop` | who blocks the event loop: endpoints, warm-up and probe look up, lock and build clients on its thread, MCP tools on threads of their own |
| `lock`, `registry`, `builds` | `_client_lock`, `_client_instances`, and how many clients were built |
| `memories`, `pending`, `owed` | the collections; what a wipe has listed and not deleted; what it found when it was called (for the properties) |
| `isReady`, `attempts` | the warm-up |
| `up`, `keyWorks` | Qdrant answers; the upstream takes the key |

`Receive` validates and looks up, `Lock` is the second look under the lock, `Build`
makes a client or raises; `Search`, `Add`, `Delete`, `ListMemories`, `DeleteNext`
are the calls of a client, each with the outcome that Qdrant or the embedding API
is not there; `WarmupClient`, `WarmupSearch`, `ProbeQdrant`, `ProbeEmbeddingApi`,
`ProbeMem0Client` the rest; `QdrantGoes`, `QdrantComes`, `KeyRevoked` the world.

A memory is known by the call that inserted it; what it says, and what a search
finds, is left out. Two providers with vectors of one size share a collection,
which the model keeps. A request of the agent (`byAgent`) has its user and provider
where the agent puts them, which for a wipe is a body the endpoint does not read.

## Browser pool

`BrowserPool` models the pool's Playwright driver and Chromium, its
`asyncio.Lock`, every call of `PlaywrightStrategy.get_html` and the lifespan that
starts and stops the pool. Everything runs on one event loop, so one action is
what lies between two awaits.

| Model | Code |
|---|---|
| `driver`, `held` | `self._playwright`, `self._browser`; a driver is a number, its browser goes by it |
| `drivers`, `connected`, `started` | the Node processes and browsers that run; how many drivers were started |
| `lock`, `waiters` | `asyncio.Lock`: holder and first-come queue; released first, taken by the first waiter later |
| `at` | where each read and the lifespan stands |
| `browser`, `contexts` | the browser each read was given; the reads with an open context |
| `orphans` | for the properties only: drivers whose `stop()` raised |

- `get_browser`: `GetBrowser` without the lock; `GetBrowserLocked`, `Acquire` and
  the second look under it, `CheckOrLaunch`;
- `_launch_locked`: `StopDriver` (an error is swallowed), `StartDriver`,
  `LaunchBrowser`, `LaunchFails` (the exception leaves the `async with`);
- `get_html`: `NewContext`, `SetUpPage`, `Render`, `CloseContext`;
- lifespan: `Start`, `Stop`, `CloseBrowser`, `StopLastDriver`;
- `Crash`: Chromium goes, with its driver or without.

Points that a reader of the code may stumble over:

- After a failed launch `self._browser` is still the old, dead browser and
  `self._playwright` the new driver. The next caller stops that driver.
- Shutdown waits for HTTP requests, but a tool call of an MCP session runs in
  the session's task, which ends only after `stop()`, when the MCP application's
  own lifespan does. Such reads are `Detached`: they may still call
  `get_browser` while the pool is being stopped and after it.
- A page's content, its polling and challenges are one step, `Render`, with
  any outcome: whatever happens, the `finally` closes the context.

## Web reader

`WebReader` models reads of pages of one domain (sessions are kept by domain), the
human sessions they ask for, the monitors of those, and the two session stores.

| Model | Code |
|---|---|
| `ask`, `at`, `left`, `mode`, `answer`, `page` | a request: its tier, the tiers left, the `mode` of its answer, the answer and the page in it |
| `session` | the cookies its tier has read |
| `monitor`, `polls`, `moved`, `solved`, `grabbed` | `_monitor_for_cookies` of each noVNC session: the polls it made, whether its browser is at another URL that is no login redirect, whether a person solved it, the cookies it last took |
| `redis`, `memory` | `CookieManager`'s stores for the domain |
| `site` | what the site asks of a visitor without a session; it changes at any time |

`ReadUrl` and `Search` are the endpoints and tools; `NextTier`, `GiveUp`, `Escalate`
and `Deliver` are the loop of `WebReader.read` with its budget, which may run out
between any two tiers (`MayExceedBudget`). `FetchWithCurl`, `FlareSolverr`,
`PlaywrightPoll`, `PlaywrightLate`, `Crawlee`, `SummonHuman` are the tiers;
`OpenBrowser`, `Grab`, `Poll`, `Save`, `Check`, `Sleep`, `Close` a monitor; `HumanSolves`,
`Navigate`, `KeyExpires` and `SiteChanges` the world; a failing call of Redis falls back to
memory where the code does.

A page is a record of what a person would see in it (`shows`) and, independently, of what
the rules of `ChallengeDetector` have to go by: whether it is empty, short or over 50000
characters (`size`), whether one of its titles has a login pattern (`titled`), whether it
has a signature or phrase of the dictionary (`signed`), and whether its status is a refusal
(`refused`). `IsLoginRequired` and `IsBlocked` are the two functions of the detector on
these; no tier sees `shows`. So a login wall that is long or has another title is a page
like any other, and content with a captcha's script in it is taken for a block. The forms
in which a site may serve a page are the constant `Pages`: `MCWebReader` has content of
both kinds, three login walls of which the detector knows one, and three blocks of which
it knows the one with a phrase always and the one without a text by its status. `FlareSolverr` stores
a clearance before it looks at the page it came with, as the code does, whatever that
page then turns out to be.

`Check` ends a monitor as the code does: when its browser is at another URL than the one
opened that does not look like a login redirect (`moved`), solved or not. Whether the
person or the site sent it there is `Navigate`, which is free; `HumanSolves` is apart from
it, as a challenge may be solved without the URL changing.

Text and link extraction keep only whether anything is left. Both `BrowserPool` and this module
have Playwright's tier: there what happens to the browser, here what it shows.

Also met: a budget spent before noVNC's turn ends the read without a person being
asked, while noVNC itself is exempt from it; two monitors of a domain overwrite
each other's cookies; a block page that comes up late passes Playwright's second
look, which knows login walls; a redirect to a challenge ends a monitor at its first look.

## Transcription

`Transcription` models jobs over REST, over event streams and as MCP tools.

| Model | Code |
|---|---|
| `asked`, `at`, `answer` | the request, its handler and what the client was told |
| `temp`, `dir`, `extracting` | upload or download, extraction directory, a thread unpacking into it |
| `track`, `left`, `chunks` | each track (one for a file), its chunks to go, its chunk directory |
| `gpu` | `_gpu_semaphore`: holder and queue |
| `queue` | the job's progress events not yet sent |
| `file`, `registered`, `doomed`, `age`, `link` | the stored transcript, `_file_registry`, what a sweep has popped and not unlinked, its age, a download of it |

`Receive`, `SaveUpload`, `DownloadToTemp`, `Extract` bring a job to its tracks;
`Enter`, `Cut`, `Announce`, `Call`, `Return`, `Finish`, `Fail` are a track, locally
through the GPU, remotely in threads; `StrayEnds` is a thread whose awaiter was
cancelled. `Relay`, `StoreTranscript`, `AnnounceTranscript`, `SendTranscript`,
`ReturnText` end a job well, `Break` with an error, `Disconnect` because the client
left. `Tick`, `Sweep`, `Unlink`, `AskFor`, `Look`, `Open` are the registry's life.

Texts and times are left to `AudacityProject`. A client may leave only where the
code awaits; a thread is never stopped by that. An event put into a full queue
raises in the worker, as `put_nowait` does.

Also met: an upload that is cut off, or refused for anything but its size, stays
on the disk; a client that leaves while its project is unpacked leaves the
directory, which the thread makes again after the handler removed it; when one
track fails, the others go on to their end (`gather` does not cancel them);
`SKILL.md:21` offers the provider `hf`, the code knows `huggingface` only.

## Audacity projects

`AudacityProject` is the algorithm those jobs run on a zipped project: `Unzip`,
`ExtractWave` or `ExtractImport` per element, `TranscribeOneTrack` in any order,
`MergeTracks`.

| Model | Code |
|---|---|
| `project` | what is sent: the files in the zip, the elements of the `.aup` with their attributes, which may be missing (`Attribute`), and the length of the provider's chunks |
| `done`, `tracks` | the loop over the elements and the dictionary it fills, in its order |
| `heard`, `script` | which tracks are transcribed; the merged transcript |

- `ParseClips` is `_parse_clips_from_track`: the blocks of a clip are sorted by their
  starts (`InTime`, 0 where there is none), those of silence fall out, and the files of
  both other kinds are collected (`Filed`, `AuFiles`). The starts are not used further.
- `AssembleClipBlocks` joins the files that are in the archive (`There`), one behind the
  other; `PlaceClip` is the loop that lays clips out from a running position with a gap
  before each (`Built`). Tracks of equal names overwrite each other (`SetTrack`).
- `Timed` is what a provider makes of a time. Hugging Face gives a text the beginning of
  its chunk of `HF_CHUNK_LENGTH_SECONDS`; the others time each segment, which is a chunk of
  one second. Where Hugging Face joins all texts of a chunk into one line, the model keeps
  a line for each, with the same time and speaker.
- `Sorted` is `list.sort` with a key: every element stands behind as many as come before
  it (`Place`), which makes it stable. The loops are recursive functions whose value at `n`
  is the state after the first `n` rounds (`Chosen`, `Assembled`, `Built`, `AllSegments`).

Audio is what is said in it and its length, in whole seconds: a file says its name at its
beginning. How many tracks are transcribed at a time is in `Transcription`; here they
return in any order.

The reference is said of the project's *text* and shares nothing with that algorithm but
`Number` and `Timed`: no list of files, no order, no running position. `Pieces` are the
blocks that have a file, by their places in the text; `TimeOf` a piece is its clip's offset
and its block's start, whatever stands before it. `TranscriptIsTheConversation` says, where
tracks have different names,

- `NothingIsLeftOut`: a file is said by a track's speaker as often as the text has a piece
  of it, no more and no less, unless it is silent;
- `Chronological`: by time, and in the order of tracks for equal times;
- `NeverEarly`: no line comes before its piece's clip begins, but for the chunk's rounding,
  whatever is missing, overlaps or is out of order;
- `AtItsTime`: a piece has exactly the time of the text when it is `Undisturbed`: no two
  blocks and no two clips of its track overlap (`IsApart`), its clip is heard from its
  beginning to it without a missing file, silence or gap (`InItsClip`), and no clip
  beginning before its own is skipped (`InItsTrack`). What is missing *behind* it, in its
  clip or its track, is not excluded.

The last two conditions are what the code needs, and TLC shows that it does (`AudacityLeavesGaps`): a block
without a file leaves no gap, so the rest of its clip comes too early
(`MissingBlockLeavesItsGap`), and a clip that is skipped has its gap laid out without the
running position being moved, so the clips behind it come too late (`SkippedClipLeavesItsGap`).
A track of missing clips only becomes silence.

## OCR

`OcrService` models requests over REST and MCP, the event loop's default executor
(`queue`, `Workers` threads), and the `OrderedDict` of engines that the threads
share without a lock. `LookUp`, `Touch`, `Build`, `Insert`, `EvictIfOverCapacity`,
`PopOldest` are its single operations, since threads interleave between them;
`WriteTempFile`, `Predict`, `RemoveTempFile` follow. `ProcessOcr`, `Download`,
`FetchFile`, `DownloadHttp` are the loop's side, `OcrTimeout` answers the request
while its thread goes on, `WarmUp` is the lifespan.

Of a file only its kind is kept (good, unreadable, unknown, too large) and where
it comes from (upload, file inside or outside the allowed directory, public or
private address). The text that is read has no content.

# What is checked

## The runs

Every property of a run holds, but for the last run, which shows a disagreement.

| Run | States | Shows |
|---|---|---|
| `ChatRuns` | 105,714 | *Two prompts at a time, two failures or crashes, the key expiring at any moment:* an answered prompt is archived (`DoneIsArchived`), a job deletes exactly what it summarised (`RowIdsAreStable`), every key gets its expiry unless something failed (`KeyCarriesTtlUnlessFaulty`), compaction loses or invents no turn (`TurnsAreNeverLost`, the refinement of `ChatArchive`), threads end (`ConcurrentThreadsEnd`) and the table is brought back to the trigger (`ConcurrentIsCompacted`). *Six prompts one after the other, a cache larger than the trigger, two compactions:* a prompt sees the exchange before it (`SerialSeesLastExchange`), the stores agree at rest (`SerialBackendsAgree`), a job takes from the cache only what it summarised (`SerialTrimsOnlyThePrefix`). *In both:* a turn is told once, by the table as long as no two jobs ran at a time, by the list in a serial history (`TurnsToldOnce`). |
| `IngestRuns` | 352,984 | *Two overlapping runs with uploads at any time, a file without text, a failure, an outage or crash; two overlapping runs out of three for two collections; three runs one after the other with two failures:* `OneRunPerVersion`, every run ends (`RunsEnd`); while the history is undisturbed, a marked current version is exactly indexed somewhere (`MarkedIsIndexed`), and with runs one after the other a run that counted no failure leaves exactly the latest contents (`RetryLeavesLatest`). |
| `PipelineFinds` | 656,524 | Three uploads at any time to a file of each flow and one of none, a failure or crash: an object at rest that was not overtaken is exactly indexed unless the handler of this version failed (`RestingIsIndexed`), and every such object comes to that (`FilesAreFound`). |
| `RoutesDocuments` | 22,767 | Any PDF of up to two pages, of four with a first page of text, or a file of another type, a pool of two, two failing calls, an interrupt at any moment: a PDF comes out whole and in order or not at all (`PdfIsWhole`), no page is at work after an answer (`NothingGoesOn`), requests end (`RequestsEnd`). |
| `ExtractionRemembers` | 88,074 | Answers of prose, fences, strings, escapes, stray brackets, nested arrays, up to four pieces: the scan finds the last top-level array (`ScanFindsLastTopLevelArray`), and an answer with one array is remembered but for the facts AscendMemory refused (`AnswerIsRemembered`). |
| `MemoryServes` | 166,946 | Three calls, warm-up and probe race for three providers' clients while Qdrant goes and comes back and the key is revoked: `OneClientPerProvider`, what was acknowledged stays until its own user's wipe or its own delete, and a wipe leaves nothing of what its user had (`MemoriesAreKept`), everything ends (`EveryCallEnds`). |
| `PoolServes` | 76,231 | Three reads, one of them outliving the HTTP server, a crash, failing launches and stops, shutdown at any time: one driver and one launcher (`PoolIsOne`), a relaunch takes no reader's browser (`ReadersKeepTheirBrowser`), who gets a browser gets a live one (`HandsOutLiveBrowser`), `stop()` leaves nothing (`ShutdownIsClean`), reads end (`ReadsEnd`). |
| `WebReads` | 182,256 | Two reads while the site raises, drops and changes its wall in forms the detector knows and forms it does not, a person solves it, the browser is sent elsewhere, the key expires and one Redis call fails: a read asks for a person at most once and fetches nothing after that (`HumanIsAskedOnce`), hands out no page the detector knows for a login and none it knows for a block but by Playwright (`RecognisedWallsAreKeptBack`), and reads and monitors end (`ReadsAndMonitorsEnd`). |
| `Transcribes` | 69,439 | Two jobs of up to two tracks and two chunks, full queues, clients that leave, expiry during a download: types (`TypeOK`), one track has the GPU (`GpuServesOneTrack`), a stream that said complete has sent every event and left a transcript (`CompleteMeansAvailable`), jobs end and clean up (`JobsEndAndCleanUp`). |
| `AudacityMerges` | 125,287 | Two tracks of up to two clips and three blocks, in and out of the text's order, with gaps, silent blocks, alias blocks and attributes left out, or Craig's imports, with files missing, silent files, equal names and chunks of one and two seconds: `TranscriptIsTheConversation`. |
| `OcrServes` | 116,170 | Three requests, two threads, a cache of two engines for three languages, one engine or file that cannot be made: languages that fit the cache are not disturbed (`FittingLanguagesAreUndisturbed`), at most one engine too many per thread and no file left (`NothingPilesUp`), every request is answered (`EveryRequestIsAnswered`). |
| `MemoryAgentWipe` | *violated* | `AgentWipeReachesUser`: see [findings](#findings). |

`MCChatMemory` and `MCIngestRuns` check several settings of one model in one run:
the variable `setting` is chosen at the start and never changes, and each setting is
an instance of the model with its own constants. The settings are there to reach what
their names say within a run's time; but for the two liveness properties of `ChatRuns`,
the properties do not name them. Their conditions are on the history (`met`, `faults`,
`outages`) and the configuration, so they hold in every setting and can be proved of the
model itself. Elsewhere the MC module only gives values to constants.

The type invariants of the modules other than `Transcription` are not in a run's list;
each is a theorem, and holds in the run when it is added to the `INVARIANT` line.

## Counterexamples kept beside the runs

Each of these configurations takes one assumption of a run away, or states what a
document or comment says, and TLC shows the behaviour in which it fails. Where two properties
are named, the second one stands in the configuration as a comment, to be taken in the place
of the first.

| Configuration | Module | Fails | Why |
|---|---|---|---|
| `ChatCacheDropsNewest` | `ChatMemory` | `PromptSeesLastExchange` | a full cache keeps its oldest messages |
| `ChatDivergence` | `ChatMemory` | `CompactionHealsDivergence` | a job cut off between the stores is not made good by the next one |
| `ChatResummarises` | `ChatMemory` | `SummarisedHistoryIsLeftAlone` | the guard does not find the summary |
| `IngestReturnsToOld` | `MCIngestion` | `RunLeavesLatest` | a content uploaded again after another one is skipped for ever |
| `IngestOtherProvider` | `MCIngestion` | `RunLeavesLatest` | a second provider's collection stays empty |
| `PipelineForgets` | `MCIngestPipeline` | `NewFilesAreIngested` | a version whose handler failed is never tried again |
| `PipelineOverlaps` | `MCIngestPipeline` | `AnyRestingIsIndexed` | two versions of one object at work at once: both remove, then both add |
| `ExtractionMissesArray` | `MCMemoryExtraction` | `LastArrayIsFound` | a bracket that never closes hides the array behind it |
| `MemoryRevokedKey` | `MCMemoryService` | `ReadyNoticesRevokedKey` | the probe meets the client made before the key was revoked |
| `PoolLeaksContext` | `BrowserPool` | `ContextsAreClosed` | a page that cannot be set up leaves its context open |
| `WebDeliversWall` | `MCWebReader` | `NoLoginWallDelivered` | a login wall of over 50000 characters, or of another title, is content to every tier |
| `WebStopsEarly` | `MCWebReader` | `StopsEarlyOnlyWhenSolved` | a browser sent to another URL ends its monitor, whatever was solved |
| | | `SolvedSessionIsTaken` | the cookies a monitor took just before the person solved the challenge stay |
| `AudacityLeavesGaps` | `MCAudacityProject` | `SkippedClipLeavesItsGap` | the gap before a clip without files is laid out twice: the clips behind it are too late |
| | | `MissingBlockLeavesItsGap` | a block without a file leaves no gap: the rest of its clip is too early |
| `TranscribeOneGpu` | `MCTranscription` | `GpuIsSerialised` | a cancelled chunk's thread transcribes on while the next track has the semaphore |
| `TranscribePaths` | `MCTranscription` | `PathsAreNotAboutToGo` | a path that was checked is swept before it is opened |

And the conditions inside the properties matter:

| Where | Change | Then fails | Why |
|---|---|---|---|
| `ChatRuns` | `met = {}` out of `Serial` | `SerialBackendsAgree`, `SerialTrimsOnlyThePrefix`, `TurnsToldOnce` | the key expires between two RPUSHes, and the job trims the short list by a count of table rows; two prompts both hydrate the list |
| | `faults = 0` out of `Serial` | `SerialBackendsAgree` | a failure between the stores |
| | `"jobs" \notin met` out of `TurnsToldOnce` | `TurnsToldOnce` | two jobs fold the same rows |
| | `EffectiveCacheSize = TurnTrigger` counts as roomy | `SerialBackendsAgree` | LTRIM cuts the newest entry before the job runs |
| | `TurnTrigger = 6` with three kept counts as roomy | `SerialTrimsOnlyThePrefix` | the summary, last in the table and first in the list, is kept by one store and folded by the other |
| | `TokenTrigger = 6` with three kept counts as roomy | `SerialTrimsOnlyThePrefix` | the same, when texts are long |
| | `KeyCarriesTtl` for `KeyCarriesTtlUnlessFaulty` | | a failure between RPUSH and EXPIRE leaves a key for ever |
| `IngestRuns` | uploads under a run count as undisturbed | `MarkedIsIndexed` | runs that listed different versions both read and add the newest |
| | outages count as undisturbed | `MarkedIsIndexed` | a crash after the claim leaves a marker without points |
| | objects without text too | `RetryLeavesLatest` | a version without text leaves the chunks of the one before |
| `PoolServes` | `ShutdownIsClean` for every state from `stopped` on | | a read that outlives the server relaunches the browser after `stop()` |

## Bounds and fairness

**Bounds.** Two threads suffice for every pair of steps to interleave; a third
prompt, run, read or request is there to observe what two left behind, or to wait
while one works and one queues. `MaxFaults` and `MaxOutages` are two where a retry can fail as
well, one elsewhere. Switches (`PromptsOverlapJobs`, `ExpireWhileActive`,
`UploadsDuringRuns`, `UploadsRepeat`) name one source of interference each, so that a
setting can go without it and further in another direction.
`TurnTrigger` and `KeepRecentTurns` are small so that a second compaction is
reached. Two keys and a page of one reach the last page, a page that ends at the
last key, and an upload between two pages; two chunks per content allow a failure
between them. A cache of two engines for three languages and three requests has
every eviction race of two threads. Two polls give a monitor a first, a middle and a
last look. A queue of two events is full while a third is put, and `Ttl = 1` lets a
transcript expire before, during and after a download. The pages of `WebReads` include
content, logins and blocks each once that the detector catches and once that it does not. Two clips of up to two
blocks have each reason for a block to be moved: one missing before it in its clip, a gap
or silence there, a skipped clip before its own, a clip that overlaps it, and the order of
the text. The inputs of `WebReader`,
`Transcription`, `MemoryService` and `OcrService` are sets of scenarios, chosen so
that between them every surface, operation and error path is taken; not every
pair of inputs meets every other.

Runs whose system may stop do not check for deadlock: a service whose requests are
all answered takes no step. In `ChatRuns`, `IngestRuns` and `PipelineFinds` deadlock
is checked.

**Symmetry** sets are used for no run: most check liveness, where they are not sound. In `ChatRuns` and
`IngestRuns` prompts, requests and contents come in the order of their numbers
instead, which is sound because they are interchangeable.

**Fairness** is weak fairness of single threads, tasks and workers, never of the
environment: no user has to send anything, no failure, crash, expiry or client's
departure has to happen, no site has to change and no person has to solve anything.

| Model | Fair | Because |
|---|---|---|
| `ChatMemory` | each prompt, each job | servlet threads and a virtual thread per job; the clients' calls return or time out |
| `Ingestion` | each run | a servlet thread each |
| `IngestPipeline` | the poller, each handler | a poller on a fixed delay, a virtual thread per handler (`AppConfig.java:47-49`) |
| `DocumentRouter` | the request's thread, submitting, starting and ending each page | connect and read time-outs of the clients (`AppConfig.java:90-98`) |
| `MemoryService` | each call, client look-up, warm-up, probe | threads run and sleeps end; who waits for the lock gets it when it is free |
| `BrowserPool` | each read, the lifespan | tasks of one loop; the lock is first come, first served; Playwright's calls return or raise |
| `WebReader` | each read, each monitor | tasks of one loop with time-outs on every fetch |
| `Transcription` | handlers, tracks, extraction, downloads, sweeps, the clock | tasks and threads that end; the clean-up loop sleeps a fixed time |
| `OcrService` | the pool's taking of tasks, downloads, the time-out | threads and timers; that an engine call returns is *not* assumed, but for the second half of `EveryRequestIsAnswered`, which says so (`WorkersRun`) |
| `MemoryExtraction`, `AudacityProject` | nothing | safety only |

# What is proved

## The proofs

Eight modules, checked by TLAPS for every value of the constants that satisfies the
assumptions named in the models. Those give types and say that names differ, for
`AudacityProject` that no file of audio is empty, and for `OcrService` that the supported languages are finitely many (`config.py:39`, a tuple);
no relation between a cache's size, a trigger and what is kept, and no number of
threads, keys, pages or providers, is assumed. The condition `Roomy` of three chat
properties is part of the properties, not an assumption. Every safety property a
passing run checks is a theorem here; liveness is [left to TLC](#only-model-checked).

| Module | Theorem | Statement |
|---|---|---|
| `ChatMemoryProofs` | `TypeCorrect` | `Spec => []TypeOK` |
| | `RowsAreStable` | `Spec => []RowIdsAreStable` |
| | `FinishedPromptsAreArchived` | `Spec => []DoneIsArchived` |
| | `TableImplementsArchive` | `Spec => TurnsAreNeverLost`, the refinement of `ChatArchive` |
| | `KeysExpire` | `Spec => []KeyCarriesTtlUnlessFaulty` |
| | `TurnsAreToldOnce` | `Spec => []TurnsToldOnce` |
| | `StoresAgree` | `Spec => []SerialBackendsAgree` |
| | `LastExchangeIsSeen` | `Spec => []SerialSeesLastExchange` |
| | `JobsTrimTheirPrefix` | `Spec => SerialTrimsOnlyThePrefix` |
| `IngestionProofs` | `IngestionTypeCorrect` | `Spec => []TypeOK` |
| | `ClaimsAreExclusive` | `Spec => []OneRunPerVersion` |
| | `MarkedVersionsAreIndexed` | `Spec => []MarkedIsIndexed` |
| | `RetriesLeaveTheLatest` | `Spec => RetryLeavesLatest` |
| `BrowserPoolProofs` | `PoolTypeCorrect` | `Spec => []TypeOK` |
| | `PoolStaysOne` | `Spec => []PoolIsOne`, by `PoolIsOneDriver` and `PoolHasOneLauncher` |
| | `RelaunchSparesReaders` | `Spec => ReadersKeepTheirBrowser` |
| | `GivenBrowsersAreLive` | `Spec => HandsOutLiveBrowser` |
| | `StopLeavesNothing` | `Spec => ShutdownIsClean` |
| `MemoryServiceProofs` | `MemoryTypeCorrect` | `Spec => []TypeOK` |
| | `ClientsAreMadeOnce` | `Spec => []OneClientPerProvider` |
| | `AcknowledgedMemoriesAreKept` | `Spec => []MemoriesAreKept` |
| | `ExtractionTypes` | `ExtractionSpec => []ExtractionTypeOK` |
| | `ExtractionFinds` | `ExtractionSpec => []ScanFindsLastTopLevelArray` |
| | `ExtractionRemembers` | `ExtractionSpec => []AnswerIsRemembered` |
| `WebReaderProofs` | `WebTypeCorrect` | `Spec => []TypeOK` |
| | `HumansAreAskedOnce` | `Spec => []HumanIsAskedOnce` |
| | `RecognisedWallsStayBack` | `Spec => []RecognisedWallsAreKeptBack` |
| `TranscriptionProofs` | `TranscriptionTypes` | `Spec => []TypeOK` |
| | `GpuIsExclusive` | `Spec => []GpuServesOneTrack` |
| | `CompleteJobsAreAvailable` | `Spec => []CompleteMeansAvailable` |
| | `ProjectTypes` | `ProjectSpec => []ProjectTypeOK` |
| | `ConversationIsWhole` | `ProjectSpec => []TranscriptIsTheConversation` |
| `DocumentRouterProofs` | `RouterTypeCorrect` | `Spec => []TypeOK` |
| | `PdfsAreWhole` | `Spec => []PdfIsWhole` |
| | `NothingIsLeftRunning` | `Spec => []NothingGoesOn` |
| | `PipelineTypeCorrect` | `PipelineSpec => []PipelineTypeOK` |
| | `PipelineIndexes` | `PipelineSpec => []RestingIsIndexed` |
| `OcrServiceProofs` | `OcrTypes` | `Spec => []TypeOK` |
| | `NothingEverPilesUp` | `Spec => []NothingPilesUp` |
| | `FittingLanguagesStay` | `Spec => []FittingLanguagesAreUndisturbed` |

*Chat history.* Types are not inductive by themselves: `Listing` picks the row
of each rank, and every rank is taken only if rows are finitely many and have
distinct ids (`RankExists`, by an injection of the rows into `0..n-1`).
`TypeInv` is `TypeOK` and that fact. `ArchiveInv` adds `RowIdsAreStable` and a
ledger that says which turns the table has (or `unsaved` records) at each point
of a prompt and that it has no turn of a later point. The ledger is what makes
an INSERT add a turn the table does not have, which is the refinement's one
visible step; stable ids are what makes `ReplacePrefix` delete exactly the rows
whose turns the summary carries, which makes it a stutter. A second job that
replaces the same prefix finds its rows gone and inserts a summary of turns that
are still covered, by the first one's summary: again a stutter, though the turns are
then in two summaries. `ExpiryInv` says when a key without expiry
may exist: only while a prompt or job is between its write and its EXPIRE, or
after a failure.

That a turn is told once needs more than the archive, which lets two summaries share
turns. `FoldInv` says, as long as no two jobs were at work at a time (`JobsApart`), that
the prefix a job carries is still in the table (`PrefixIsThere`), so the summary that
replaces it tells nothing that another row tells (`TurnsFoldedOnce`). What the list is
worth is `SerialInv`, for serial histories of a roomy configuration: between two commands
of the one prompt or job at work, table and list have the same entries but for the ones
just written (`PromptAt`, `JobAt`, `AtRest`). They have them in different *orders*: the
summary stands behind the turns that were kept in the table, and is the first entry of the
list. A job counts its prefix in the table and cuts as many entries off the list; `InStep`
says that this is the same part (`SplitAlike`) wherever the prefix is longer than the
turns kept raw. It is, because the rows standing before the summary in the table are at
most `KeptRaw` (`SummaryInv`), so that such a prefix contains it in both stores. Roominess
is what makes every prefix that long. `SeenInv` carries the exchange finished last from
the stores to the history of a prompt in its turn. `StepsInv` is all of them together.

*Ingestion.* `ClaimInv` is the types, that a run at an object has it at the head
of its page (`PageInv`), that what a run holds is marked (`HeldIsMarked`), and
exclusion. `HeldIsMarked` is what makes `putIfAbsent` refuse the second run, and
exclusion is what makes `Unclaim` of one run leave the markers of all others.

`MarkInv` follows a version from its claim to its points: an undisturbed run reads what
it listed (`CurrentInv`), what a run is adding is in its collection from the first chunk to
the one it has reached and nothing else of that source (`AddingInv`), so a marked version
is either held by a run or indexed (`IndexInv`); `RestInv` and `SeenInv` say that a run at
rest holds nothing and that only uploaded contents are seen. Other runs meanwhile delete
and add other objects in the same collections; exclusion keeps them off this one.
`RetryInv` adds that every object is still to come in the listing, on the page, or marked
(`CoverInv`), unless the run has counted a failure: at its end all are marked, hence
indexed.

The pipeline's `PipeInv` has the types, that the poller's list names each object once, as
it is or was (`ListInv`), how far its guards let a handler come (`StepInv`), and for each
object that was not overtaken: one handler at most is at it, with the version the bucket
and the filter have, and what is listed of it is either known to the filter or present
(`AloneInv`); its chunks are those the handler at work has added so far (`PartInv`), and all
of the present version when it is at rest (`WholeInv`). Steps about other objects are
dealt with once for all (`Apart`). The proof stands in `DocumentRouterProofs`, with
variables, constants and an assumption of its own.

*Extraction.* The theorems hold for texts of any length over any symbols, so the loops
over characters are gone through by induction. The induction theorems of the library take
an operator as a parameter, which no installed prover can instantiate; `UpTo` says the
same of a *set* of numbers and follows from the least element of a set (`LeastOf`, from
`WFMin`, which has no such parameter), and `Recursion` gives from it the functions that
the loops define. Along the scan, `ScanKnows` relates the two flags to the positions
(whether a backslash stands in an odd run, whether a quote is open), and `OpenAt` and
`LastAt` the depth and the ranges: what is open now has opened at `start` and never came
down since, everything opened before it was closed before it, and `lastClosed` is the
last of the arrays outside all others that have ended. `ExcessIsLevel` translates the
property's counts between two brackets into levels counted from the beginning. For
`AnswerIsRemembered` the other loops are followed through a text that holds an array at
some place (`Holds`): taking fences away keeps it (`CleanedHolds`), the scan finds it
(`ScanOfHolder`), because inside an array of strings it keeps pace with the reader
(`InStep`, `ConsumeInArray`), and a reader that accepts the whole text has read it at the
head (`ReadingOfHolder`). `ExtractionInv` has the tally.

*Browser pool.* `PoolInv` is the types, that whoever launches or closes holds the
lock (`LockInv`), that numbers are given out in order so a new driver is none of
the old ones (`NumberInv`), and that the connected browser of the pool's driver
is the held one, with none while a launch is under way (`LaunchInv`). The last
part is what the second look under the lock establishes, and what makes the stop
of the prior driver harmless to readers.

*AscendMemory.* `ClientInv` is the types, that who builds a client holds the lock
and nobody has built that one yet (`LockInv`), that who uses a client has one
(`HaveInv`), and that the warm-up's last attempt is its last (`WarmupInv`).
`KeepInv` on top of it says where memories come from (`IdsInv`), what a wipe owes
its caller (`OwedInv`), and that a wipe at work has listed whatever is left of it and
nobody else's (`PendingInv`). That last part is the heart of it: between the
listing and the last delete others insert, delete and wipe in the same collection.

*Web reader.* `ReadInv` adds to the types that the tiers a read has left end with
noVNC (`TiersInv`), so a read that has none left has asked for a person; that only a
read that is over was answered (`AnswerInv`) and has a page (`PageInv`), so a tier cannot
overwrite an answer; and that what renders is Playwright (`ModeInv`), which is what the
exception in `RecognisedWallsAreKeptBack` is about. That theorem says of every tier, with
whatever look it takes before it delivers, that the page it delivers is not one the
detector's rules catch. It does not say that no login wall is delivered, which is not so:
see `WebDeliversWall`.

*Transcription.* `GpuInv` describes the semaphore's line of tracks: it has exactly the
local tracks that are past the merger and before their end, each once and one of a job
(`LineInv`), because the merger lets a local track in when those before it have left
(`OrderInv`); who waits for the model is its head. A disconnect takes a job's track out of
the middle of the line, which is what the lemmas about `Without` are for. `AvailableInv`:
a job that said complete has all of its tracks done, so nobody puts an event any more
(`AnsweredInv`); what a sweep has popped has expired (`DoomedInv`), so a transcript of age
up to `Ttl` is on disk and in the registry; and only stored transcripts are downloaded
(`LinkInv`).

*Audacity projects.* The theorem is for projects of any size, and says of the algorithm
that nothing gets lost or doubled in it, so its backbone is a correspondence: `OneToOne`
relates the positions of a sequence to the members of a set. Each loop gives one: the
comprehension picks (`Picks`), a stable sort permutes (`Sorting`), a concatenation joins
two (`Joined`, for what they say `Thereafter`), and they are composed. Loops are gone
through with `Recursion` and `UpTo`, as for extraction. The code's side and the text's are
first apart. `ClipReads` takes the parser from one to the other: what it keeps of a clip
is, one to one, the blocks that can be heard, by their starts; `ClipTimes` says that what
is read of blocks that do not overlap is over by the end of its block, and that a block up
to which the clip is heard begins exactly when those before it have been read. `TrackBuilt`
follows `_build_track_from_clips` clip by clip: what the track says is, one to one, the
pieces of the clips so far (`Recounts`), none before its clip begins, since the running
position is never more than the length of what was laid out; and a piece of a clip before
which none was skipped, in clips that are apart, is at its time, since until then the two
are equal and never beyond the next offset (`TrackGrows`, `OnTimeIf`). The inductive invariant `ProjectInv` has the types, how far the handling
is, that the transcript is what the merge makes of the tracks, and `TracksInv`: with names
that differ there is an order-preserving map `e` of the tracks into the elements handled
so far, each track says what its element lets hear (`Faithful`), and no element of which
anything is heard was left out (`Origin`). A provider's chunk keeps the order of times
(`TimedFacts`). The property speaks of the merged transcript
only; without `TracksInv` a step of the extraction has nothing to add to. At the merge the
segments of all tracks are, one to one, their places track by track (`SegmentsInTurn`),
sorting keeps those who begin together in that order (`InOrder`), and `Counted` turns the
correspondences into the counts of `NothingIsLeftOut`. (These proofs stand in
`TranscriptionProofs`.) In which order the tracks returned
is not in `Merged` at all: `gather` keeps theirs.

*Document routing.* `RouterInv`: what the thread's place says of the futures
(`PlaceInv`), that a page's length is known from when it was cut out (`WorkInv`),
that a page done has what its service finds on it (`FoundInv`), what is left at work
after an answer (`LeftInv`), and that the pool never has more at work than threads
(`PoolInv`), which bounds what an interrupt leaves.

*OCR.* `PileInv`: the cache is over its size by at most the jobs that are about to check it
(`CapInv`) - each insertion turns its job into one of those, each eviction takes one
engine away - no language has two engines, and a temporary file that no request waits
for belongs to a job that will remove it. `FittingInv`: only languages that were asked for
have an engine (`AskedInv`), so while these fit nobody evicts, and what an unlocked
look-up found is still there when it is used (`KeptInv`).

### Only model-checked

Liveness: `ConcurrentThreadsEnd`, `ConcurrentIsCompacted`, `RunsEnd`, `FilesAreFound`,
`RequestsEnd`, `EveryCallEnds`, `ReadsEnd`, `ReadsAndMonitorsEnd`, `JobsEndAndCleanUp` and
`EveryRequestIsAnswered`, since fairness and `ENABLED` are outside what the prover
handles. And what fails: the property of `MemoryAgentWipe` and those of the
configurations [above](#counterexamples-kept-beside-the-runs).

## Findings

`MemoryAgentWipe` shows that a wipe the agent asks for does not reach its user:
`SemanticMemoryClient.wipeUserMemory` posts user and provider in a JSON body (line
103; the comment of line 93 says "Body is snake_case to match the FastAPI contract on
the AscendMemory side."), and the endpoint reads both as query parameters
(`rest_endpoints.py:107-120`). The call answers success, having wiped the *default
user* for the default provider.

The configurations in [the table above](#counterexamples-kept-beside-the-runs) show
where the code disagrees with what is written about it:

1. `PersistentChatMemory.add` (line 196) keeps the *oldest* messages of a full cache;
   a design document says it "retains the last `app.memory.chat-history.max-size` turns".
2. The compaction guard (`ChatHistoryCompactionService`, line 137) looks for the summary
   at the head of the history, while it is stored as its newest row: it is
   summarised again at the next trigger, with turns meant to be left raw.
3. Two stores that a failure has separated (line 124) are not brought together again
   by the next compaction.
4. A marker `<key>_<ETag>` (`ManualIngestionService`, line 167) is never removed once
   its version was ingested, so a file that returns to an earlier content, or a run
   for another provider, is skipped. `openspec/specs/ingestion-correctness/spec.md:13`:
   "the Qdrant collection contains chunks corresponding only to the latest upload".
5. The accept-once filter (`IngestionPipelineConfig`, line 75) stores a version before
   its handler runs; a failure is logged (line 98) and the version is never offered
   again. `ADR-007-ingestion-auto-default-off.md:12`: it "ingests new or changed files
   without operator action".
6. `findLastBalancedJsonArray` (`SemanticMemoryExtractor`, line 193) scans forward with a
   depth that a stray bracket keeps above zero. Lines 166-167: "We scan from the end of
   the string for the last balanced {@code [...]} substring".
7. `PlaywrightStrategy.get_html` (line 50) opens a context before the `try` that closes it;
   `ADR-005` of AscendWebSearch (line 44) says it "closes only the context on completion".
8. `_probe_mem0_client` (`readiness.py:70`) finds the client of the old key, though it is said
   to "surface missing-API-key failures live on every /ready call".
9. A monitor stops when its browser is at another URL (`novnc_strategy.py`, line 84), whose
   comment (line 80) says "once the user has navigated away from the login/challenge page":
   a redirect to the challenge does it too. And its last cookies may be those before the
   challenge was solved, against `ascend-web-scrapper/SKILL.md:65`: "When they finish, the
   service captures the resulting cookies / clearance tokens".
10. A login wall that is long or has another title is answered as content
    (`challenge_detector.py`, lines 53 and 56-63); `SKILL.md:3` of the scraper says that the
    service "escalates CAPTCHAs / login walls to a remote browser".
11. A missing block and a skipped clip move what stands behind them
    (`audacity_parser.py`, lines 114 and 155-156), while the merge is said to be
    chronological (`conversation_merger.py:5`): by the times of the audio that was built,
    not by those of the project.
12. Two threads may be in the GPU's model at once (`local_speech_to_text.py:3-5` speaks of "GPU
    serialisation"), and a path handed out may be swept (`download_file_manager.py:73-75`:
    it "cannot return a path that is about to be deleted").

Also met while modelling, without a configuration: between LTRIM and LPUSH of
a job the cache shows neither the prefix nor its summary (`design.md:120` of the
compaction change expects both at worst), and with Redis alone a conversation is
never compacted (line 143 of its specification says that backend is).

## Limits

- Texts, summaries, embeddings, pages and audio have no content beyond what the
  properties tell apart.
- Redis, Postgres, Qdrant and S3 are each reliable stores whose commands are atomic. A
  command that fails has not happened. A bucket's listing is a snapshot per page, in key
  order, as S3 documents it.
- One instance of each service.
- Time is not measured: a time-out, expiry or spent budget may come at any moment the
  code lets it, except that `Transcription` counts ticks to expiry.
- Scenarios with two remote projects on streams at once are left out of `Transcribes`:
  their tracks interleave in more states than a run has room for.
- The two ingestion paths keep separate markers and are not composed: run together
  over one bucket they would delete and add the same points as two overlapping runs do.

## Not modelled

| Part | Why |
|---|---|
| Retrieval and provider resolution | look-ups in registries built at start; no state and no order of steps |
| Prompt caching strategies | they format provider options and count; the one decision with consequences, asking again without the cache, is `CacheRefused` |
| Search in semantic memory | a read; what it ranks is mem0's |
| WeatherMCP | two read-only calls behind expiring caches of a library |
| Deployment, fixtures, design documents | configuration and prose |

## Plan

Done: the two chat and ingestion models, the browser pool, and in order of how much can go
wrong: AscendMemory, the web reader, transcription, OCR, the automatic pipeline, document
routing, extraction, Audacity projects; and the proofs of every safety property of a
passing run. Left:

1. An abstract `Indexed` (the points of a key are those of one content) that both
   ingestion models implement under stated assumptions, and the two composed over one bucket.
2. `BrowserPool` under `WebReader`'s Playwright tier.

## Running

    tlc -config ChatRuns.cfg MCChatMemory.tla
    tlc -config IngestRuns.cfg MCIngestRuns.tla
    tlc -config PoolServes.cfg BrowserPool.tla
    tlc -config MemoryServes.cfg MCMemoryService.tla
    tlc -config WebReads.cfg MCWebReader.tla
    tlc -config Transcribes.cfg MCTranscription.tla
    tlc -config OcrServes.cfg MCOcrService.tla
    tlc -config PipelineFinds.cfg MCIngestPipeline.tla
    tlc -config RoutesDocuments.cfg MCDocumentRouter.tla
    tlc -config ExtractionRemembers.cfg MCMemoryExtraction.tla
    tlc -config AudacityMerges.cfg MCAudacityProject.tla
    tlapm ChatMemoryProofs.tla          # and the seven other ...Proofs.tla

`PROJECT.json` lists for every run its module, configuration and properties, for
every property a mutation of the code it detects, and for every definition the lines
it models.
