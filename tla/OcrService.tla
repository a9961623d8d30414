------------------------------ MODULE OcrService ------------------------------
(***************************************************************************)
(* PaddleOCR: requests over REST and MCP, the event loop's pool of worker  *)
(* threads, and the cache of OCR engines that the workers share without a  *)
(* lock.                                                                   *)
(*                                                                         *)
(* A request is handled by the event loop and hands one task at a time to  *)
(* the pool: resolving a host or reading a file (MCP), then the OCR job    *)
(* itself.  Only the OCR job is waited for with a timeout; a job that was  *)
(* started goes on after its request is answered.  One action of a worker  *)
(* is one operation on the cache, one on the disk, or one engine call.     *)
(***************************************************************************)
EXTENDS Naturals, Sequences, SequencesExt, FiniteSets

CONSTANTS
  Requests,    \* every request ever made
  Inputs,      \* for each request, what it may ask
  Supported,   \* SUPPORTED_LANGUAGES
  Default,     \* DEFAULT_LANGUAGE
  Cap,         \* ENGINE_CACHE_MAX_SIZE
  Workers,     \* threads of the event loop's default executor
  MaxFaults    \* bound: engines and temporary files that cannot be made

Input ==
  [surface : {"rest", "mcp"},
   source : {"upload", "bad_uri", "missing", "jailed", "allowed", "public",
             "private", "unresolved"},
   content : {"good", "unreadable", "unknown_type", "too_large"},
   lang : Supported \cup {"unsupported"}]

ASSUME InputsAssumption ==
  /\ Inputs \in [Requests -> SUBSET Input]
  /\ \A r \in Requests : \A i \in Inputs[r] :
       (i.surface = "rest") <=> (i.source = "upload")
ASSUME BoundsAssumption ==
  /\ IsFiniteSet(Supported) /\ Default \in Supported
  /\ Cap \in Nat \ {0} /\ Workers \in Nat \ {0} /\ MaxFaults \in Nat

VARIABLES
  input,     \* what each request asks
  stage,     \* where the event loop is with a request
  answer,    \* what it was answered: "ok" or an error
  job,       \* where the request's current task is
  queue,     \* tasks waiting for a worker, first in first out
  engines,   \* OcrService._engines: its languages, least recently used first
  files,     \* the requests whose temporary file is on disk
  warm,      \* the lifespan has warmed the default engine and serves
  faults

requestVars == <<input, stage, answer>>
poolVars == <<job, queue>>
vars == <<requestVars, poolVars, engines, files, warm, faults>>
-----------------------------------------------------------------------------
Stage == {"new", "resolving", "reading", "downloading", "recognising",
          "answered"}
OcrStep == {"look_up", "touch", "build", "insert", "check", "evict", "write",
            "predict", "remove"}
Task == {"none", "queued", "fetch"} \cup OcrStep
Error == {"FileSizeExceeded", "UnsupportedFileType", "UnsafeUri",
          "DownloadFailed", "OcrProcessing", "ValueError", "KeyError",
          "EngineError", "OSError", "Timeout"}
Answer == {"none", "ok"} \cup Error \cup {"400", "422", "502", "500"}

TypeOK ==
  /\ input \in [Requests -> Input]
  /\ stage \in [Requests -> Stage]
  /\ answer \in [Requests -> Answer]
  /\ job \in [Requests -> Task]
  /\ queue \in Seq(Requests)
  /\ engines \in Seq(Supported)
  /\ files \subseteq Requests
  /\ warm \in BOOLEAN
  /\ faults \in 0..MaxFaults

Init ==
  /\ input \in {f \in [Requests -> UNION {Inputs[r] : r \in Requests}] :
                 \A r \in Requests : f[r] \in Inputs[r]}
  /\ stage = [r \in Requests |-> "new"]
  /\ answer = [r \in Requests |-> "none"]
  /\ job = [r \in Requests |-> "none"]
  /\ queue = <<>> /\ engines = <<>> /\ files = {}
  /\ warm = FALSE /\ faults = 0
-----------------------------------------------------------------------------
(* Answers.  An MCP tool raises what its body raises; over REST an exception *)
(* handler makes a status of it.                                            *)

StatusOf(e) ==
  CASE e = "OcrProcessing" -> "422"
    [] e \in {"FileSizeExceeded", "UnsupportedFileType", "UnsafeUri"} -> "400"
    [] e = "DownloadFailed" -> "502"
    [] OTHER -> "500"

Respond(r, e) ==
  /\ stage' = [stage EXCEPT ![r] = "answered"]
  /\ answer' = [answer EXCEPT ![r] =
                  IF e # "ok" /\ input[r].surface = "rest" THEN StatusOf(e) ELSE e]

\* _execute_ocr: the REST job turns nearly every error into one of its own.
ErrorOfJob(r, e) ==
  IF input[r].surface = "mcp" \/ e \in {"ok", "FileSizeExceeded", "UnsupportedFileType"}
    THEN e ELSE "OcrProcessing"

Goto(r, s) == job' = [job EXCEPT ![r] = s]

\* A task for the pool, and where the event loop waits for it.
Hand(r, s) ==
  /\ stage' = [stage EXCEPT ![r] = s]
  /\ Goto(r, "queued")
  /\ queue' = Append(queue, r)
  /\ UNCHANGED answer

\* The request ends here, whatever its last task was.
Refuse(r, e) == Respond(r, e) /\ Goto(r, "none") /\ UNCHANGED queue

\* The bytes are here: their size, the file type, then the OCR job.
Received(r) ==
  LET content == input[r].content IN
  \/ content = "too_large" /\ Refuse(r, "FileSizeExceeded")
  \/ content = "unknown_type" /\ Refuse(r, "UnsupportedFileType")
  \/ content \in {"good", "unreadable"} /\ Hand(r, "recognising")
-----------------------------------------------------------------------------
\* lifespan: the default engine is made before the service answers anything.
WarmUp ==
  /\ ~ warm
  /\ warm' = TRUE
  /\ engines' = <<Default>>
  /\ UNCHANGED <<requestVars, poolVars, files, faults>>

ProcessOcr(r) ==
  /\ warm /\ stage[r] = "new" /\ input[r].surface = "rest"
  /\ Received(r)
  /\ UNCHANGED <<input, engines, files, warm, faults>>

Download(r) ==
  /\ stage' = [stage EXCEPT ![r] = "downloading"]
  /\ Goto(r, "none")
  /\ UNCHANGED <<answer, queue>>

\* The tool: the checks on the URI, and the first thing to wait for.
FetchFile(r) ==
  LET from == input[r].source IN
  /\ warm /\ stage[r] = "new" /\ input[r].surface = "mcp"
  /\ \/ from = "bad_uri" /\ Refuse(r, "UnsafeUri")
     \/ from = "missing" /\ Refuse(r, "DownloadFailed")
     \/ from = "jailed" /\ Hand(r, "reading")
     \/ from \in {"public", "private", "unresolved"} /\ Hand(r, "resolving")
     \/ from = "allowed" /\ Download(r)
  /\ UNCHANGED <<input, engines, files, warm, faults>>

\* session.get, the status and the body; the client has a timeout.
DownloadHttp(r) ==
  /\ stage[r] = "downloading"
  /\ \/ Received(r)
     \/ \E e \in {"DownloadFailed", "Timeout"} : Refuse(r, e)
  /\ UNCHANGED <<input, engines, files, warm, faults>>

\* Mutant: only the wait for a running job has a timeout.
TimeoutWhenRunning(r) ==
  /\ stage[r] = "recognising" /\ job[r] # "queued"
  /\ Respond(r, "Timeout")
  /\ UNCHANGED <<input, job, queue, engines, files, warm, faults>>

\* wait_for: a queued job is cancelled with the wait, a running one is not.
OcrTimeout(r) ==
  /\ stage[r] = "recognising"
  /\ Respond(r, "Timeout")
  /\ \/ /\ job[r] = "queued" /\ Goto(r, "none")
        /\ \E i \in DOMAIN queue : queue[i] = r /\ queue' = RemoveAt(queue, i)
     \/ job[r] # "queued" /\ UNCHANGED poolVars
  /\ UNCHANGED <<input, engines, files, warm, faults>>
-----------------------------------------------------------------------------
(* The worker threads.                                                      *)

Busy == {r \in Requests : job[r] \notin {"none", "queued"}}

StartTask ==
  /\ queue # <<>> /\ Cardinality(Busy) < Workers
  /\ Goto(Head(queue),
          IF stage[Head(queue)] = "recognising" THEN "look_up" ELSE "fetch")
  /\ queue' = Tail(queue)
  /\ UNCHANGED <<requestVars, engines, files, warm, faults>>

\* The addresses of a host, or the bytes of a jailed file.
FetchEnds(r) ==
  LET from == input[r].source IN
  /\ job[r] = "fetch"
  /\ \/ from = "jailed" /\ Received(r)
     \/ from = "public" /\ Download(r)
     \/ from \in {"private", "unresolved"} /\ Refuse(r, "UnsafeUri")
  /\ UNCHANGED <<input, engines, files, warm, faults>>

\* The job is over; its answer counts if the request still waits for it.
JobEnds(r, e) ==
  /\ Goto(r, "none")
  /\ IF stage[r] = "recognising"
       THEN Respond(r, ErrorOfJob(r, e))
       ELSE UNCHANGED <<stage, answer>>

Cached == ToSet(engines)
Fault == faults < MaxFaults /\ faults' = faults + 1

LookUp(r) ==
  LET lang == input[r].lang IN
  /\ job[r] = "look_up"
  /\ \/ lang \notin Supported /\ JobEnds(r, "ValueError")
     \/ lang \in Cached /\ Goto(r, "touch") /\ UNCHANGED <<stage, answer>>
     \/ /\ lang \in Supported \ Cached
        /\ Goto(r, "build") /\ UNCHANGED <<stage, answer>>
  /\ UNCHANGED <<input, queue, engines, files, warm, faults>>

\* move_to_end raises when the language has been evicted meanwhile.
Touch(r) ==
  LET lang == input[r].lang IN
  /\ job[r] = "touch"
  /\ \/ /\ \E i \in DOMAIN engines :
             engines[i] = lang /\ engines' = Append(RemoveAt(engines, i), lang)
        /\ Goto(r, "write") /\ UNCHANGED <<stage, answer>>
     \/ lang \notin Cached /\ JobEnds(r, "KeyError") /\ UNCHANGED engines
  /\ UNCHANGED <<input, queue, files, warm, faults>>

Build(r) ==
  /\ job[r] = "build"
  /\ \/ Goto(r, "insert") /\ UNCHANGED <<stage, answer, faults>>
     \/ Fault /\ JobEnds(r, "EngineError")
  /\ UNCHANGED <<input, queue, engines, files, warm>>

\* A key that another worker has inserted meanwhile keeps its place.
Insert(r) ==
  LET lang == input[r].lang IN
  /\ job[r] = "insert"
  /\ engines' = IF lang \in Cached THEN engines ELSE Append(engines, lang)
  /\ Goto(r, "check")
  /\ UNCHANGED <<requestVars, queue, files, warm, faults>>

\* Mutant: a full cache is over capacity.
EvictIfFull(r) ==
  /\ job[r] = "check"
  /\ Goto(r, IF Len(engines) >= Cap THEN "evict" ELSE "write")
  /\ UNCHANGED <<requestVars, queue, engines, files, warm, faults>>

EvictIfOverCapacity(r) ==
  /\ job[r] = "check"
  /\ Goto(r, IF Len(engines) > Cap THEN "evict" ELSE "write")
  /\ UNCHANGED <<requestVars, queue, engines, files, warm, faults>>

\* popitem raises when other workers have emptied the cache meanwhile.
PopOldest(r) ==
  /\ job[r] = "evict"
  /\ \/ engines = <<>> /\ JobEnds(r, "KeyError") /\ UNCHANGED engines
     \/ /\ engines # <<>> /\ engines' = Tail(engines)
        /\ Goto(r, "check") /\ UNCHANGED <<stage, answer>>
  /\ UNCHANGED <<input, queue, files, warm, faults>>

\* The temporary file is made with delete=False, before the try.
WriteTempFile(r) ==
  /\ job[r] = "write"
  /\ files' = files \cup {r}
  /\ \/ Goto(r, "predict") /\ UNCHANGED <<stage, answer, faults>>
     \/ Fault /\ JobEnds(r, "OSError")
  /\ UNCHANGED <<input, queue, engines, warm>>

\* Mutant: the file is removed only after pages were built.
PredictOrLeave(r) ==
  /\ job[r] = "predict"
  /\ \/ input[r].content = "good" /\ Goto(r, "remove") /\ UNCHANGED <<stage, answer>>
     \/ input[r].content # "good" /\ JobEnds(r, "EngineError")
  /\ UNCHANGED <<input, queue, engines, files, warm, faults>>

Predict(r) ==
  /\ job[r] = "predict"
  /\ Goto(r, "remove")
  /\ UNCHANGED <<requestVars, queue, engines, files, warm, faults>>

\* finally: the file goes, whether predict returned pages or raised.
RemoveTempFile(r) ==
  /\ job[r] = "remove"
  /\ files' = files \ {r}
  /\ JobEnds(r, IF input[r].content = "good" THEN "ok" ELSE "EngineError")
  /\ UNCHANGED <<input, queue, engines, warm, faults>>
-----------------------------------------------------------------------------
WorkerStep(r) ==
  \/ FetchEnds(r) \/ LookUp(r) \/ Touch(r) \/ Build(r) \/ Insert(r)
  \/ EvictIfOverCapacity(r) \/ PopOldest(r) \/ WriteTempFile(r) \/ Predict(r)
  \/ RemoveTempFile(r)

Next ==
  \/ WarmUp
  \/ StartTask
  \/ \E r \in Requests : \/ ProcessOcr(r) \/ FetchFile(r) \/ DownloadHttp(r)
                         \/ OcrTimeout(r) \/ WorkerStep(r)

Spec == Init /\ [][Next]_vars

\* Timers fire and idle workers take tasks.  Nothing is said of how long an
\* engine or a resolver takes.
FairSpec ==
  /\ Spec
  /\ WF_vars(StartTask)
  /\ \A r \in Requests : WF_vars(DownloadHttp(r)) /\ WF_vars(OcrTimeout(r))
-----------------------------------------------------------------------------
Asked == {input[r].lang : r \in {q \in Requests : stage[q] # "new"}} \cap Supported

\* As long as the languages asked for fit in the cache together, the workers'
\* unlocked look-ups, insertions and evictions disturb nobody: the service
\* stays ready, and a good file in a supported language is not refused for an
\* engine that went away between two steps (_get_engine, /ready).
FittingLanguagesAreUndisturbed ==
  Cardinality(Asked \cup {Default}) <= Cap =>
    /\ warm => Default \in Cached
    /\ \A r \in Requests :
         /\ answer[r] # "KeyError"
         /\ faults = 0 /\ input[r].content = "good" /\ input[r].lang \in Supported
              => answer[r] # "422"

\* The cache exceeds its size only by the engines just inserted, each by a
\* worker that is still about to check the size, and never holds a language
\* twice although two workers may build its engine (_evict_if_over_capacity).
CacheIsBounded ==
  /\ Len(engines) <= Cap + Cardinality({r \in Requests : job[r] \in {"check", "evict"}})
  /\ Cardinality(Cached) = Len(engines)

\* Every temporary file is that of a job at work, timed out or not, but for
\* one for each write that failed (process_file).
TempFilesAreRemoved ==
  Cardinality({r \in files : job[r] \notin {"predict", "remove"}}) <= faults

\* Requests that time out while their jobs go on, and jobs that race for one
\* engine, leave no more behind than that (the worker side of ocr_service.py).
NothingPilesUp == CacheIsBounded /\ TempFilesAreRemoved

WorkersRun == \A r \in Requests : WF_vars(WorkerStep(r))

\* A REST request is answered even if engines never return and occupy every
\* worker.  An MCP request needs a worker before its timeout starts: it is
\* answered provided the workers get on (process_ocr, ocr_process).
EveryRequestIsAnswered ==
  \A r \in Requests :
    /\ stage[r] = "recognising" ~> stage[r] = "answered"
    /\ WorkersRun => (stage[r] # "new" ~> stage[r] = "answered")
=============================================================================
