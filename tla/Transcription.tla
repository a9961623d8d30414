---------------------------- MODULE Transcription ----------------------------
(***************************************************************************)
(* A transcription job of AudioScribe: the request handler on the event    *)
(* loop, the tracks it transcribes (one for a file, several for an         *)
(* Audacity project), the one GPU they share, the queue of progress events *)
(* of a stream, the temporary files of all of them, and the registry from  *)
(* which a finished transcript is downloaded until it expires.             *)
(*                                                                         *)
(* Handlers, merger tasks and local tracks run on the event loop; remote   *)
(* tracks, the local model, extraction, sweeps and downloads run in        *)
(* threads, and a thread is not stopped by the cancelling of its awaiter.  *)
(***************************************************************************)
EXTENDS Naturals, Sequences, FiniteSets

CONSTANTS
  Jobs,       \* the requests ever made
  Scenarios,  \* what they may ask between them
  NTracks,    \* bound: the tracks of a project
  MaxChunks,  \* bound: the chunks of a track
  QueueSize,  \* SSE_QUEUE_MAXSIZE, AUDACITY_SSE_QUEUE_MAXSIZE
  Ttl         \* DOWNLOAD_FILE_TTL_SECONDS, in ticks

Ask == [via : {"rest", "stream", "mcp"}, provider : {"local", "openai", "huggingface"},
        project : BOOLEAN]

ASSUME ScenariosAssumption == Scenarios \subseteq [Jobs -> Ask]
ASSUME BoundsAssumption ==
  /\ NTracks \in Nat \ {0} /\ MaxChunks \in Nat \ {0}
  /\ QueueSize \in Nat \ {0} /\ Ttl \in Nat

VARIABLES
  asked,       \* what each job asks
  at,          \* where its handler is
  answer,      \* what the client was told
  temp,        \* its upload or download: absent, held, or lost by the handler
  dir,         \* the jobs whose extraction directory exists
  extracting,  \* the jobs with a thread unpacking their project
  track,       \* where each track is
  left,        \* the chunks it has left
  chunks,      \* the tracks whose chunk directory exists
  gpu,         \* _gpu_semaphore: its holder, then those who wait
  queue,       \* how many progress events wait in the job's queue
  file,        \* the transcripts on disk
  registered,  \* _file_registry
  doomed,      \* those popped from it by a sweep that has not removed the file
  age,         \* the ticks since the transcript was stored
  link         \* where the download of the transcript is

handlerVars == <<asked, at, answer, temp, dir, extracting>>
trackVars == <<track, left, chunks, gpu, queue>>
registryVars == <<file, registered, doomed, age, link>>
vars == <<handlerVars, trackVars, registryVars>>
-----------------------------------------------------------------------------
Track == 1..NTracks
Over == {"none", "done", "failed", "cancelled"}
All == Jobs \X Track

TypeOK ==
  /\ asked \in [Jobs -> Ask]
  /\ at \in [Jobs -> {"new", "fetch", "extract", "work", "ended"}]
  /\ answer \in [Jobs -> {"none", "ok", "error", "refused", "gone"}]
  /\ temp \in [Jobs -> {"none", "held", "lost"}]
  /\ dir \subseteq Jobs /\ extracting \subseteq Jobs
  /\ track \in [All -> Over \cup {"gate", "gpu", "cut", "next", "call", "stray"}]
  /\ left \in [All -> 0..MaxChunks]
  /\ chunks \subseteq All
  /\ gpu \in Seq(All)
  /\ queue \in [Jobs -> 0..QueueSize]
  /\ file \subseteq Jobs /\ registered \subseteq Jobs /\ doomed \subseteq Jobs
  /\ age \in [Jobs -> 0..Ttl + 1]
  /\ link \in [Jobs -> {"none", "looked", "path", "served", "missing", "broken"}]

Init ==
  /\ asked \in Scenarios
  /\ at = [j \in Jobs |-> "new"] /\ answer = [j \in Jobs |-> "none"]
  /\ temp = [j \in Jobs |-> "none"] /\ dir = {} /\ extracting = {}
  /\ track = [a \in All |-> "none"] /\ left = [a \in All |-> 0]
  /\ chunks = {} /\ gpu = <<>> /\ queue = [j \in Jobs |-> 0]
  /\ file = {} /\ registered = {} /\ doomed = {}
  /\ age = [j \in Jobs |-> 0] /\ link = [j \in Jobs |-> "none"]
-----------------------------------------------------------------------------
(* The handler *)

Goto(j, p) == at' = [at EXCEPT ![j] = p]

\* The finally of every handler: what it knows of is removed.
End(j, a) ==
  /\ Goto(j, "ended") /\ answer' = [answer EXCEPT ![j] = a]
  /\ dir' = dir \ {j}

\* A missing key, an empty URI or a file that is no .zip is refused first; the
\* handler of a project makes its directory before it fetches anything.
Receive(j) ==
  /\ at[j] = "new"
  /\ \/ End(j, "refused")
     \/ /\ Goto(j, "fetch")
        /\ dir' = IF asked[j].project THEN dir \cup {j} ELSE dir
        /\ UNCHANGED answer
  /\ UNCHANGED <<asked, temp, extracting, trackVars, registryVars>>

Begin(j, n) ==
  track' = [a \in All |-> IF a[1] = j /\ a[2] <= n THEN "gate" ELSE track[a]]

\* The input is here: a project is extracted in a thread, a file is one track.
Fetched(j) ==
  /\ temp' = [temp EXCEPT ![j] = "held"]
  /\ \/ /\ asked[j].project /\ Goto(j, "extract")
        /\ extracting' = extracting \cup {j} /\ UNCHANGED track
     \/ /\ ~ asked[j].project /\ Goto(j, "work")
        /\ Begin(j, 1) /\ UNCHANGED extracting
  /\ UNCHANGED <<answer, dir>>

\* save_upload_to_temp_async removes its file only when the upload is too large.
SaveUpload(j) ==
  /\ at[j] = "fetch"
  /\ \/ Fetched(j)
     \/ /\ End(j, "error")
        /\ temp' \in {temp, [temp EXCEPT ![j] = "lost"]}
        /\ UNCHANGED <<track, extracting>>
  /\ UNCHANGED <<asked, left, chunks, gpu, queue, registryVars>>

\* download_to_temp_async refuses a URI or removes its file whatever fails.
DownloadToTemp(j) ==
  /\ at[j] = "fetch"
  /\ \/ Fetched(j)
     \/ End(j, "error") /\ UNCHANGED <<temp, track, extracting>>
  /\ UNCHANGED <<asked, left, chunks, gpu, queue, registryVars>>

Drop(j) == temp' = [temp EXCEPT ![j] = "none"]

\* extract_tracks_from_aup returns some tracks, or none, or raises.
Extract(j) ==
  /\ at[j] = "extract"
  /\ extracting' = extracting \ {j}
  /\ \/ \E n \in Track : Begin(j, n) /\ Goto(j, "work") /\ UNCHANGED <<answer, temp, dir>>
     \/ End(j, "error") /\ Drop(j) /\ UNCHANGED track
  /\ UNCHANGED <<asked, left, chunks, gpu, queue, registryVars>>

\* The thread goes on when the stream that waits for it has been cut off; the
\* next member it unpacks makes the directory anew.
ExtractOn(j) ==
  /\ j \in extracting /\ at[j] = "ended"
  /\ extracting' = extracting \ {j}
  /\ \/ dir' = dir \cup {j}
     \/ UNCHANGED dir
  /\ UNCHANGED <<asked, at, answer, temp, trackVars, registryVars>>
-----------------------------------------------------------------------------
(* The tracks *)

Local(j) == asked[j].provider = "local"
Concurrency(j) == IF Local(j) THEN 1 ELSE 4

\* Only these streams have a queue; a local file is streamed by its handler.
Reports(j) == asked[j].via = "stream" /\ (asked[j].project \/ ~ Local(j))
Full(j) == Reports(j) /\ queue[j] = QueueSize

\* Mutant: a report that does not look at the queue's bound.
PutUnbounded(j) ==
  IF Reports(j) THEN queue' = [queue EXCEPT ![j] = @ + 1] ELSE UNCHANGED queue

\* put_nowait; with a full queue it raises, which is Fail.
Put(j) ==
  IF Reports(j) THEN ~ Full(j) /\ queue' = [queue EXCEPT ![j] = @ + 1]
                ELSE UNCHANGED queue

Move(a, p) == track' = [track EXCEPT ![a] = p]

\* A line without its member in S; a job has one track in line at a time, since
\* the merger admits the next local one when it has left.
Without(q, S) ==
  IF \A i \in DOMAIN q : q[i] \notin S THEN q
  ELSE LET i == CHOOSE i \in DOMAIN q : q[i] \in S
       IN SubSeq(q, 1, i - 1) \o SubSeq(q, i + 1, Len(q))

\* Mutant: whoever leaves releases the semaphore, acquired or not.
ReleaseAlways(a) == gpu' = IF gpu = <<>> THEN gpu ELSE Tail(gpu)

Release(a) == gpu' = Without(gpu, {a})

\* Mutant: the GPU is released only on the way out without an exception.
LeaveInOrder(a, p) ==
  /\ Move(a, p) /\ chunks' = chunks \ {a}
  /\ IF p = "done" THEN Release(a) ELSE UNCHANGED gpu

\* The way out of a track: the chunks are deleted, the GPU goes to the next.
Leave(a, p) == Move(a, p) /\ chunks' = chunks \ {a} /\ Release(a)

\* The merger's semaphore lets the tracks of a project in in their order.
Admitted(a) ==
  /\ track[a] = "gate"
  /\ Cardinality({t \in 1..a[2] - 1 : track[<<a[1], t>>] \notin Over}) < Concurrency(a[1])

Enter(a) ==
  LET j == a[1] IN
  /\ Admitted(a)
  /\ IF asked[j].project THEN Put(j) ELSE UNCHANGED queue
  /\ \/ Local(j) /\ Move(a, "gpu") /\ gpu' = Append(gpu, a)
     \/ ~ Local(j) /\ Move(a, "cut") /\ UNCHANGED gpu
  /\ UNCHANGED <<handlerVars, left, chunks, registryVars>>

HasGpu(a) == gpu # <<>> /\ Head(gpu) = a

\* ffmpeg, a chunk or a report to a full queue raises.
Fail(a) ==
  /\ \/ Admitted(a) /\ asked[a[1]].project /\ Full(a[1])
     \/ track[a] \in {"cut", "call"}
     \/ track[a] = "gpu" /\ HasGpu(a)
     \/ track[a] = "next" /\ left[a] > 0 /\ ~ Local(a[1])
     \/ track[a] = "next" /\ left[a] = 0 /\ asked[a[1]].project /\ Full(a[1])
  /\ Leave(a, "failed")
  /\ UNCHANGED <<handlerVars, left, queue, registryVars>>

\* chunked_audio; it needs the input, which the handler removes when it ends.
Cut(a) ==
  /\ track[a] = "cut" \/ (track[a] = "gpu" /\ HasGpu(a))
  /\ at[a[1]] = "work"
  /\ \E n \in 1..MaxChunks : left' = [left EXCEPT ![a] = n]
  /\ chunks' = chunks \cup {a} /\ Move(a, "next")
  /\ UNCHANGED <<handlerVars, gpu, queue, registryVars>>

\* A small file goes to OpenAI as it is, and unannounced.
CallDirectly(a) ==
  /\ track[a] = "cut" /\ at[a[1]] = "work" /\ asked[a[1]].provider = "openai"
  /\ left' = [left EXCEPT ![a] = 1] /\ Move(a, "call")
  /\ UNCHANGED <<handlerVars, chunks, gpu, queue, registryVars>>

\* Remote chunks are announced when they begin and when they are done.
Announce(a) == IF Local(a[1]) \/ a \notin chunks THEN UNCHANGED queue ELSE Put(a[1])

Call(a) ==
  /\ track[a] = "next" /\ left[a] > 0
  /\ Announce(a) /\ Move(a, "call")
  /\ UNCHANGED <<handlerVars, left, chunks, gpu, registryVars>>

Return(a) ==
  /\ track[a] = "call"
  /\ left' = [left EXCEPT ![a] = @ - 1]
  /\ Announce(a) /\ Move(a, "next")
  /\ UNCHANGED <<handlerVars, chunks, gpu, registryVars>>

Finish(a) ==
  /\ track[a] = "next" /\ left[a] = 0
  /\ IF asked[a[1]].project THEN Put(a[1]) ELSE UNCHANGED queue
  /\ Leave(a, "done")
  /\ UNCHANGED <<handlerVars, left, registryVars>>

\* A thread of the model whose track has been cancelled ends.
StrayEnds(a) ==
  /\ track[a] = "stray" /\ Move(a, "cancelled")
  /\ UNCHANGED <<handlerVars, left, chunks, gpu, queue, registryVars>>
-----------------------------------------------------------------------------
(* The end of a job *)

Tracks(j) == {<<j, t>> : t \in Track}
AllDone(j) == \A a \in Tracks(j) : track[a] \in {"none", "done"}
AnyFailed(j) == \E a \in Tracks(j) : track[a] = "failed"

\* _drain_progress_queue, while the task runs and once it has ended.
Relay(j) ==
  /\ at[j] = "work" /\ queue[j] > 0
  /\ queue' = [queue EXCEPT ![j] = @ - 1]
  /\ UNCHANGED <<handlerVars, track, left, chunks, gpu, registryVars>>

\* Mutant: the tail of the queue is not drained once the task is done.
DrainedNoTail(j) == j \in Jobs

Drained(j) == queue[j] = 0

Succeed(j) ==
  /\ at[j] = "work" /\ AllDone(j) /\ Drained(j)
  /\ End(j, "ok") /\ Drop(j)
  /\ UNCHANGED <<asked, extracting, trackVars, doomed, age>>

StoreTranscript(j) == file' = file \cup {j} /\ registered' = registered \cup {j}

\* A stream tells where the transcript is, the plain endpoint sends its file, a
\* tool of MCP returns the text itself.
AnnounceTranscript(j) == Succeed(j) /\ StoreTranscript(j) /\ UNCHANGED link
SendTranscript(j) ==
  Succeed(j) /\ StoreTranscript(j) /\ link' = [link EXCEPT ![j] = "path"]
ReturnText(j) == Succeed(j) /\ UNCHANGED <<file, registered, link>>

\* One track's exception is the project's: gather leaves the others running.
Break(j) ==
  /\ at[j] = "work" /\ Drained(j)
  /\ AnyFailed(j) \/ (AllDone(j) /\ asked[j].via # "mcp")
  /\ End(j, "error") /\ Drop(j)
  /\ UNCHANGED <<asked, extracting, trackVars, registryVars>>

\* What a cancelled handler leaves of a track.
Cancelled(a) ==
  CASE track[a] = "gate" -> "cancelled"
    [] Local(a[1]) /\ track[a] \in {"gpu", "next"} -> "cancelled"
    [] Local(a[1]) /\ track[a] = "call" -> "stray"
    [] OTHER -> track[a]

\* The client of a stream is gone. The handler is cancelled where it waits or
\* closed where it yields; only the first cancels the task of a project.
Disconnect(j) ==
  /\ asked[j].via = "stream" /\ at[j] \in {"fetch", "extract", "work"}
  /\ End(j, "gone")
  /\ temp' = [temp EXCEPT ![j] = IF at[j] = "fetch" THEN "lost" ELSE "none"]
  /\ \/ /\ track' = [a \in All |-> IF a[1] = j THEN Cancelled(a) ELSE track[a]]
        /\ chunks' = IF Local(j) THEN chunks \ Tracks(j) ELSE chunks
        /\ gpu' = Without(gpu, Tracks(j))
     \/ asked[j].project /\ UNCHANGED <<track, chunks, gpu>>
  /\ UNCHANGED <<asked, extracting, left, queue, registryVars>>
-----------------------------------------------------------------------------
(* The registry *)

Expired == {j \in registered : age[j] > Ttl}

Tick(j) ==
  /\ j \in file /\ age[j] <= Ttl
  /\ age' = [age EXCEPT ![j] = @ + 1]
  /\ UNCHANGED <<handlerVars, trackVars, file, registered, doomed, link>>

\* cleanup_expired pops the entries under the lock ...
Sweep ==
  /\ registered' = registered \ Expired /\ doomed' = doomed \cup Expired

CleanupLoop ==
  /\ Expired # {} /\ Sweep
  /\ UNCHANGED <<handlerVars, trackVars, file, age, link>>

\* ... and removes the files after it.
Unlink(j) ==
  /\ j \in doomed /\ doomed' = doomed \ {j} /\ file' = file \ {j}
  /\ UNCHANGED <<handlerVars, trackVars, registered, age, link>>

\* The download endpoint sweeps, then get_transcript_path reads the entry ...
AskFor(j) ==
  /\ answer[j] = "ok" /\ asked[j].via = "stream" /\ link[j] = "none"
  /\ Sweep
  /\ link' = [link EXCEPT ![j] = IF j \in registered' THEN "looked" ELSE "missing"]
  /\ UNCHANGED <<handlerVars, trackVars, file, age>>

\* ... and looks at the time and the file when it has left the lock.
Look(j) ==
  /\ link[j] = "looked"
  /\ \/ /\ age[j] > Ttl
        /\ link' = [link EXCEPT ![j] = "missing"]
        /\ registered' = registered \ {j} /\ file' = file \ {j}
     \/ /\ age[j] <= Ttl /\ j \notin file
        /\ link' = [link EXCEPT ![j] = "missing"]
        /\ registered' = registered \ {j} /\ UNCHANGED file
     \/ /\ age[j] <= Ttl /\ j \in file
        /\ link' = [link EXCEPT ![j] = "path"] /\ UNCHANGED <<registered, file>>
  /\ UNCHANGED <<handlerVars, trackVars, doomed, age>>

\* FileResponse opens the file.
Open(j) ==
  /\ link[j] = "path"
  /\ link' = [link EXCEPT ![j] = IF j \in file THEN "served" ELSE "broken"]
  /\ UNCHANGED <<handlerVars, trackVars, file, registered, doomed, age>>
-----------------------------------------------------------------------------
(* The handlers: a stream, a plain endpoint and a tool, of a file or a project. *)

StreamFile(j) == SaveUpload(j) \/ Relay(j) \/ AnnounceTranscript(j) \/ Break(j)
StreamProject(j) == StreamFile(j) \/ Extract(j)
PostFile(j) == SaveUpload(j) \/ SendTranscript(j) \/ Break(j)
PostProject(j) == PostFile(j) \/ Extract(j)
CallFile(j) == DownloadToTemp(j) \/ ReturnText(j) \/ Break(j)
CallProject(j) == CallFile(j) \/ Extract(j)

HandlerStep(j) ==
  \/ asked[j].via = "stream" /\ asked[j].project /\ StreamProject(j)
  \/ asked[j].via = "stream" /\ ~ asked[j].project /\ StreamFile(j)
  \/ asked[j].via = "rest" /\ asked[j].project /\ PostProject(j)
  \/ asked[j].via = "rest" /\ ~ asked[j].project /\ PostFile(j)
  \/ asked[j].via = "mcp" /\ asked[j].project /\ CallProject(j)
  \/ asked[j].via = "mcp" /\ ~ asked[j].project /\ CallFile(j)
TrackStep(a) ==
  \/ Enter(a) \/ Cut(a) \/ CallDirectly(a) \/ Call(a) \/ Return(a) \/ Finish(a) \/ Fail(a) \/ StrayEnds(a)
LinkStep(j) == Look(j) \/ Open(j)

Next ==
  \/ \E j \in Jobs :
       \/ Receive(j) \/ HandlerStep(j) \/ ExtractOn(j) \/ Disconnect(j)
       \/ Tick(j) \/ Unlink(j) \/ AskFor(j) \/ LinkStep(j)
  \/ \E a \in All : TrackStep(a)
  \/ CleanupLoop

Spec == Init /\ [][Next]_vars

\* Every await and every thread ends, time passes and the cleanup loop runs.
Fairness ==
  /\ \A j \in Jobs :
       /\ WF_vars(HandlerStep(j)) /\ WF_vars(ExtractOn(j))
       /\ WF_vars(Tick(j)) /\ WF_vars(Unlink(j)) /\ WF_vars(LinkStep(j))
  /\ \A a \in All : WF_vars(TrackStep(a))
  /\ WF_vars(CleanupLoop)

FairSpec == Spec /\ Fairness
-----------------------------------------------------------------------------
(* Properties *)

\* No two tracks transcribe on the GPU while a handler waits for them
\* (_gpu_semaphore held across local_speech_transcription_stream), and one whose
\* thread runs owns it: cancelling, failing or finishing another never frees it.
GpuServesOneTrack ==
  \A a \in All :
    Local(a[1]) /\ track[a] \in {"next", "call"} => HasGpu(a)

\* A client that was told its job is complete has been told all of its progress
\* (_drain_progress_queue), and can have its transcript until it has expired,
\* whatever sweeps and downloads run meanwhile (download_file_manager).
CompleteMeansAvailable ==
  \A j \in Jobs : answer[j] = "ok" =>
    /\ queue[j] = 0
    /\ (asked[j].via # "mcp" /\ age[j] <= Ttl) =>
         j \in file \cap registered /\ link[j] \notin {"missing", "broken"}

Quiet(j) ==
  /\ at[j] = "ended" /\ temp[j] # "held" /\ j \notin extracting
  /\ \A a \in Tracks(j) : track[a] \in Over /\ a \notin chunks
  /\ j \notin file \cup registered \cup doomed
  /\ link[j] \notin {"looked", "path"}

\* Every job ends, its tracks leave the GPU and delete their chunks even when
\* nobody waits for them, downloads are answered, and in the end the job has left
\* no transcript and no directory behind; the exceptions are an upload that was
\* cut off and a directory whose extraction was (rest_endpoints' finally blocks).
JobsEndAndCleanUp ==
  \A j \in Jobs : at[j] # "new" ~>
    /\ Quiet(j)
    /\ j \in dir => answer[j] = "gone" /\ track[<<j, 1>>] = "none"

\* local_speech_to_text.py guards the model "by an asyncio semaphore for GPU
\* serialisation": never two threads in it.
GpuIsSerialised ==
  Cardinality({a \in All : Local(a[1]) /\ track[a] \in {"call", "stray"}}) <= 1

\* cleanup_expired "holds the lock for the full collect-and-pop so a concurrent
\* get_transcript_path cannot return a path that is about to be deleted".
PathsAreNotAboutToGo ==
  \A j \in Jobs : asked[j].via = "stream" /\ link[j] = "path" => j \notin doomed
=============================================================================
