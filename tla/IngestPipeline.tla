---------------------------- MODULE IngestPipeline ----------------------------
(***************************************************************************)
(* The automatic ingestion of AscendAgent (IngestionPipelineConfig.java),  *)
(* off unless app.ingestion.auto.enabled: a poller lists the bucket, takes *)
(* each object version once, and hands its open stream to a handler on a   *)
(* thread of its own, which replaces the object's chunks in the store.     *)
(*                                                                         *)
(* The poller, its filter and the channels are Spring Integration's; they  *)
(* are here as far as the configuration relies on them.  An upload is      *)
(* known by its place in the history of uploads, which also orders the     *)
(* lastModified times: no two are equal here.                              *)
(***************************************************************************)
EXTENDS Naturals, Sequences

CONSTANTS
  Keys,             \* the objects of the bucket
  Folder,           \* what routeFile finds in a key: its flow, or "none"
  Sizes,            \* chunks an upload may split into, 0 when it has no text
  MaxUploads,       \* bound: uploads
  MaxFailures         \* bound: failing calls and crashes

Flows == {"markdown", "unstructured", "none"}

Setting ==
  /\ Folder \in [Keys -> Flows]
  /\ Sizes \subseteq Nat
  /\ {MaxUploads, MaxFailures} \subseteq Nat

ASSUME PipelineAssumption == Setting

VARIABLES
  uploads,   \* every putObject so far: its key and how many chunks it makes
  current,   \* the bucket: the upload each key holds, 0 if none
  stamp,     \* metadata store: the upload of each key last accepted, 0 if none
  backlog,   \* the listed objects the poller has still to look at
  jobs,      \* the handlers, in the order they were started
  points,    \* the chunks in the vector store
  failures,
  lost,      \* uploads whose handler failed or died: <<key, upload>>
  overtaken  \* keys uploaded again before the version before was at rest

pipeline == <<uploads, current, stamp, backlog, jobs, points, failures, lost, overtaken>>

Steps == {"route", "process", "remove", "add", "over"}

PipelineTypeOK ==
  /\ uploads \in Seq([key : Keys, size : Sizes]) /\ Len(uploads) <= MaxUploads
  /\ current \in [Keys -> 0 .. Len(uploads)]
  /\ stamp \in [Keys -> 0 .. Len(uploads)]
  /\ backlog \subseteq [key : Keys, upload : 1 .. Len(uploads)]
  /\ jobs \in Seq([key : Keys, upload : 1 .. Len(uploads), step : Steps, chunk : Nat])
  /\ points \subseteq [key : Keys, upload : 1 .. Len(uploads), chunk : Nat \ {0},
                       job : DOMAIN jobs]
  /\ failures \in 0 .. MaxFailures
  /\ lost \subseteq Keys \X (1 .. Len(uploads))
  /\ overtaken \subseteq Keys

PipelineInit ==
  /\ uploads = <<>>
  /\ current = [k \in Keys |-> 0]
  /\ stamp = [k \in Keys |-> 0]
  /\ backlog = {}
  /\ jobs = <<>>
  /\ points = {}
  /\ failures = 0
  /\ lost = {}
  /\ overtaken = {}

Running == {j \in DOMAIN jobs : jobs[j].step # "over"}
Resting(k) == stamp[k] = current[k] /\ \A j \in Running : jobs[j].key # k
Fault == failures < MaxFailures /\ failures' = failures + 1

-----------------------------------------------------------------------------
(* IngestionController.uploadDocument, and any other client of the bucket. *)
Upload(k, n) ==
  /\ Len(uploads) < MaxUploads
  /\ uploads' = Append(uploads, [key |-> k, size |-> n])
  /\ current' = [current EXCEPT ![k] = Len(uploads) + 1]
  /\ overtaken' = overtaken \union {i \in {k} : ~ Resting(i)}
  /\ UNCHANGED <<stamp, backlog, jobs, points, failures, lost>>

Listed == {f \in [key : Keys, upload : 1 .. Len(uploads)] : f.upload = current[f.key]}

(* The poller, on one thread: with nothing left to look at it lists the    *)
(* bucket.                                                                 *)
ListFiles ==
  /\ backlog = {}
  /\ backlog' = Listed
  /\ UNCHANGED <<uploads, current, stamp, jobs, points, failures, lost, overtaken>>

(* Of what it listed, the oldest change comes first.                       *)
First == {f \in backlog : \A g \in backlog : f.upload <= g.upload}

(* The filter is asked file by file: known with this time, go past it.     *)
SkipFile(f) ==
  /\ stamp[f.key] = f.upload
  /\ backlog' = backlog \ {f}
  /\ UNCHANGED <<uploads, current, stamp, jobs, points, failures, lost, overtaken>>

(* Otherwise its time is stored, the object opened as it is by now, and    *)
(* the message put on the executor channel.                                *)
ReceiveFile(f) ==
  /\ stamp[f.key] # f.upload
  /\ stamp' = [stamp EXCEPT ![f.key] = f.upload]
  /\ jobs' = Append(jobs, [key |-> f.key, upload |-> current[f.key],
                           step |-> "route", chunk |-> 0])
  /\ backlog' = backlog \ {f}
  /\ UNCHANGED <<uploads, current, points, failures, lost, overtaken>>

OpeningFails(f, time) ==
  /\ stamp[f.key] # f.upload
  /\ Fault
  /\ stamp' = [stamp EXCEPT ![f.key] = time]
  /\ backlog' = backlog \ {f}
  /\ UNCHANGED <<uploads, current, jobs, points, lost, overtaken>>

(* Mutant: the filter is not reset. *)
ReceiveFailsForGood(f) == OpeningFails(f, f.upload)

(* The object cannot be opened: the filter forgets it again.               *)
ReceiveFails(f) == OpeningFails(f, 0)

-----------------------------------------------------------------------------
(* A handler: routeFile and one of the two flows.                          *)

Goto(j, s) == jobs' = [jobs EXCEPT ![j].step = s]

RouteFile(j) ==
  /\ jobs[j].step = "route"
  /\ Goto(j, IF Folder[jobs[j].key] = "none" THEN "over" ELSE "process")
  /\ UNCHANGED <<uploads, current, stamp, backlog, points, failures, lost, overtaken>>

(* processMarkdown always makes a document; the Unstructured API may find  *)
(* none, and then nothing old is removed and nothing new is added.         *)
ProcessMessage(j) ==
  /\ jobs[j].step = "process"
  /\ Goto(j, IF Folder[jobs[j].key] = "unstructured" /\ uploads[jobs[j].upload].size = 0
             THEN "over" ELSE "remove")
  /\ UNCHANGED <<uploads, current, stamp, backlog, points, failures, lost, overtaken>>

(* Mutant: the chunks of the version before are not removed. *)
RemoveNothing(j) ==
  /\ jobs[j].step = "remove"
  /\ Goto(j, IF uploads[jobs[j].upload].size = 0 THEN "over" ELSE "add")
  /\ UNCHANGED <<uploads, current, stamp, backlog, points, failures, lost, overtaken>>

RemoveOldDocuments(j) ==
  /\ jobs[j].step = "remove"
  /\ points' = {p \in points : p.key # jobs[j].key}
  /\ Goto(j, IF uploads[jobs[j].upload].size = 0 THEN "over" ELSE "add")
  /\ UNCHANGED <<uploads, current, stamp, backlog, failures, lost, overtaken>>

(* splitDocuments and split(): the chunks go to the store one by one.      *)
AddChunk(j) ==
  /\ jobs[j].step = "add"
  /\ LET n == jobs[j].chunk + 1 IN
        /\ points' = points \union {[key |-> jobs[j].key, upload |-> jobs[j].upload,
                                     chunk |-> n, job |-> j]}
        /\ jobs' = [jobs EXCEPT ![j].chunk = n,
                      ![j].step = IF n = uploads[jobs[j].upload].size THEN "over" ELSE @]
  /\ UNCHANGED <<uploads, current, stamp, backlog, failures, lost, overtaken>>

(* The parser or the store fails: the error channel logs it.               *)
HandlerFails(j) ==
  /\ jobs[j].step \in {"process", "remove", "add"}
  /\ Fault
  /\ Goto(j, "over")
  /\ lost' = lost \union {<<jobs[j].key, jobs[j].upload>>}
  /\ UNCHANGED <<uploads, current, stamp, backlog, points, overtaken>>

(* The agent dies; bucket, metadata table and vector store stay.           *)
Crash ==
  /\ Running # {}
  /\ Fault
  /\ jobs' = [j \in DOMAIN jobs |-> [jobs[j] EXCEPT !.step = "over"]]
  /\ lost' = lost \union {<<jobs[j].key, jobs[j].upload>> : j \in Running}
  /\ backlog' = {}
  /\ UNCHANGED <<uploads, current, stamp, points, overtaken>>

-----------------------------------------------------------------------------
PollStep == ListFiles \/ \E f \in First : SkipFile(f) \/ ReceiveFile(f)
JobStep(j) == RouteFile(j) \/ ProcessMessage(j) \/ RemoveOldDocuments(j) \/ AddChunk(j)

PipelineNext == \/ \E k \in Keys, n \in Sizes : Upload(k, n)
        \/ PollStep
        \/ \E f \in First : ReceiveFails(f)
        \/ \E j \in DOMAIN jobs : JobStep(j) \/ HandlerFails(j)
        \/ Crash

PipelineSpec == PipelineInit /\ [][PipelineNext]_pipeline

(* The poller comes round again, every handler has its own thread and its  *)
(* calls return; there are no more handlers than uploads and failures.     *)
PipelineFairSpec ==
  /\ PipelineSpec
  /\ WF_pipeline(PollStep)
  /\ \A j \in 1 .. MaxUploads + MaxFailures : WF_pipeline(j \in DOMAIN jobs /\ JobStep(j))

-----------------------------------------------------------------------------
ChunksOf(k) == {p \in points : p.key = k}

(* The store has each chunk of the current content once and nothing else   *)
(* of that object.                                                         *)
Indexed(k) ==
  /\ {<<p.upload, p.chunk>> : p \in ChunksOf(k)}
       = {current[k]} \X (1 .. uploads[current[k]].size)
  /\ \A p, q \in ChunksOf(k) : p.chunk = q.chunk => p = q

(* A key the flows take whose current content can be told from no content. *)
Ingestable(k) ==
  /\ Folder[k] # "none"
  /\ current[k] # 0
  /\ Folder[k] = "unstructured" => uploads[current[k]].size > 0

(* An object that did not change while an earlier version of it was at     *)
(* work is exactly indexed when it is at rest, whatever other objects and  *)
(* their handlers do at the same time and whatever earlier versions left   *)
(* half done, unless the handler of this very version failed (accept-once  *)
(* filter and flows).                                                      *)
RestingIsIndexed ==
  \A k \in Keys \ overtaken :
    Ingestable(k) /\ Resting(k) /\ <<k, current[k]>> \notin lost => Indexed(k)

(* And every such object comes to that: a version that could not be opened *)
(* is found again, so only a failing handler loses it.                     *)
FilesAreFound ==
  \A k \in Keys :
    <>[](Ingestable(k) => Indexed(k) \/ <<k, current[k]>> \in lost \/ k \in overtaken)

(* Overtaken or not: two versions at work at once both remove, then add.   *)
AnyRestingIsIndexed ==
  \A k \in Keys :
    Ingestable(k) /\ Resting(k) /\ <<k, current[k]>> \notin lost => Indexed(k)

(* AscendAgent/docs/architecture/decisions/ADR-007, line 12: the poller    *)
(* "polls the MinIO bucket on a fixed interval and ingests new or changed  *)
(* files without operator action".                                         *)
NewFilesAreIngested == \A k \in Keys : <>[](Ingestable(k) => Indexed(k))

=============================================================================
