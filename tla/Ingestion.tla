----------------------------- MODULE Ingestion ------------------------------
(***************************************************************************)
(* Manual ingestion of AscendAgent: the S3 bucket, the metadata store that *)
(* remembers what was ingested, the vector collections, and the runs of    *)
(* POST /api/v1/ingestion/run that go over the bucket.                     *)
(*                                                                         *)
(* A run is one HTTP request on its own thread; any number may overlap,    *)
(* and uploads go on meanwhile.  One action is one call to S3, to the      *)
(* metadata table or to Qdrant.                                            *)
(***************************************************************************)
EXTENDS Integers, Sequences, FiniteSets

CONSTANTS
  Keys,               \* the ingestable object keys, in S3's listing order
  Contents,           \* what an object may hold; its ETag identifies it
  NoObject,           \* marks a key that was never uploaded
  ChunkCount,         \* chunks a content splits into, 0 when it has no text
  Providers,          \* embedding providers, one for each vector collection
  Runs,               \* the ingestion requests ever made
  PageSize,           \* keys per listing page (1000)
  MaxActive,          \* bound: runs in progress at the same time
  MaxUploads,         \* bound: uploads
  UploadsDuringRuns,  \* bound: may an upload happen while a run is going on?
  UploadsRepeat,      \* bound: may an upload bring back an earlier content?
  MaxFaults,          \* bound: failures
  MaxOutages          \* bound: outages, and markers that cannot be removed

ASSUME StoreAssumption ==
  /\ Keys \subseteq Nat /\ IsFiniteSet(Keys)
  /\ NoObject \notin Contents
  /\ ChunkCount \in [Contents -> Nat]
  /\ PageSize \in Nat \ {0}

ASSUME BoundAssumption ==
  /\ {UploadsDuringRuns, UploadsRepeat} \subseteq BOOLEAN
  /\ {MaxActive, MaxUploads, MaxFaults, MaxOutages} \subseteq Nat

VARIABLES
  objects,   \* the content at each key of the bucket
  uploaded,  \* every upload so far, as <<key, content>>
  markers,   \* metadata store: the <<key, version>> pairs taken
  points,    \* the points of every vector collection
  stage,     \* where each run stands
  provider,  \* the embedding provider each run asked for
  page,      \* the listed objects each run has still to look at
  token,     \* each run's continuation token: a key, or NoToken
  fetched,   \* the content each run has read of the object it is at
  chunk,     \* the chunks of it each run has added
  failed,    \* has the run counted a failed object?
  faults, outages,
  met        \* history: which interferences there have been; no action reads it

storeVars == <<objects, uploaded, met>>
runVars == <<stage, provider, page, token, fetched, chunk, failed>>
bounds == <<faults, outages>>
vars == <<storeVars, markers, points, runVars, bounds>>

NoToken == -1
-----------------------------------------------------------------------------
Listed == [key : Keys, version : Contents]
Point == [in : Providers, source : Keys, content : Contents, chunk : Nat, by : Runs]
Stage == {"new", "list", "claim", "fetch", "delete", "add", "close", "unclaim",
          "abort", "done", "failed"}
\* An upload while a run goes on, an upload of what the key held before, and a
\* run that starts while another goes on.
Interference == {"upload", "return", "overlap"}

TypeOK ==
  /\ objects \in [Keys -> Contents \cup {NoObject}]
  /\ uploaded \subseteq Keys \X Contents
  /\ markers \subseteq Listed
  /\ points \subseteq Point
  /\ stage \in [Runs -> Stage]
  /\ provider \in [Runs -> Providers]
  /\ page \in [Runs -> Seq(Listed)]
  /\ token \in [Runs -> Keys \cup {NoToken}]
  /\ fetched \in [Runs -> Contents \cup {NoObject}]
  /\ chunk \in [Runs -> Nat]
  /\ failed \in [Runs -> BOOLEAN]
  /\ faults \in Nat /\ outages \in Nat
  /\ met \subseteq Interference

Init ==
  /\ objects = [k \in Keys |-> NoObject]
  /\ uploaded = {}
  /\ markers = {}
  /\ points = {}
  /\ stage = [r \in Runs |-> "new"]
  /\ provider \in [Runs -> Providers]
  /\ page = [r \in Runs |-> <<>>]
  /\ token = [r \in Runs |-> NoToken]
  /\ fetched = [r \in Runs |-> NoObject]
  /\ chunk = [r \in Runs |-> 0]
  /\ failed = [r \in Runs |-> FALSE]
  /\ faults = 0 /\ outages = 0
  /\ met = {}

Active == {r \in Runs : stage[r] \notin {"new", "done", "failed"}}
Quiet == Active = {}

\* A run that has taken an object and not yet let go of it.
Holding(r) == stage[r] \in {"fetch", "delete", "add", "close", "unclaim", "abort"}
At(r) == Head(page[r])

Goto(r, s) == stage' = [stage EXCEPT ![r] = s]
\* On to the next object of the page, to the next page, or out of the loop.
NextObject(r) ==
  /\ page' = [page EXCEPT ![r] = Tail(@)]
  /\ fetched' = [fetched EXCEPT ![r] = NoObject]
  /\ chunk' = [chunk EXCEPT ![r] = 0]
  /\ Goto(r, IF Len(page[r]) > 1 THEN "claim"
             ELSE IF token[r] # NoToken THEN "list" ELSE "done")
\* The request ends.
EndRun(r, s) ==
  /\ Goto(r, s)
  /\ page' = [page EXCEPT ![r] = <<>>]
  /\ token' = [token EXCEPT ![r] = NoToken]
  /\ fetched' = [fetched EXCEPT ![r] = NoObject]
  /\ chunk' = [chunk EXCEPT ![r] = 0]
Fault == faults < MaxFaults /\ faults' = faults + 1 /\ UNCHANGED outages
Outage == outages < MaxOutages /\ outages' = outages + 1 /\ UNCHANGED faults
-----------------------------------------------------------------------------
(* The bucket. *)

\* IngestionController.uploadDocument: putObject replaces what the key held.
Upload(k, c) ==
  /\ Cardinality(uploaded) < MaxUploads
  /\ UploadsDuringRuns \/ Quiet
  /\ objects[k] # c
  /\ UploadsRepeat \/ <<k, c>> \notin uploaded
  /\ objects' = [objects EXCEPT ![k] = c]
  /\ uploaded' = uploaded \cup {<<k, c>>}
  /\ met' = met \cup {i \in {"upload"} : ~ Quiet} \cup {i \in {"return"} : <<k, c>> \in uploaded}
  /\ UNCHANGED <<markers, points, runVars, bounds>>
-----------------------------------------------------------------------------
(* ManualIngestionService.run. *)

StartRun(r) ==
  /\ stage[r] = "new"
  /\ Cardinality(Active) < MaxActive
  /\ Goto(r, "list")
  /\ met' = met \cup {i \in {"overlap"} : ~ Quiet}
  /\ UNCHANGED <<objects, uploaded, markers, points, provider, page, token, fetched,
                 chunk, failed, bounds>>

\* Mutant: the next page starts at the last key of this one.
ToListFromToken(r) == {k \in Keys : k >= token[r] /\ objects[k] # NoObject}

\* What is left to list after the token, the first PageSize keys of it, and
\* their listing order.
ToList(r) == {k \in Keys : k > token[r] /\ objects[k] # NoObject}
PageKeys(r) ==
  {k \in ToList(r) : Cardinality({j \in ToList(r) : j < k}) < PageSize}
Ascending(S) ==
  {q \in [1..Cardinality(S) -> S] :
     \A i, j \in 1..Cardinality(S) : i < j => q[i] < q[j]}

\* listObjectsV2 from the continuation token on; there is a next token when
\* the page is not the last.
ListPage(r) ==
  /\ stage[r] = "list"
  /\ \/ /\ PageKeys(r) = {}
        /\ Goto(r, "done")
        /\ UNCHANGED <<page, token>>
     \/ /\ PageKeys(r) # {}
        /\ Goto(r, "claim")
        /\ \E keys \in Ascending(PageKeys(r)) :
             /\ page' = [page EXCEPT ![r] =
                  [i \in DOMAIN keys |->
                     [key |-> keys[i], version |-> objects[keys[i]]]]]
             /\ token' = [token EXCEPT ![r] =
                  IF PageKeys(r) = ToList(r) THEN NoToken ELSE keys[Len(keys)]]
  /\ UNCHANGED <<storeVars, markers, points, provider, fetched, chunk, failed, bounds>>

\* Mutant: put instead of putIfAbsent.
ClaimWithPut(r) ==
  /\ stage[r] = "claim"
  /\ markers' = markers \cup {At(r)}
  /\ Goto(r, "fetch")
  /\ UNCHANGED <<storeVars, points, provider, page, token, fetched, chunk, failed,
                 bounds>>

\* processObject: putIfAbsent of key and ETag.
Claim(r) ==
  /\ stage[r] = "claim"
  /\ IF At(r) \in markers
     THEN NextObject(r) /\ UNCHANGED markers
     ELSE /\ markers' = markers \cup {At(r)}
          /\ Goto(r, "fetch")
          /\ UNCHANGED <<page, fetched, chunk>>
  /\ UNCHANGED <<storeVars, points, provider, token, failed, bounds>>

\* ingestObject: getObject reads whatever the key holds by now; a content
\* without text is skipped and stays claimed.
Fetch(r) ==
  /\ stage[r] = "fetch"
  /\ LET c == objects[At(r).key]
     IN IF ChunkCount[c] = 0
        THEN Goto(r, "close") /\ UNCHANGED fetched
        ELSE /\ fetched' = [fetched EXCEPT ![r] = c]
             /\ Goto(r, "delete")
  /\ UNCHANGED <<storeVars, markers, points, provider, page, token, chunk, failed,
                 bounds>>

\* removeOldDocuments: delete by source, in the run's collection.
RemoveOldDocuments(r) ==
  /\ stage[r] = "delete"
  /\ points' = {x \in points : ~ (x.in = provider[r] /\ x.source = At(r).key)}
  /\ Goto(r, "add")
  /\ UNCHANGED <<storeVars, markers, provider, page, token, fetched, chunk,
                 failed, bounds>>

\* store.add, one chunk at a time, each under an id of its own.
AddChunk(r) ==
  /\ stage[r] = "add"
  /\ points' = points \cup {[in |-> provider[r], source |-> At(r).key,
                             content |-> fetched[r], chunk |-> chunk[r] + 1, by |-> r]}
  /\ chunk' = [chunk EXCEPT ![r] = @ + 1]
  /\ Goto(r, IF chunk'[r] = ChunkCount[fetched[r]] THEN "close" ELSE "add")
  /\ UNCHANGED <<storeVars, markers, provider, page, token, fetched, failed, bounds>>

\* The end of the try block closes the object's stream.
Close(r) ==
  /\ stage[r] = "close"
  /\ NextObject(r)
  /\ UNCHANGED <<storeVars, markers, points, provider, token, failed, bounds>>
-----------------------------------------------------------------------------
(* Failures. *)

\* Parsing fails with an IngestionException: counted, and the run goes on.
ProcessFails(r) ==
  /\ stage[r] = "fetch"
  /\ Fault
  /\ failed' = [failed EXCEPT ![r] = TRUE]
  /\ Goto(r, "unclaim")
  /\ UNCHANGED <<storeVars, markers, points, provider, page, token, fetched, chunk>>

\* Any other exception of S3, the parser or Qdrant: the run will be over.
StepFails(r) ==
  /\ stage[r] \in {"fetch", "delete", "add", "close"}
  /\ Fault
  /\ Goto(r, "abort")
  /\ UNCHANGED <<storeVars, markers, points, provider, page, token, fetched, chunk,
                 failed>>

\* The listing or the claim fails.
ListOrClaimFails(r) ==
  /\ stage[r] \in {"list", "claim"}
  /\ Fault
  /\ EndRun(r, "failed")
  /\ UNCHANGED <<storeVars, markers, points, provider, failed>>

\* Mutant: a counted failure leaves its marker.
UnclaimNothing(r) ==
  /\ stage[r] = "unclaim"
  /\ NextObject(r)
  /\ UNCHANGED <<storeVars, markers, points, provider, token, failed, bounds>>

\* metadataStore.remove, then the next object ...
Unclaim(r) ==
  /\ stage[r] = "unclaim"
  /\ markers' = markers \ {At(r)}
  /\ NextObject(r)
  /\ UNCHANGED <<storeVars, points, provider, token, failed, bounds>>

\* Mutant: the exception goes out before the marker is removed.
AbortKeepsMarker(r) ==
  /\ stage[r] = "abort"
  /\ EndRun(r, "failed")
  /\ UNCHANGED <<storeVars, markers, points, provider, failed, bounds>>

\* ... or the exception again ...
UnclaimAndAbort(r) ==
  /\ stage[r] = "abort"
  /\ markers' = markers \ {At(r)}
  /\ EndRun(r, "failed")
  /\ UNCHANGED <<storeVars, points, provider, failed, bounds>>

\* ... unless the removal fails as well.
UnclaimFails(r) ==
  /\ stage[r] \in {"unclaim", "abort"}
  /\ Outage
  /\ EndRun(r, "failed")
  /\ UNCHANGED <<storeVars, markers, points, provider, failed>>

\* The agent dies; bucket, metadata store and collections stay.
Crash ==
  /\ ~ Quiet
  /\ Outage
  /\ stage' = [r \in Runs |-> IF r \in Active THEN "failed" ELSE stage[r]]
  /\ page' = [r \in Runs |-> <<>>]
  /\ token' = [r \in Runs |-> NoToken]
  /\ fetched' = [r \in Runs |-> NoObject]
  /\ chunk' = [r \in Runs |-> 0]
  /\ UNCHANGED <<storeVars, markers, points, provider, failed>>

\* Every request was answered.
Finished ==
  /\ \A r \in Runs : stage[r] \in {"done", "failed"}
  /\ UNCHANGED vars

RunStep(r) ==
  \/ ListPage(r)
  \/ Claim(r)
  \/ Fetch(r)
  \/ RemoveOldDocuments(r)
  \/ AddChunk(r)
  \/ Close(r)
  \/ Unclaim(r)
  \/ UnclaimAndAbort(r)

Next ==
  \/ \E k \in Keys, c \in Contents : Upload(k, c)
  \/ \E r \in Runs :
       \/ StartRun(r)
       \/ RunStep(r)
       \/ ProcessFails(r)
       \/ StepFails(r)
       \/ ListOrClaimFails(r)
       \/ UnclaimFails(r)
  \/ Crash
  \/ Finished

Spec == Init /\ [][Next]_vars

\* A run has a thread of its own and every call it makes returns.
Fairness == \A r \in Runs : WF_vars(RunStep(r))
FairSpec == Spec /\ Fairness
-----------------------------------------------------------------------------
(* Properties. *)

\* No two runs work on the same object version at the same time: putIfAbsent
\* lets one of them have it, and the other goes past it.
OneRunPerVersion ==
  \A r, q \in Runs :
    Holding(r) /\ Holding(q) /\ At(r) = At(q) => r = q

\* Collection p holds content c of key k: every chunk of it once, and nothing
\* else of that source.
HoldsExactly(p, k, c) ==
  LET ofKey == {x \in points : x.in = p /\ x.source = k}
  IN /\ {<<x.content, x.chunk>> : x \in ofKey} = {c} \X (1..ChunkCount[c])
     /\ Cardinality(ofKey) = ChunkCount[c]

\* No upload while a run went on or of an earlier content, no crash and no
\* marker that could not be removed; and besides, one run after the other.
Undisturbed == met \cap {"upload", "return"} = {} /\ outages = 0
Serial == met = {} /\ outages = 0

HasText(k) == objects[k] # NoObject /\ ChunkCount[objects[k]] > 0
Marked(k) == [key |-> k, version |-> objects[k]] \in markers

\* What the comment of processObject promises of a marker: whichever of
\* several overlapping runs claimed a version and whatever failed, when no run
\* is under way and the version in the bucket is marked as ingested, some
\* collection holds exactly its chunks.
MarkedIsIndexed ==
  Undisturbed /\ Quiet =>
    \A k \in Keys :
      HasText(k) /\ Marked(k) => \E p \in Providers : HoldsExactly(p, k, objects[k])

\* Run r ends well and counted no failure: the collection it was asked for
\* holds exactly the current content of every object with text.
EndsWell(r) == stage[r] # "done" /\ stage'[r] = "done" /\ ~ failed[r]
LeavesLatest(r) == \A k \in Keys : HasText(k) => HoldsExactly(provider[r], k, objects[k])'
RunLeavesLatest == [][\A r \in Runs : EndsWell(r) => LeavesLatest(r)]_vars

\* The same for runs one at a time and for one collection: such a run makes
\* good what earlier ones left undone.
OnlyProvider(p) == \A r \in Runs : stage[r] # "new" => provider[r] = p
RetryLeavesLatest ==
  [][\A r \in Runs : Serial /\ OnlyProvider(provider[r]) /\ EndsWell(r) => LeavesLatest(r)]_vars

\* Every request that starts is answered.
RunsEnd ==
  \A r \in Runs : stage[r] = "list" ~> stage[r] \in {"done", "failed"}
=============================================================================
