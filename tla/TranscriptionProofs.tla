------------------------ MODULE TranscriptionProofs ------------------------
(***************************************************************************)
(* Theorems about Transcription, for any number of jobs, tracks, chunks,   *)
(* any size of the queue and any time to live: what a client was told is   *)
(* complete is there until it expires, whatever sweeps; its state is of    *)
(* its types; and no two tracks are on the GPU while a handler waits.      *)
(*                                                                         *)
(* And about AudacityProject, for any projects, files and lengths: the     *)
(* transcript of a project says every file that is there, in the order of  *)
(* time, and at the project's own time unless something is missing before. *)
(***************************************************************************)
EXTENDS Transcription, AudacityProject, FiniteSetTheorems, SequenceTheorems,
  WellFoundedInduction, TLAPS
-----------------------------------------------------------------------------
(* The inductive invariant. *)

\* The maps of jobs and tracks that the argument needs.
MapsInv ==
  /\ at \in [Jobs -> {"new", "fetch", "extract", "work", "ended"}]
  /\ answer \in [Jobs -> {"none", "ok", "error", "refused", "gone"}]
  /\ track \in [All -> Over \cup {"gate", "gpu", "cut", "next", "call", "stray"}]
  /\ queue \in [Jobs -> Nat] /\ age \in [Jobs -> Nat]
  /\ link \in [Jobs -> {"none", "looked", "path", "served", "missing", "broken"}]
  /\ registered \subseteq Jobs /\ doomed \subseteq Jobs

\* A job is answered once, and at rest once it was told that it is complete.
AnsweredInv ==
  \A j \in Jobs :
    /\ answer[j] # "none" => at[j] = "ended"
    /\ answer[j] = "ok" => AllDone(j)

\* A sweep takes what has expired only.
DoomedInv == \A j \in doomed : age[j] > Ttl

\* Only a stored transcript is downloaded.
LinkInv ==
  \A j \in Jobs : link[j] # "none" => answer[j] = "ok" /\ asked[j].via # "mcp"

AvailableInv ==
  MapsInv /\ AnsweredInv /\ DoomedInv /\ LinkInv /\ CompleteMeansAvailable
-----------------------------------------------------------------------------
(* Tracks. *)

LEMMA TrackOfJob ==
  ASSUME NEW a \in All
  PROVE  a[1] \in Jobs /\ a \in Tracks(a[1])
BY DEF All, Tracks

LEMMA JobTracks ==
  ASSUME NEW j \in Jobs, NEW a \in Tracks(j)
  PROVE  a \in All /\ a[1] = j
BY DEF All, Tracks

\* A track that is not over belongs to a job that is not complete.
LEMMA AtWork ==
  ASSUME AvailableInv, NEW a \in All, track[a] \notin {"none", "done"}
  PROVE  answer[a[1]] # "ok"
BY TrackOfJob DEF AvailableInv, AnsweredInv, AllDone

\* Nothing but its own progress touches a track and its job's queue.
LEMMA TrackMoves ==
  ASSUME AvailableInv, NEW a \in All, TrackStep(a)
  PROVE  /\ track[a] \notin {"none", "done"}
         /\ \E p \in Over \cup {"gate", "gpu", "cut", "next", "call", "stray"} :
              track' = [track EXCEPT ![a] = p]
         /\ queue' \in {queue, [queue EXCEPT ![a[1]] = @ + 1]}
         /\ UNCHANGED <<handlerVars, registryVars>>
<1> USE DEF Move, Put, Announce
<1>1. CASE Enter(a)
  BY <1>1 DEF Enter, Admitted
<1>2. CASE Cut(a) \/ CallDirectly(a) \/ StrayEnds(a)
  BY <1>2 DEF Cut, CallDirectly, StrayEnds, Over
<1>3. CASE Call(a) \/ Return(a)
  BY <1>3 DEF Call, Return
<1>4. CASE Finish(a)
  BY <1>4 DEF Finish, Leave, Over
<1>5. CASE Fail(a)
  BY <1>5 DEF Fail, Leave, Over, Admitted
<1> QED BY <1>1, <1>2, <1>3, <1>4, <1>5 DEF TrackStep

LEMMA TrackKeeps ==
  ASSUME AvailableInv, NEW a \in All, TrackStep(a)
  PROVE  AvailableInv'
<1>1. PICK p \in Over \cup {"gate", "gpu", "cut", "next", "call", "stray"} :
        track' = [track EXCEPT ![a] = p]
  BY TrackMoves
<1>2. /\ queue' \in {queue, [queue EXCEPT ![a[1]] = @ + 1]}
      /\ UNCHANGED <<handlerVars, registryVars>>
      /\ answer[a[1]] # "ok" /\ a[1] \in Jobs
  BY TrackMoves, AtWork, TrackOfJob
<1>3. MapsInv'
  BY <1>1, <1>2 DEF AvailableInv, MapsInv, handlerVars, registryVars
<1>4. \A j \in Jobs : answer[j] = "ok" =>
        queue'[j] = queue[j] /\ \A b \in Tracks(j) : track'[b] = track[b]
  BY <1>1, <1>2, JobTracks DEF AvailableInv, MapsInv
<1>5. AnsweredInv' /\ DoomedInv' /\ LinkInv'
  BY <1>2, <1>4 DEF AvailableInv, AnsweredInv, DoomedInv, LinkInv, AllDone, handlerVars, registryVars
<1>6. CompleteMeansAvailable'
  BY <1>2, <1>4 DEF AvailableInv, CompleteMeansAvailable, handlerVars, registryVars
<1> QED BY <1>3, <1>5, <1>6 DEF AvailableInv
-----------------------------------------------------------------------------
(* Handlers. *)

\* A handler at work touches nobody else's job, and its own is not complete.
LEMMA HandlerKeeps ==
  ASSUME AvailableInv, NEW j \in Jobs, at[j] # "ended", UNCHANGED <<asked, registryVars>>,
         MapsInv', answer'[j] # "none" => at'[j] = "ended", answer'[j] # "ok",
         \A i \in Jobs : i # j => at'[i] = at[i] /\ answer'[i] = answer[i] /\ queue'[i] = queue[i],
         \A a \in All : a[1] # j => track'[a] = track[a]
  PROVE  AvailableInv'
<1>1. answer[j] = "none"
  BY DEF AvailableInv, AnsweredInv
<1>2. \A i \in Jobs : i # j => AllDone(i)' = AllDone(i)
  BY JobTracks DEF AllDone
<1>3. AnsweredInv' /\ DoomedInv' /\ LinkInv'
  BY <1>1, <1>2 DEF AvailableInv, AnsweredInv, DoomedInv, LinkInv, registryVars
<1>4. CompleteMeansAvailable'
  BY DEF AvailableInv, CompleteMeansAvailable, registryVars
<1> QED BY <1>3, <1>4 DEF AvailableInv

LEMMA Ends ==
  ASSUME MapsInv, NEW j \in Jobs, NEW x \in {"ok", "error", "refused", "gone"}, End(j, x)
  PROVE  /\ at' \in [Jobs -> {"new", "fetch", "extract", "work", "ended"}] /\ at'[j] = "ended"
         /\ answer' \in [Jobs -> {"none", "ok", "error", "refused", "gone"}] /\ answer'[j] = x
         /\ \A i \in Jobs : i # j => at'[i] = at[i] /\ answer'[i] = answer[i]
BY DEF MapsInv, End, Goto

LEMMA Goes ==
  ASSUME MapsInv, NEW j \in Jobs, NEW p \in {"fetch", "extract", "work"}, Goto(j, p)
  PROVE  /\ at' \in [Jobs -> {"new", "fetch", "extract", "work", "ended"}] /\ at'[j] = p
         /\ \A i \in Jobs : i # j => at'[i] = at[i]
BY DEF MapsInv, Goto

LEMMA Begins ==
  ASSUME MapsInv, NEW j \in Jobs, NEW n, Begin(j, n)
  PROVE  /\ track' \in [All -> Over \cup {"gate", "gpu", "cut", "next", "call", "stray"}]
         /\ \A a \in All : a[1] # j => track'[a] = track[a]
BY DEF MapsInv, Begin

LEMMA Breaks ==
  ASSUME MapsInv, NEW j \in Jobs, Disconnect(j)
  PROVE  /\ track' \in [All -> Over \cup {"gate", "gpu", "cut", "next", "call", "stray"}]
         /\ \A a \in All : a[1] # j => track'[a] = track[a]
<1>1. \A a \in All : Cancelled(a) \in Over \cup {"gate", "gpu", "cut", "next", "call", "stray"}
  BY DEF MapsInv, Cancelled, Over
<1>2. CASE track' = [a \in All |-> IF a[1] = j THEN Cancelled(a) ELSE track[a]]
  BY <1>1, <1>2 DEF MapsInv
<1>3. CASE UNCHANGED track
  BY <1>3 DEF MapsInv
<1> QED BY <1>2, <1>3 DEF Disconnect

LEMMA AtHandler ==
  ASSUME AvailableInv, NEW j \in Jobs,
         \/ Receive(j) \/ SaveUpload(j) \/ DownloadToTemp(j) \/ Extract(j)
         \/ Relay(j) \/ Break(j) \/ Disconnect(j)
  PROVE  AvailableInv'
<1>0. MapsInv
  BY DEF AvailableInv
<1>1. at[j] # "ended" /\ answer[j] = "none" /\ UNCHANGED <<asked, registryVars>>
  BY DEF Receive, SaveUpload, DownloadToTemp, Extract, Relay, Break, Disconnect,
         AvailableInv, AnsweredInv, handlerVars
<1>2. \/ \E x \in {"error", "refused", "gone"} : End(j, x)
      \/ (\E p \in {"fetch", "extract", "work"} : Goto(j, p)) /\ UNCHANGED answer
      \/ UNCHANGED <<at, answer>>
  BY DEF Receive, SaveUpload, DownloadToTemp, Fetched, Extract, Relay, Break, Disconnect, handlerVars
<1> DEFINE OneMoved ==
             /\ at' \in [Jobs -> {"new", "fetch", "extract", "work", "ended"}]
             /\ answer' \in [Jobs -> {"none", "ok", "error", "refused", "gone"}]
             /\ answer'[j] # "ok" /\ (answer'[j] # "none" => at'[j] = "ended")
             /\ \A i \in Jobs : i # j => at'[i] = at[i] /\ answer'[i] = answer[i]
<1>3. OneMoved
  <2>1. ASSUME NEW x \in {"error", "refused", "gone"}, End(j, x)
        PROVE  OneMoved
    BY <1>0, <2>1, Ends
  <2>2. ASSUME NEW p \in {"fetch", "extract", "work"}, Goto(j, p), UNCHANGED answer
        PROVE  OneMoved
    BY <1>0, <1>1, <2>2, Goes DEF MapsInv
  <2>3. CASE UNCHANGED <<at, answer>>
    BY <1>0, <1>1, <2>3 DEF MapsInv
  <2> QED BY <1>2, <2>1, <2>2, <2>3
<1>4. /\ track' \in [All -> Over \cup {"gate", "gpu", "cut", "next", "call", "stray"}]
      /\ \A a \in All : a[1] # j => track'[a] = track[a]
  <2>1. \/ \E n \in Track \cup {1} : Begin(j, n)
        \/ Disconnect(j)
        \/ UNCHANGED track
    BY DEF Receive, SaveUpload, DownloadToTemp, Fetched, Extract, Relay, Break, trackVars
  <2> QED BY <1>0, <2>1, Begins, Breaks DEF MapsInv
<1>5. queue' \in [Jobs -> Nat] /\ \A i \in Jobs : i # j => queue'[i] = queue[i]
  <2>1. UNCHANGED queue \/ (queue[j] > 0 /\ queue' = [queue EXCEPT ![j] = @ - 1])
    BY DEF Receive, SaveUpload, DownloadToTemp, Extract, Relay, Break, Disconnect, trackVars
  <2> QED BY <1>0, <2>1 DEF MapsInv
<1>6. MapsInv'
  BY <1>0, <1>1, <1>3, <1>4, <1>5 DEF MapsInv, registryVars
<1> QED BY <1>1, <1>3, <1>4, <1>5, <1>6, HandlerKeeps

\* The job is complete: its tracks are done, its queue is empty and, unless its
\* client has the text itself, the transcript is stored.
LEMMA AtSuccess ==
  ASSUME AvailableInv, NEW j \in Jobs,
         \/ asked[j].via = "stream" /\ AnnounceTranscript(j)
         \/ asked[j].via = "rest" /\ SendTranscript(j)
         \/ asked[j].via = "mcp" /\ ReturnText(j)
  PROVE  AvailableInv'
<1>0. MapsInv
  BY DEF AvailableInv
<1>1. /\ at[j] = "work" /\ AllDone(j) /\ queue[j] = 0 /\ End(j, "ok")
      /\ UNCHANGED <<asked, track, queue, doomed, age>>
  BY DEF AnnounceTranscript, SendTranscript, ReturnText, Succeed, Drained, trackVars
<1>2. answer[j] = "none" /\ link[j] = "none"
  BY <1>1 DEF AvailableInv, AnsweredInv, LinkInv
<1>3. /\ at' \in [Jobs -> {"new", "fetch", "extract", "work", "ended"}] /\ at'[j] = "ended"
      /\ answer' \in [Jobs -> {"none", "ok", "error", "refused", "gone"}] /\ answer'[j] = "ok"
      /\ \A i \in Jobs : i # j => at'[i] = at[i] /\ answer'[i] = answer[i]
  BY <1>0, <1>1, Ends
<1>4. /\ link' \in [Jobs -> {"none", "looked", "path", "served", "missing", "broken"}]
      /\ \A i \in Jobs : i # j => link'[i] = link[i]
      /\ link'[j] \in {"none", "path"}
      /\ asked[j].via = "mcp" => link'[j] = "none"
  BY <1>0, <1>2 DEF AnnounceTranscript, SendTranscript, ReturnText, MapsInv
<1>5. /\ file \subseteq file' /\ registered \subseteq registered' /\ registered' \subseteq Jobs
      /\ asked[j].via # "mcp" => j \in file' \cap registered'
  BY <1>0 DEF AnnounceTranscript, SendTranscript, ReturnText, StoreTranscript, MapsInv
<1>6. MapsInv'
  BY <1>0, <1>1, <1>3, <1>4, <1>5 DEF MapsInv
<1>7. AnsweredInv'
  BY <1>1, <1>3 DEF AvailableInv, AnsweredInv, AllDone
<1>8. DoomedInv' /\ LinkInv'
  BY <1>1, <1>3, <1>4 DEF AvailableInv, DoomedInv, LinkInv
<1>9. CompleteMeansAvailable'
  BY <1>1, <1>3, <1>4, <1>5 DEF AvailableInv, CompleteMeansAvailable
<1> QED BY <1>6, <1>7, <1>8, <1>9 DEF AvailableInv

LEMMA HandlerStepKeeps ==
  ASSUME AvailableInv, NEW j \in Jobs, HandlerStep(j)
  PROVE  AvailableInv'
<1>1. \/ SaveUpload(j) \/ DownloadToTemp(j) \/ Extract(j) \/ Relay(j) \/ Break(j)
      \/ asked[j].via = "stream" /\ AnnounceTranscript(j)
      \/ asked[j].via = "rest" /\ SendTranscript(j)
      \/ asked[j].via = "mcp" /\ ReturnText(j)
  BY DEF HandlerStep, StreamFile, StreamProject, PostFile, PostProject, CallFile, CallProject
<1> QED BY <1>1, AtHandler, AtSuccess
-----------------------------------------------------------------------------
(* The registry. *)

\* Only what has expired, or is not there, is taken away.
LEMMA RegistryKeeps ==
  ASSUME AvailableInv, NEW j \in Jobs,
         Tick(j) \/ CleanupLoop \/ Unlink(j) \/ AskFor(j) \/ LinkStep(j)
  PROVE  AvailableInv'
<1>0. MapsInv /\ UNCHANGED <<handlerVars, trackVars>>
  BY DEF AvailableInv, Tick, CleanupLoop, Unlink, AskFor, LinkStep, Look, Open
<1>1. /\ age' \in [Jobs -> Nat]
      /\ \A i \in Jobs : age[i] > Ttl => age'[i] > Ttl
      /\ \A i \in Jobs : age'[i] <= Ttl => age[i] <= Ttl
  BY <1>0, BoundsAssumption
  DEF MapsInv, Tick, CleanupLoop, Unlink, AskFor, LinkStep, Look, Open
<1>2. link' \in [Jobs -> {"none", "looked", "path", "served", "missing", "broken"}]
  BY <1>0 DEF MapsInv, Tick, CleanupLoop, Unlink, AskFor, LinkStep, Look, Open
<1>3. /\ registered' \subseteq Jobs /\ doomed' \subseteq Jobs
      /\ \A i \in doomed' : i \in doomed \/ age[i] > Ttl
      /\ \A i \in registered \ registered' : age[i] > Ttl \/ i \notin file
      /\ \A i \in file \ file' : age[i] > Ttl \/ i \in doomed
  BY <1>0 DEF MapsInv, Tick, CleanupLoop, Sweep, Expired, Unlink, AskFor, LinkStep, Look, Open
<1>4. MapsInv' /\ AnsweredInv'
  BY <1>0, <1>1, <1>2, <1>3 DEF AvailableInv, MapsInv, AnsweredInv, AllDone, handlerVars, trackVars
<1>5. DoomedInv'
  BY <1>1, <1>3 DEF AvailableInv, DoomedInv, MapsInv
<1>6. LinkInv'
  <2>1. \/ UNCHANGED link
        \/ /\ answer[j] = "ok" /\ asked[j].via # "mcp"
           /\ \A i \in Jobs : i # j => link'[i] = link[i]
    BY <1>0 DEF AvailableInv, LinkInv, MapsInv, Tick, CleanupLoop, Unlink, AskFor, LinkStep, Look, Open
  <2> QED BY <1>0, <2>1 DEF AvailableInv, LinkInv, handlerVars
<1>7. CompleteMeansAvailable'
  <2>1. ASSUME NEW i \in Jobs, answer[i] = "ok", asked[i].via # "mcp", age'[i] <= Ttl
        PROVE  i \in file' \cap registered' /\ link'[i] \notin {"missing", "broken"}
    <3>1. /\ age[i] <= Ttl /\ i \in file \cap registered
          /\ link[i] \notin {"missing", "broken"}
      BY <1>1, <2>1 DEF AvailableInv, CompleteMeansAvailable
    <3>2. age[i] \in Nat /\ Ttl \in Nat
      BY <1>0, BoundsAssumption DEF MapsInv
    <3>3. i \notin doomed /\ ~ (age[i] > Ttl)
      BY <3>1, <3>2 DEF AvailableInv, DoomedInv
    <3>4. i \in file' \cap registered'
      BY <1>3, <3>1, <3>3
    <3>5. link'[i] \notin {"missing", "broken"}
      BY <1>0, <3>1, <3>3, <3>4
      DEF MapsInv, Tick, CleanupLoop, Unlink, AskFor, LinkStep, Look, Open
    <3> QED BY <3>4, <3>5
  <2> QED BY <1>0, <2>1 DEF AvailableInv, CompleteMeansAvailable, handlerVars, trackVars
<1> QED BY <1>4, <1>5, <1>6, <1>7 DEF AvailableInv
-----------------------------------------------------------------------------
LEMMA AvailableInit == Init => AvailableInv
BY DEF Init, AvailableInv, MapsInv, AnsweredInv, DoomedInv, LinkInv, CompleteMeansAvailable, Over

LEMMA AvailableStep == AvailableInv /\ [Next]_vars => AvailableInv'
<1> SUFFICES ASSUME AvailableInv, [Next]_vars
             PROVE  AvailableInv'
  OBVIOUS
<1>1. ASSUME NEW j \in Jobs, ExtractOn(j)
      PROVE  AvailableInv'
  BY <1>1 DEF ExtractOn, trackVars, registryVars, AvailableInv, MapsInv, AnsweredInv, AllDone,
              DoomedInv, LinkInv, CompleteMeansAvailable
<1>2. ASSUME CleanupLoop
      PROVE  AvailableInv'
  <2>1. \E j \in Jobs : TRUE
    BY <1>2 DEF CleanupLoop, Expired, AvailableInv, MapsInv
  <2> QED BY <1>2, <2>1, RegistryKeeps
<1>3. CASE UNCHANGED vars
  BY <1>3 DEF vars, handlerVars, trackVars, registryVars, AvailableInv, MapsInv, AnsweredInv,
              AllDone, DoomedInv, LinkInv, CompleteMeansAvailable
<1> QED
  BY <1>1, <1>2, <1>3, AtHandler, HandlerStepKeeps, RegistryKeeps, TrackKeeps DEF Next

\* A client that was told its job is complete has been told all its progress, and
\* its transcript is there and is found until it expires, whatever sweeps,
\* downloads and other jobs do (download_file_manager, _drain_progress_queue).
THEOREM CompleteJobsAreAvailable == Spec => []CompleteMeansAvailable
<1>1. AvailableInv => CompleteMeansAvailable
  BY DEF AvailableInv
<1> QED BY <1>1, AvailableInit, AvailableStep, PTL DEF Spec
-----------------------------------------------------------------------------
(* The line for the GPU. *)

InLine == {"gpu", "next", "call"}

OnePerJob(q) == \A i, k \in DOMAIN q : q[i][1] = q[k][1] => i = k

\* Whoever stands in line is a track of the local model that is past the merger
\* and before its end, the line has all of these, and one of a job.
LineInv ==
  /\ \A i \in DOMAIN gpu : Local(gpu[i][1]) /\ track[gpu[i]] \in InLine
  /\ \A a \in All : Local(a[1]) /\ track[a] \in InLine => \E i \in DOMAIN gpu : gpu[i] = a
  /\ OnePerJob(gpu)

\* The merger lets a local track in when those before it have left.
OrderInv ==
  \A j \in Jobs, t, u \in Track :
    Local(j) /\ t < u /\ track[<<j, u>>] \in InLine => track[<<j, t>>] \in Over

\* No track has begun before its job is at work.
BeginInv ==
  \A a \in All : at[a[1]] \in {"new", "fetch", "extract"} => track[a] = "none"

\* A local track has no place to cut its audio but the GPU.
CutInv == \A a \in All : Local(a[1]) => track[a] # "cut"

\* A chunk that is being transcribed is one of those left.
LeftInv == \A a \in All : track[a] = "call" => left[a] > 0

QueuedInv == LineInv /\ OrderInv /\ BeginInv /\ CutInv /\ GpuServesOneTrack

GpuInv == TypeOK /\ LeftInv /\ QueuedInv
-----------------------------------------------------------------------------
(* Leaving the line. *)

LEMMA WithoutNobody ==
  ASSUME NEW q, NEW S, \A i \in DOMAIN q : q[i] \notin S
  PROVE  Without(q, S) = q
BY DEF Without

LEMMA WithoutOne ==
  ASSUME NEW q \in Seq(All), NEW S, NEW i \in DOMAIN q, q[i] \in S,
         \A k \in DOMAIN q : q[k] \in S => k = i
  PROVE  /\ Without(q, S) \in Seq(All) /\ Len(Without(q, S)) = Len(q) - 1
         /\ \A k \in 1..Len(q) - 1 : Without(q, S)[k] = IF k < i THEN q[k] ELSE q[k + 1]
<1>1. i = CHOOSE k \in DOMAIN q : q[k] \in S
  OBVIOUS
<1>2. Without(q, S) = SubSeq(q, 1, i - 1) \o SubSeq(q, i + 1, Len(q))
  BY <1>1 DEF Without
<1>3. i \in 1..Len(q) /\ Len(q) \in Nat
  BY LenProperties
<1> DEFINE before == SubSeq(q, 1, i - 1)
           behind == SubSeq(q, i + 1, Len(q))
<1>4. /\ before \in Seq(All) /\ Len(before) = i - 1
      /\ \A k \in 1..i - 1 : before[k] = q[k]
  BY <1>3, SubSeqProperties
<1>5. /\ behind \in Seq(All) /\ Len(behind) = Len(q) - i
      /\ \A k \in 1..Len(q) - i : behind[k] = q[i + k]
  BY <1>3, SubSeqProperties
<1>6. Without(q, S) = before \o behind
  BY <1>2
<1> HIDE DEF before, behind
<1>7. /\ before \o behind \in Seq(All) /\ Len(before \o behind) = Len(q) - 1
      /\ \A k \in 1..Len(q) - 1 :
           (before \o behind)[k] = IF k <= i - 1 THEN before[k] ELSE behind[k - (i - 1)]
  <2>1. /\ before \o behind \in Seq(All)
        /\ Len(before \o behind) = Len(before) + Len(behind)
        /\ \A k \in 1..Len(before) + Len(behind) :
             (before \o behind)[k] = IF k <= Len(before) THEN before[k]
                                     ELSE behind[k - Len(before)]
    BY <1>4, <1>5, ConcatProperties
  <2>2. Len(before) = i - 1 /\ Len(before) + Len(behind) = Len(q) - 1
    BY <1>3, <1>4, <1>5
  <2> QED BY <2>1, <2>2
<1>8. ASSUME NEW k \in 1..Len(q) - 1
      PROVE  (before \o behind)[k] = IF k < i THEN q[k] ELSE q[k + 1]
  <2>1. CASE k < i
    BY <1>3, <1>4, <1>7, <2>1
  <2>2. CASE ~ (k < i)
    <3>1. k - (i - 1) \in 1..Len(q) - i /\ i + (k - (i - 1)) = k + 1
      BY <1>3, <2>2
    <3>2. (before \o behind)[k] = behind[k - (i - 1)]
      BY <1>3, <1>7, <2>2
    <3>3. behind[k - (i - 1)] = q[i + (k - (i - 1))]
      BY <1>5, <3>1
    <3> QED BY <2>2, <3>1, <3>2, <3>3
  <2> QED BY <2>1, <2>2
<1> QED BY <1>6, <1>7, <1>8

\* r is what is left of the line q, its first in place, when those in S leave it.
LeftBehind(q, S, r) ==
  /\ \A k \in DOMAIN r : r[k] \notin S /\ \E i \in DOMAIN q : q[i] = r[k]
  /\ \A i \in DOMAIN q : q[i] \notin S => \E k \in DOMAIN r : r[k] = q[i]
  /\ q # <<>> /\ q[1] \notin S => r # <<>> /\ r[1] = q[1]

LEMMA LineWithout ==
  ASSUME NEW q \in Seq(All), NEW j \in Jobs, NEW S \in SUBSET Tracks(j), OnePerJob(q)
  PROVE  LeftBehind(q, S, Without(q, S)) /\ OnePerJob(Without(q, S))
<1>0. /\ \A a \in S : a[1] = j
      /\ \A i, k \in DOMAIN q : q[i][1] = q[k][1] => i = k
  BY JobTracks DEF OnePerJob
<1>1. CASE \A i \in DOMAIN q : q[i] \notin S
  BY <1>1, WithoutNobody DEF LeftBehind
<1>2. CASE \E i \in DOMAIN q : q[i] \in S
  <2>1. PICK i \in DOMAIN q : q[i] \in S
    BY <1>2
  <2>2. \A k \in DOMAIN q : q[k] \in S => k = i
    BY <1>0, <2>1
  <2> DEFINE r == Without(q, S)
  <2>3. /\ r \in Seq(All) /\ Len(r) = Len(q) - 1 /\ Len(q) \in Nat /\ i \in 1..Len(q)
        /\ \A k \in 1..Len(q) - 1 : r[k] = IF k < i THEN q[k] ELSE q[k + 1]
    BY <2>1, <2>2, WithoutOne, LenProperties
  <2> HIDE DEF r
  <2>4. DOMAIN r = 1..Len(q) - 1 /\ DOMAIN q = 1..Len(q)
    BY <2>3, LenProperties
  <2>5. ASSUME NEW k \in DOMAIN r
        PROVE  \E n \in DOMAIN q : n # i /\ r[k] = q[n]
    <3>1. CASE k < i
      BY <2>3, <2>4, <3>1
    <3>2. CASE ~ (k < i)
      <4>1. k + 1 \in DOMAIN q /\ k + 1 # i /\ r[k] = q[k + 1]
        BY <2>3, <2>4, <3>2
      <4> QED BY <4>1
    <3> QED BY <3>1, <3>2
  <2>6. ASSUME NEW n \in DOMAIN q, n # i
        PROVE  \E k \in DOMAIN r : r[k] = q[n]
    <3>1. CASE n < i
      BY <2>3, <2>4, <2>6, <3>1
    <3>2. CASE n > i
      <4>1. n - 1 \in DOMAIN r /\ ~ (n - 1 < i) /\ (n - 1) + 1 = n
        BY <2>3, <2>4, <2>6, <3>2
      <4> QED BY <2>3, <2>4, <4>1
    <3> QED BY <2>3, <2>4, <2>6, <3>1, <3>2
  <2>7. ASSUME NEW m \in DOMAIN r, NEW k \in DOMAIN r, r[m][1] = r[k][1]
        PROVE  m = k
    <3> DEFINE o(x) == IF x < i THEN x ELSE x + 1
    <3>1. o(m) \in DOMAIN q /\ o(k) \in DOMAIN q /\ r[m] = q[o(m)] /\ r[k] = q[o(k)]
      BY <2>3, <2>4
    <3>2. o(m) = o(k)
      BY <1>0, <2>7, <3>1
    <3> QED BY <2>3, <2>4, <3>2
  <2>8. q # <<>> /\ q[1] \notin S => r # <<>> /\ r[1] = q[1]
    <3> SUFFICES ASSUME q[1] \notin S
                 PROVE  r # <<>> /\ r[1] = q[1]
      OBVIOUS
    <3>1. i # 1 /\ 1 \in DOMAIN r /\ 1 < i
      BY <2>1, <2>3, <2>4
    <3> QED BY <2>3, <2>4, <3>1
  <2>9. LeftBehind(q, S, r)
    BY <1>0, <2>1, <2>2, <2>5, <2>6, <2>8 DEF LeftBehind
  <2>10. OnePerJob(r)
    BY <2>7 DEF OnePerJob
  <2> QED BY <2>9, <2>10 DEF r
<1> QED BY <1>1, <1>2
-----------------------------------------------------------------------------
(* Types. *)

LEMMA GpuTypes ==
  ASSUME TypeOK, NEW S
  PROVE  Without(gpu, S) \in Seq(All)
<1>1. gpu \in Seq(All)
  BY DEF TypeOK
<1>2. CASE \A i \in DOMAIN gpu : gpu[i] \notin S
  BY <1>1, <1>2, WithoutNobody
<1>3. CASE \E i \in DOMAIN gpu : gpu[i] \in S
  <2> DEFINE i == CHOOSE k \in DOMAIN gpu : gpu[k] \in S
  <2>1. Without(gpu, S) = SubSeq(gpu, 1, i - 1) \o SubSeq(gpu, i + 1, Len(gpu))
    BY <1>3 DEF Without
  <2>2. i \in 1..Len(gpu) /\ Len(gpu) \in Nat
    BY <1>1, <1>3, LenProperties
  <2> HIDE DEF i
  <2>3. SubSeq(gpu, 1, i - 1) \in Seq(All) /\ SubSeq(gpu, i + 1, Len(gpu)) \in Seq(All)
    BY <1>1, <2>2, SubSeqProperties
  <2> QED BY <2>1, <2>3, ConcatProperties
<1> QED BY <1>2, <1>3

\* What a step of a track does to the state, whatever it is.
LEMMA TrackTypes ==
  ASSUME TypeOK, LeftInv, NEW a \in All, TrackStep(a)
  PROVE  TypeOK' /\ LeftInv'
<1>0. a[1] \in Jobs /\ UNCHANGED <<handlerVars, registryVars>>
  BY TrackOfJob DEF TrackStep, Enter, Cut, CallDirectly, Call, Return, Finish, Fail, StrayEnds
<1>1. queue' \in [Jobs -> 0..QueueSize]
  <2>1. UNCHANGED queue \/ Put(a[1])
    BY DEF TrackStep, Enter, Cut, CallDirectly, Call, Return, Finish, Fail, StrayEnds, Announce
  <2>2. ASSUME queue[a[1]] # QueueSize, queue' = [queue EXCEPT ![a[1]] = @ + 1]
        PROVE  queue' \in [Jobs -> 0..QueueSize]
    BY <1>0, <2>2, BoundsAssumption DEF TypeOK
  <2> QED BY <2>1, <2>2 DEF TypeOK, Put, Full
<1>2. gpu' \in Seq(All)
  <2>1. gpu' = gpu \/ gpu' = Append(gpu, a) \/ gpu' = Without(gpu, {a})
    BY DEF TrackStep, Enter, Cut, CallDirectly, Call, Return, Finish, Fail, StrayEnds, Leave, Release
  <2>2. gpu \in Seq(All) /\ Without(gpu, {a}) \in Seq(All)
    BY GpuTypes DEF TypeOK
  <2>3. Append(gpu, a) \in Seq(All)
    BY <2>2, AppendProperties
  <2> QED BY <2>1, <2>2, <2>3
<1>3. chunks' \subseteq All
  BY DEF TypeOK, TrackStep, Enter, Cut, CallDirectly, Call, Return, Finish, Fail, StrayEnds, Leave
<1>4. /\ left' \in [All -> 0..MaxChunks]
      /\ \A b \in All : b # a => left'[b] = left[b]
      /\ track' \in [All -> Over \cup {"gate", "gpu", "cut", "next", "call", "stray"}]
      /\ \A b \in All : b # a => track'[b] = track[b]
      /\ track'[a] = "call" => left'[a] > 0
  <2> USE BoundsAssumption DEF TypeOK, Move
  <2>1. CASE Enter(a)
    BY <2>1 DEF Enter
  <2>2. CASE Cut(a)
    BY <2>2 DEF Cut
  <2>3. CASE CallDirectly(a)
    BY <2>3 DEF CallDirectly
  <2>4. CASE Call(a)
    BY <2>4 DEF Call
  <2>5. CASE Return(a)
    <3>1. left[a] > 0 /\ left[a] \in 0..MaxChunks
      BY <2>5 DEF Return, LeftInv
    <3> QED BY <2>5, <3>1 DEF Return
  <2>6. CASE Finish(a) \/ Fail(a)
    BY <2>6 DEF Finish, Fail, Leave, Over
  <2>7. CASE StrayEnds(a)
    BY <2>7 DEF StrayEnds, Over
  <2> QED BY <2>1, <2>2, <2>3, <2>4, <2>5, <2>6, <2>7 DEF TrackStep
<1>5. TypeOK'
  BY <1>0, <1>1, <1>2, <1>3, <1>4 DEF TypeOK, handlerVars, registryVars
<1>6. LeftInv'
  BY <1>4 DEF LeftInv
<1> QED BY <1>5, <1>6

\* A handler does not take a track to a call, and no chunk from it.
LEMMA HandlerTypes ==
  ASSUME TypeOK, LeftInv, NEW j \in Jobs,
         Receive(j) \/ HandlerStep(j) \/ ExtractOn(j) \/ Disconnect(j)
  PROVE  TypeOK' /\ LeftInv'
<1>1. \/ Receive(j) \/ SaveUpload(j) \/ DownloadToTemp(j) \/ Extract(j) \/ Relay(j) \/ Break(j)
      \/ AnnounceTranscript(j) \/ SendTranscript(j) \/ ReturnText(j) \/ ExtractOn(j) \/ Disconnect(j)
  BY DEF HandlerStep, StreamFile, StreamProject, PostFile, PostProject, CallFile, CallProject
<1> USE DEF Receive, SaveUpload, DownloadToTemp, Fetched, Extract, Relay, Break, AnnounceTranscript,
            SendTranscript, ReturnText, Succeed, StoreTranscript, ExtractOn, Disconnect, End, Goto,
            handlerVars, trackVars, registryVars
<1>2. UNCHANGED <<asked, left, doomed, age>>
  BY <1>1
<1>3. /\ at' \in [Jobs -> {"new", "fetch", "extract", "work", "ended"}]
      /\ answer' \in [Jobs -> {"none", "ok", "error", "refused", "gone"}]
  BY <1>1 DEF TypeOK
<1>4. temp' \in [Jobs -> {"none", "held", "lost"}]
  BY <1>1 DEF TypeOK, Drop
<1>5. dir' \subseteq Jobs /\ extracting' \subseteq Jobs
  BY <1>1 DEF TypeOK
<1>6. /\ track' \in [All -> Over \cup {"gate", "gpu", "cut", "next", "call", "stray"}]
      /\ \A a \in All : track'[a] = "call" => track[a] = "call"
  <2>1. \/ UNCHANGED track \/ \E n \in Track \cup {1} : Begin(j, n)
        \/ track' = [a \in All |-> IF a[1] = j THEN Cancelled(a) ELSE track[a]]
    BY <1>1
  <2>2. ASSUME NEW n \in Track \cup {1}, Begin(j, n)
        PROVE  /\ track' \in [All -> Over \cup {"gate", "gpu", "cut", "next", "call", "stray"}]
               /\ \A a \in All : track'[a] = "call" => track[a] = "call"
    BY <2>2 DEF TypeOK, Begin
  <2>3. CASE track' = [a \in All |-> IF a[1] = j THEN Cancelled(a) ELSE track[a]]
    BY <2>3 DEF TypeOK, Cancelled, Over
  <2> QED BY <2>1, <2>2, <2>3 DEF TypeOK
<1>7. chunks' \subseteq All /\ gpu' \in Seq(All)
  BY <1>1, GpuTypes DEF TypeOK
<1>8. queue' \in [Jobs -> 0..QueueSize]
  <2>1. UNCHANGED queue \/ (queue[j] > 0 /\ queue' = [queue EXCEPT ![j] = @ - 1])
    BY <1>1
  <2>2. ASSUME queue[j] > 0, queue' = [queue EXCEPT ![j] = @ - 1]
        PROVE  queue' \in [Jobs -> 0..QueueSize]
    BY <2>2, BoundsAssumption DEF TypeOK
  <2> QED BY <2>1, <2>2 DEF TypeOK
<1>9. file' \subseteq Jobs /\ registered' \subseteq Jobs
  BY <1>1 DEF TypeOK
<1>10. link' \in [Jobs -> {"none", "looked", "path", "served", "missing", "broken"}]
  BY <1>1 DEF TypeOK
<1>11. TypeOK'
  BY <1>2, <1>3, <1>4, <1>5, <1>6, <1>7, <1>8, <1>9, <1>10 DEF TypeOK
<1>12. LeftInv'
  BY <1>2, <1>6 DEF LeftInv
<1> QED BY <1>11, <1>12

LEMMA RegistryTypes ==
  ASSUME TypeOK, NEW j \in Jobs,
         Tick(j) \/ CleanupLoop \/ Unlink(j) \/ AskFor(j) \/ LinkStep(j)
  PROVE  TypeOK' /\ UNCHANGED <<handlerVars, trackVars>>
<1> USE DEF Tick, CleanupLoop, Sweep, Expired, Unlink, AskFor, LinkStep, Look, Open
<1>1. UNCHANGED <<handlerVars, trackVars>>
  OBVIOUS
<1>2. file' \subseteq Jobs /\ registered' \subseteq Jobs /\ doomed' \subseteq Jobs
  BY DEF TypeOK
<1>3. age' \in [Jobs -> 0..Ttl + 1]
  <2>1. UNCHANGED age \/ (age[j] <= Ttl /\ age' = [age EXCEPT ![j] = @ + 1])
    OBVIOUS
  <2>2. ASSUME age[j] <= Ttl, age' = [age EXCEPT ![j] = @ + 1]
        PROVE  age' \in [Jobs -> 0..Ttl + 1]
    BY <2>2, BoundsAssumption DEF TypeOK
  <2> QED BY <2>1, <2>2 DEF TypeOK
<1>4. link' \in [Jobs -> {"none", "looked", "path", "served", "missing", "broken"}]
  <2> DEFINE States == {"none", "looked", "path", "served", "missing", "broken"}
  <2>1. UNCHANGED link \/ \E s \in States : link' = [link EXCEPT ![j] = s]
    <3>1. CASE Tick(j) \/ CleanupLoop \/ Unlink(j)
      BY <3>1
    <3>2. CASE AskFor(j)
      BY <3>2
    <3>3. CASE LinkStep(j)
      BY <3>3
    <3> QED BY <3>1, <3>2, <3>3
  <2>2. link \in [Jobs -> States]
    BY DEF TypeOK
  <2> HIDE DEF States, Tick, CleanupLoop, Unlink, AskFor, LinkStep
  <2>3. link' \in [Jobs -> States]
    BY <2>1, <2>2
  <2> QED BY <2>3 DEF States
<1> HIDE DEF Tick, CleanupLoop, Sweep, Expired, Unlink, AskFor, LinkStep, Look, Open
<1>5. /\ UNCHANGED <<asked, at, answer, temp, dir, extracting>>
      /\ UNCHANGED <<track, left, chunks, gpu, queue>>
  BY <1>1 DEF handlerVars, trackVars
<1>6. TypeOK'
  BY <1>2, <1>3, <1>4, <1>5 DEF TypeOK
<1> QED BY <1>1, <1>6
-----------------------------------------------------------------------------
(* Every step keeps the line. *)

LEMMA HeadOfLine ==
  ASSUME NEW q \in Seq(All), q # <<>>
  PROVE  Head(q) = q[1] /\ 1 \in DOMAIN q
BY HeadTailProperties, LenProperties, EmptySeq

\* A track whose state changes while it stays where it is in line, or out of it.
LEMMA TrackStays ==
  ASSUME GpuInv, NEW a \in All, NEW p, Move(a, p), UNCHANGED <<asked, at, gpu>>,
         track[a] \notin Over,
         Local(a[1]) => /\ track[a] \in InLine <=> p \in InLine
                        /\ p # "cut"
                        /\ p \in {"next", "call"} => HasGpu(a)
  PROVE  QueuedInv'
<1>1. /\ track'[a] = p
      /\ \A b \in All : b # a => track'[b] = track[b]
  BY DEF GpuInv, TypeOK, Move
<1>2. \A b \in All : Local(b[1])' = Local(b[1]) /\ HasGpu(b)' = HasGpu(b)
  BY DEF Local, HasGpu
<1>3. \A b \in All : Local(b[1]) => (track[b] \in InLine <=> track'[b] \in InLine)
  BY <1>1
<1>4. \A b \in All : track[b] \in Over => track'[b] = track[b]
  BY <1>1
<1>5. \A i \in DOMAIN gpu : gpu[i] \in All
  BY ElementOfSeq, LenProperties DEF GpuInv, TypeOK
<1>6. LineInv'
  BY <1>2, <1>3, <1>5 DEF GpuInv, QueuedInv, LineInv, OnePerJob
<1>7. OrderInv'
  <2> SUFFICES ASSUME NEW j \in Jobs, NEW t \in Track, NEW u \in Track, Local(j), t < u,
                      track'[<<j, u>>] \in InLine
               PROVE  track'[<<j, t>>] \in Over
    BY DEF OrderInv, Local
  <2>1. <<j, t>> \in All /\ <<j, u>> \in All /\ <<j, u>>[1] = j
    BY DEF All
  <2>2. track[<<j, t>>] \in Over
    BY <1>3, <2>1 DEF GpuInv, QueuedInv, OrderInv
  <2> QED BY <1>4, <2>1, <2>2
<1>8. BeginInv'
  BY <1>1, <1>4 DEF GpuInv, QueuedInv, BeginInv, Over
<1>9. CutInv' /\ GpuServesOneTrack'
  BY <1>1, <1>2 DEF GpuInv, QueuedInv, CutInv, GpuServesOneTrack
<1> QED BY <1>6, <1>7, <1>8, <1>9 DEF QueuedInv

\* Tracks of one job leave the line; what stays in it is as it was.
LEMMA TracksLeave ==
  ASSUME GpuInv, TypeOK', UNCHANGED asked, NEW j \in Jobs, NEW S \in SUBSET Tracks(j),
         gpu' = Without(gpu, S),
         \A i \in Jobs : at'[i] \in {"new", "fetch", "extract"} => at'[i] = at[i],
         \A a \in All : track[a] \in Over => track'[a] = track[a],
         \A a \in All : Local(a[1]) =>
            /\ track'[a] # "cut"
            /\ track'[a] \in InLine => a \notin S /\ track'[a] = track[a]
            /\ track[a] \in InLine /\ a \notin S => track'[a] = track[a]
  PROVE  QueuedInv'
<1>1. /\ gpu \in Seq(All) /\ gpu' \in Seq(All)
      /\ \A i \in DOMAIN gpu : gpu[i] \in All
  BY ElementOfSeq, LenProperties DEF GpuInv, TypeOK
<1>2. LeftBehind(gpu, S, gpu') /\ OnePerJob(gpu')
  BY <1>1, LineWithout DEF GpuInv, QueuedInv, LineInv
<1>3. /\ \A k \in DOMAIN gpu' : gpu'[k] \notin S /\ \E i \in DOMAIN gpu : gpu[i] = gpu'[k]
      /\ \A i \in DOMAIN gpu : gpu[i] \notin S => \E k \in DOMAIN gpu' : gpu'[k] = gpu[i]
      /\ gpu # <<>> /\ gpu[1] \notin S => gpu' # <<>> /\ gpu'[1] = gpu[1]
  BY <1>2 DEF LeftBehind
<1>4. \A b \in All : Local(b[1])' = Local(b[1])
  BY DEF Local
<1>5. LineInv'
  <2>1. ASSUME NEW k \in DOMAIN gpu'
        PROVE  Local(gpu'[k][1]) /\ track'[gpu'[k]] \in InLine
    <3>1. PICK i \in DOMAIN gpu : gpu[i] = gpu'[k] /\ gpu[i] \notin S
      BY <1>3
    <3>2. gpu[i] \in All /\ Local(gpu[i][1]) /\ track[gpu[i]] \in InLine
      BY <1>1 DEF GpuInv, QueuedInv, LineInv
    <3> QED BY <3>1, <3>2
  <2>2. ASSUME NEW a \in All, Local(a[1]), track'[a] \in InLine
        PROVE  \E k \in DOMAIN gpu' : gpu'[k] = a
    BY <1>3, <2>2 DEF GpuInv, QueuedInv, LineInv
  <2> QED BY <1>2, <2>1, <2>2 DEF LineInv, Local
<1>6. OrderInv'
  <2> SUFFICES ASSUME NEW i \in Jobs, NEW t \in Track, NEW u \in Track, Local(i), t < u,
                      track'[<<i, u>>] \in InLine
               PROVE  track'[<<i, t>>] \in Over
    BY DEF OrderInv, Local
  <2>1. <<i, t>> \in All /\ <<i, u>> \in All /\ <<i, u>>[1] = i
    BY DEF All
  <2>2. track[<<i, u>>] \in InLine
    BY <2>1
  <2>3. track[<<i, t>>] \in Over
    BY <2>2 DEF GpuInv, QueuedInv, OrderInv
  <2> QED BY <2>1, <2>3
<1>7. BeginInv'
  BY TrackOfJob DEF GpuInv, QueuedInv, BeginInv, Over
<1>8. CutInv'
  BY <1>4 DEF CutInv
<1>9. GpuServesOneTrack'
  <2> SUFFICES ASSUME NEW a \in All, Local(a[1]), track'[a] \in {"next", "call"}
               PROVE  HasGpu(a)'
    BY DEF GpuServesOneTrack, Local
  <2>1. a \notin S /\ track[a] \in {"next", "call"}
    BY DEF InLine
  <2>2. gpu # <<>> /\ gpu[1] = a
    BY <1>1, <2>1, HeadOfLine DEF GpuInv, QueuedInv, GpuServesOneTrack, HasGpu
  <2> QED BY <1>1, <1>3, <2>1, <2>2, HeadOfLine DEF HasGpu
<1> QED BY <1>5, <1>6, <1>7, <1>8, <1>9 DEF QueuedInv

\* No track of the job is in line when the merger lets the next one in.
LEMMA TrackEnters ==
  ASSUME GpuInv, TypeOK', NEW a \in All, Enter(a), Local(a[1])
  PROVE  QueuedInv'
<1>1. /\ track[a] = "gate" /\ Move(a, "gpu") /\ gpu' = Append(gpu, a) /\ UNCHANGED <<asked, at>>
  BY DEF Enter, Admitted, handlerVars
<1>2. PICK j \in Jobs, u \in Track : a = <<j, u>>
  BY DEF All
<1>3. \A t \in 1..u - 1 : track[<<j, t>>] \in Over
  <2> DEFINE W == {t \in 1..u - 1 : track[<<j, t>>] \notin Over}
  <2>1. IsFiniteSet(W)
    <3>1. IsFiniteSet(1..u - 1)
      BY FS_Interval DEF Track
    <3> QED BY <3>1, FS_Subset
  <2>2. Cardinality(W) < 1
    BY <1>2 DEF Enter, Admitted, Concurrency
  <2>3. Cardinality(W) = 0
    BY <2>1, <2>2, FS_CardinalityType
  <2> QED BY <2>1, <2>3, FS_EmptySet
<1>4. /\ track'[a] = "gpu"
      /\ \A b \in All : b # a => track'[b] = track[b]
  BY <1>1 DEF GpuInv, TypeOK, Move
<1>5. /\ gpu \in Seq(All) /\ Len(gpu) \in Nat
      /\ \A i \in DOMAIN gpu : gpu[i] \in All
      /\ DOMAIN gpu = 1..Len(gpu)
  BY ElementOfSeq, LenProperties DEF GpuInv, TypeOK
<1>6. /\ gpu' \in Seq(All) /\ gpu' # <<>> /\ DOMAIN gpu' = 1..Len(gpu) + 1
      /\ \A i \in 1..Len(gpu) : gpu'[i] = gpu[i]
      /\ gpu'[Len(gpu) + 1] = a
  BY <1>1, <1>5, AppendProperties, LenProperties
<1>7. \A b \in All : Local(b[1]) /\ b[1] = j => track[b] \notin InLine
  <2> SUFFICES ASSUME NEW t \in Track, Local(j), track[<<j, t>>] \in InLine
               PROVE  FALSE
    BY DEF All
  <2>1. CASE t < u
    <3>1. t \in 1..u - 1
      BY <2>1 DEF Track
    <3> QED BY <1>3, <3>1 DEF Over, InLine
  <2>2. CASE u < t
    BY <1>1, <1>2, <2>2 DEF GpuInv, QueuedInv, OrderInv, Over
  <2>3. CASE t = u
    BY <1>1, <1>2, <2>3 DEF InLine
  <2> QED BY <2>1, <2>2, <2>3 DEF Track
<1>8. \A i \in 1..Len(gpu) : gpu[i] # a /\ gpu[i][1] # j
  BY <1>5, <1>7, <1>2, <1>1 DEF GpuInv, QueuedInv, LineInv
<1>9. LineInv'
  <2>1. ASSUME NEW i \in DOMAIN gpu'
        PROVE  Local(gpu'[i][1]) /\ track'[gpu'[i]] \in InLine
    BY <1>4, <1>5, <1>6, <1>8 DEF GpuInv, QueuedInv, LineInv, InLine
  <2>2. ASSUME NEW b \in All, Local(b[1]), track'[b] \in InLine
        PROVE  \E i \in DOMAIN gpu' : gpu'[i] = b
    <3>1. CASE b = a
      BY <1>5, <1>6, <3>1
    <3>2. CASE b # a
      <4>1. PICK i \in DOMAIN gpu : gpu[i] = b
        BY <1>4, <2>2, <3>2 DEF GpuInv, QueuedInv, LineInv
      <4> QED BY <1>5, <1>6, <4>1
    <3> QED BY <3>1, <3>2
  <2>3. ASSUME NEW i \in DOMAIN gpu', NEW k \in DOMAIN gpu', gpu'[i][1] = gpu'[k][1]
        PROVE  i = k
    <3>1. CASE i \in 1..Len(gpu) /\ k \in 1..Len(gpu)
      BY <1>5, <1>6, <2>3, <3>1 DEF GpuInv, QueuedInv, LineInv, OnePerJob
    <3>2. CASE i = Len(gpu) + 1 \/ k = Len(gpu) + 1
      BY <1>2, <1>5, <1>6, <1>8, <2>3, <3>2
    <3> QED BY <1>5, <1>6, <3>1, <3>2
  <2> QED BY <1>1, <2>1, <2>2, <2>3 DEF LineInv, Local, OnePerJob
<1>10. OrderInv'
  <2> SUFFICES ASSUME NEW i \in Jobs, NEW t \in Track, NEW v \in Track, Local(i), t < v,
                      track'[<<i, v>>] \in InLine
               PROVE  track'[<<i, t>>] \in Over
    BY <1>1 DEF OrderInv, Local
  <2>1. <<i, t>> \in All /\ <<i, v>> \in All
    BY DEF All
  <2>2. CASE <<i, v>> = a
    <3>1. t \in 1..u - 1 /\ i = j /\ <<i, t>> # a
      BY <1>2, <2>2 DEF Track
    <3> QED BY <1>3, <1>4, <2>1, <3>1
  <2>3. CASE <<i, v>> # a
    <3>1. track[<<i, t>>] \in Over
      BY <1>4, <2>1, <2>3 DEF GpuInv, QueuedInv, OrderInv
    <3> QED BY <1>1, <1>4, <2>1, <3>1 DEF Over
  <2> QED BY <2>2, <2>3
<1>11. BeginInv'
  BY <1>1, <1>4 DEF GpuInv, QueuedInv, BeginInv
<1>12. CutInv'
  BY <1>1, <1>4 DEF GpuInv, QueuedInv, CutInv, Local
<1>13. GpuServesOneTrack'
  <2> SUFFICES ASSUME NEW b \in All, Local(b[1]), track'[b] \in {"next", "call"}
               PROVE  HasGpu(b)'
    BY <1>1 DEF GpuServesOneTrack, Local
  <2>1. HasGpu(b)
    BY <1>4 DEF GpuInv, QueuedInv, GpuServesOneTrack
  <2>2. gpu # <<>> /\ gpu[1] = b /\ 1 \in 1..Len(gpu)
    BY <1>5, <2>1, HeadOfLine DEF HasGpu
  <2>3. gpu'[1] = b
    BY <1>6, <2>2
  <2> QED BY <1>6, <2>3, HeadOfLine DEF HasGpu
<1> QED BY <1>9, <1>10, <1>11, <1>12, <1>13 DEF QueuedInv

LEMMA TrackKeepsLine ==
  ASSUME GpuInv, TypeOK', NEW a \in All, TrackStep(a)
  PROVE  QueuedInv'
<1>0. /\ UNCHANGED <<asked, at>> /\ a[1] \in Jobs
      /\ Local(a[1]) => track[a] # "cut"
      /\ Local(a[1]) /\ track[a] \in {"next", "call"} => HasGpu(a)
  BY TrackOfJob DEF TrackStep, Enter, Cut, CallDirectly, Call, Return, Finish, Fail, StrayEnds,
                    handlerVars, GpuInv, QueuedInv, CutInv, GpuServesOneTrack
<1>1. CASE Enter(a) /\ Local(a[1])
  BY <1>1, TrackEnters
<1>2. CASE Enter(a) /\ ~ Local(a[1])
  <2>1. Move(a, "cut") /\ track[a] \notin Over /\ UNCHANGED gpu
    BY <1>2 DEF Enter, Admitted, Over
  <2> QED BY <1>0, <1>2, <2>1, TrackStays
<1>3. CASE Cut(a)
  <2>1. /\ Move(a, "next") /\ UNCHANGED gpu /\ track[a] \in {"cut", "gpu"}
        /\ Local(a[1]) => track[a] = "gpu" /\ HasGpu(a)
    BY <1>0, <1>3 DEF Cut
  <2> QED BY <1>0, <2>1, TrackStays DEF InLine, Over
<1>4. CASE CallDirectly(a)
  <2>1. Move(a, "call") /\ UNCHANGED gpu /\ track[a] = "cut" /\ ~ Local(a[1])
    BY <1>0, <1>4 DEF CallDirectly
  <2> QED BY <1>0, <2>1, TrackStays DEF Over
<1>5. CASE Call(a) \/ Return(a)
  <2>1. /\ Move(a, "call") \/ Move(a, "next")
        /\ UNCHANGED gpu /\ track[a] \in {"next", "call"}
    BY <1>5 DEF Call, Return
  <2> QED BY <1>0, <2>1, TrackStays DEF InLine, Over
<1>6. CASE StrayEnds(a)
  <2>1. Move(a, "cancelled") /\ UNCHANGED gpu /\ track[a] = "stray"
    BY <1>6 DEF StrayEnds
  <2> QED BY <1>0, <2>1, TrackStays DEF InLine, Over
<1>7. CASE Finish(a) \/ Fail(a)
  <2>1. PICK p \in {"done", "failed"} : Leave(a, p)
    BY <1>7 DEF Finish, Fail
  <2>2. /\ track[a] \notin Over /\ track'[a] = p /\ gpu' = Without(gpu, {a})
        /\ \A b \in All : b # a => track'[b] = track[b]
    BY <1>7, <2>1 DEF Finish, Fail, Admitted, Leave, Release, Move, GpuInv, TypeOK, Over
  <2>3. {a} \in SUBSET Tracks(a[1])
    BY TrackOfJob
  <2>4. \A b \in All : Local(b[1]) =>
            /\ track'[b] # "cut"
            /\ track'[b] \in InLine => b \notin {a} /\ track'[b] = track[b]
            /\ track[b] \in InLine /\ b \notin {a} => track'[b] = track[b]
    BY <2>2 DEF InLine, GpuInv, QueuedInv, CutInv
  <2> QED BY <1>0, <2>2, <2>3, <2>4, TracksLeave
<1> QED BY <1>1, <1>2, <1>3, <1>4, <1>5, <1>6, <1>7 DEF TrackStep

LEMMA DisconnectKeepsLine ==
  ASSUME GpuInv, TypeOK', NEW j \in Jobs, Disconnect(j)
  PROVE  QueuedInv'
<1>1. /\ at' = [at EXCEPT ![j] = "ended"] /\ UNCHANGED asked
      /\ at \in [Jobs -> {"new", "fetch", "extract", "work", "ended"}]
  BY DEF Disconnect, End, Goto, GpuInv, TypeOK
<1>2. CASE /\ track' = [a \in All |-> IF a[1] = j THEN Cancelled(a) ELSE track[a]]
           /\ gpu' = Without(gpu, Tracks(j))
  <2>1. \A a \in All : track[a] \in Over => track'[a] = track[a]
    BY <1>2 DEF Cancelled, Over
  <2>2. \A a \in All : Local(a[1]) =>
            /\ track'[a] # "cut"
            /\ track'[a] \in InLine => a \notin Tracks(j) /\ track'[a] = track[a]
            /\ track[a] \in InLine /\ a \notin Tracks(j) => track'[a] = track[a]
    <3> SUFFICES ASSUME NEW a \in All, Local(a[1])
                 PROVE  /\ track'[a] # "cut"
                        /\ track'[a] \in InLine => a \notin Tracks(j) /\ track'[a] = track[a]
                        /\ track[a] \in InLine /\ a \notin Tracks(j) => track'[a] = track[a]
      OBVIOUS
    <3>1. track[a] # "cut" /\ (a \in Tracks(j) <=> a[1] = j)
      BY JobTracks, TrackOfJob DEF GpuInv, QueuedInv, CutInv
    <3>2. CASE a[1] = j
      <4>1. Cancelled(a) \notin InLine \cup {"cut"}
        BY <3>1 DEF Cancelled, InLine
      <4> QED BY <1>2, <3>1, <3>2, <4>1
    <3>3. CASE a[1] # j
      BY <1>2, <3>1, <3>3
    <3> QED BY <3>2, <3>3
  <2> QED BY <1>1, <1>2, <2>1, <2>2, TracksLeave
<1>3. CASE UNCHANGED <<track, gpu>>
  BY <1>1, <1>3 DEF GpuInv, QueuedInv, LineInv, OrderInv, BeginInv, CutInv, GpuServesOneTrack,
                    Local, HasGpu
<1> QED BY <1>2, <1>3 DEF Disconnect

\* The tracks of a job begin when none of them has.
LEMMA HandlerKeepsLine ==
  ASSUME GpuInv, TypeOK', NEW j \in Jobs, Receive(j) \/ HandlerStep(j) \/ ExtractOn(j)
  PROVE  QueuedInv'
<1>1. \/ Receive(j) \/ SaveUpload(j) \/ DownloadToTemp(j) \/ Extract(j) \/ Relay(j) \/ Break(j)
      \/ AnnounceTranscript(j) \/ SendTranscript(j) \/ ReturnText(j) \/ ExtractOn(j)
  BY DEF HandlerStep, StreamFile, StreamProject, PostFile, PostProject, CallFile, CallProject
<1>2. UNCHANGED <<asked, gpu>>
  BY <1>1 DEF Receive, SaveUpload, DownloadToTemp, Fetched, Extract, Relay, Break,
              AnnounceTranscript, SendTranscript, ReturnText, Succeed, ExtractOn, trackVars, handlerVars
<1>3. \A i \in Jobs : at'[i] \in {"new", "fetch", "extract"} =>
        at[i] \in {"new", "fetch", "extract"}
  <2>1. \/ UNCHANGED at \/ Goto(j, "work") \/ Goto(j, "ended")
        \/ at[j] \in {"new", "fetch"} /\ \E p \in {"fetch", "extract"} : Goto(j, p)
    BY <1>1 DEF Receive, SaveUpload, DownloadToTemp, Fetched, Extract, Relay, Break, End,
                AnnounceTranscript, SendTranscript, ReturnText, Succeed, ExtractOn, handlerVars
  <2>2. at \in [Jobs -> {"new", "fetch", "extract", "work", "ended"}]
    BY DEF GpuInv, TypeOK
  <2> QED BY <2>1, <2>2 DEF Goto
<1>4. \/ UNCHANGED track
      \/ /\ at[j] \in {"fetch", "extract"} /\ Goto(j, "work")
         /\ \E n \in Track \cup {1} : Begin(j, n)
  BY <1>1 DEF Receive, SaveUpload, DownloadToTemp, Fetched, Extract, Relay, Break,
              AnnounceTranscript, SendTranscript, ReturnText, Succeed, ExtractOn, trackVars
<1>5. CASE UNCHANGED track
  BY <1>2, <1>3, <1>5, TrackOfJob
  DEF GpuInv, QueuedInv, LineInv, OrderInv, BeginInv, CutInv, GpuServesOneTrack, Local, HasGpu
<1>6. ASSUME at[j] \in {"fetch", "extract"}, Goto(j, "work"), NEW n \in Track \cup {1}, Begin(j, n)
      PROVE  QueuedInv'
  <2>1. \A a \in All : a[1] = j => track[a] = "none" /\ track'[a] \in {"none", "gate"}
    BY <1>6 DEF GpuInv, QueuedInv, BeginInv, Begin
  <2>2. \A a \in All : a[1] # j => track'[a] = track[a]
    BY <1>6 DEF Begin
  <2>3. at'[j] = "work"
    BY <1>6 DEF Goto, GpuInv, TypeOK
  <2>4. \A a \in All : track[a] \in InLine <=> track'[a] \in InLine
    BY <2>1, <2>2 DEF InLine
  <2>5. \A i \in DOMAIN gpu : gpu[i] \in All
    BY ElementOfSeq, LenProperties DEF GpuInv, TypeOK
  <2>6. LineInv'
    BY <1>2, <2>4, <2>5 DEF GpuInv, QueuedInv, LineInv, OnePerJob, Local
  <2>7. OrderInv'
    <3> SUFFICES ASSUME NEW i \in Jobs, NEW t \in Track, NEW u \in Track, Local(i), t < u,
                        track'[<<i, u>>] \in InLine
                 PROVE  track'[<<i, t>>] \in Over
      BY <1>2 DEF OrderInv, Local
    <3>1. <<i, t>> \in All /\ <<i, u>> \in All /\ <<i, t>>[1] = i /\ <<i, u>>[1] = i
      BY DEF All
    <3>2. i # j
      BY <2>1, <3>1 DEF InLine
    <3> QED BY <2>2, <3>1, <3>2 DEF GpuInv, QueuedInv, OrderInv
  <2>8. BeginInv'
    BY <1>3, <2>2, <2>3, TrackOfJob DEF GpuInv, QueuedInv, BeginInv
  <2>9. CutInv' /\ GpuServesOneTrack'
    BY <1>2, <2>1, <2>2 DEF GpuInv, QueuedInv, CutInv, GpuServesOneTrack, Local, HasGpu
  <2> QED BY <2>6, <2>7, <2>8, <2>9 DEF QueuedInv
<1> QED BY <1>4, <1>5, <1>6

LEMMA GpuInit == Init => GpuInv
<1> SUFFICES ASSUME Init
             PROVE  GpuInv
  OBVIOUS
<1>1. TypeOK
  BY ScenariosAssumption, BoundsAssumption, EmptySeq DEF Init, TypeOK, Over
<1>2. LeftInv
  BY DEF Init, LeftInv
<1>3. DOMAIN gpu = {}
  BY DEF Init
<1>4. QueuedInv
  BY <1>3 DEF Init, QueuedInv, LineInv, OnePerJob, OrderInv, BeginInv, CutInv, GpuServesOneTrack,
              InLine, All, Over
<1> QED BY <1>1, <1>2, <1>4 DEF GpuInv

LEMMA GpuStep == GpuInv /\ [Next]_vars => GpuInv'
<1> SUFFICES ASSUME GpuInv, [Next]_vars
             PROVE  GpuInv'
  OBVIOUS
<1>0. TypeOK /\ LeftInv
  BY DEF GpuInv
<1>1. ASSUME NEW a \in All, TrackStep(a)
      PROVE  GpuInv'
  BY <1>0, <1>1, TrackTypes, TrackKeepsLine DEF GpuInv
<1>2. ASSUME NEW j \in Jobs, Receive(j) \/ HandlerStep(j) \/ ExtractOn(j) \/ Disconnect(j)
      PROVE  GpuInv'
  BY <1>0, <1>2, HandlerTypes, HandlerKeepsLine, DisconnectKeepsLine DEF GpuInv
<1>3. ASSUME TypeOK', UNCHANGED <<handlerVars, trackVars>>
      PROVE  GpuInv'
  BY <1>3 DEF handlerVars, trackVars, GpuInv, LeftInv, QueuedInv, LineInv, OnePerJob, OrderInv,
              BeginInv, CutInv, GpuServesOneTrack, Local, HasGpu
<1>4. ASSUME NEW j \in Jobs, Tick(j) \/ CleanupLoop \/ Unlink(j) \/ AskFor(j) \/ LinkStep(j)
      PROVE  GpuInv'
  BY <1>0, <1>3, <1>4, RegistryTypes
<1>5. CASE CleanupLoop
  <2>1. \E j \in Jobs : TRUE
    BY <1>0, <1>5 DEF CleanupLoop, Expired, TypeOK
  <2> QED BY <1>4, <1>5, <2>1
<1>6. CASE UNCHANGED vars
  BY <1>0, <1>3, <1>6 DEF vars, handlerVars, trackVars, registryVars, TypeOK
<1> QED BY <1>1, <1>2, <1>4, <1>5, <1>6 DEF Next

\* The state is of its types: in particular a queue of progress events holds no
\* more than SSE_QUEUE_MAXSIZE, since a put to a full one raises, and a chunk is
\* counted off only while some are left.
THEOREM TranscriptionTypes == Spec => []TypeOK
<1>1. GpuInv => TypeOK
  BY DEF GpuInv
<1> QED BY <1>1, GpuInit, GpuStep, PTL DEF Spec

\* Whatever is cut off, fails or finishes, a track whose handler waits for the
\* local model is the one that holds _gpu_semaphore.
THEOREM GpuIsExclusive == Spec => []GpuServesOneTrack
<1>1. GpuInv => GpuServesOneTrack
  BY DEF GpuInv, QueuedInv
<1> QED BY <1>1, GpuInit, GpuStep, PTL DEF Spec
-----------------------------------------------------------------------------
(* Audacity projects: induction, said of sets instead of predicates. *)

\* A set of naturals has a least member.
LEMMA LeastOf ==
  ASSUME NEW S, S \subseteq Nat, S # {}
  PROVE  \E x \in S : \A y \in S : x <= y
<1> DEFINE R == {ss \in Nat \X Nat : ss[1] < ss[2]}
<1>1. IsWellFoundedOn(R, Nat)
  BY NatLessThanWellFounded DEF OpToRel
<1>2. \E x \in S : \A y \in S : ~ (<<y, x>> \in R)
  <2> HIDE DEF R
  <2> QED BY <1>1, WFMin, Zenon
<1>3. PICK x \in S : \A y \in S : ~ (<<y, x>> \in R)
  BY <1>2
<1>4. ASSUME NEW y \in S
      PROVE  x <= y
  <2>1. x \in Nat /\ y \in Nat
    OBVIOUS
  <2>2. ~ (y < x)
    BY <2>1, <1>3
  <2> QED BY <2>1, <2>2
<1> QED BY <1>4

\* What holds at 0 and passes from each number to the next holds up to N.
LEMMA UpTo ==
  ASSUME NEW N \in Nat, NEW S, 0 \in S, \A n \in 1 .. N : n - 1 \in S => n \in S
  PROVE  \A n \in 0 .. N : n \in S
<1> DEFINE T == 0 .. N \ S
<1> SUFFICES ASSUME T # {} PROVE FALSE
  OBVIOUS
<1>1. T \subseteq Nat
  OBVIOUS
<1>2. PICK x \in T : \A y \in T : x <= y
  <2> HIDE DEF T
  <2> QED BY <1>1, LeastOf
<1>3. x \in 1 .. N
  BY <1>2
<1>4. x - 1 \in S
  BY <1>2, <1>3
<1> QED BY <1>2, <1>3, <1>4

\* A function that is given by its first value and a step exists.
Follows(f, N, base, step) ==
  f[0] = base /\ \A n \in 1 .. N : f[n] = step[<<f[n - 1], n>>]

LEMMA Recursion ==
  ASSUME NEW N \in Nat, NEW S, NEW base \in S, NEW step \in [S \X (1 .. N) -> S]
  PROVE  \E f \in [0 .. N -> S] : Follows(f, N, base, step)
<1> USE DEF Follows
<1> DEFINE Good(f, m) == f[0] = base /\ \A n \in 1 .. m : f[n] = step[<<f[n - 1], n>>]
           Q == {m \in 0 .. N : \E f \in [0 .. m -> S] : Good(f, m)}
<1>1. 0 \in Q
  <2> DEFINE g == [n \in 0 .. 0 |-> base]
  <2>1. g \in [0 .. 0 -> S] /\ Good(g, 0)
    OBVIOUS
  <2> HIDE DEF g
  <2>2. \E f \in [0 .. 0 -> S] : Good(f, 0)
    BY <2>1
  <2> QED BY <2>2
<1>2. ASSUME NEW m \in 1 .. N, m - 1 \in Q
      PROVE  m \in Q
  <2>1. PICK f \in [0 .. m - 1 -> S] : Good(f, m - 1)
    BY <1>2
  <2> DEFINE g == [n \in 0 .. m |-> IF n = m THEN step[<<f[m - 1], m>>] ELSE f[n]]
  <2>2. m - 1 \in 0 .. m - 1 /\ f[m - 1] \in S
    BY <2>1
  <2>3. step[<<f[m - 1], m>>] \in S
    BY <2>2
  <2>4. g \in [0 .. m -> S] /\ g[0] = base
    BY <2>1, <2>3
  <2>5. ASSUME NEW n \in 1 .. m
        PROVE  g[n] = step[<<g[n - 1], n>>]
    <3>0. n - 1 \in 0 .. m - 1 /\ n - 1 \in 0 .. m /\ n \in 0 .. m
      OBVIOUS
    <3>1. g[n - 1] = f[n - 1]
      BY <3>0
    <3>2. CASE n = m
      BY <3>1, <3>2, <3>0
    <3>3. CASE n # m
      <4>1. n \in 1 .. m - 1
        BY <3>3
      <4>2. g[n] = f[n]
        BY <3>3, <3>0
      <4>3. f[n] = step[<<f[n - 1], n>>]
        BY <4>1, <2>1
      <4> QED BY <4>2, <4>3, <3>1
    <3> QED BY <3>2, <3>3
  <2>6. Good(g, m)
    BY <2>4, <2>5
  <2> HIDE DEF g
  <2>7. \E h \in [0 .. m -> S] : Good(h, m)
    BY <2>4, <2>6
  <2> QED BY <2>7
<1>3. \A m \in 0 .. N : m \in Q
  <2> HIDE DEF Q
  <2> QED BY <1>1, <1>2, UpTo
<1> QED BY <1>3
-----------------------------------------------------------------------------
(* Sequences whose elements are, one to one, those of a set. *)

OneToOne(g, A, B) ==
  /\ g \in [A -> B]
  /\ \A a, b \in A : g[a] = g[b] => a = b
  /\ \A y \in B : \E a \in A : g[a] = y

\* Sets whose members correspond one to one are of the same size.
LEMMA CountedAlike ==
  ASSUME NEW A, NEW B, NEW g, IsFiniteSet(A), OneToOne(g, A, B)
  PROVE  IsFiniteSet(B) /\ Cardinality(B) = Cardinality(A)
<1>1. g \in Bijection(A, B)
  BY DEF OneToOne, Bijection, Injection, Surjection, IsInjective
<1>2. ExistsBijection(A, B)
  BY <1>1 DEF ExistsBijection
<1> QED BY <1>2, FS_Bijection

\* Correspondences one after the other.
LEMMA Composed ==
  ASSUME NEW A, NEW B, NEW C, NEW f, NEW g, OneToOne(f, A, B), OneToOne(g, B, C)
  PROVE  OneToOne([a \in A |-> g[f[a]]], A, C)
BY DEF OneToOne

\* The part of the source that lands in a part of the target.
LEMMA Restricted ==
  ASSUME NEW A, NEW B, NEW g, OneToOne(g, A, B), NEW D \in SUBSET B
  PROVE  OneToOne([a \in {b \in A : g[b] \in D} |-> g[a]], {b \in A : g[b] \in D}, D)
BY DEF OneToOne

\* A function that is one and then another.
Spliced(f, m, g, n, h) ==
  (\A k \in 1 .. m : f[k] = g[k]) /\ (\A k \in 1 .. n : f[k + m] = h[k])

\* A correspondence with two disjoint sets, of one sequence and then another.
LEMMA Joined ==
  ASSUME NEW m \in Nat, NEW n \in Nat, NEW P, NEW Q, P \cap Q = {}, NEW g, NEW h,
         OneToOne(g, 1 .. m, P), OneToOne(h, 1 .. n, Q)
  PROVE  \E f : OneToOne(f, 1 .. m + n, P \cup Q) /\ Spliced(f, m, g, n, h)
<1> DEFINE f == [k \in 1 .. m + n |-> IF k <= m THEN g[k] ELSE h[k - m]]
<1>1. \A k \in 1 .. m : k \in 1 .. m + n /\ f[k] = g[k] /\ g[k] \in P
  BY DEF OneToOne
<1>2. \A k \in 1 .. n : k + m \in 1 .. m + n /\ f[k + m] = h[k] /\ h[k] \in Q
  <2> TAKE k \in 1 .. n
  <2>1. k + m \in 1 .. m + n /\ ~ (k + m <= m) /\ (k + m) - m = k
    OBVIOUS
  <2> QED BY <2>1 DEF OneToOne
<1>3. \A k \in 1 .. m + n :
        \/ k \in 1 .. m
        \/ k - m \in 1 .. n /\ (k - m) + m = k
  OBVIOUS
<1>4. DOMAIN f = 1 .. m + n /\ f = [k \in 1 .. m + n |-> f[k]]
  OBVIOUS
<1> HIDE DEF f
<1>5. ASSUME NEW k \in 1 .. m + n
      PROVE  f[k] \in P \cup Q
  BY <1>1, <1>2, <1>3
<1>6. ASSUME NEW k \in 1 .. m + n, NEW l \in 1 .. m + n, f[k] = f[l]
      PROVE  k = l
  <2>1. CASE k \in 1 .. m /\ l \in 1 .. m
    BY <2>1, <1>1, <1>6 DEF OneToOne
  <2>2. CASE k \in 1 .. m /\ l - m \in 1 .. n /\ (l - m) + m = l
    <3>1. f[k] \in P
      BY <2>2, <1>1
    <3>2. f[l] \in Q
      BY <2>2, <1>2
    <3> QED BY <3>1, <3>2, <1>6
  <2>3. CASE l \in 1 .. m /\ k - m \in 1 .. n /\ (k - m) + m = k
    <3>1. f[l] \in P
      BY <2>3, <1>1
    <3>2. f[k] \in Q
      BY <2>3, <1>2
    <3> QED BY <3>1, <3>2, <1>6
  <2>4. CASE k - m \in 1 .. n /\ (k - m) + m = k /\ l - m \in 1 .. n /\ (l - m) + m = l
    <3>1. f[k] = h[k - m] /\ f[l] = h[l - m]
      BY <2>4, <1>2
    <3>2. k - m = l - m
      BY <3>1, <2>4, <1>6 DEF OneToOne
    <3> QED BY <3>2
  <2> QED BY <1>3, <2>1, <2>2, <2>3, <2>4
<1>7. ASSUME NEW y \in P \cup Q
      PROVE  \E k \in 1 .. m + n : f[k] = y
  <2>1. CASE y \in P
    <3>1. PICK k \in 1 .. m : g[k] = y
      BY <2>1 DEF OneToOne
    <3> QED BY <3>1, <1>1
  <2>2. CASE y \in Q
    <3>1. PICK k \in 1 .. n : h[k] = y
      BY <2>2 DEF OneToOne
    <3> QED BY <3>1, <1>2
  <2> QED BY <2>1, <2>2
<1>8. f \in [1 .. m + n -> P \cup Q]
  BY <1>4, <1>5
<1>9. OneToOne(f, 1 .. m + n, P \cup Q)
  BY <1>6, <1>7, <1>8 DEF OneToOne
<1>10. Spliced(f, m, g, n, h)
  BY <1>1, <1>2 DEF Spliced
<1> QED BY <1>9, <1>10
-----------------------------------------------------------------------------
(* Sorting. *)

\* What stands before what after a stable sort.
Before(key, i, k) == key[i] < key[k] \/ (key[i] = key[k] /\ i < k)

\* A sorted sequence has every element once, by its key and then by its place.
LEMMA Sorting ==
  ASSUME NEW S, NEW s \in Seq(S), NEW key \in [1 .. Len(s) -> Nat]
  PROVE  /\ Sorted(s, key) \in Seq(S) /\ Len(Sorted(s, key)) = Len(s)
         /\ \E h : /\ OneToOne(h, 1 .. Len(s), 1 .. Len(s))
                   /\ \A n \in 1 .. Len(s) : Sorted(s, key)[n] = s[h[n]]
                   /\ \A n, m \in 1 .. Len(s) : n < m => Before(key, h[n], h[m])
<1> DEFINE N == Len(s)
           Below(i) == {k \in 1 .. N : key[k] < key[i] \/ (key[k] = key[i] /\ k <= i)}
           p == [i \in 1 .. N |-> Cardinality(Below(i))]
           h == [n \in 1 .. N |-> CHOOSE i \in 1 .. N : p[i] = n]
<1>1. N \in Nat /\ DOMAIN s = 1 .. N /\ \A n \in 1 .. N : s[n] \in S
  BY LenProperties, ElementOfSeq
<1>2. \A i : Place(key, i) = Cardinality(Below(i))
  BY DEF Place
<1> HIDE DEF N
<1>3. \A i \in 1 .. N : key[i] \in Nat
  BY DEF N
<1>4. IsFiniteSet(1 .. N) /\ Cardinality(1 .. N) = N
  BY <1>1, FS_Interval
<1>5. ASSUME NEW i \in 1 .. N
      PROVE  IsFiniteSet(Below(i)) /\ i \in Below(i) /\ p[i] \in 1 .. N
  <2>1. i \in Below(i) /\ Below(i) \in SUBSET (1 .. N)
    BY <1>3
  <2> HIDE DEF Below
  <2>2. IsFiniteSet(Below(i)) /\ Cardinality(Below(i)) <= N
    BY <2>1, <1>4, FS_Subset
  <2>3. Cardinality(Below(i)) \in Nat
    BY <2>2, FS_CardinalityType
  <2>4. Cardinality(Below(i)) # 0
    BY <2>1, <2>2, FS_EmptySet
  <2> QED BY <2>1, <2>2, <2>3, <2>4, <1>1
<1>6. ASSUME NEW i \in 1 .. N, NEW k \in 1 .. N, Before(key, i, k)
      PROVE  p[i] < p[k]
  <2>0. key[i] \in Nat /\ key[k] \in Nat
    BY <1>3
  <2>1. Below(i) \in SUBSET Below(k)
    <3> SUFFICES ASSUME NEW l \in 1 .. N, key[l] < key[i] \/ (key[l] = key[i] /\ l <= i)
                 PROVE  key[l] < key[k] \/ (key[l] = key[k] /\ l <= k)
      OBVIOUS
    <3>1. key[l] \in Nat
      BY <1>3
    <3> QED BY <2>0, <3>1, <1>6, <1>1 DEF Before
  <2>2. k \notin Below(i) /\ k \in Below(k)
    BY <1>6, <2>0 DEF Before
  <2> HIDE DEF Below
  <2>3. IsFiniteSet(Below(k)) /\ IsFiniteSet(Below(i))
    BY <1>5
  <2>4. Cardinality(Below(i)) <= Cardinality(Below(k))
        /\ Cardinality(Below(k)) # Cardinality(Below(i))
    BY <2>1, <2>2, <2>3, FS_Subset
  <2>5. Cardinality(Below(i)) \in Nat /\ Cardinality(Below(k)) \in Nat
    BY <2>3, FS_CardinalityType
  <2> QED BY <2>4, <2>5
<1> HIDE DEF p
<1>7. \A i, k \in 1 .. N : i # k => Before(key, i, k) \/ Before(key, k, i)
  BY <1>3, <1>1 DEF Before
<1>8. \A i, k \in 1 .. N : p[i] = p[k] => i = k
  <2> TAKE i, k \in 1 .. N
  <2> HIDE DEF Below, h
  <2>1. p[i] \in Nat /\ p[k] \in Nat
    BY <1>5, <1>1
  <2>2. i # k => p[i] < p[k] \/ p[k] < p[i]
    BY <1>6, <1>7
  <2> QED BY <2>1, <2>2
<1>9. p \in Injection(1 .. N, 1 .. N)
  <2>1. p = [i \in 1 .. N |-> p[i]]
    BY DEF p
  <2>2. p \in [1 .. N -> 1 .. N]
    BY <2>1, <1>5
  <2> QED BY <2>2, <1>8 DEF Injection, IsInjective
<1>10. p \in Surjection(1 .. N, 1 .. N)
  BY <1>9, <1>4, FS_Injection
<1>11. \A n \in 1 .. N : \E i \in 1 .. N : p[i] = n
  BY <1>10 DEF Surjection
<1>12. ASSUME NEW n \in 1 .. N
       PROVE  h[n] \in 1 .. N /\ p[h[n]] = n
  BY <1>11
<1>13. ASSUME NEW i \in 1 .. N
       PROVE  h[p[i]] = i
  <2>1. p[i] \in 1 .. N
    BY <1>5
  <2> HIDE DEF h
  <2>2. h[p[i]] \in 1 .. N /\ p[h[p[i]]] = p[i]
    BY <2>1, <1>12
  <2> QED BY <2>2, <1>8
<1>14. h = [n \in 1 .. N |-> h[n]]
  OBVIOUS
<1>15. ASSUME NEW n \in 1 .. N
       PROVE  Sorted(s, key)[n] = s[h[n]]
  <2>1. \A i \in 1 .. N : Place(key, i) = p[i]
    BY <1>2 DEF p
  <2>2. (CHOOSE i \in DOMAIN s : Place(key, i) = n) = (CHOOSE i \in 1 .. N : p[i] = n)
    BY <2>1, <1>1
  <2>3. Sorted(s, key)[n] = s[CHOOSE i \in DOMAIN s : Place(key, i) = n]
    <3> HIDE DEF Below, h
    <3> QED BY <1>1 DEF Sorted
  <2>4. h[n] = CHOOSE i \in 1 .. N : p[i] = n
    OBVIOUS
  <2> HIDE DEF Below, h
  <2> QED BY <2>2, <2>3, <2>4
<1> HIDE DEF h
<1>16. OneToOne(h, 1 .. N, 1 .. N)
  <2>1. h \in [1 .. N -> 1 .. N]
    BY <1>12, <1>14
  <2>2. \A n, m \in 1 .. N : h[n] = h[m] => n = m
    BY <1>12
  <2>3. \A y \in 1 .. N : \E n \in 1 .. N : h[n] = y
    BY <1>13, <1>5
  <2> QED BY <2>1, <2>2, <2>3 DEF OneToOne
<1>17. ASSUME NEW n \in 1 .. N, NEW m \in 1 .. N, n < m
       PROVE  Before(key, h[n], h[m])
  <2>1. h[n] \in 1 .. N /\ h[m] \in 1 .. N /\ p[h[n]] = n /\ p[h[m]] = m
    BY <1>12
  <2>2. h[n] # h[m]
    BY <2>1, <1>17
  <2>3. ~ Before(key, h[m], h[n])
    <3>1. Before(key, h[m], h[n]) => p[h[m]] < p[h[n]]
      BY <2>1, <1>6
    <3> QED BY <3>1, <2>1, <1>17, <1>1
  <2> QED BY <2>1, <2>2, <2>3, <1>7
<1>18. Sorted(s, key) \in Seq(S) /\ Len(Sorted(s, key)) = N
  <2>1. Sorted(s, key) \in [1 .. N -> S]
    <3>1. \A n \in 1 .. N : s[h[n]] \in S
      BY <1>1, <1>12
    <3>2. DOMAIN Sorted(s, key) = 1 .. N
          /\ Sorted(s, key) = [n \in 1 .. N |-> Sorted(s, key)[n]]
      BY <1>1 DEF Sorted
    <3> QED BY <3>1, <3>2, <1>15
  <2>2. Sorted(s, key) \in Seq(S)
    BY <2>1, <1>1, SeqDef
  <2> QED BY <2>1, <2>2, <1>1, LenProperties
<1> QED BY <1>15, <1>16, <1>17, <1>18 DEF N
-----------------------------------------------------------------------------
(* Those of a sequence that are in a set. *)

\* Each element is kept or left out by itself.
LEMMA ChosenSteps ==
  ASSUME NEW T, NEW s \in Seq(T), NEW S
  PROVE  /\ Chosen(s, S) \in [0 .. Len(s) -> Seq(T)]
         /\ Chosen(s, S)[0] = <<>>
         /\ \A n \in 1 .. Len(s) :
              Chosen(s, S)[n] = IF s[n] \in S THEN Append(Chosen(s, S)[n - 1], s[n])
                                ELSE Chosen(s, S)[n - 1]
<1> DEFINE N == Len(s)
           More(x, n) == x \o (IF s[n] \in S THEN <<s[n]>> ELSE <<>>)
           P(f) == f = [n \in 0 .. N |-> IF n = 0 THEN <<>> ELSE More(f[n - 1], n)]
           step == [x \in Seq(T) \X (1 .. N) |-> More(x[1], x[2])]
           c == Chosen(s, S)
<1>1. N \in Nat /\ \A n \in 1 .. N : s[n] \in T
  BY LenProperties, ElementOfSeq
<1>2. <<>> \in Seq(T)
  BY EmptySeq
<1> HIDE DEF N
<1>3. ASSUME NEW x \in Seq(T), NEW n \in 1 .. N
      PROVE  More(x, n) \in Seq(T)
  <2>1. <<s[n]>> \in Seq(T) /\ <<>> \in Seq(T)
    BY <1>1, <1>2
  <2>2. (IF s[n] \in S THEN <<s[n]>> ELSE <<>>) \in Seq(T)
    BY <2>1
  <2> QED BY <2>2, ConcatProperties
<1>4. c = CHOOSE g : P(g)
  BY DEF Chosen, N
<1> HIDE DEF More, c
<1>5. step \in [Seq(T) \X (1 .. N) -> Seq(T)]
  BY <1>3
<1>6. \A x \in Seq(T), n \in 1 .. N : step[<<x, n>>] = More(x, n)
  OBVIOUS
<1> HIDE DEF step
<1>7. PICK f \in [0 .. N -> Seq(T)] : Follows(f, N, <<>>, step)
  BY <1>1, <1>2, <1>5, Recursion
<1>8. P(f)
  <2> DEFINE g == [n \in 0 .. N |-> IF n = 0 THEN <<>> ELSE More(f[n - 1], n)]
  <2>1. ASSUME NEW n \in 0 .. N
        PROVE  f[n] = g[n]
    <3>1. CASE n = 0
      BY <3>1, <1>7 DEF Follows
    <3>2. CASE n # 0
      <4>1. n \in 1 .. N /\ n - 1 \in 0 .. N
        BY <3>2, <1>1
      <4>2. f[n] = More(f[n - 1], n)
        BY <4>1, <1>6, <1>7 DEF Follows
      <4> QED BY <3>2, <4>2
    <3> QED BY <3>1, <3>2
  <2>2. DOMAIN g = 0 .. N /\ g = [n \in 0 .. N |-> g[n]]
    OBVIOUS
  <2>3. f = [n \in 0 .. N |-> f[n]]
    OBVIOUS
  <2> HIDE DEF g
  <2>4. f = g
    BY <2>1, <2>2, <2>3
  <2> QED BY <2>4 DEF g
<1>9. P(c)
  <2> HIDE DEF P
  <2> QED BY <1>4, <1>8
<1>10. c[0] = <<>> /\ \A n \in 1 .. N : c[n] = More(c[n - 1], n)
  <2> DEFINE g == [n \in 0 .. N |-> IF n = 0 THEN <<>> ELSE More(c[n - 1], n)]
  <2>1. c = g
    BY <1>9
  <2>2. g[0] = <<>> /\ \A n \in 1 .. N : g[n] = More(c[n - 1], n)
    BY <1>1
  <2> HIDE DEF g
  <2> QED BY <2>1, <2>2
<1>11. c = [n \in 0 .. N |-> c[n]]
  BY <1>9
<1> HIDE DEF P
<1>12. c \in [0 .. N -> Seq(T)]
  <2> DEFINE J == {n \in 0 .. N : c[n] \in Seq(T)}
  <2>1. 0 \in J
    <3>1. 0 \in 0 .. N
      BY <1>1
    <3>2. c[0] \in Seq(T)
      BY <1>2, <1>10, Zenon
    <3> QED BY <3>1, <3>2
  <2>2. ASSUME NEW n \in 1 .. N, n - 1 \in J
        PROVE  n \in J
    <3>1. n \in 0 .. N /\ n - 1 \in 0 .. N
      BY <1>1
    <3>2. c[n - 1] \in Seq(T)
      BY <2>2
    <3>3. More(c[n - 1], n) \in Seq(T)
      BY <3>2, <1>3
    <3>4. c[n] \in Seq(T)
      BY <3>3, <1>10
    <3> QED BY <3>1, <3>4
  <2> HIDE DEF J
  <2>3. \A n \in 0 .. N : n \in J
    BY <1>1, <2>1, <2>2, UpTo
  <2>4. \A n \in 0 .. N : c[n] \in Seq(T)
    BY <2>3 DEF J
  <2> QED BY <1>11, <2>4
<1>13. ASSUME NEW n \in 1 .. N
       PROVE  c[n] = IF s[n] \in S THEN Append(c[n - 1], s[n]) ELSE c[n - 1]
  <2>1. c[n - 1] \in Seq(T) /\ s[n] \in T
    BY <1>1, <1>12
  <2>2. c[n - 1] \o <<>> = c[n - 1]
    BY <2>1, ConcatEmptySeq
  <2>3. c[n - 1] \o <<s[n]>> = Append(c[n - 1], s[n])
    BY <2>1, AppendIsConcat
  <2>4. CASE s[n] \in S
    BY <1>10, <2>3, <2>4 DEF More
  <2>5. CASE s[n] \notin S
    BY <1>10, <2>2, <2>5 DEF More
  <2> QED BY <2>4, <2>5
<1> QED BY <1>10, <1>12, <1>13 DEF N, c

\* c has the elements of s that are in S, in their order.
Picks(h, c, s, S) ==
  /\ OneToOne(h, 1 .. Len(c), {b \in 1 .. Len(s) : s[b] \in S})
  /\ \A m \in 1 .. Len(c) : c[m] = s[h[m]]
  /\ \A m, k \in 1 .. Len(c) : m < k => h[m] < h[k]

\* The chosen are those in the set, each once, in their order.
LEMMA Choosing ==
  ASSUME NEW T, NEW s \in Seq(T), NEW S
  PROVE  /\ Chosen(s, S)[Len(s)] \in Seq(T)
         /\ \E h : Picks(h, Chosen(s, S)[Len(s)], s, S)
<1> DEFINE N == Len(s)
           kept == Chosen(s, S)
           In(n) == {b \in 1 .. n : s[b] \in S}
           Keeps(h, n) == /\ OneToOne(h, 1 .. Len(kept[n]), In(n))
                          /\ \A m \in 1 .. Len(kept[n]) : kept[n][m] = s[h[m]]
                          /\ \A m, k \in 1 .. Len(kept[n]) : m < k => h[m] < h[k]
           Q == {n \in 0 .. N : \E h : Keeps(h, n)}
<1>1. N \in Nat /\ \A n \in 1 .. N : s[n] \in T
  BY LenProperties, ElementOfSeq
<1>2. /\ kept \in [0 .. N -> Seq(T)] /\ kept[0] = <<>>
      /\ \A n \in 1 .. N : kept[n] = IF s[n] \in S THEN Append(kept[n - 1], s[n]) ELSE kept[n - 1]
  <2> HIDE DEF In, Keeps, Q
  <2> QED BY ChosenSteps
<1> HIDE DEF N, kept
<1>3. 0 \in Q
  <2>1. Len(kept[0]) = 0 /\ In(0) = {}
    BY <1>2, EmptySeq
  <2>2. Keeps([m \in 1 .. 0 |-> 0], 0)
    BY <2>1 DEF OneToOne
  <2> HIDE DEF Keeps
  <2> QED BY <2>2, <1>1
<1>4. ASSUME NEW n \in 1 .. N, n - 1 \in Q
      PROVE  n \in Q
  <2>0. n \in Nat /\ n - 1 \in 0 .. N /\ n \in 0 .. N
    BY <1>1
  <2>1. PICK h : Keeps(h, n - 1)
    BY <1>4
  <2> DEFINE o == kept[n - 1]
  <2>2. o \in Seq(T) /\ Len(o) \in Nat
    BY <1>2, <2>0, LenProperties
  <2>3. CASE s[n] \notin S
    <3>1. kept[n] = o
      BY <2>3, <1>2
    <3>2. In(n) = In(n - 1)
      BY <2>3, <2>0
    <3>3. Keeps(h, n)
      <4> HIDE DEF In
      <4> QED BY <2>1, <3>1, <3>2
    <3> QED BY <3>3, <2>0
  <2>4. CASE s[n] \in S
    <3> DEFINE L == Len(o)
               last == [k \in 1 .. 1 |-> n]
    <3>1. kept[n] = Append(o, s[n])
      BY <2>4, <1>2
    <3>2. Len(kept[n]) = L + 1 /\ kept[n][L + 1] = s[n]
          /\ \A k \in 1 .. L : kept[n][k] = o[k]
      BY <3>1, <2>2, <1>1, AppendProperties
    <3>3. In(n) = In(n - 1) \cup {n} /\ In(n - 1) \cap {n} = {}
      BY <2>4, <2>0
    <3>4. OneToOne(last, 1 .. 1, {n})
      BY DEF OneToOne
    <3>5. OneToOne(h, 1 .. L, In(n - 1))
      BY <2>1
    <3>a. \A k \in 1 .. L : h[k] \in In(n - 1) /\ h[k] < n
      BY <3>5, <2>0 DEF OneToOne
    <3>b. L \in Nat
      BY <2>2
    <3> HIDE DEF L, last, Keeps, Q, o
    <3>6. PICK g : OneToOne(g, 1 .. L + 1, In(n - 1) \cup {n}) /\ Spliced(g, L, h, 1, last)
      <4> HIDE DEF In
      <4>1. 1 \in Nat
        OBVIOUS
      <4> QED BY <3>b, <4>1, <3>3, <3>4, <3>5, Joined
    <3>7. g[L + 1] = n /\ \A k \in 1 .. L : g[k] = h[k]
      BY <3>6, <3>b DEF last, Spliced
    <3>8. \A k \in 1 .. L + 1 : k \in 1 .. L \/ k = L + 1
      BY <3>b
    <3>c. \A k \in 1 .. L : o[k] = s[h[k]]
      BY <2>1 DEF L, o, Keeps
    <3>d. \A m, k \in 1 .. L : m < k => h[m] < h[k]
      BY <2>1 DEF L, o, Keeps
    <3>9. \A k \in 1 .. L + 1 : kept[n][k] = s[g[k]]
      BY <3>2, <3>7, <3>8, <3>c
    <3>10. \A m, k \in 1 .. L + 1 : m < k => g[m] < g[k]
      <4> TAKE m, k \in 1 .. L + 1
      <4>1. CASE k \in 1 .. L
        <5>1. m < k => m \in 1 .. L
          BY <4>1, <3>b
        <5> QED BY <5>1, <4>1, <3>7, <3>d
      <4>2. CASE k = L + 1
        <5>1. m < k => m \in 1 .. L
          BY <4>2, <3>b
        <5> QED BY <5>1, <4>2, <3>7, <3>a
      <4> QED BY <4>1, <4>2, <3>8
    <3>11. Keeps(g, n)
      <4> HIDE DEF In
      <4> QED BY <3>2, <3>3, <3>6, <3>9, <3>10 DEF Keeps
    <3> QED BY <3>11, <2>0 DEF Q
  <2> QED BY <2>3, <2>4
<1> HIDE DEF Q
<1>5. N \in Q
  <2>1. \A n \in 0 .. N : n \in Q
    BY <1>1, <1>3, <1>4, UpTo
  <2> QED BY <2>1, <1>1
<1>6. \E h : Keeps(h, N)
  BY <1>5 DEF Q
<1>7. kept[N] \in Seq(T)
  BY <1>1, <1>2
<1> QED BY <1>6, <1>7 DEF N, kept, Picks
-----------------------------------------------------------------------------
(* Audio. *)

Wav == [said : Seq(Segment), length : Nat]

\* z is x and then y.
Thereafter(z, x, y) ==
  /\ z \in Wav
  /\ z.length = x.length + y.length
  /\ Len(z.said) = Len(x.said) + Len(y.said)
  /\ \A k \in 1 .. Len(x.said) : z.said[k] = x.said[k]
  /\ \A k \in 1 .. Len(y.said) :
       /\ z.said[k + Len(x.said)].text = y.said[k].text
       /\ z.said[k + Len(x.said)].start = y.said[k].start + x.length

\* Concat joins what is said, the second later by the length of the first.
LEMMA Concatenated ==
  ASSUME NEW x \in Wav, NEW y \in Wav
  PROVE  Thereafter(Concat(x, y), x, y)
<1> DEFINE p == x.said
           q == y.said
           m == Len(p)
           n == Len(q)
           d == x.length
           later == [i \in DOMAIN q |-> [q[i] EXCEPT !.start = @ + d]]
<1>1. p \in Seq(Segment) /\ q \in Seq(Segment) /\ d \in Nat /\ y.length \in Nat
  BY DEF Wav
<1>2. Concat(x, y) = [said |-> p \o later, length |-> d + y.length]
  BY DEF Concat
<1> HIDE DEF p, q, d
<1>3. /\ m \in Nat /\ n \in Nat /\ DOMAIN q = 1 .. n
      /\ \A k \in 1 .. n : q[k] \in Segment
  BY <1>1, LenProperties, ElementOfSeq
<1>4. ASSUME NEW k \in 1 .. n
      PROVE  /\ later[k] = [text |-> q[k].text, start |-> q[k].start + d]
             /\ later[k] \in Segment
  <2>1. PICK t \in File, z \in Nat : q[k] = [text |-> t, start |-> z]
    BY <1>3 DEF Segment
  <2>2. later[k] = [q[k] EXCEPT !.start = @ + d]
    BY <1>3
  <2>3. later[k] = [text |-> t, start |-> z + d]
    BY <2>1, <2>2
  <2>4. z + d \in Nat
    BY <1>1
  <2> HIDE DEF later
  <2> QED BY <2>1, <2>3, <2>4 DEF Segment
<1>5. later \in [1 .. n -> Segment]
  BY <1>3, <1>4
<1> HIDE DEF later, m, n
<1>6. later \in Seq(Segment) /\ Len(later) = n
  <2>1. later \in Seq(Segment)
    BY <1>3, <1>5, SeqDef
  <2> QED BY <2>1, <1>3, <1>5, LenProperties
<1>7. /\ p \o later \in Seq(Segment) /\ Len(p \o later) = m + n
      /\ \A k \in 1 .. m + n : (p \o later)[k] = IF k <= m THEN p[k] ELSE later[k - m]
  BY <1>1, <1>6, ConcatProperties DEF m
<1>8. \A k \in 1 .. m : (p \o later)[k] = p[k]
  BY <1>3, <1>7
<1>9. ASSUME NEW k \in 1 .. n
      PROVE  (p \o later)[k + m] = later[k]
  <2>1. k + m \in 1 .. m + n /\ ~ (k + m <= m) /\ (k + m) - m = k
    BY <1>3
  <2> QED BY <2>1, <1>7
<1>10. ASSUME NEW k \in 1 .. n
       PROVE  /\ (p \o later)[k + m].text = q[k].text
              /\ (p \o later)[k + m].start = q[k].start + d
  <2>1. later[k] = [text |-> q[k].text, start |-> q[k].start + d]
    BY <1>4
  <2>2. later[k].text = q[k].text /\ later[k].start = q[k].start + d
    BY <2>1
  <2> QED BY <2>2, <1>9
<1>11. Concat(x, y).said = p \o later /\ Concat(x, y).length = d + y.length
  BY <1>2
<1>12. Concat(x, y) \in Wav
  BY <1>1, <1>2, <1>7 DEF Wav
<1> QED BY <1>7, <1>8, <1>10, <1>11, <1>12 DEF m, n, p, q, d, Thereafter

\* A file is audio of its own length that says itself at its beginning.
LEMMA OfOneFile ==
  ASSUME NEW f \in File
  PROVE  /\ Audio(f) \in Wav /\ Audio(f).length \in Nat \ {0}
         /\ Audio(f).length = Duration[f]
         /\ Len(Audio(f).said) = 1 /\ Audio(f).said[1] = [text |-> f, start |-> 0]
<1>1. Duration[f] \in Nat \ {0}
  BY FilesAssumption
<1>2. [text |-> f, start |-> 0] \in Segment
  BY DEF Segment
<1> QED BY <1>1, <1>2 DEF Audio, Wav

\* Silence is audio in which nothing is said.
LEMMA OfSilence ==
  ASSUME NEW n \in Nat
  PROVE  Silence(n) \in Wav /\ Silence(n).said = <<>> /\ Silence(n).length = n
BY EmptySeq DEF Silence, Wav

\* How long the first n of the files are.
Elapsed(files) ==
  LET sum[n \in 0 .. Len(files)] == IF n = 0 THEN 0 ELSE sum[n - 1] + Duration[files[n]]
  IN sum

\* The time elapsed grows by the length of each file.
LEMMA ElapsedSteps ==
  ASSUME NEW files \in Seq(File)
  PROVE  /\ Elapsed(files) \in [0 .. Len(files) -> Nat]
         /\ Elapsed(files)[0] = 0
         /\ \A n \in 1 .. Len(files) :
              Elapsed(files)[n] = Elapsed(files)[n - 1] + Duration[files[n]]
<1> DEFINE N == Len(files)
           More(x, n) == x + Duration[files[n]]
           P(f) == f = [n \in 0 .. N |-> IF n = 0 THEN 0 ELSE More(f[n - 1], n)]
           step == [x \in Nat \X (1 .. N) |-> More(x[1], x[2])]
           c == Elapsed(files)
<1>1. N \in Nat /\ \A n \in 1 .. N : files[n] \in File
  BY LenProperties, ElementOfSeq
<1>2. 0 \in Nat
  OBVIOUS
<1> HIDE DEF N
<1>3. ASSUME NEW x \in Nat, NEW n \in 1 .. N
      PROVE  More(x, n) \in Nat
  BY <1>1, FilesAssumption
<1>4. c = CHOOSE g : P(g)
  BY DEF Elapsed, N
<1> HIDE DEF More, c
<1>5. step \in [Nat \X (1 .. N) -> Nat]
  BY <1>3
<1>6. \A x \in Nat, n \in 1 .. N : step[<<x, n>>] = More(x, n)
  OBVIOUS
<1> HIDE DEF step
<1>7. PICK f \in [0 .. N -> Nat] : Follows(f, N, 0, step)
  BY <1>1, <1>2, <1>5, Recursion
<1>8. P(f)
  <2> DEFINE g == [n \in 0 .. N |-> IF n = 0 THEN 0 ELSE More(f[n - 1], n)]
  <2>1. ASSUME NEW n \in 0 .. N
        PROVE  f[n] = g[n]
    <3>1. CASE n = 0
      BY <3>1, <1>7 DEF Follows
    <3>2. CASE n # 0
      <4>1. n \in 1 .. N /\ n - 1 \in 0 .. N
        BY <3>2, <1>1
      <4>2. f[n] = More(f[n - 1], n)
        BY <4>1, <1>6, <1>7 DEF Follows
      <4> QED BY <3>2, <4>2
    <3> QED BY <3>1, <3>2
  <2>2. DOMAIN g = 0 .. N /\ g = [n \in 0 .. N |-> g[n]]
    OBVIOUS
  <2>3. f = [n \in 0 .. N |-> f[n]]
    OBVIOUS
  <2> HIDE DEF g
  <2>4. f = g
    BY <2>1, <2>2, <2>3
  <2> QED BY <2>4 DEF g
<1>9. P(c)
  <2> HIDE DEF P
  <2> QED BY <1>4, <1>8
<1>10. c[0] = 0 /\ \A n \in 1 .. N : c[n] = More(c[n - 1], n)
  <2> DEFINE g == [n \in 0 .. N |-> IF n = 0 THEN 0 ELSE More(c[n - 1], n)]
  <2>1. c = g
    BY <1>9
  <2>2. g[0] = 0 /\ \A n \in 1 .. N : g[n] = More(c[n - 1], n)
    BY <1>1
  <2> HIDE DEF g
  <2> QED BY <2>1, <2>2
<1>11. c = [n \in 0 .. N |-> c[n]]
  BY <1>9
<1> HIDE DEF P
<1>12. c \in [0 .. N -> Nat]
  <2> DEFINE S == {n \in 0 .. N : c[n] \in Nat}
  <2>1. 0 \in S
    <3>1. 0 \in 0 .. N
      BY <1>1
    <3>2. c[0] \in Nat
      BY <1>2, <1>10, Zenon
    <3> QED BY <3>1, <3>2
  <2>2. ASSUME NEW n \in 1 .. N, n - 1 \in S
        PROVE  n \in S
    <3>1. n \in 0 .. N /\ n - 1 \in 0 .. N
      BY <1>1
    <3>2. c[n - 1] \in Nat
      BY <2>2
    <3>3. More(c[n - 1], n) \in Nat
      BY <3>2, <1>3
    <3>4. c[n] \in Nat
      BY <3>3, <1>10
    <3> QED BY <3>1, <3>4
  <2> HIDE DEF S
  <2>3. \A n \in 0 .. N : n \in S
    BY <1>1, <2>1, <2>2, UpTo
  <2>4. \A n \in 0 .. N : c[n] \in Nat
    BY <2>3 DEF S
  <2> QED BY <1>11, <2>4
<1> QED BY <1>10, <1>12 DEF N, c, More

\* A clip grows by each of its files.
LEMMA AssembledSteps ==
  ASSUME NEW files \in Seq(File)
  PROVE  /\ Assembled(files) \in [0 .. Len(files) -> Wav]
         /\ Assembled(files)[0] = Silence(0)
         /\ \A n \in 1 .. Len(files) :
              Assembled(files)[n] = Concat(Assembled(files)[n - 1], Audio(files[n]))
<1> DEFINE N == Len(files)
           More(x, n) == Concat(x, Audio(files[n]))
           P(f) == f = [n \in 0 .. N |-> IF n = 0 THEN Silence(0) ELSE More(f[n - 1], n)]
           step == [x \in Wav \X (1 .. N) |-> More(x[1], x[2])]
           c == Assembled(files)
<1>1. N \in Nat /\ \A n \in 1 .. N : files[n] \in File
  BY LenProperties, ElementOfSeq
<1>2. Silence(0) \in Wav
  BY OfSilence
<1> HIDE DEF N
<1>3. ASSUME NEW x \in Wav, NEW n \in 1 .. N
      PROVE  More(x, n) \in Wav
  BY <1>1, OfOneFile, Concatenated DEF Thereafter
<1>4. c = CHOOSE g : P(g)
  BY DEF Assembled, N
<1> HIDE DEF More, c
<1>5. step \in [Wav \X (1 .. N) -> Wav]
  BY <1>3
<1>6. \A x \in Wav, n \in 1 .. N : step[<<x, n>>] = More(x, n)
  OBVIOUS
<1> HIDE DEF step
<1>7. PICK f \in [0 .. N -> Wav] : Follows(f, N, Silence(0), step)
  BY <1>1, <1>2, <1>5, Recursion
<1>8. P(f)
  <2> DEFINE g == [n \in 0 .. N |-> IF n = 0 THEN Silence(0) ELSE More(f[n - 1], n)]
  <2>1. ASSUME NEW n \in 0 .. N
        PROVE  f[n] = g[n]
    <3>1. CASE n = 0
      BY <3>1, <1>7 DEF Follows
    <3>2. CASE n # 0
      <4>1. n \in 1 .. N /\ n - 1 \in 0 .. N
        BY <3>2, <1>1
      <4>2. f[n] = More(f[n - 1], n)
        BY <4>1, <1>6, <1>7 DEF Follows
      <4> QED BY <3>2, <4>2
    <3> QED BY <3>1, <3>2
  <2>2. DOMAIN g = 0 .. N /\ g = [n \in 0 .. N |-> g[n]]
    OBVIOUS
  <2>3. f = [n \in 0 .. N |-> f[n]]
    OBVIOUS
  <2> HIDE DEF g
  <2>4. f = g
    BY <2>1, <2>2, <2>3
  <2> QED BY <2>4 DEF g
<1>9. P(c)
  <2> HIDE DEF P
  <2> QED BY <1>4, <1>8
<1>10. c[0] = Silence(0) /\ \A n \in 1 .. N : c[n] = More(c[n - 1], n)
  <2> DEFINE g == [n \in 0 .. N |-> IF n = 0 THEN Silence(0) ELSE More(c[n - 1], n)]
  <2>1. c = g
    BY <1>9
  <2>2. g[0] = Silence(0) /\ \A n \in 1 .. N : g[n] = More(c[n - 1], n)
    BY <1>1
  <2> HIDE DEF g
  <2> QED BY <2>1, <2>2
<1>11. c = [n \in 0 .. N |-> c[n]]
  BY <1>9
<1> HIDE DEF P
<1>12. c \in [0 .. N -> Wav]
  <2> DEFINE S == {n \in 0 .. N : c[n] \in Wav}
  <2>1. 0 \in S
    <3>1. 0 \in 0 .. N
      BY <1>1
    <3>2. c[0] \in Wav
      BY <1>2, <1>10, Zenon
    <3> QED BY <3>1, <3>2
  <2>2. ASSUME NEW n \in 1 .. N, n - 1 \in S
        PROVE  n \in S
    <3>1. n \in 0 .. N /\ n - 1 \in 0 .. N
      BY <1>1
    <3>2. c[n - 1] \in Wav
      BY <2>2
    <3>3. More(c[n - 1], n) \in Wav
      BY <3>2, <1>3
    <3>4. c[n] \in Wav
      BY <3>3, <1>10
    <3> QED BY <3>1, <3>4
  <2> HIDE DEF S
  <2>3. \A n \in 0 .. N : n \in S
    BY <1>1, <2>1, <2>2, UpTo
  <2>4. \A n \in 0 .. N : c[n] \in Wav
    BY <2>3 DEF S
  <2> QED BY <1>11, <2>4
<1> QED BY <1>10, <1>12 DEF N, c, More

\* A clip says its files one by one, each when those before it are over.
LEMMA AssembledFacts ==
  ASSUME NEW files \in Seq(File)
  PROVE  \A n \in 0 .. Len(files) :
           /\ Assembled(files)[n] \in Wav /\ Len(Assembled(files)[n].said) = n
           /\ Assembled(files)[n].length = Elapsed(files)[n]
           /\ \A b \in 1 .. n : /\ Assembled(files)[n].said[b].text = files[b]
                              /\ Assembled(files)[n].said[b].start = Elapsed(files)[b - 1]
<1> DEFINE N == Len(files)
           A == Assembled(files)
           E == Elapsed(files)
           Good(n) == /\ Len(A[n].said) = n /\ A[n].length = E[n]
                      /\ \A b \in 1 .. n : /\ A[n].said[b].text = files[b]
                                         /\ A[n].said[b].start = E[b - 1]
           Q == {n \in 0 .. N : Good(n)}
<1>1. N \in Nat /\ \A n \in 1 .. N : files[n] \in File
  BY LenProperties, ElementOfSeq
<1>2. /\ A \in [0 .. N -> Wav] /\ A[0] = Silence(0)
      /\ \A n \in 1 .. N : A[n] = Concat(A[n - 1], Audio(files[n]))
  BY AssembledSteps
<1>3. /\ E \in [0 .. N -> Nat] /\ E[0] = 0
      /\ \A n \in 1 .. N : E[n] = E[n - 1] + Duration[files[n]]
  BY ElapsedSteps
<1> HIDE DEF N, A, E
<1>4. 0 \in Q
  <2>1. A[0].said = <<>> /\ A[0].length = 0
    BY <1>2, OfSilence
  <2>2. Len(A[0].said) = 0
    BY <2>1, EmptySeq
  <2> QED BY <1>1, <1>3, <2>1, <2>2
<1>5. ASSUME NEW n \in 1 .. N, n - 1 \in Q
      PROVE  n \in Q
  <2> DEFINE o == A[n - 1]
             a == Audio(files[n])
  <2>0. n \in 0 .. N /\ n - 1 \in 0 .. N /\ (n - 1) + 1 = n /\ 1 + (n - 1) = n
    BY <1>1
  <2>1. o \in Wav /\ A[n] = Concat(o, a) /\ files[n] \in File
    BY <1>1, <1>2, <2>0
  <2>2. /\ a \in Wav /\ Len(a.said) = 1 /\ a.said[1] = [text |-> files[n], start |-> 0]
        /\ a.length = Duration[files[n]]
    BY <2>1, OfOneFile
  <2>3. /\ Len(o.said) = n - 1 /\ o.length = E[n - 1]
        /\ \A b \in 1 .. n - 1 : o.said[b].text = files[b] /\ o.said[b].start = E[b - 1]
    BY <1>5
  <2>e. E[n - 1] \in Nat
    BY <1>3, <2>0
  <2> HIDE DEF o, a
  <2>a. Thereafter(A[n], o, a)
    BY <2>1, <2>2, Concatenated
  <2>4. /\ A[n].length = o.length + a.length /\ Len(A[n].said) = Len(o.said) + Len(a.said)
        /\ \A k \in 1 .. Len(o.said) : A[n].said[k] = o.said[k]
        /\ \A k \in 1 .. Len(a.said) :
             /\ A[n].said[k + Len(o.said)].text = a.said[k].text
             /\ A[n].said[k + Len(o.said)].start = a.said[k].start + o.length
    BY <2>a DEF Thereafter
  <2>5. A[n].said[n].text = files[n] /\ A[n].said[n].start = E[n - 1]
    <3>1. /\ A[n].said[1 + Len(o.said)].text = a.said[1].text
          /\ A[n].said[1 + Len(o.said)].start = a.said[1].start + o.length
      BY <2>4, <2>2
    <3>2. a.said[1].start + o.length = E[n - 1]
      BY <2>2, <2>3, <2>e
    <3> QED BY <3>1, <3>2, <2>0, <2>2, <2>3
  <2>6. \A b \in 1 .. n : A[n].said[b].text = files[b] /\ A[n].said[b].start = E[b - 1]
    <3> TAKE b \in 1 .. n
    <3>1. b \in 1 .. n - 1 \/ b = n
      BY <2>0
    <3> QED BY <3>1, <2>3, <2>4, <2>5
  <2>7. A[n].length = E[n]
    BY <2>2, <2>3, <2>4, <1>3
  <2>8. Len(A[n].said) = n
    BY <2>2, <2>3, <2>4, <2>0
  <2> QED BY <2>0, <2>6, <2>7, <2>8
<1> HIDE DEF Q
<1>6. \A n \in 0 .. N : n \in Q
  BY <1>1, <1>4, <1>5, UpTo
<1> QED BY <1>2, <1>6 DEF Q, N, A, E

\* The files that are there are files.
LEMMA ThereType ==
  ASSUME NEW au_files \in Seq(File)
  PROVE  There(au_files) \in Seq(File)
BY Choosing DEF There

LengthOf(au_files) == Elapsed(There(au_files))[Len(There(au_files))]

\* The same of the files of a clip: of those that are there.
LEMMA AssembleFacts ==
  ASSUME NEW au_files \in Seq(File)
  PROVE  LET wav == AssembleClipBlocks(au_files)
             there == There(au_files)
         IN  /\ wav \in Wav /\ Len(wav.said) = Len(there)
             /\ wav.length = LengthOf(au_files)
             /\ wav.length = 0 <=> there = <<>>
             /\ \A b \in 1 .. Len(there) : /\ wav.said[b].text = there[b]
                                          /\ wav.said[b].start = Elapsed(there)[b - 1]
<1> DEFINE there == There(au_files)
           N == Len(there)
<1>1. there \in Seq(File) /\ N \in Nat
  BY ThereType, LenProperties
<1>2. /\ AssembleClipBlocks(au_files) = Assembled(there)[N]
      /\ LengthOf(au_files) = Elapsed(there)[N]
  BY DEF AssembleClipBlocks, LengthOf
<1>3. N = 0 <=> there = <<>>
  BY <1>1, EmptySeq
<1>4. N = 0 <=> Elapsed(there)[N] = 0
  <2> HIDE DEF there
  <2>1. /\ Elapsed(there) \in [0 .. N -> Nat] /\ Elapsed(there)[0] = 0
        /\ \A n \in 1 .. N :
             Elapsed(there)[n] = Elapsed(there)[n - 1] + Duration[there[n]]
    BY <1>1, ElapsedSteps
  <2>2. CASE N # 0
    <3>1. N \in 1 .. N /\ N - 1 \in 0 .. N
      BY <2>2, <1>1
    <3>2. Duration[there[N]] \in Nat \ {0}
      BY <3>1, <1>1, ElementOfSeq, FilesAssumption
    <3>3. Elapsed(there)[N - 1] \in Nat
      BY <2>1, <3>1
    <3> QED BY <2>1, <2>2, <3>1, <3>2, <3>3
  <2> QED BY <2>1, <2>2
<1>5. N \in 0 .. N
  BY <1>1
<1> HIDE DEF there
<1>6. /\ Assembled(there)[N] \in Wav /\ Len(Assembled(there)[N].said) = N
      /\ Assembled(there)[N].length = Elapsed(there)[N]
      /\ \A b \in 1 .. N : /\ Assembled(there)[N].said[b].text = there[b]
                         /\ Assembled(there)[N].said[b].start = Elapsed(there)[b - 1]
  BY <1>1, <1>5, AssembledFacts
<1> QED BY <1>2, <1>3, <1>4, <1>6 DEF there

\* A track under construction.
Growing == [audio : Wav, now : Nat]

\* What a clip adds to a track.
ClipAdds(u, t, clip, start) ==
  LET there == There(clip.au_files)
      m == Len(t.audio.said)
  IN  /\ u \in Growing
      /\ Len(u.audio.said) = m + Len(there)
      /\ \A k \in 1 .. m : u.audio.said[k] = t.audio.said[k]
      /\ \A b \in 1 .. Len(there) :
           /\ u.audio.said[b + m].text = there[b]
           /\ u.audio.said[b + m].start = Elapsed(there)[b - 1] + start
      /\ u.audio.length = start + LengthOf(clip.au_files)
      /\ u.now = IF there = <<>> THEN t.now ELSE clip.offset + LengthOf(clip.au_files)

\* PlaceClip adds the clip behind the track, at its offset if that is not over.
LEMMA Placing ==
  ASSUME NEW t \in Growing, NEW clip \in Clip
  PROVE  LET gap == IF clip.offset > t.now THEN clip.offset - t.now ELSE 0 IN
         ClipAdds(PlaceClip(t, clip), t, clip, t.audio.length + gap)
<1> DEFINE there == There(clip.au_files)
           gap == IF clip.offset > t.now THEN clip.offset - t.now ELSE 0
           start == t.audio.length + gap
           old == t.audio
           m == Len(old.said)
           padded == Concat(old, Silence(gap))
           wav == AssembleClipBlocks(clip.au_files)
           full == Concat(padded, wav)
           len == LengthOf(clip.au_files)
<1>1. /\ old \in Wav /\ t.now \in Nat /\ clip.offset \in Nat /\ clip.au_files \in Seq(File)
      /\ old.length \in Nat /\ old.said \in Seq(Segment)
  BY DEF Growing, Clip, Wav
<1>2. gap \in Nat
  BY <1>1
<1>3. PlaceClip(t, clip) = IF wav.length = 0 THEN [t EXCEPT !.audio = padded]
                           ELSE [audio |-> full, now |-> clip.offset + wav.length]
  BY DEF PlaceClip
<1>4. /\ wav \in Wav /\ Len(wav.said) = Len(there) /\ wav.length = len
      /\ wav.length = 0 <=> there = <<>>
      /\ \A b \in 1 .. Len(there) : /\ wav.said[b].text = there[b]
                                   /\ wav.said[b].start = Elapsed(there)[b - 1]
  BY <1>1, AssembleFacts
<1> HIDE DEF gap, wav, there, len
<1>5. m \in Nat /\ Len(there) \in Nat /\ wav.length \in Nat
  <2>1. wav.said \in Seq(Segment) /\ wav.length \in Nat
    BY <1>4 DEF Wav
  <2>2. Len(wav.said) \in Nat /\ m \in Nat
    BY <2>1, <1>1, LenProperties
  <2> QED BY <2>1, <2>2, <1>4
<1>6. /\ padded \in Wav /\ padded.length = start /\ Len(padded.said) = m
      /\ \A k \in 1 .. m : padded.said[k] = old.said[k]
  <2>1. Silence(gap) \in Wav /\ Len(Silence(gap).said) = 0 /\ Silence(gap).length = gap
    BY <1>2, OfSilence, EmptySeq
  <2> HIDE DEF old
  <2>2. Thereafter(padded, old, Silence(gap))
    BY <2>1, <1>1, Concatenated
  <2> HIDE DEF padded, gap
  <2>3. old.length = t.audio.length
    BY DEF old
  <2> QED BY <2>1, <2>2, <2>3, <1>1, <1>5 DEF Thereafter
<1>s. start \in Nat
  BY <1>1, <1>2
<1> HIDE DEF padded, start, m
<1>7. /\ full \in Wav /\ full.length = start + len /\ Len(full.said) = m + Len(there)
      /\ \A k \in 1 .. m : full.said[k] = padded.said[k]
      /\ \A b \in 1 .. Len(there) : /\ full.said[b + m].text = wav.said[b].text
                                   /\ full.said[b + m].start = wav.said[b].start + start
  <2>1. Thereafter(full, padded, wav)
    BY <1>4, <1>6, Concatenated
  <2> HIDE DEF full
  <2> QED BY <2>1, <1>4, <1>6 DEF Thereafter
<1> HIDE DEF full
<1>8. ASSUME NEW b \in 1 .. Len(there)
      PROVE  /\ full.said[b + m].text = there[b]
             /\ full.said[b + m].start = Elapsed(there)[b - 1] + start
  BY <1>4, <1>7
<1>9. CASE wav.length = 0
  <2>1. there = <<>> /\ Len(there) = 0 /\ len = 0
    BY <1>9, <1>4, EmptySeq
  <2>2. PlaceClip(t, clip) = [t EXCEPT !.audio = padded]
    BY <1>9, <1>3
  <2>3. /\ PlaceClip(t, clip).audio = padded /\ PlaceClip(t, clip) \in Growing
        /\ PlaceClip(t, clip).now = t.now
    BY <2>2, <1>6 DEF Growing
  <2>4. \A b \in 1 .. Len(there) : FALSE
    BY <2>1
  <2> HIDE DEF old
  <2> QED BY <2>1, <2>3, <2>4, <1>5, <1>6, <1>s DEF there, gap, start, m, len, old, ClipAdds
<1>10. CASE wav.length # 0
  <2>1. PlaceClip(t, clip) = [audio |-> full, now |-> clip.offset + len]
    BY <1>10, <1>3, <1>4
  <2>2. clip.offset + len \in Nat
    BY <1>1, <1>4, <1>5
  <2>3. /\ PlaceClip(t, clip).audio = full /\ PlaceClip(t, clip).now = clip.offset + len
        /\ PlaceClip(t, clip) \in Growing
    BY <2>1, <2>2, <1>7 DEF Growing
  <2>4. \A k \in 1 .. m : full.said[k] = old.said[k]
    BY <1>6, <1>7
  <2>5. there # <<>>
    BY <1>10, <1>4
  <2> QED BY <2>3, <2>4, <2>5, <1>7, <1>8 DEF there, gap, start, m, len, old, ClipAdds
<1> QED BY <1>9, <1>10

\* Offsets are numbers.
LEMMA OffsetKeys ==
  ASSUME NEW clips \in Seq(Clip)
  PROVE  [k \in DOMAIN clips |-> clips[k].offset] \in [1 .. Len(clips) -> Nat]
<1>1. DOMAIN clips = 1 .. Len(clips) /\ \A k \in 1 .. Len(clips) : clips[k] \in Clip
  BY LenProperties, ElementOfSeq
<1> QED BY <1>1 DEF Clip

\* The clips by offset are clips.
LEMMA ByOffsetType ==
  ASSUME NEW clips \in Seq(Clip)
  PROVE  Len(clips) \in Nat /\ \A n \in 1 .. Len(clips) : ByOffset(clips)[n] \in Clip
<1> DEFINE key == [k \in DOMAIN clips |-> clips[k].offset]
<1>1. key \in [1 .. Len(clips) -> Nat]
  BY OffsetKeys
<1> HIDE DEF key
<1>2. Sorted(clips, key) \in Seq(Clip) /\ Len(Sorted(clips, key)) = Len(clips)
  BY <1>1, Sorting
<1>3. \A n \in 1 .. Len(clips) : Sorted(clips, key)[n] \in Clip
  BY <1>2, ElementOfSeq
<1> QED BY <1>3, LenProperties DEF ByOffset, key

\* A track grows by one clip at a time.
LEMMA BuiltSteps ==
  ASSUME NEW clips \in Seq(Clip)
  PROVE  /\ Built(clips) \in [0 .. Len(clips) -> Growing]
         /\ Built(clips)[0] = [audio |-> Silence(0), now |-> 0]
         /\ \A n \in 1 .. Len(clips) :
              Built(clips)[n] = PlaceClip(Built(clips)[n - 1], ByOffset(clips)[n])
<1> DEFINE N == Len(clips)
           More(x, n) == PlaceClip(x, ByOffset(clips)[n])
           P(f) ==
             f = [n \in 0 .. N |->
               IF n = 0 THEN [audio |-> Silence(0), now |-> 0] ELSE More(f[n - 1], n)]
           step == [x \in Growing \X (1 .. N) |-> More(x[1], x[2])]
           c == Built(clips)
<1>1. N \in Nat /\ \A n \in 1 .. N : ByOffset(clips)[n] \in Clip
  BY ByOffsetType
<1>2. [audio |-> Silence(0), now |-> 0] \in Growing
  BY OfSilence DEF Growing
<1> HIDE DEF N
<1>3. ASSUME NEW x \in Growing, NEW n \in 1 .. N
      PROVE  More(x, n) \in Growing
  BY <1>1, Placing DEF ClipAdds
<1>4. c = CHOOSE g : P(g)
  BY DEF Built, N
<1> HIDE DEF More, c
<1>5. step \in [Growing \X (1 .. N) -> Growing]
  BY <1>3
<1>6. \A x \in Growing, n \in 1 .. N : step[<<x, n>>] = More(x, n)
  OBVIOUS
<1> HIDE DEF step
<1>7. PICK f \in [0 .. N -> Growing] : Follows(f, N, [audio |-> Silence(0), now |-> 0], step)
  BY <1>1, <1>2, <1>5, Recursion
<1>8. P(f)
  <2> DEFINE g ==
      [n \in 0 .. N |-> IF n = 0 THEN [audio |-> Silence(0), now |-> 0] ELSE More(f[n - 1], n)]
  <2>1. ASSUME NEW n \in 0 .. N
        PROVE  f[n] = g[n]
    <3>1. CASE n = 0
      BY <3>1, <1>7 DEF Follows
    <3>2. CASE n # 0
      <4>1. n \in 1 .. N /\ n - 1 \in 0 .. N
        BY <3>2, <1>1
      <4>2. f[n] = More(f[n - 1], n)
        BY <4>1, <1>6, <1>7 DEF Follows
      <4> QED BY <3>2, <4>2
    <3> QED BY <3>1, <3>2
  <2>2. DOMAIN g = 0 .. N /\ g = [n \in 0 .. N |-> g[n]]
    OBVIOUS
  <2>3. f = [n \in 0 .. N |-> f[n]]
    OBVIOUS
  <2> HIDE DEF g
  <2>4. f = g
    BY <2>1, <2>2, <2>3
  <2> QED BY <2>4 DEF g
<1>9. P(c)
  <2> HIDE DEF P
  <2> QED BY <1>4, <1>8
<1>10. c[0] = [audio |-> Silence(0), now |-> 0] /\ \A n \in 1 .. N : c[n] = More(c[n - 1], n)
  <2> DEFINE g ==
      [n \in 0 .. N |-> IF n = 0 THEN [audio |-> Silence(0), now |-> 0] ELSE More(c[n - 1], n)]
  <2>1. c = g
    BY <1>9
  <2>2. g[0] = [audio |-> Silence(0), now |-> 0] /\ \A n \in 1 .. N : g[n] = More(c[n - 1], n)
    BY <1>1
  <2> HIDE DEF g
  <2> QED BY <2>1, <2>2
<1>11. c = [n \in 0 .. N |-> c[n]]
  BY <1>9
<1> HIDE DEF P
<1>12. c \in [0 .. N -> Growing]
  <2> DEFINE S == {n \in 0 .. N : c[n] \in Growing}
  <2>1. 0 \in S
    <3>1. 0 \in 0 .. N
      BY <1>1
    <3>2. c[0] \in Growing
      BY <1>2, <1>10, Zenon
    <3> QED BY <3>1, <3>2
  <2>2. ASSUME NEW n \in 1 .. N, n - 1 \in S
        PROVE  n \in S
    <3>1. n \in 0 .. N /\ n - 1 \in 0 .. N
      BY <1>1
    <3>2. c[n - 1] \in Growing
      BY <2>2
    <3>3. More(c[n - 1], n) \in Growing
      BY <3>2, <1>3
    <3>4. c[n] \in Growing
      BY <3>3, <1>10
    <3> QED BY <3>1, <3>4
  <2> HIDE DEF S
  <2>3. \A n \in 0 .. N : n \in S
    BY <1>1, <2>1, <2>2, UpTo
  <2>4. \A n \in 0 .. N : c[n] \in Growing
    BY <2>3 DEF S
  <2> QED BY <1>11, <2>4
<1> QED BY <1>10, <1>12 DEF N, c, More

-----------------------------------------------------------------------------
(* A track. *)

\* The files of clips that are there, each by its clip and its place in the clip.
Parts(clips) == UNION {{k} \X DOMAIN There(clips[k].au_files) : k \in DOMAIN clips}

\* No clip lasts into another one, and none is skipped up to clip k.
Separate(clips) ==
  \A k, l \in DOMAIN clips : k # l /\ clips[k].offset <= clips[l].offset =>
    clips[k].offset + LengthOf(clips[k].au_files) <= clips[l].offset
Unskipped(clips, k) ==
  \A l \in DOMAIN clips : l # k /\ clips[l].offset <= clips[k].offset =>
    There(clips[l].au_files) # <<>>
OnTime(clips, k) == Separate(clips) /\ Unskipped(clips, k)

\* What is said b-th is the file g[b], not before its clip, and at its time in a clip
\* that is on time.
RecountsAt(g, said, clips, b) ==
  LET k == g[b][1]
      there == There(clips[k].au_files)
  IN  /\ said[b].text = there[g[b][2]]
      /\ clips[k].offset <= said[b].start
      /\ OnTime(clips, k) => said[b].start = clips[k].offset + Elapsed(there)[g[b][2] - 1]
Recounts(g, said, clips) == \A b \in 1 .. Len(said) : RecountsAt(g, said, clips, b)

\* The pieces of clips, one by one.
LEMMA PieceOf ==
  ASSUME NEW clips \in Seq(Clip)
  PROVE  /\ \A x \in Parts(clips) : /\ x = <<x[1], x[2]>> /\ x[1] \in 1 .. Len(clips)
                                     /\ x[2] \in 1 .. Len(There(clips[x[1]].au_files))
         /\ \A k \in 1 .. Len(clips) : \A b \in 1 .. Len(There(clips[k].au_files)) :
              <<k, b>> \in Parts(clips)
<1>1. DOMAIN clips = 1 .. Len(clips) /\ \A k \in 1 .. Len(clips) : clips[k] \in Clip
  BY LenProperties, ElementOfSeq
<1>2. \A k \in 1 .. Len(clips) :
        DOMAIN There(clips[k].au_files) = 1 .. Len(There(clips[k].au_files))
  <2> TAKE k \in 1 .. Len(clips)
  <2>1. clips[k].au_files \in Seq(File)
    BY <1>1 DEF Clip
  <2>2. There(clips[k].au_files) \in Seq(File)
    BY <2>1, ThereType
  <2> QED BY <2>2, LenProperties
<1>3. ASSUME NEW x \in Parts(clips)
      PROVE  /\ x = <<x[1], x[2]>> /\ x[1] \in 1 .. Len(clips)
             /\ x[2] \in 1 .. Len(There(clips[x[1]].au_files))
  <2>1. PICK k \in DOMAIN clips : x \in {k} \X DOMAIN There(clips[k].au_files)
    BY DEF Parts
  <2> QED BY <2>1, <1>1, <1>2
<1>4. ASSUME NEW k \in 1 .. Len(clips), NEW b \in 1 .. Len(There(clips[k].au_files))
      PROVE  <<k, b>> \in Parts(clips)
  <2>1. <<k, b>> \in {k} \X DOMAIN There(clips[k].au_files)
    BY <1>2
  <2> QED BY <2>1, <1>1 DEF Parts
<1> QED BY <1>3, <1>4

\* A clip more, and the track says, one to one, the pieces of the clips so far.
LEMMA TrackGrows ==
  ASSUME NEW clips \in Seq(Clip), NEW k \in 1 .. Len(clips), NEW t \in Growing, NEW u,
         NEW start \in Nat,
         ClipAdds(u, t, clips[k], start), clips[k].offset <= start,
         OnTime(clips, k) => start = clips[k].offset,
         NEW D \in SUBSET Parts(clips), \A x \in D : x[1] # k, NEW g,
         OneToOne(g, 1 .. Len(t.audio.said), D), Recounts(g, t.audio.said, clips)
  PROVE  \E f : /\ OneToOne(f, 1 .. Len(u.audio.said),
                            D \cup ({k} \X (1 .. Len(There(clips[k].au_files)))))
                /\ Recounts(f, u.audio.said, clips)
<1> DEFINE there == There(clips[k].au_files)
           n == Len(there)
           m == Len(t.audio.said)
           Z == {k} \X (1 .. n)
           h == [b \in 1 .. n |-> <<k, b>>]
           said == u.audio.said
           old == t.audio.said
<1>1. clips[k].au_files \in Seq(File) /\ clips[k].offset \in Nat
  <2>1. clips[k] \in Clip
    BY ElementOfSeq
  <2> QED BY <2>1 DEF Clip
<1>2. there \in Seq(File)
  BY <1>1, ThereType
<1>3. old \in Seq(Segment)
  BY DEF Growing, Wav
<1>4. m \in Nat /\ n \in Nat
  <2> HIDE DEF old, there
  <2>1. Len(old) \in Nat /\ n \in Nat
    BY <1>2, <1>3, LenProperties
  <2> QED BY <2>1 DEF old
<1>5. /\ Len(said) = m + n
      /\ \A b \in 1 .. m : said[b] = old[b]
      /\ \A b \in 1 .. n : /\ said[b + m].text = there[b]
                           /\ said[b + m].start = Elapsed(there)[b - 1] + start
  BY DEF ClipAdds
<1>6. OneToOne(h, 1 .. n, Z)
  BY DEF OneToOne
<1>7. D \cap Z = {}
  OBVIOUS
<1>8. OneToOne(g, 1 .. m, D)
  OBVIOUS
<1>9. \A b \in 1 .. n : h[b] = <<k, b>>
  OBVIOUS
<1>10. Recounts(g, old, clips) /\ m = Len(old)
  OBVIOUS
<1> HIDE DEF h, Z, m
<1>11. PICK f : OneToOne(f, 1 .. m + n, D \cup Z) /\ Spliced(f, m, g, n, h)
  <2> HIDE DEF n
  <2> QED BY <1>4, <1>6, <1>7, <1>8, Joined
<1>12. ASSUME NEW b \in 1 .. m
       PROVE  RecountsAt(f, said, clips, b)
  <2>1. f[b] = g[b] /\ said[b] = old[b]
    BY <1>5, <1>11 DEF Spliced
  <2>2. RecountsAt(g, old, clips, b)
    BY <1>10 DEF Recounts
  <2> HIDE DEF old, said
  <2> QED BY <2>1, <2>2 DEF RecountsAt
<1>13. ASSUME NEW b \in 1 .. n
       PROVE  RecountsAt(f, said, clips, b + m)
  <2>1. f[b + m] = <<k, b>>
    BY <1>9, <1>11 DEF Spliced
  <2>2. said[b + m].text = there[b] /\ said[b + m].start = Elapsed(there)[b - 1] + start
    BY <1>5
  <2>3. Elapsed(there)[b - 1] \in Nat
    <3>1. Elapsed(there) \in [0 .. n -> Nat]
      <4> HIDE DEF there
      <4> QED BY <1>2, ElapsedSteps
    <3>2. b - 1 \in 0 .. n
      BY <1>4
    <3> HIDE DEF there, n
    <3> QED BY <3>1, <3>2
  <2>4. f[b + m][1] = k /\ f[b + m][2] = b
    BY <2>1
  <2>5. /\ clips[k].offset <= Elapsed(there)[b - 1] + start
        /\ OnTime(clips, k) =>
             Elapsed(there)[b - 1] + start = clips[k].offset + Elapsed(there)[b - 1]
    <3> HIDE DEF there
    <3> QED BY <2>3, <1>1
  <2> HIDE DEF said
  <2> QED BY <2>2, <2>4, <2>5 DEF RecountsAt
<1>14. \A b \in 1 .. m + n : b \in 1 .. m \/ (b - m \in 1 .. n /\ (b - m) + m = b)
  <2> HIDE DEF n
  <2> QED BY <1>4
<1>15. Recounts(f, said, clips)
  <2>1. ASSUME NEW b \in 1 .. m + n
        PROVE  RecountsAt(f, said, clips, b)
    <3> HIDE DEF n, said
    <3> QED BY <1>12, <1>13, <1>14
  <2> QED BY <2>1, <1>5 DEF Recounts
<1> QED BY <1>5, <1>11, <1>15 DEF Z

\* A built track says, one to one, the pieces of its clips.
LEMMA TrackBuilt ==
  ASSUME NEW clips \in Seq(Clip)
  PROVE  LET audio == BuildTrackFromClips(clips) IN
         /\ audio \in Wav
         /\ audio.length = 0 => Len(audio.said) = 0
         /\ \E g : OneToOne(g, 1 .. Len(audio.said), Parts(clips)) /\ Recounts(g, audio.said, clips)
<1> DEFINE N == Len(clips)
           key == [k \in DOMAIN clips |-> clips[k].offset]
           t == Built(clips)
<1>1. N \in Nat /\ DOMAIN clips = 1 .. N /\ \A k \in 1 .. N : clips[k] \in Clip
  BY LenProperties, ElementOfSeq
<1>2. /\ \A k \in 1 .. N : clips[k].offset \in Nat /\ clips[k].au_files \in Seq(File)
      /\ \A k \in 1 .. N : key[k] = clips[k].offset
  BY <1>1 DEF Clip
<1>3. PICK h : /\ OneToOne(h, 1 .. N, 1 .. N)
               /\ \A n \in 1 .. N : ByOffset(clips)[n] = clips[h[n]]
               /\ \A n, m \in 1 .. N : n < m => Before(key, h[n], h[m])
  <2>1. key \in [1 .. N -> Nat]
    BY OffsetKeys
  <2> HIDE DEF key
  <2>2. \E h : /\ OneToOne(h, 1 .. N, 1 .. N)
               /\ \A n \in 1 .. N : Sorted(clips, key)[n] = clips[h[n]]
               /\ \A n, m \in 1 .. N : n < m => Before(key, h[n], h[m])
    BY <2>1, Sorting
  <2>3. Sorted(clips, key) = ByOffset(clips)
    BY DEF ByOffset, key
  <2> QED BY <2>2, <2>3
<1>4. /\ t \in [0 .. N -> Growing] /\ t[0] = [audio |-> Silence(0), now |-> 0]
      /\ \A n \in 1 .. N : t[n] = PlaceClip(t[n - 1], ByOffset(clips)[n])
  BY BuiltSteps
<1> HIDE DEF N, key, t
<1>5. \A n \in 1 .. N : h[n] \in 1 .. N
  BY <1>3 DEF OneToOne
<1> DEFINE First(n) == {x \in Parts(clips) : \E m \in 1 .. n : x[1] = h[m]}
           Shown(n) == \E g : /\ OneToOne(g, 1 .. Len(t[n].audio.said), First(n))
                             /\ Recounts(g, t[n].audio.said, clips)
           Whole(n) == \A m \in 1 .. n : There(clips[h[m]].au_files) # <<>>
           Even(n) == /\ t[n].audio.length = 0 => Len(t[n].audio.said) = 0
                      /\ t[n].now <= t[n].audio.length
                      /\ Separate(clips) /\ n < N /\ Whole(n) =>
                           /\ t[n].audio.length = t[n].now
                           /\ t[n].now <= clips[h[n + 1]].offset
           Q == {n \in 0 .. N : Shown(n) /\ Even(n)}
<1>6. 0 \in Q
  <2>1. t[0].audio = Silence(0) /\ t[0].now = 0
    BY <1>4
  <2>2. t[0].audio.said = <<>> /\ t[0].audio.length = 0 /\ Len(t[0].audio.said) = 0
    BY <2>1, OfSilence, EmptySeq
  <2>3. First(0) = {}
    OBVIOUS
  <2>4. Shown(0)
    <3> DEFINE g == [b \in 1 .. 0 |-> 0]
    <3>1. OneToOne(g, 1 .. 0, First(0))
      BY <2>3 DEF OneToOne
    <3>2. Recounts(g, t[0].audio.said, clips)
      BY <2>2 DEF Recounts
    <3> HIDE DEF g, First
    <3> QED BY <3>1, <3>2, <2>2
  <2>5. Even(0)
    <3>1. 0 < N => 0 + 1 \in 1 .. N
      BY <1>1
    <3>2. 0 < N => clips[h[0 + 1]].offset \in Nat
      BY <3>1, <1>2, <1>5
    <3> QED BY <3>2, <2>1, <2>2
  <2> HIDE DEF Shown, Even
  <2> QED BY <1>1, <2>4, <2>5
<1>7. ASSUME NEW n \in 1 .. N, n - 1 \in Q
      PROVE  n \in Q
  <2> DEFINE k == h[n]
             clip == clips[k]
             there == There(clip.au_files)
             o == t[n - 1]
             gap == IF clip.offset > o.now THEN clip.offset - o.now ELSE 0
             start == o.audio.length + gap
  <2>1. n \in 0 .. N /\ n - 1 \in 0 .. N /\ (n - 1) + 1 = n /\ n - 1 < N /\ n \in Nat
    BY <1>1
  <2>2. o \in Growing /\ k \in 1 .. N /\ clip \in Clip /\ t[n] = PlaceClip(o, clip)
    BY <2>1, <1>1, <1>3, <1>4, <1>5
  <2>3. o.audio \in Wav /\ o.now \in Nat /\ o.audio.length \in Nat /\ clip.offset \in Nat
    BY <2>2 DEF Growing, Wav, Clip
  <2>4. start \in Nat
    BY <2>3
  <2> HIDE DEF clip
  <2>5. ClipAdds(t[n], o, clip, start)
    <3> HIDE DEF o
    <3> QED BY <2>2, Placing
  <2>6. Shown(n - 1) /\ Even(n - 1)
    BY <1>7
  <2> HIDE DEF Shown
  <2>7. /\ clip.offset <= start
        /\ Separate(clips) /\ Whole(n - 1) =>
             o.audio.length = o.now /\ o.now <= clip.offset /\ start = clip.offset
    <3>1. /\ o.now <= o.audio.length
          /\ Separate(clips) /\ Whole(n - 1) =>
               o.audio.length = o.now /\ o.now <= clips[h[n]].offset
      <4> HIDE DEF Whole
      <4> QED BY <2>6, <2>1
    <3> HIDE DEF o, Even, Whole
    <3> QED BY <3>1, <2>3 DEF clip
  <2>w. OnTime(clips, k) => Separate(clips) /\ Whole(n - 1)
    <3> SUFFICES ASSUME OnTime(clips, k), NEW m \in 1 .. n - 1
                 PROVE  There(clips[h[m]].au_files) # <<>>
      BY DEF OnTime
    <3>1. m \in 1 .. N /\ m < n
      BY <2>1, <1>1
    <3>2. h[m] \in 1 .. N /\ h[m] # k /\ Before(key, h[m], k)
      BY <3>1, <2>1, <1>3, <1>5 DEF OneToOne
    <3>3. clips[h[m]].offset <= clips[k].offset
      <4>1. /\ key[k] = clips[k].offset /\ key[h[m]] = clips[h[m]].offset
            /\ clips[k].offset \in Nat /\ clips[h[m]].offset \in Nat
        BY <3>2, <2>2, <1>2
      <4>2. key[h[m]] < key[k] \/ key[h[m]] = key[k]
        BY <3>2 DEF Before
      <4> HIDE DEF k
      <4> QED BY <4>1, <4>2
    <3> HIDE DEF k
    <3> QED BY <3>2, <3>3, <1>1 DEF OnTime, Unskipped
  <2> HIDE DEF start, gap
  <2>8. Shown(n)
    <3> DEFINE Z == {k} \X (1 .. Len(There(clips[k].au_files)))
    <3>1. PICK g : /\ OneToOne(g, 1 .. Len(o.audio.said), First(n - 1))
                   /\ Recounts(g, o.audio.said, clips)
      BY <2>6 DEF Shown
    <3>2. First(n - 1) \in SUBSET Parts(clips)
      OBVIOUS
    <3>3. \A x \in First(n - 1) : x[1] # k
      <4> TAKE x \in First(n - 1)
      <4>1. PICK m \in 1 .. n - 1 : x[1] = h[m]
        OBVIOUS
      <4>2. m \in 1 .. N /\ m # n
        BY <2>1, <1>1
      <4> QED BY <4>1, <4>2, <1>3 DEF OneToOne
    <3>4. First(n) = First(n - 1) \cup Z
      <4>1. /\ \A x \in Parts(clips) : /\ x = <<x[1], x[2]>> /\ x[1] \in 1 .. N
                                        /\ x[2] \in 1 .. Len(There(clips[x[1]].au_files))
            /\ \A j \in 1 .. N : \A b \in 1 .. Len(There(clips[j].au_files)) :
                 <<j, b>> \in Parts(clips)
        BY PieceOf DEF N
      <4>2. \A m : m \in 1 .. n <=> m \in 1 .. n - 1 \/ m = n
        BY <2>1
      <4>3. ASSUME NEW x \in First(n)
            PROVE  x \in First(n - 1) \cup Z
        <5>1. PICK m \in 1 .. n : x[1] = h[m]
          OBVIOUS
        <5>2. CASE m \in 1 .. n - 1
          BY <5>1, <5>2
        <5>3. CASE m = n
          BY <5>1, <5>3, <4>1
        <5> QED BY <5>2, <5>3, <4>2
      <4>4. ASSUME NEW x \in First(n - 1)
            PROVE  x \in First(n)
        <5>1. PICK m \in 1 .. n - 1 : x[1] = h[m]
          OBVIOUS
        <5>2. m \in 1 .. n
          BY <4>2
        <5> QED BY <5>1, <5>2
      <4>5. ASSUME NEW x \in Z
            PROVE  x \in First(n)
        <5>1. PICK b \in 1 .. Len(There(clips[k].au_files)) : x = <<k, b>>
          OBVIOUS
        <5>2. x \in Parts(clips) /\ x[1] = h[n] /\ n \in 1 .. n
          BY <5>1, <4>1, <4>2, <2>2
        <5> QED BY <5>2
      <4> HIDE DEF First, Z
      <4> QED BY <4>3, <4>4, <4>5
    <3>5. \E f : /\ OneToOne(f, 1 .. Len(t[n].audio.said), First(n - 1) \cup Z)
                 /\ Recounts(f, t[n].audio.said, clips)
      <4>1. k \in 1 .. Len(clips)
        BY <2>2 DEF N
      <4>2. /\ ClipAdds(t[n], o, clips[k], start) /\ clips[k].offset <= start
            /\ OnTime(clips, k) => start = clips[k].offset
        <5> HIDE DEF Whole
        <5> QED BY <2>5, <2>7, <2>w DEF clip
      <4> HIDE DEF o, k, First
      <4> QED BY <4>1, <4>2, <2>2, <2>4, <3>1, <3>2, <3>3, TrackGrows
    <3> HIDE DEF First, Z
    <3> QED BY <3>4, <3>5 DEF Shown
  <2>9. Even(n)
    <3> DEFINE len == LengthOf(clip.au_files)
               m == Len(o.audio.said)
    <3>1. /\ len \in Nat /\ Len(there) \in Nat
          /\ len = 0 <=> there = <<>>
          /\ len = 0 <=> Len(there) = 0
      <4>1. clip.au_files \in Seq(File)
        BY <2>2 DEF Clip
      <4>2. there \in Seq(File)
        BY <4>1, ThereType
      <4>3. /\ AssembleClipBlocks(clip.au_files).length = len
            /\ AssembleClipBlocks(clip.au_files) \in Wav
            /\ len = 0 <=> there = <<>>
        BY <4>1, AssembleFacts
      <4>4. len \in Nat
        BY <4>3 DEF Wav
      <4> HIDE DEF there, len
      <4> QED BY <4>2, <4>3, <4>4, EmptySeq, LenProperties
    <3>2. /\ Len(t[n].audio.said) = m + Len(there)
          /\ t[n].audio.length = start + len
          /\ t[n].now = IF there = <<>> THEN o.now ELSE clip.offset + len
      BY <2>5 DEF ClipAdds
    <3>3. t[n].audio.length = 0 => Len(t[n].audio.said) = 0
      <4>1. o.audio.length = 0 => m = 0
        BY <2>6
      <4>2. start = 0 => o.audio.length = 0
        BY <2>3 DEF start, gap
      <4> SUFFICES ASSUME t[n].audio.length = 0
                   PROVE  Len(t[n].audio.said) = 0
        OBVIOUS
      <4>3. start + len = 0
        BY <3>2
      <4>4. start = 0 /\ len = 0
        BY <4>3, <3>1, <2>4
      <4>5. m = 0 /\ Len(there) = 0
        BY <4>1, <4>2, <4>4, <3>1
      <4> HIDE DEF m, there
      <4> QED BY <4>5, <3>2
    <3>4. t[n].now <= t[n].audio.length
      <4>1. o.now <= o.audio.length /\ o.audio.length <= start
        <5>1. o.now <= o.audio.length
          BY <2>6
        <5> HIDE DEF o
        <5> QED BY <5>1, <2>3 DEF start, gap
      <4> HIDE DEF o, there, len
      <4> QED BY <4>1, <3>1, <3>2, <2>3, <2>4, <2>7
    <3>5. ASSUME Separate(clips), n < N, Whole(n)
          PROVE  t[n].audio.length = t[n].now /\ t[n].now <= clips[h[n + 1]].offset
      <4> DEFINE l == h[n + 1]
      <4>1. n + 1 \in 1 .. N /\ n < n + 1
        BY <3>5, <2>1, <1>1
      <4>2. l \in 1 .. N /\ l # k /\ Before(key, k, l)
        BY <4>1, <1>3, <1>5, <2>1 DEF OneToOne
      <4>3. clips[k].offset <= clips[l].offset
        <5>1. /\ key[k] = clips[k].offset /\ key[l] = clips[l].offset
              /\ clips[k].offset \in Nat /\ clips[l].offset \in Nat
          BY <4>2, <2>2, <1>2
        <5>2. key[k] < key[l] \/ key[k] = key[l]
          BY <4>2 DEF Before
        <5> HIDE DEF k, l
        <5> QED BY <5>1, <5>2
      <4>4. clip.offset + len <= clips[l].offset
        BY <3>5, <4>2, <4>3, <2>2, <1>1 DEF Separate, clip
      <4>5. there # <<>> /\ Whole(n - 1)
        <5>1. n \in 1 .. n /\ \A j \in 1 .. n - 1 : j \in 1 .. n
          BY <2>1
        <5> QED BY <5>1, <3>5 DEF clip
      <4>6. o.audio.length = o.now /\ o.now <= clip.offset /\ start = clip.offset
        <5> HIDE DEF o, Whole
        <5> QED BY <4>5, <3>5, <2>7
      <4> HIDE DEF len, there, l, o, Whole
      <4> QED BY <4>4, <4>5, <4>6, <3>2 DEF l
    <3> HIDE DEF Whole
    <3> QED BY <3>3, <3>4, <3>5
  <2> HIDE DEF Even
  <2> QED BY <2>1, <2>8, <2>9
<1>8. N \in Q
  <2> HIDE DEF Q
  <2>1. \A n \in 0 .. N : n \in Q
    BY <1>1, <1>6, <1>7, UpTo
  <2> QED BY <2>1, <1>1
<1>9. First(N) = Parts(clips)
  <2>1. \A x \in Parts(clips) : x[1] \in 1 .. N
    BY PieceOf DEF N
  <2>2. \A y \in 1 .. N : \E m \in 1 .. N : h[m] = y
    BY <1>3 DEF OneToOne
  <2> QED BY <2>1, <2>2
<1>10. Shown(N) /\ (t[N].audio.length = 0 => Len(t[N].audio.said) = 0)
  BY <1>8
<1>11. t[N].audio \in Wav
  BY <1>1, <1>4 DEF Growing
<1>12. BuildTrackFromClips(clips) = t[N].audio
  BY DEF BuildTrackFromClips, t, N
<1> HIDE DEF First
<1> QED BY <1>9, <1>10, <1>11, <1>12

-----------------------------------------------------------------------------
(* Clips and blocks as they stand in the text. *)

\* An attribute's number.
LEMMA NumberType ==
  ASSUME NEW a \in Attribute
  PROVE  Number(a) \in Nat
<1>1. a \in Seq(Nat)
  BY DEF Attribute
<1>2. CASE a = <<>>
  BY <1>2 DEF Number
<1>3. CASE a # <<>>
  <2>1. Len(a) \in Nat /\ Len(a) # 0
    BY <1>1, <1>3, LenProperties, EmptySeq
  <2>2. a[1] \in Nat
    BY <1>1, <2>1, ElementOfSeq
  <2> QED BY <1>3, <2>2 DEF Number
<1> QED BY <1>2, <1>3

\* A block begins at a number, and lasts.
LEMMA BlockFacts ==
  ASSUME NEW blocks \in Seq(Block)
  PROVE  /\ Len(blocks) \in Nat /\ DOMAIN blocks = 1 .. Len(blocks)
         /\ \A b \in 1 .. Len(blocks) :
              /\ blocks[b] \in Block /\ blocks[b].file \in File
              /\ From(blocks[b]) \in Nat /\ Duration[blocks[b].file] \in Nat \ {0}
              /\ Until(blocks[b]) = From(blocks[b]) + Duration[blocks[b].file]
<1>1. /\ Len(blocks) \in Nat /\ DOMAIN blocks = 1 .. Len(blocks)
      /\ \A b \in 1 .. Len(blocks) : blocks[b] \in Block
  BY LenProperties, ElementOfSeq
<1>2. ASSUME NEW b \in 1 .. Len(blocks)
      PROVE  /\ blocks[b].file \in File
             /\ From(blocks[b]) \in Nat /\ Duration[blocks[b].file] \in Nat \ {0}
             /\ Until(blocks[b]) = From(blocks[b]) + Duration[blocks[b].file]
  <2>1. blocks[b].file \in File /\ blocks[b].start \in Attribute
    BY <1>1 DEF Block
  <2>2. From(blocks[b]) \in Nat
    BY <2>1, NumberType DEF From
  <2> QED BY <2>1, <2>2, FilesAssumption DEF Until
<1> QED BY <1>1, <1>2

\* f tells which block of the text each file that is there is of.
Reads(f, blocks) ==
  LET there == There(AuFiles(blocks)) IN
  /\ OneToOne(f, 1 .. Len(there), {b \in 1 .. Len(blocks) : Sounds(blocks[b])})
  /\ \A p \in 1 .. Len(there) : there[p] = blocks[f[p]].file
  /\ \A p, q \in 1 .. Len(there) : p < q => From(blocks[f[p]]) <= From(blocks[f[q]])

\* The parser keeps the blocks that can be heard, each once, by their starts.
LEMMA ClipReads ==
  ASSUME NEW blocks \in Seq(Block)
  PROVE  /\ AuFiles(blocks) \in Seq(File) /\ There(AuFiles(blocks)) \in Seq(File)
         /\ \E f : Reads(f, blocks)
<1> DEFINE N == Len(blocks)
           key == [b \in DOMAIN blocks |-> Number(blocks[b].start)]
           sorted == InTime(blocks)
           S == {b \in Block : b.kind # "silent"}
           filed == Filed(blocks)
           au == AuFiles(blocks)
           there == There(au)
           L == Len(filed)
           M == Len(there)
           Heards == {b \in 1 .. N : Sounds(blocks[b])}
<1>1. /\ N \in Nat /\ DOMAIN blocks = 1 .. N
      /\ \A b \in 1 .. N : blocks[b] \in Block /\ From(blocks[b]) \in Nat
  BY BlockFacts
<1>2. key \in [1 .. N -> Nat] /\ \A b \in 1 .. N : key[b] = From(blocks[b])
  BY <1>1 DEF From
<1>3. sorted = Sorted(blocks, key)
  BY DEF InTime
<1> HIDE DEF key
<1>4. sorted \in Seq(Block) /\ Len(sorted) = N
  <2> HIDE DEF sorted
  <2> QED BY <1>2, <1>3, Sorting
<1>5. PICK h : /\ OneToOne(h, 1 .. N, 1 .. N)
               /\ \A n \in 1 .. N : sorted[n] = blocks[h[n]]
               /\ \A n, m \in 1 .. N : n < m => Before(key, h[n], h[m])
  <2> HIDE DEF sorted
  <2> QED BY <1>2, <1>3, Sorting
<1>6. filed = Chosen(sorted, S)[Len(sorted)]
  <2>1. filed = Chosen(sorted, S)[N]
    BY DEF Filed
  <2> HIDE DEF sorted, filed, S
  <2> QED BY <2>1, <1>4
<1> HIDE DEF sorted, filed
<1>7. filed \in Seq(Block) /\ \E c : Picks(c, filed, sorted, S)
  <2> HIDE DEF S
  <2> QED BY <1>4, <1>6, Choosing
<1>8. PICK c : Picks(c, filed, sorted, S)
  BY <1>7
<1>9. L \in Nat /\ DOMAIN filed = 1 .. L /\ \A n \in 1 .. L : filed[n] \in Block
  BY <1>7, LenProperties, ElementOfSeq
<1>10. au = [n \in 1 .. L |-> filed[n].file] /\ \A n \in 1 .. L : filed[n].file \in File
  <2>1. au = [n \in DOMAIN filed |-> filed[n].file]
    BY DEF AuFiles, filed
  <2>2. \A n \in 1 .. L : filed[n].file \in File
    BY <1>9 DEF Block
  <2> HIDE DEF L
  <2> QED BY <2>1, <2>2, <1>9
<1> HIDE DEF au
<1>11. au \in Seq(File) /\ Len(au) = L /\ \A n \in 1 .. L : au[n] = filed[n].file
  <2> HIDE DEF L
  <2>1. au \in [1 .. L -> File]
    BY <1>10
  <2>2. au \in Seq(File)
    BY <2>1, <1>9, SeqDef
  <2> QED BY <2>1, <2>2, <1>9, <1>10, LenProperties
<1>12. there \in Seq(File) /\ \E d : Picks(d, there, au, project.zipped)
  BY <1>11, Choosing DEF There
<1>13. PICK d : Picks(d, there, au, project.zipped)
  BY <1>12
<1> HIDE DEF there
<1>c. /\ OneToOne(c, 1 .. L, {b \in 1 .. N : sorted[b] \in S})
      /\ \A m \in 1 .. L : filed[m] = sorted[c[m]]
      /\ \A m, k \in 1 .. L : m < k => c[m] < c[k]
  BY <1>8, <1>4 DEF Picks
<1>d. /\ OneToOne(d, 1 .. M, {b \in 1 .. L : au[b] \in project.zipped})
      /\ \A m \in 1 .. M : there[m] = au[d[m]]
      /\ \A m, k \in 1 .. M : m < k => d[m] < d[k]
  BY <1>13, <1>11 DEF Picks
<1> HIDE DEF N, L, M
<1> DEFINE f == [p \in 1 .. M |-> h[c[d[p]]]]
<1>14. ASSUME NEW p \in 1 .. M
       PROVE  /\ f[p] = h[c[d[p]]] /\ d[p] \in 1 .. L /\ c[d[p]] \in 1 .. N
              /\ f[p] \in Heards /\ there[p] = blocks[f[p]].file
  <2>1. d[p] \in 1 .. L /\ au[d[p]] \in project.zipped /\ there[p] = au[d[p]]
    BY <1>d DEF OneToOne
  <2>2. /\ c[d[p]] \in 1 .. N /\ sorted[c[d[p]]] \in S
        /\ filed[d[p]] = sorted[c[d[p]]]
    BY <2>1, <1>c DEF OneToOne
  <2>3. h[c[d[p]]] \in 1 .. N /\ sorted[c[d[p]]] = blocks[h[c[d[p]]]]
    BY <2>2, <1>5 DEF OneToOne
  <2>4. blocks[h[c[d[p]]]].file = au[d[p]] /\ blocks[h[c[d[p]]]].kind # "silent"
    BY <2>1, <2>2, <2>3, <1>11
  <2>5. Sounds(blocks[h[c[d[p]]]])
    BY <2>1, <2>4 DEF Sounds
  <2> QED BY <2>1, <2>2, <2>3, <2>4, <2>5
<1>15. ASSUME NEW p \in 1 .. M, NEW q \in 1 .. M, f[p] = f[q]
       PROVE  p = q
  <2>1. /\ h[c[d[p]]] = h[c[d[q]]] /\ d[p] \in 1 .. L /\ d[q] \in 1 .. L
        /\ c[d[p]] \in 1 .. N /\ c[d[q]] \in 1 .. N
    BY <1>14, <1>15
  <2>2. c[d[p]] = c[d[q]]
    BY <2>1, <1>5 DEF OneToOne
  <2>3. d[p] = d[q]
    BY <2>1, <2>2, <1>c DEF OneToOne
  <2> QED BY <2>3, <1>d DEF OneToOne
<1>16. ASSUME NEW b \in Heards
       PROVE  \E p \in 1 .. M : f[p] = b
  <2>1. b \in 1 .. N /\ blocks[b].kind # "silent" /\ blocks[b].file \in project.zipped
    BY DEF Sounds
  <2>2. PICK m \in 1 .. N : h[m] = b
    BY <2>1, <1>5 DEF OneToOne
  <2>3. sorted[m] = blocks[b] /\ sorted[m] \in S
    BY <2>1, <2>2, <1>1, <1>5
  <2>4. PICK n \in 1 .. L : c[n] = m
    BY <2>3, <1>c DEF OneToOne
  <2>5. au[n] = blocks[b].file
    BY <2>3, <2>4, <1>c, <1>11
  <2>6. n \in {a \in 1 .. L : au[a] \in project.zipped}
    BY <2>1, <2>5
  <2>7. PICK p \in 1 .. M : d[p] = n
    BY <2>6, <1>d DEF OneToOne
  <2> QED BY <2>2, <2>4, <2>7
<1>17. ASSUME NEW p \in 1 .. M, NEW q \in 1 .. M, p < q
       PROVE  From(blocks[f[p]]) <= From(blocks[f[q]])
  <2>1. d[p] < d[q]
    BY <1>d, <1>17
  <2>2. c[d[p]] < c[d[q]]
    BY <2>1, <1>14, <1>c
  <2>3. Before(key, f[p], f[q])
    BY <2>2, <1>14, <1>5
  <2>4. f[p] \in 1 .. N /\ f[q] \in 1 .. N
    BY <1>14
  <2> HIDE DEF f
  <2>5. /\ key[f[p]] = From(blocks[f[p]]) /\ key[f[q]] = From(blocks[f[q]])
        /\ From(blocks[f[p]]) \in Nat /\ From(blocks[f[q]]) \in Nat
    BY <2>4, <1>1, <1>2
  <2>6. key[f[p]] < key[f[q]] \/ key[f[p]] = key[f[q]]
    BY <2>3 DEF Before
  <2> QED BY <2>5, <2>6
<1>18. f \in [1 .. M -> Heards]
  <2>1. \A p \in 1 .. M : h[c[d[p]]] \in Heards
    <3> TAKE p \in 1 .. M
    <3>1. f[p] = h[c[d[p]]] /\ f[p] \in Heards
      BY <1>14
    <3> HIDE DEF f, Heards
    <3> QED BY <3>1
  <2> HIDE DEF Heards
  <2> QED BY <2>1
<1> HIDE DEF f, Heards
<1>19. OneToOne(f, 1 .. M, Heards)
  BY <1>15, <1>16, <1>18 DEF OneToOne
<1>20. Reads(f, blocks)
  BY <1>14, <1>17, <1>19 DEF Reads, Heards, N, M, there, au
<1> QED BY <1>11, <1>12, <1>20 DEF there, au

\* Of blocks that are apart, what is read ends by the end of its block, and a block up
\* to which the clip is heard begins when those before it have been read.
LEMMA ClipTimes ==
  ASSUME NEW blocks \in Seq(Block), NEW f, Reads(f, blocks), BlocksAreApart(blocks)
  PROVE  LET there == There(AuFiles(blocks)) IN
         \A p \in 1 .. Len(there) :
           /\ Elapsed(there)[p] <= Until(blocks[f[p]])
           /\ HeardUpTo(blocks, f[p]) => Elapsed(there)[p - 1] = From(blocks[f[p]])
<1> DEFINE there == There(AuFiles(blocks))
           L == Len(there)
           E == Elapsed(there)
           g(p) == From(blocks[f[p]])
           d(p) == Duration[blocks[f[p]].file]
           Heards == {b \in 1 .. Len(blocks) : Sounds(blocks[b])}
<1>1. /\ DOMAIN blocks = 1 .. Len(blocks)
      /\ \A b \in 1 .. Len(blocks) :
           /\ From(blocks[b]) \in Nat /\ Duration[blocks[b].file] \in Nat \ {0}
           /\ Until(blocks[b]) = From(blocks[b]) + Duration[blocks[b].file]
  BY BlockFacts
<1>2. there \in Seq(File)
  BY ClipReads
<1>3. L \in Nat
  <2> HIDE DEF there
  <2> QED BY <1>2, LenProperties
<1>4. /\ OneToOne(f, 1 .. L, Heards)
      /\ \A p \in 1 .. L : there[p] = blocks[f[p]].file
      /\ \A p, q \in 1 .. L : p < q => g(p) <= g(q)
  BY DEF Reads
<1> HIDE DEF there
<1>5. /\ E \in [0 .. L -> Nat] /\ E[0] = 0
      /\ \A n \in 1 .. L : E[n] = E[n - 1] + Duration[there[n]]
  BY <1>2, ElapsedSteps
<1> HIDE DEF L, E
<1>6. ASSUME NEW p \in 1 .. L
      PROVE  /\ f[p] \in Heards /\ f[p] \in 1 .. Len(blocks) /\ Sounds(blocks[f[p]])
             /\ g(p) \in Nat /\ d(p) \in Nat \ {0}
             /\ Until(blocks[f[p]]) = g(p) + d(p) /\ E[p] = E[p - 1] + d(p)
  <2>1. f[p] \in Heards
    BY <1>4 DEF OneToOne
  <2>2. f[p] \in 1 .. Len(blocks) /\ Sounds(blocks[f[p]])
    BY <2>1
  <2> QED BY <2>1, <2>2, <1>1, <1>4, <1>5
<1>7. ASSUME NEW p \in 1 .. L, NEW q \in 1 .. L, p < q
      PROVE  g(p) + d(p) <= g(q)
  <2>1. f[p] # f[q]
    BY <1>3, <1>4, <1>7 DEF OneToOne
  <2>2. g(p) + d(p) <= g(q) \/ g(q) + d(q) <= g(p)
    BY <2>1, <1>1, <1>6 DEF BlocksAreApart
  <2>3. /\ g(p) \in Nat /\ d(p) \in Nat \ {0} /\ g(q) \in Nat /\ d(q) \in Nat \ {0}
        /\ g(p) <= g(q)
    BY <1>4, <1>6, <1>7
  <2> HIDE DEF g, d
  <2> QED BY <2>2, <2>3
<1> HIDE DEF g, d, Heards
<1>8. \A n \in 0 .. L : E[n] \in Nat
  BY <1>5
<1>9. ASSUME NEW p \in 1 .. L
      PROVE  E[p] <= g(p) + d(p)
  <2> DEFINE Q == {n \in 0 .. L : n = 0 \/ E[n] <= g(n) + d(n)}
  <2>1. 0 \in Q
    BY <1>3
  <2>2. ASSUME NEW n \in 1 .. L, n - 1 \in Q
        PROVE  n \in Q
    <3>1. n \in 0 .. L /\ n - 1 \in 0 .. L /\ E[n] = E[n - 1] + d(n)
          /\ g(n) \in Nat /\ d(n) \in Nat /\ E[n - 1] \in Nat
      BY <1>3, <1>6, <1>8
    <3>2. E[n - 1] <= g(n)
      <4>1. CASE n - 1 = 0
        <5>1. E[n - 1] = 0
          BY <4>1, <1>5
        <5> QED BY <5>1, <3>1
      <4>2. CASE n - 1 # 0
        <5>1. n - 1 \in 1 .. L /\ n - 1 < n
          BY <4>2, <3>1
        <5>2. E[n - 1] <= g(n - 1) + d(n - 1) /\ g(n - 1) + d(n - 1) <= g(n)
          BY <5>1, <4>2, <2>2, <1>7
        <5>3. g(n - 1) \in Nat /\ d(n - 1) \in Nat
          BY <5>1, <1>6
        <5> QED BY <5>2, <5>3, <3>1
      <4> QED BY <4>1, <4>2
    <3>3. E[n] <= g(n) + d(n)
      BY <3>1, <3>2
    <3> QED BY <3>1, <3>3
  <2> HIDE DEF Q
  <2>3. \A n \in 0 .. L : n \in Q
    BY <1>3, <2>1, <2>2, UpTo
  <2>4. p \in Q /\ p # 0
    BY <2>3, <1>3
  <2> QED BY <2>4 DEF Q
<1>10. ASSUME NEW p \in 1 .. L, HeardUpTo(blocks, f[p])
       PROVE  E[p - 1] = g(p)
  <2> DEFINE Q == {n \in 0 .. L : n = 0 \/ p < n \/ E[n - 1] = g(n)}
  <2>1. 0 \in Q
    BY <1>3
  <2>2. ASSUME NEW n \in 1 .. L, n - 1 \in Q
        PROVE  n \in Q
    <3>1. n \in 0 .. L /\ n - 1 \in 0 .. L /\ g(n) \in Nat /\ E[n - 1] \in Nat
      BY <1>3, <1>6, <1>8
    <3>2. CASE p < n
      BY <3>1, <3>2
    <3>3. CASE ~ (p < n)
      <4>1. g(n) <= g(p) /\ g(p) \in Nat
        <5>1. n = p \/ n < p
          BY <3>3, <1>3
        <5>2. g(p) \in Nat /\ d(n) \in Nat
          BY <1>6
        <5>3. n < p => g(n) + d(n) <= g(p)
          BY <1>7
        <5> QED BY <5>1, <5>2, <5>3, <3>1
      <4>2. \/ g(n) = 0
            \/ \E c \in 1 .. Len(blocks) : Until(blocks[c]) = g(n)
        <5>1. From(blocks[f[n]]) <= From(blocks[f[p]]) /\ f[n] \in 1 .. Len(blocks)
          BY <4>1, <1>6 DEF g
        <5> QED BY <5>1, <1>1, <1>10 DEF HeardUpTo, g
      <4>3. n # 1 => /\ n - 1 \in 1 .. L /\ n - 1 < n /\ g(n - 1) \in Nat
                     /\ d(n - 1) \in Nat \ {0} /\ g(n - 1) + d(n - 1) <= g(n)
        <5> SUFFICES ASSUME n # 1
                     PROVE  /\ n - 1 \in 1 .. L /\ n - 1 < n /\ g(n - 1) \in Nat
                            /\ d(n - 1) \in Nat \ {0} /\ g(n - 1) + d(n - 1) <= g(n)
          OBVIOUS
        <5>1. n - 1 \in 1 .. L /\ n - 1 < n
          BY <3>1
        <5> QED BY <5>1, <1>6, <1>7
      <4>4. CASE g(n) = 0
        <5>1. n = 1
          BY <4>3, <4>4
        <5>2. E[n - 1] = 0
          <6>1. n - 1 = 0
            BY <5>1
          <6> QED BY <6>1, <1>5
        <5> QED BY <5>2, <4>4, <3>1
      <4>5. CASE \E c \in 1 .. Len(blocks) : Until(blocks[c]) = g(n)
        <5>1. PICK c \in 1 .. Len(blocks) : Until(blocks[c]) = g(n)
          BY <4>5
        <5>2. From(blocks[c]) < g(n) /\ From(blocks[c]) \in Nat
          BY <5>1, <1>1, <3>1
        <5>3. From(blocks[c]) <= From(blocks[f[p]])
          BY <5>2, <4>1, <3>1 DEF g
        <5>4. Sounds(blocks[c])
          BY <5>3, <1>1, <1>10 DEF HeardUpTo
        <5>5. c \in Heards
          BY <5>4 DEF Heards
        <5>6. PICK r \in 1 .. L : f[r] = c
          BY <5>5, <1>4 DEF OneToOne
        <5>7. /\ g(r) < g(n) /\ g(r) + d(r) = g(n)
              /\ g(r) \in Nat /\ d(r) \in Nat \ {0} /\ r \in Nat
          <6>1. /\ g(r) \in Nat /\ d(r) \in Nat \ {0}
                /\ Until(blocks[f[r]]) = g(r) + d(r)
            BY <1>6
          <6>2. g(r) = From(blocks[c])
            BY <5>6 DEF g
          <6> QED BY <6>1, <6>2, <5>1, <5>2, <5>6, <1>3
        <5>8. ~ (n < r) /\ n # r
          <6>1. d(n) \in Nat
            BY <1>6
          <6>2. n < r => g(n) + d(n) <= g(r)
            BY <1>7
          <6> QED BY <6>1, <6>2, <5>7, <3>1
        <5>9. n # 1 /\ ~ (r < n - 1)
          <6>1. n # 1
            BY <5>8, <1>3
          <6>2. r < n - 1 => g(r) + d(r) <= g(n - 1)
            BY <6>1, <4>3, <1>7
          <6> QED BY <6>1, <6>2, <4>3, <5>7, <3>1
        <5>10. r = n - 1
          BY <5>7, <5>8, <5>9, <3>1
        <5>11. n - 1 \in 1 .. L /\ E[(n - 1) - 1] = g(n - 1)
          <6>1. n - 1 \in 1 .. L /\ n - 1 # 0 /\ ~ (p < n - 1)
            BY <5>9, <4>3, <3>1, <3>3, <1>3
          <6> QED BY <6>1, <2>2
        <5>12. E[n - 1] = g(n - 1) + d(n - 1)
          BY <5>11, <1>6
        <5> QED BY <5>7, <5>10, <5>12, <3>1
      <4> QED BY <4>2, <4>4, <4>5
    <3> QED BY <3>2, <3>3
  <2> HIDE DEF Q
  <2>3. \A n \in 0 .. L : n \in Q
    BY <1>3, <2>1, <2>2, UpTo
  <2>4. p \in Q /\ p # 0 /\ ~ (p < p)
    BY <2>3, <1>3
  <2> QED BY <2>4 DEF Q
<1>11. \A p \in 1 .. L : /\ E[p] <= Until(blocks[f[p]])
                         /\ HeardUpTo(blocks, f[p]) => E[p - 1] = From(blocks[f[p]])
  BY <1>6, <1>9, <1>10 DEF g
<1> QED BY <1>11 DEF L, E, there

\* The parser's clips are those of the text, in its order.
LEMMA ParsedClips ==
  ASSUME NEW clips \in Seq(WaveClip)
  PROVE  /\ ParseClips(clips) \in Seq(Clip) /\ Len(ParseClips(clips)) = Len(clips)
         /\ Len(clips) \in Nat /\ DOMAIN clips = 1 .. Len(clips)
         /\ \A k \in 1 .. Len(clips) :
              /\ clips[k].blocks \in Seq(Block) /\ Number(clips[k].offset) \in Nat
              /\ ParseClips(clips)[k].offset = Number(clips[k].offset)
              /\ ParseClips(clips)[k].au_files = AuFiles(clips[k].blocks)
<1> DEFINE N == Len(clips)
           parsed == ParseClips(clips)
           clip(k) == [offset |-> Number(clips[k].offset), au_files |-> AuFiles(clips[k].blocks)]
<1>1. N \in Nat /\ DOMAIN clips = 1 .. N /\ \A k \in 1 .. N : clips[k] \in WaveClip
  BY LenProperties, ElementOfSeq
<1>2. \A k \in 1 .. N : clips[k].blocks \in Seq(Block) /\ clips[k].offset \in Attribute
  BY <1>1 DEF WaveClip
<1>3. \A k \in 1 .. N : Number(clips[k].offset) \in Nat /\ AuFiles(clips[k].blocks) \in Seq(File)
  BY <1>2, NumberType, ClipReads
<1>4. parsed = [k \in 1 .. N |-> clip(k)]
  BY <1>1 DEF ParseClips
<1>5. \A k \in 1 .. N : clip(k) \in Clip
  BY <1>3 DEF Clip
<1> HIDE DEF parsed, N
<1>6. parsed \in [1 .. N -> Clip]
  <2> HIDE DEF clip
  <2> QED BY <1>4, <1>5
<1>7. parsed \in Seq(Clip)
  BY <1>1, <1>6, SeqDef
<1>8. Len(parsed) = N
  BY <1>1, <1>6, <1>7, LenProperties
<1>9. ASSUME NEW k \in 1 .. N
      PROVE  parsed[k].offset = Number(clips[k].offset)
             /\ parsed[k].au_files = AuFiles(clips[k].blocks)
  <2>1. parsed[k] = clip(k)
    BY <1>4
  <2> QED BY <2>1
<1> QED BY <1>1, <1>2, <1>3, <1>7, <1>8, <1>9 DEF parsed, N

\* A clip with a block that can be heard is not skipped, and is over by the end of
\* its last one.
LEMMA ClipLasts ==
  ASSUME NEW blocks \in Seq(Block)
  PROVE  LET au == AuFiles(blocks) IN
         /\ LengthOf(au) \in Nat
         /\ There(au) = <<>> <=> \A b \in 1 .. Len(blocks) : ~ Sounds(blocks[b])
         /\ There(au) = <<>> => LengthOf(au) = 0
         /\ BlocksAreApart(blocks) /\ There(au) # <<>> =>
              \E b \in 1 .. Len(blocks) :
                Sounds(blocks[b]) /\ LengthOf(au) <= Until(blocks[b])
<1> DEFINE au == AuFiles(blocks)
           there == There(au)
           L == Len(there)
<1>1. au \in Seq(File) /\ there \in Seq(File)
  BY ClipReads
<1>2. PICK f : Reads(f, blocks)
  BY ClipReads
<1>3. /\ OneToOne(f, 1 .. L, {b \in 1 .. Len(blocks) : Sounds(blocks[b])})
  BY <1>2 DEF Reads
<1>4. LengthOf(au) = Elapsed(there)[L]
  BY DEF LengthOf
<1> HIDE DEF there, au
<1>5. L \in Nat /\ (L = 0 <=> there = <<>>)
  BY <1>1, LenProperties, EmptySeq
<1>6. Elapsed(there) \in [0 .. L -> Nat] /\ Elapsed(there)[0] = 0
  BY <1>1, ElapsedSteps
<1>7. L \in 0 .. L /\ Elapsed(there)[L] \in Nat
  BY <1>5, <1>6
<1> HIDE DEF L
<1>8. L = 0 <=> \A b \in 1 .. Len(blocks) : ~ Sounds(blocks[b])
  <2>1. CASE L = 0
    BY <2>1, <1>3 DEF OneToOne
  <2>2. CASE L # 0
    <3>1. 1 \in 1 .. L
      BY <2>2, <1>5
    <3> QED BY <3>1, <2>2, <1>3 DEF OneToOne
  <2> QED BY <2>1, <2>2
<1>9. ASSUME BlocksAreApart(blocks), L # 0
      PROVE  \E b \in 1 .. Len(blocks) : Sounds(blocks[b]) /\ LengthOf(au) <= Until(blocks[b])
  <2>1. L \in 1 .. L
    BY <1>5, <1>9
  <2>2. Elapsed(there)[L] <= Until(blocks[f[L]])
    BY <2>1, <1>2, <1>9, ClipTimes DEF there, au, L
  <2>3. f[L] \in 1 .. Len(blocks) /\ Sounds(blocks[f[L]])
    BY <2>1, <1>3 DEF OneToOne
  <2> QED BY <2>2, <2>3, <1>4
<1> QED BY <1>4, <1>5, <1>6, <1>7, <1>8, <1>9 DEF there, au

\* Clips that are apart in the text are separate, and of none skipped none is.
LEMMA OnTimeIf ==
  ASSUME NEW clips \in Seq(WaveClip), ClipsAreApart(clips),
         \A k \in DOMAIN clips : BlocksAreApart(clips[k].blocks),
         NEW k \in 1 .. Len(clips), NoneSkipped(clips, k)
  PROVE  OnTime(ParseClips(clips), k)
<1> DEFINE N == Len(clips)
           parsed == ParseClips(clips)
<1>1. /\ parsed \in Seq(Clip) /\ Len(parsed) = N /\ N \in Nat /\ DOMAIN clips = 1 .. N
      /\ \A l \in 1 .. N :
           /\ clips[l].blocks \in Seq(Block) /\ Number(clips[l].offset) \in Nat
           /\ parsed[l].offset = Number(clips[l].offset)
           /\ parsed[l].au_files = AuFiles(clips[l].blocks)
  BY ParsedClips
<1> HIDE DEF parsed
<1>2. DOMAIN parsed = 1 .. N
  BY <1>1, LenProperties
<1>3. \A l \in 1 .. N : DOMAIN clips[l].blocks = 1 .. Len(clips[l].blocks)
  BY <1>1, BlockFacts
<1>4. Separate(parsed)
  <2> SUFFICES ASSUME NEW a \in 1 .. N, NEW b \in 1 .. N, a # b,
                      Number(clips[a].offset) <= Number(clips[b].offset)
               PROVE  Number(clips[a].offset) + LengthOf(AuFiles(clips[a].blocks))
                        <= Number(clips[b].offset)
    BY <1>1, <1>2 DEF Separate
  <2> DEFINE o == Number(clips[a].offset)
             p == Number(clips[b].offset)
             len == LengthOf(AuFiles(clips[a].blocks))
  <2>1. o \in Nat /\ p \in Nat /\ len \in Nat /\ o <= p
    BY <1>1, ClipLasts
  <2>2. CASE There(AuFiles(clips[a].blocks)) = <<>>
    <3>1. len = 0
      BY <2>2, <1>1, ClipLasts
    <3> HIDE DEF o, p, len
    <3>2. o + len <= p
      BY <3>1, <2>1
    <3> QED BY <3>2 DEF o, p, len
  <2>3. CASE There(AuFiles(clips[a].blocks)) # <<>>
    <3>1. BlocksAreApart(clips[a].blocks)
      BY <1>1
    <3>2. PICK c \in 1 .. Len(clips[a].blocks) :
            Sounds(clips[a].blocks[c]) /\ len <= Until(clips[a].blocks[c])
      BY <2>3, <3>1, <1>1, ClipLasts
    <3>3. o + Until(clips[a].blocks[c]) <= p
      BY <3>2, <1>1, <1>3 DEF ClipsAreApart
    <3>4. Until(clips[a].blocks[c]) \in Nat
      <4>1. /\ From(clips[a].blocks[c]) \in Nat
            /\ Duration[clips[a].blocks[c].file] \in Nat
            /\ Until(clips[a].blocks[c]) =
                 From(clips[a].blocks[c]) + Duration[clips[a].blocks[c].file]
        BY <1>1, BlockFacts
      <4> QED BY <4>1
    <3> HIDE DEF o, p, len
    <3>5. o + len <= p
      BY <2>1, <3>2, <3>3, <3>4
    <3> QED BY <3>5 DEF o, p, len
  <2> QED BY <2>2, <2>3 DEF o, p, len
<1>5. Unskipped(parsed, k)
  <2> SUFFICES ASSUME NEW l \in 1 .. N, l # k,
                      Number(clips[l].offset) <= Number(clips[k].offset)
               PROVE  There(AuFiles(clips[l].blocks)) # <<>>
    BY <1>1, <1>2 DEF Unskipped
  <2>1. \E b \in 1 .. Len(clips[l].blocks) : Sounds(clips[l].blocks[b])
    BY <1>1, <1>3 DEF NoneSkipped
  <2> QED BY <2>1, <1>1, ClipLasts
<1> QED BY <1>4, <1>5 DEF OnTime, parsed

\* The files that are there are, one to one, the pieces of the text.
LEMMA PartsArePieces ==
  ASSUME NEW clips \in Seq(WaveClip)
  PROVE  \E F, m :
           /\ \A k \in 1 .. Len(clips) : Reads(F[k], clips[k].blocks)
           /\ OneToOne(m, Parts(ParseClips(clips)), Pieces(clips))
           /\ \A x \in Parts(ParseClips(clips)) : m[x] = <<x[1], F[x[1]][x[2]]>>
<1> DEFINE N == Len(clips)
           parsed == ParseClips(clips)
           F == [k \in 1 .. N |-> CHOOSE f : Reads(f, clips[k].blocks)]
           m == [x \in Parts(parsed) |-> <<x[1], F[x[1]][x[2]]>>]
           there(k) == There(AuFiles(clips[k].blocks))
           heards(k) == {b \in 1 .. Len(clips[k].blocks) : Sounds(clips[k].blocks[b])}
<1>1. /\ parsed \in Seq(Clip) /\ Len(parsed) = N /\ N \in Nat /\ DOMAIN clips = 1 .. N
      /\ \A k \in 1 .. N : /\ clips[k].blocks \in Seq(Block)
                           /\ parsed[k].au_files = AuFiles(clips[k].blocks)
  BY ParsedClips
<1> HIDE DEF parsed
<1>2. \A x \in Parts(parsed) :
        x = <<x[1], x[2]>> /\ x[1] \in 1 .. N /\ x[2] \in 1 .. Len(there(x[1]))
  BY <1>1, PieceOf
<1>3. \A k \in 1 .. N : \A b \in 1 .. Len(there(k)) : <<k, b>> \in Parts(parsed)
  BY <1>1, PieceOf
<1> HIDE DEF N
<1>4. ASSUME NEW k \in 1 .. N
      PROVE  Reads(F[k], clips[k].blocks) /\ OneToOne(F[k], 1 .. Len(there(k)), heards(k))
  <2>1. \E f : Reads(f, clips[k].blocks)
    BY <1>1, ClipReads
  <2>2. Reads(CHOOSE f : Reads(f, clips[k].blocks), clips[k].blocks)
    BY <2>1
  <2>3. Reads(F[k], clips[k].blocks)
    BY <2>2
  <2> HIDE DEF F
  <2> QED BY <2>3 DEF Reads
<1>5. \A x : x \in Pieces(clips) <=>
               \E k \in 1 .. N : \E b \in heards(k) : x = <<k, b>>
  <2>1. \A k \in 1 .. N : DOMAIN clips[k].blocks = 1 .. Len(clips[k].blocks)
    BY <1>1, BlockFacts
  <2>2. \A k \in 1 .. N :
          {b \in DOMAIN clips[k].blocks : Sounds(clips[k].blocks[b])} = heards(k)
    BY <2>1
  <2>3. Pieces(clips) = UNION {{k} \X heards(k) : k \in 1 .. N}
    <3> HIDE DEF heards
    <3> QED BY <2>2, <1>1 DEF Pieces
  <2> HIDE DEF heards
  <2> QED BY <2>3
<1> HIDE DEF F, there, heards
<1>6. ASSUME NEW x \in Parts(parsed)
      PROVE  /\ m[x] = <<x[1], F[x[1]][x[2]]>> /\ m[x] \in Pieces(clips)
             /\ m[x][1] = x[1] /\ m[x][2] = F[x[1]][x[2]]
  <2>1. x[1] \in 1 .. N /\ x[2] \in 1 .. Len(there(x[1]))
    BY <1>2
  <2>2. F[x[1]][x[2]] \in heards(x[1])
    BY <2>1, <1>4 DEF OneToOne
  <2>3. m[x] = <<x[1], F[x[1]][x[2]]>>
    OBVIOUS
  <2> HIDE DEF m
  <2> QED BY <2>1, <2>2, <2>3, <1>5
<1>7. ASSUME NEW x \in Parts(parsed), NEW y \in Parts(parsed), m[x] = m[y]
      PROVE  x = y
  <2>1. x[1] = y[1] /\ F[x[1]][x[2]] = F[y[1]][y[2]]
    <3> HIDE DEF m
    <3>1. m[x][1] = m[y][1] /\ m[x][2] = m[y][2]
      BY <1>7
    <3> QED BY <3>1, <1>6
  <2>2. x[2] = y[2]
    BY <2>1, <1>2, <1>4 DEF OneToOne
  <2> QED BY <2>1, <2>2, <1>2
<1>8. ASSUME NEW y \in Pieces(clips)
      PROVE  \E x \in Parts(parsed) : m[x] = y
  <2>1. PICK k \in 1 .. N : \E b \in heards(k) : y = <<k, b>>
    BY <1>5
  <2>2. PICK b \in heards(k) : y = <<k, b>>
    BY <2>1
  <2>3. PICK p \in 1 .. Len(there(k)) : F[k][p] = b
    BY <1>4 DEF OneToOne
  <2>4. <<k, p>> \in Parts(parsed)
    BY <1>3
  <2>5. m[<<k, p>>] = <<k, F[k][p]>>
    BY <2>4
  <2> QED BY <2>2, <2>3, <2>4, <2>5
<1>9. m \in [Parts(parsed) -> Pieces(clips)]
  <2>1. \A x \in Parts(parsed) : <<x[1], F[x[1]][x[2]]>> \in Pieces(clips)
    BY <1>6
  <2> QED BY <2>1
<1> HIDE DEF m
<1>10. OneToOne(m, Parts(parsed), Pieces(clips))
  BY <1>7, <1>8, <1>9 DEF OneToOne
<1>11. /\ \A k \in 1 .. N : Reads(F[k], clips[k].blocks)
       /\ \A x \in Parts(parsed) : m[x] = <<x[1], F[x[1]][x[2]]>>
  BY <1>4, <1>6
<1> QED BY <1>10, <1>11 DEF parsed, N

-----------------------------------------------------------------------------
(* The merge. *)

Recorded == [name : Name, audio : Seq(Segment)]

\* A provider's time is that of a chunk not over yet.
LEMMA TimedFacts ==
  ASSUME project \in Projects, NEW s \in Nat
  PROVE  Timed(s) \in Nat /\ Timed(s) <= s /\ s < Timed(s) + project.chunk
<1> DEFINE c == project.chunk
<1>1. c \in Nat \ {0}
  BY ProjectsAssumption
<1> HIDE DEF c
<1>2. s % c \in 0 .. c - 1 /\ s = c * (s \div c) + (s % c)
  BY <1>1
<1>3. s \div c \in Nat /\ c * (s \div c) \in Nat
  BY <1>1
<1>4. s - (s % c) \in Nat /\ s - (s % c) <= s /\ s < s - (s % c) + c
  BY <1>1, <1>2, <1>3
<1> QED BY <1>4 DEF Timed, c

\* The lines of a track are its segments, spoken by the track.
LEMMA LinesOfTrack ==
  ASSUME project \in Projects, NEW t \in Recorded
  PROVE  /\ TrackLines(t) \in Seq(Line) /\ Len(TrackLines(t)) = Len(t.audio)
         /\ \A b \in 1 .. Len(t.audio) :
              TrackLines(t)[b] =
                [speaker |-> t.name, text |-> t.audio[b].text,
                 start |-> Timed(t.audio[b].start)]
<1> DEFINE a == t.audio
<1>1. a \in Seq(Segment) /\ t.name \in Name
  BY DEF Recorded
<1>2. TrackLines(t) = [k \in DOMAIN a |->
        [speaker |-> t.name, text |-> a[k].text, start |-> Timed(a[k].start)]]
  BY DEF TrackLines
<1> HIDE DEF a
<1>3. Len(a) \in Nat /\ DOMAIN a = 1 .. Len(a) /\ \A k \in 1 .. Len(a) : a[k] \in Segment
  BY <1>1, LenProperties, ElementOfSeq
<1>t. \A k \in 1 .. Len(a) : a[k].text \in File /\ Timed(a[k].start) \in Nat
  BY <1>3, TimedFacts DEF Segment
<1>4. \A k \in 1 .. Len(a) :
        /\ TrackLines(t)[k] =
             [speaker |-> t.name, text |-> a[k].text, start |-> Timed(a[k].start)]
        /\ TrackLines(t)[k] \in Line
  BY <1>1, <1>2, <1>3, <1>t DEF Line
<1>5. TrackLines(t) \in [1 .. Len(a) -> Line]
  <2>1. DOMAIN TrackLines(t) = 1 .. Len(a)
        /\ TrackLines(t) = [k \in 1 .. Len(a) |-> TrackLines(t)[k]]
    BY <1>2, <1>3
  <2> QED BY <2>1, <1>4
<1>6. TrackLines(t) \in Seq(Line)
  BY <1>3, <1>5, SeqDef
<1>7. Len(TrackLines(t)) = Len(a)
  BY <1>3, <1>5, <1>6, LenProperties
<1> QED BY <1>4, <1>6, <1>7 DEF a

\* All segments are those of one track after the other.
LEMMA SegmentsSteps ==
  ASSUME project \in Projects, tracks \in Seq(Recorded)
  PROVE  /\ AllSegments \in [0 .. Len(tracks) -> Seq(Line)]
         /\ AllSegments[0] = <<>>
         /\ \A n \in 1 .. Len(tracks) : AllSegments[n] = AllSegments[n - 1] \o TrackLines(tracks[n])
<1> DEFINE N == Len(tracks)
           More(x, n) == x \o TrackLines(tracks[n])
           P(f) == f = [n \in 0 .. N |-> IF n = 0 THEN <<>> ELSE More(f[n - 1], n)]
           step == [x \in Seq(Line) \X (1 .. N) |-> More(x[1], x[2])]
           c == AllSegments
<1>1. N \in Nat /\ \A n \in 1 .. N : tracks[n] \in Recorded
  BY LenProperties, ElementOfSeq
<1>2. <<>> \in Seq(Line)
  BY EmptySeq
<1> HIDE DEF N
<1>3. ASSUME NEW x \in Seq(Line), NEW n \in 1 .. N
      PROVE  More(x, n) \in Seq(Line)
  BY <1>1, LinesOfTrack, ConcatProperties
<1>4. c = CHOOSE g : P(g)
  BY DEF AllSegments, N
<1> HIDE DEF More, c
<1>5. step \in [Seq(Line) \X (1 .. N) -> Seq(Line)]
  BY <1>3
<1>6. \A x \in Seq(Line), n \in 1 .. N : step[<<x, n>>] = More(x, n)
  OBVIOUS
<1> HIDE DEF step
<1>7. PICK f \in [0 .. N -> Seq(Line)] : Follows(f, N, <<>>, step)
  BY <1>1, <1>2, <1>5, Recursion
<1>8. P(f)
  <2> DEFINE g == [n \in 0 .. N |-> IF n = 0 THEN <<>> ELSE More(f[n - 1], n)]
  <2>1. ASSUME NEW n \in 0 .. N
        PROVE  f[n] = g[n]
    <3>1. CASE n = 0
      BY <3>1, <1>7 DEF Follows
    <3>2. CASE n # 0
      <4>1. n \in 1 .. N /\ n - 1 \in 0 .. N
        BY <3>2, <1>1
      <4>2. f[n] = More(f[n - 1], n)
        BY <4>1, <1>6, <1>7 DEF Follows
      <4> QED BY <3>2, <4>2
    <3> QED BY <3>1, <3>2
  <2>2. DOMAIN g = 0 .. N /\ g = [n \in 0 .. N |-> g[n]]
    OBVIOUS
  <2>3. f = [n \in 0 .. N |-> f[n]]
    OBVIOUS
  <2> HIDE DEF g
  <2>4. f = g
    BY <2>1, <2>2, <2>3
  <2> QED BY <2>4 DEF g
<1>9. P(c)
  <2> HIDE DEF P
  <2> QED BY <1>4, <1>8
<1>10. c[0] = <<>> /\ \A n \in 1 .. N : c[n] = More(c[n - 1], n)
  <2> DEFINE g == [n \in 0 .. N |-> IF n = 0 THEN <<>> ELSE More(c[n - 1], n)]
  <2>1. c = g
    BY <1>9
  <2>2. g[0] = <<>> /\ \A n \in 1 .. N : g[n] = More(c[n - 1], n)
    BY <1>1
  <2> HIDE DEF g
  <2> QED BY <2>1, <2>2
<1>11. c = [n \in 0 .. N |-> c[n]]
  BY <1>9
<1> HIDE DEF P
<1>12. c \in [0 .. N -> Seq(Line)]
  <2> DEFINE S == {n \in 0 .. N : c[n] \in Seq(Line)}
  <2>1. 0 \in S
    <3>1. 0 \in 0 .. N
      BY <1>1
    <3>2. c[0] \in Seq(Line)
      BY <1>2, <1>10, Zenon
    <3> QED BY <3>1, <3>2
  <2>2. ASSUME NEW n \in 1 .. N, n - 1 \in S
        PROVE  n \in S
    <3>1. n \in 0 .. N /\ n - 1 \in 0 .. N
      BY <1>1
    <3>2. c[n - 1] \in Seq(Line)
      BY <2>2
    <3>3. More(c[n - 1], n) \in Seq(Line)
      BY <3>2, <1>3
    <3>4. c[n] \in Seq(Line)
      BY <3>3, <1>10
    <3> QED BY <3>1, <3>4
  <2> HIDE DEF S
  <2>3. \A n \in 0 .. N : n \in S
    BY <1>1, <2>1, <2>2, UpTo
  <2>4. \A n \in 0 .. N : c[n] \in Seq(Line)
    BY <2>3 DEF S
  <2> QED BY <1>11, <2>4
<1> QED BY <1>10, <1>12 DEF N, c, More

\* What is said b-th in track j, by the pair of them.
Places(n) == UNION {{j} \X (1 .. Len(tracks[j].audio)) : j \in 1 .. n}
LineAt(x) ==
  [speaker |-> tracks[x[1]].name,
   text |-> tracks[x[1]].audio[x[2]].text, start |-> Timed(tracks[x[1]].audio[x[2]].start)]

\* The lines of the first n tracks, one track after the other.
InTurn(g, lines, n) ==
  /\ OneToOne(g, 1 .. Len(lines), Places(n))
  /\ \A k \in 1 .. Len(lines) : lines[k] = LineAt(g[k])
  /\ \A k, l \in 1 .. Len(lines) : k < l => g[k][1] <= g[l][1]

\* The places in tracks, one by one.
LEMMA PlaceOf ==
  ASSUME NEW n \in Nat
  PROVE  /\ \A x \in Places(n) : /\ x = <<x[1], x[2]>> /\ x[1] \in 1 .. n
                                 /\ x[2] \in 1 .. Len(tracks[x[1]].audio)
         /\ \A j \in 1 .. n : \A b \in 1 .. Len(tracks[j].audio) : <<j, b>> \in Places(n)
<1>1. ASSUME NEW x \in Places(n)
      PROVE  /\ x = <<x[1], x[2]>> /\ x[1] \in 1 .. n
             /\ x[2] \in 1 .. Len(tracks[x[1]].audio)
  <2>1. PICK j \in 1 .. n : x \in {j} \X (1 .. Len(tracks[j].audio))
    BY DEF Places
  <2> QED BY <2>1
<1>2. ASSUME NEW j \in 1 .. n, NEW b \in 1 .. Len(tracks[j].audio)
      PROVE  <<j, b>> \in Places(n)
  BY DEF Places
<1> QED BY <1>1, <1>2

\* All segments are, one to one, the places in the tracks, track by track.
LEMMA SegmentsInTurn ==
  ASSUME project \in Projects, tracks \in Seq(Recorded)
  PROVE  /\ AllSegments[Len(tracks)] \in Seq(Line)
         /\ \E g : InTurn(g, AllSegments[Len(tracks)], Len(tracks))
<1> DEFINE N == Len(tracks)
           all == AllSegments
           Q == {n \in 0 .. N : \E g : InTurn(g, all[n], n)}
<1>1. N \in Nat /\ \A n \in 1 .. N : tracks[n] \in Recorded
  BY LenProperties, ElementOfSeq
<1>2. /\ all \in [0 .. N -> Seq(Line)] /\ all[0] = <<>>
      /\ \A n \in 1 .. N : all[n] = all[n - 1] \o TrackLines(tracks[n])
  BY SegmentsSteps
<1> HIDE DEF N, all
<1>3. 0 \in Q
  <2> DEFINE g == [b \in 1 .. 0 |-> 0]
  <2>1. Len(all[0]) = 0
    BY <1>2, EmptySeq
  <2>2. Places(0) = {}
    BY DEF Places
  <2>3. InTurn(g, all[0], 0)
    BY <2>1, <2>2 DEF InTurn, OneToOne
  <2> HIDE DEF g
  <2> QED BY <2>3, <1>1
<1>4. ASSUME NEW n \in 1 .. N, n - 1 \in Q
      PROVE  n \in Q
  <2> DEFINE o == all[n - 1]
             mine == TrackLines(tracks[n])
             p == Len(o)
             q == Len(mine)
             Z == {n} \X (1 .. q)
             h == [b \in 1 .. q |-> <<n, b>>]
  <2>0. n \in 0 .. N /\ n - 1 \in 0 .. N /\ n \in Nat /\ n - 1 \in Nat
    BY <1>1
  <2>1. PICK g : InTurn(g, o, n - 1)
    BY <1>4
  <2>2. /\ mine \in Seq(Line) /\ q = Len(tracks[n].audio)
        /\ \A b \in 1 .. q : mine[b] =
             [speaker |-> tracks[n].name, text |-> tracks[n].audio[b].text,
              start |-> Timed(tracks[n].audio[b].start)]
    BY <1>1, LinesOfTrack
  <2>3. o \in Seq(Line) /\ all[n] = o \o mine
    BY <1>2, <2>0
  <2> HIDE DEF o, mine
  <2>4. p \in Nat /\ q \in Nat
    BY <2>2, <2>3, LenProperties
  <2>5. /\ Len(all[n]) = p + q
        /\ \A k \in 1 .. p + q : all[n][k] = IF k <= p THEN o[k] ELSE mine[k - p]
    <3>1. mine \in Seq(Line)
      BY <2>2
    <3>2. /\ Len(o \o mine) = Len(o) + Len(mine)
          /\ \A k \in 1 .. Len(o) + Len(mine) :
               (o \o mine)[k] = IF k <= Len(o) THEN o[k] ELSE mine[k - Len(o)]
      BY <2>3, <3>1, ConcatProperties
    <3> QED BY <2>3, <3>2
  <2>6. Places(n) = Places(n - 1) \cup Z
    <3>1. \A j : j \in 1 .. n <=> j \in 1 .. n - 1 \/ j = n
      BY <2>0
    <3>2. Z = {n} \X (1 .. Len(tracks[n].audio))
      BY <2>2
    <3> HIDE DEF Z
    <3> QED BY <3>1, <3>2 DEF Places
  <2>7. Places(n - 1) \cap Z = {}
    <3>1. \A x \in Places(n - 1) : x[1] \in 1 .. n - 1
      BY <2>0, PlaceOf
    <3>2. \A x \in Z : x[1] = n
      OBVIOUS
    <3>3. n \notin 1 .. n - 1
      BY <2>0
    <3> QED BY <3>1, <3>2, <3>3
  <2>8. OneToOne(h, 1 .. q, Z)
    BY DEF OneToOne
  <2>9. \A b \in 1 .. q : h[b] = <<n, b>>
    OBVIOUS
  <2>10. OneToOne(g, 1 .. p, Places(n - 1))
    BY <2>1 DEF InTurn
  <2>11. /\ \A k \in 1 .. p : o[k] = LineAt(g[k])
         /\ \A k, l \in 1 .. p : k < l => g[k][1] <= g[l][1]
    BY <2>1 DEF InTurn
  <2> HIDE DEF h, Z, p, q
  <2>12. PICK f : OneToOne(f, 1 .. p + q, Places(n - 1) \cup Z) /\ Spliced(f, p, g, q, h)
    BY <2>4, <2>7, <2>8, <2>10, Joined
  <2>13. \A k \in 1 .. p : f[k] = g[k] /\ g[k][1] \in 1 .. n - 1
    <3>1. \A k \in 1 .. p : f[k] = g[k] /\ g[k] \in Places(n - 1)
      BY <2>10, <2>12 DEF Spliced, OneToOne
    <3>2. \A x \in Places(n - 1) : x[1] \in 1 .. n - 1
      BY <2>0, PlaceOf
    <3> QED BY <3>1, <3>2
  <2>14. ASSUME NEW k \in 1 .. p + q, ~ (k \in 1 .. p)
         PROVE  k - p \in 1 .. q /\ f[k] = <<n, k - p>> /\ f[k][1] = n /\ f[k][2] = k - p
    <3>1. k - p \in 1 .. q /\ (k - p) + p = k
      BY <2>4, <2>14
    <3>2. f[(k - p) + p] = h[k - p]
      BY <3>1, <2>12 DEF Spliced
    <3>3. f[k] = <<n, k - p>>
      BY <3>1, <3>2, <2>9
    <3> QED BY <3>1, <3>3
  <2>15. ASSUME NEW k \in 1 .. p + q
         PROVE  all[n][k] = LineAt(f[k])
    <3>1. CASE k \in 1 .. p
      <4>1. all[n][k] = o[k]
        BY <3>1, <2>4, <2>5
      <4> QED BY <4>1, <3>1, <2>11, <2>13
    <3>2. CASE ~ (k \in 1 .. p)
      <4>1. all[n][k] = mine[k - p]
        BY <3>2, <2>4, <2>5
      <4> QED BY <4>1, <3>2, <2>2, <2>14 DEF LineAt, q
    <3> QED BY <3>1, <3>2
  <2>16. ASSUME NEW k \in 1 .. p + q, NEW l \in 1 .. p + q, k < l
         PROVE  f[k][1] <= f[l][1]
    <3>1. CASE l \in 1 .. p
      <4>1. k \in 1 .. p
        BY <3>1, <2>4, <2>16
      <4> QED BY <4>1, <3>1, <2>11, <2>13, <2>16
    <3>2. CASE ~ (l \in 1 .. p)
      <4>1. f[l][1] = n
        BY <3>2, <2>14
      <4>2. f[k][1] \in 1 .. n
        <5>1. CASE k \in 1 .. p
          <6>1. f[k][1] \in 1 .. n - 1
            BY <5>1, <2>13
          <6> QED BY <6>1, <2>0
        <5>2. CASE ~ (k \in 1 .. p)
          BY <5>2, <2>14, <2>0
        <5> QED BY <5>1, <5>2
      <4> QED BY <4>1, <4>2, <2>0
    <3> QED BY <3>1, <3>2
  <2>17. InTurn(f, all[n], n)
    BY <2>5, <2>6, <2>12, <2>15, <2>16 DEF InTurn
  <2> QED BY <2>17, <2>0
<1> HIDE DEF Q
<1>5. \A n \in 0 .. N : n \in Q
  BY <1>1, <1>3, <1>4, UpTo
<1>6. N \in 0 .. N
  BY <1>1
<1>7. all[N] \in Seq(Line) /\ N \in Q
  BY <1>2, <1>5, <1>6
<1> QED BY <1>7 DEF Q, N, all

\* What is heard of all tracks.
Voiced == {x \in Places(Len(tracks)) : LineAt(x).text \notin Silent}

\* The transcript is what is heard, by time and then by track.
InOrder(g) ==
  /\ OneToOne(g, 1 .. Len(Merged), Voiced)
  /\ \A k \in 1 .. Len(Merged) : Merged[k] = LineAt(g[k])
  /\ \A k, l \in 1 .. Len(Merged) : k < l =>
       \/ Merged[k].start < Merged[l].start
       \/ Merged[k].start = Merged[l].start /\ g[k][1] <= g[l][1]

\* The transcript is, one to one, what is heard of all tracks, in order.
LEMMA MergedInOrder ==
  ASSUME project \in Projects, tracks \in Seq(Recorded)
  PROVE  Merged \in Seq(Line) /\ \E g : InOrder(g)
<1> DEFINE all == AllSegments[Len(tracks)]
           L == Len(all)
           key == [n \in DOMAIN all |-> all[n].start]
           lines == ByStart(all)
           P == Places(Len(tracks))
<1>1. all \in Seq(Line)
  BY SegmentsInTurn
<1>2. PICK g : InTurn(g, all, Len(tracks))
  BY SegmentsInTurn
<1>3. Merged = Chosen(lines, Told)[Len(lines)]
  BY DEF Merged
<1>4. lines = Sorted(all, key)
  BY DEF ByStart
<1> HIDE DEF lines, all
<1>5. L \in Nat /\ DOMAIN all = 1 .. L /\ \A n \in 1 .. L : all[n] \in Line
  BY <1>1, LenProperties, ElementOfSeq
<1>6. key \in [1 .. L -> Nat] /\ \A n \in 1 .. L : key[n] = all[n].start
  BY <1>5 DEF Line
<1> HIDE DEF key
<1>7. lines \in Seq(Line) /\ Len(lines) = L
  BY <1>1, <1>4, <1>6, Sorting
<1>8. PICK h : /\ OneToOne(h, 1 .. L, 1 .. L)
               /\ \A n \in 1 .. L : lines[n] = all[h[n]]
               /\ \A n, m \in 1 .. L : n < m => Before(key, h[n], h[m])
  <2>1. \E h : /\ OneToOne(h, 1 .. Len(all), 1 .. Len(all))
               /\ \A n \in 1 .. Len(all) : Sorted(all, key)[n] = all[h[n]]
               /\ \A n, m \in 1 .. Len(all) : n < m => Before(key, h[n], h[m])
    BY <1>1, <1>6, Sorting
  <2> QED BY <2>1, <1>4
<1>9. Merged \in Seq(Line)
  BY <1>3, <1>7, Choosing
<1>10. PICK c : /\ OneToOne(c, 1 .. Len(Merged), {b \in 1 .. L : lines[b] \in Told})
                /\ \A m \in 1 .. Len(Merged) : Merged[m] = lines[c[m]]
                /\ \A m, k \in 1 .. Len(Merged) : m < k => c[m] < c[k]
  <2>1. \E c : Picks(c, Merged, lines, Told)
    BY <1>3, <1>7, Choosing
  <2> QED BY <2>1, <1>7 DEF Picks
<1> DEFINE In == {b \in 1 .. L : lines[b] \in Told}
           sort == [b \in 1 .. L |-> g[h[b]]]
           kept == [b \in {a \in 1 .. L : sort[a] \in Voiced} |-> sort[b]]
           G == [m \in 1 .. Len(Merged) |-> kept[c[m]]]
<1>11. /\ OneToOne(g, 1 .. L, P)
       /\ \A k \in 1 .. L : all[k] = LineAt(g[k])
       /\ \A k, l \in 1 .. L : k < l => g[k][1] <= g[l][1]
  BY <1>2 DEF InTurn
<1>12. \A n \in 1 .. L : h[n] \in 1 .. L
  BY <1>8 DEF OneToOne
<1>13. OneToOne(sort, 1 .. L, P)
  <2> HIDE DEF P
  <2> QED BY <1>8, <1>11, Composed
<1>14. \A b \in 1 .. L : lines[b] = LineAt(sort[b]) /\ sort[b] = g[h[b]] /\ sort[b] \in P
  BY <1>8, <1>11, <1>12, <1>13 DEF OneToOne
<1> HIDE DEF sort
<1>15. In = {a \in 1 .. L : sort[a] \in Voiced}
  <2>1. ASSUME NEW b \in 1 .. L
        PROVE  lines[b] \in Told <=> sort[b] \in Voiced
    <3>1. lines[b] \in Line
      BY <1>7, ElementOfSeq
    <3>2. lines[b] \in Told <=> lines[b].text \notin Silent
      BY <3>1 DEF Told
    <3>3. sort[b] \in Voiced <=> LineAt(sort[b]).text \notin Silent
      BY <1>14 DEF Voiced
    <3> QED BY <3>2, <3>3, <1>14
  <2> QED BY <2>1
<1>16. OneToOne(kept, In, Voiced)
  <2>1. Voiced \in SUBSET P
    BY DEF Voiced
  <2> HIDE DEF P, In
  <2> QED BY <2>1, <1>13, <1>15, Restricted
<1>17. \A m \in 1 .. Len(Merged) :
         c[m] \in In /\ c[m] \in 1 .. L /\ kept[c[m]] = sort[c[m]]
  <2>1. \A m \in 1 .. Len(Merged) : c[m] \in In
    BY <1>10 DEF OneToOne
  <2>2. \A b \in In : b \in 1 .. L /\ kept[b] = sort[b]
    BY <1>15
  <2> HIDE DEF In, kept
  <2> QED BY <2>1, <2>2
<1>18. OneToOne(G, 1 .. Len(Merged), Voiced)
  <2>1. OneToOne(c, 1 .. Len(Merged), In)
    BY <1>10
  <2> HIDE DEF In, kept
  <2> QED BY <2>1, <1>16, Composed
<1>19. \A m \in 1 .. Len(Merged) : G[m] = sort[c[m]] /\ Merged[m] = LineAt(G[m])
  <2> HIDE DEF kept
  <2> QED BY <1>10, <1>14, <1>17
<1> HIDE DEF G, kept, In, P
<1>20. ASSUME NEW k \in 1 .. Len(Merged), NEW l \in 1 .. Len(Merged), k < l
       PROVE  \/ Merged[k].start < Merged[l].start
              \/ Merged[k].start = Merged[l].start /\ G[k][1] <= G[l][1]
  <2> DEFINE a == h[c[k]]
             b == h[c[l]]
  <2>1. c[k] \in 1 .. L /\ c[l] \in 1 .. L /\ c[k] < c[l]
    BY <1>10, <1>17, <1>20
  <2>2. Before(key, a, b) /\ a \in 1 .. L /\ b \in 1 .. L
    BY <2>1, <1>8, <1>12
  <2>3. Merged[k] = all[a] /\ Merged[l] = all[b]
    BY <2>1, <1>8, <1>10
  <2>4. G[k] = g[a] /\ G[l] = g[b]
    BY <2>1, <1>14, <1>19
  <2> HIDE DEF a, b
  <2>5. Merged[k].start = key[a] /\ Merged[l].start = key[b]
    BY <2>2, <2>3, <1>6
  <2>6. key[a] < key[b] \/ (key[a] = key[b] /\ a < b)
    BY <2>2 DEF Before
  <2> QED BY <2>2, <2>4, <2>5, <2>6, <1>11
<1>21. InOrder(G)
  BY <1>18, <1>19, <1>20 DEF InOrder
<1> QED BY <1>9, <1>21

-----------------------------------------------------------------------------
(* Tracks and elements. *)

\* What the elements of a project are made of.
LEMMA ElementFacts ==
  ASSUME project \in Projects
  PROVE  /\ Len(Elements) \in Nat /\ DOMAIN Elements = 1 .. Len(Elements)
         /\ \A i \in 1 .. Len(Elements) : Elements[i].name \in Name
         /\ project.imports # <<>> =>
              Elements = project.imports /\ \A i \in 1 .. Len(Elements) : Elements[i] \in Import
         /\ project.imports = <<>> =>
              /\ Elements = project.waves /\ DOMAIN project.waves = 1 .. Len(Elements)
              /\ \A i \in 1 .. Len(Elements) : Elements[i] \in Wave
<1>1. project.imports \in Seq(Import) /\ project.waves \in Seq(Wave)
  BY ProjectsAssumption
<1>2. /\ project.imports # <<>> => Elements = project.imports
      /\ project.imports = <<>> => Elements = project.waves
  BY DEF Elements
<1>3. CASE project.imports # <<>>
  <2>1. Elements \in Seq(Import)
    BY <1>1, <1>2, <1>3
  <2>2. /\ Len(Elements) \in Nat /\ DOMAIN Elements = 1 .. Len(Elements)
        /\ \A i \in 1 .. Len(Elements) : Elements[i] \in Import
    BY <2>1, LenProperties, ElementOfSeq
  <2> QED BY <1>2, <1>3, <2>2 DEF Import
<1>4. CASE project.imports = <<>>
  <2>1. Elements \in Seq(Wave)
    BY <1>1, <1>2, <1>4
  <2>2. /\ Len(Elements) \in Nat /\ DOMAIN Elements = 1 .. Len(Elements)
        /\ \A i \in 1 .. Len(Elements) : Elements[i] \in Wave
    BY <2>1, LenProperties, ElementOfSeq
  <2> QED BY <1>2, <1>4, <2>2 DEF Wave
<1> QED BY <1>3, <1>4

\* The audio of a track says, one to one, what is heard of element i: not before its
\* clip, and at its time if it is undisturbed.
FaithfulBy(g, i, audio) ==
  /\ OneToOne(g, 1 .. Len(audio), Heard(i))
  /\ \A b \in 1 .. Len(audio) :
       /\ audio[b].text = TextOf(i, g[b])
       /\ ClipOf(i, g[b]) <= audio[b].start
       /\ Undisturbed(i, g[b]) => audio[b].start = TimeOf(i, g[b])
Faithful(i, audio) == \E g : FaithfulBy(g, i, audio)

\* A track built from clips is faithful to its element.
LEMMA WaveFaithful ==
  ASSUME project \in Projects, project.imports = <<>>, NEW i \in 1 .. Len(Elements)
  PROVE  LET audio == BuildTrackFromClips(ParseClips(Elements[i].clips)) IN
         /\ audio.said \in Seq(Segment) /\ Faithful(i, audio.said)
         /\ audio.length = 0 => Heard(i) = {}
<1> DEFINE clips == Elements[i].clips
           parsed == ParseClips(clips)
           audio == BuildTrackFromClips(parsed)
           said == audio.said
<1>1. clips \in Seq(WaveClip)
  BY ElementFacts DEF Wave
<1>2. Heard(i) = Pieces(clips)
  BY DEF Heard
<1>3. \A x : /\ TextOf(i, x) = clips[x[1]].blocks[x[2]].file
             /\ ClipOf(i, x) = Number(clips[x[1]].offset)
             /\ TimeOf(i, x) = Number(clips[x[1]].offset) + From(clips[x[1]].blocks[x[2]])
  BY DEF TextOf, ClipOf, TimeOf
<1>4. \A x : Undisturbed(i, x) =>
        /\ ClipsAreApart(clips) /\ \A k \in DOMAIN clips : BlocksAreApart(clips[k].blocks)
        /\ HeardUpTo(clips[x[1]].blocks, x[2]) /\ NoneSkipped(clips, x[1])
  BY DEF Undisturbed, IsApart, InItsClip, InItsTrack
<1> HIDE DEF clips
<1>5. /\ parsed \in Seq(Clip) /\ Len(parsed) = Len(clips)
      /\ DOMAIN clips = 1 .. Len(clips)
      /\ \A k \in 1 .. Len(clips) :
           /\ clips[k].blocks \in Seq(Block)
           /\ parsed[k].offset = Number(clips[k].offset)
           /\ parsed[k].au_files = AuFiles(clips[k].blocks)
  BY <1>1, ParsedClips
<1> HIDE DEF parsed
<1>6. /\ \E g : OneToOne(g, 1 .. Len(said), Parts(parsed)) /\ Recounts(g, said, parsed)
      /\ audio \in Wav /\ (audio.length = 0 => Len(said) = 0)
  BY <1>5, TrackBuilt
<1>7. said \in Seq(Segment)
  BY <1>6 DEF Wav
<1> HIDE DEF audio, said
<1>8. PICK g : OneToOne(g, 1 .. Len(said), Parts(parsed)) /\ Recounts(g, said, parsed)
  BY <1>6
<1>9. PICK F, m : /\ \A k \in 1 .. Len(clips) : Reads(F[k], clips[k].blocks)
                  /\ OneToOne(m, Parts(parsed), Pieces(clips))
                  /\ \A x \in Parts(parsed) : m[x] = <<x[1], F[x[1]][x[2]]>>
  BY <1>1, PartsArePieces DEF parsed
<1> DEFINE r == [b \in 1 .. Len(said) |-> m[g[b]]]
<1>10. OneToOne(r, 1 .. Len(said), Heard(i))
  BY <1>2, <1>8, <1>9, Composed
<1>11. ASSUME NEW b \in 1 .. Len(said)
       PROVE  /\ said[b].text = TextOf(i, r[b])
              /\ ClipOf(i, r[b]) <= said[b].start
              /\ Undisturbed(i, r[b]) => said[b].start = TimeOf(i, r[b])
  <2> DEFINE k == g[b][1]
             p == g[b][2]
             blocks == clips[k].blocks
             there == There(AuFiles(blocks))
  <2>1. g[b] \in Parts(parsed)
    BY <1>8 DEF OneToOne
  <2>2. k \in 1 .. Len(clips) /\ p \in 1 .. Len(There(parsed[k].au_files))
    BY <2>1, <1>5, PieceOf
  <2>3. r[b] = <<k, F[k][p]>>
    BY <2>1, <1>9
  <2>4. r[b][1] = k /\ r[b][2] = F[k][p]
    BY <2>3
  <2>5. RecountsAt(g, said, parsed, b)
    BY <1>8 DEF Recounts
  <2>6. /\ said[b].text = there[p] /\ Number(clips[k].offset) <= said[b].start
        /\ OnTime(parsed, k) =>
             said[b].start = Number(clips[k].offset) + Elapsed(there)[p - 1]
    BY <2>2, <2>5, <1>5 DEF RecountsAt
  <2>7. Reads(F[k], blocks) /\ blocks \in Seq(Block) /\ p \in 1 .. Len(there)
    BY <2>2, <1>5, <1>9
  <2> HIDE DEF r, k, p
  <2>8. there[p] = blocks[F[k][p]].file
    BY <2>7 DEF Reads
  <2>9. ASSUME Undisturbed(i, r[b])
        PROVE  said[b].start = TimeOf(i, r[b])
    <3>1. /\ ClipsAreApart(clips) /\ \A l \in DOMAIN clips : BlocksAreApart(clips[l].blocks)
          /\ HeardUpTo(blocks, F[k][p]) /\ NoneSkipped(clips, k)
      BY <2>9, <2>4, <1>4
    <3>2. OnTime(parsed, k)
      BY <3>1, <2>2, <1>1, OnTimeIf DEF parsed
    <3>3. BlocksAreApart(blocks)
      BY <3>1, <2>2, <1>5
    <3>4. Elapsed(there)[p - 1] = From(blocks[F[k][p]])
      BY <3>1, <3>3, <2>7, ClipTimes
    <3> QED BY <3>2, <3>4, <2>4, <2>6, <1>3
  <2> QED BY <2>4, <2>6, <2>8, <2>9, <1>3
<1> HIDE DEF r
<1>12. FaithfulBy(r, i, said)
  BY <1>10, <1>11 DEF FaithfulBy
<1>13. Faithful(i, said)
  BY <1>12 DEF Faithful
<1>14. Len(said) = 0 => Heard(i) = {}
  BY <1>10 DEF OneToOne
<1> QED BY <1>6, <1>7, <1>13, <1>14 DEF parsed, clips, audio, said

\* An imported track is faithful to its element.
LEMMA ImportFaithful ==
  ASSUME project \in Projects, project.imports # <<>>, NEW i \in 1 .. Len(Elements)
  PROVE  LET e == Elements[i]
             o == Number(e.offset)
             said == Concat(Silence(o), Audio(e.file)).said
         IN  /\ e.file \in project.zipped => said \in Seq(Segment) /\ Faithful(i, said)
             /\ e.file \notin project.zipped => Heard(i) = {}
<1> DEFINE e == Elements[i]
           o == Number(e.offset)
           z == Concat(Silence(o), Audio(e.file))
           said == z.said
           g == [b \in 1 .. 1 |-> <<1, 1>>]
<1>1. e.file \in File /\ o \in Nat
  <2>1. e.file \in File /\ e.offset \in Attribute
    BY ElementFacts DEF Import
  <2> QED BY <2>1, NumberType
<1>2. Heard(i) = {x \in {<<1, 1>>} : e.file \in project.zipped}
  BY DEF Heard
<1>3. \A x : TextOf(i, x) = e.file /\ ClipOf(i, x) = o /\ TimeOf(i, x) = o
  BY DEF TextOf, ClipOf, TimeOf
<1> HIDE DEF e, o
<1>4. /\ Silence(o) \in Wav /\ Len(Silence(o).said) = 0
      /\ Silence(o).length = o
  BY <1>1, OfSilence, EmptySeq
<1>5. /\ Audio(e.file) \in Wav /\ Len(Audio(e.file).said) = 1
      /\ Audio(e.file).said[1].text = e.file /\ Audio(e.file).said[1].start = 0
  <2>1. /\ Audio(e.file) \in Wav /\ Len(Audio(e.file).said) = 1
        /\ Audio(e.file).said[1] = [text |-> e.file, start |-> 0]
    BY <1>1, OfOneFile
  <2> QED BY <2>1
<1>6. Thereafter(z, Silence(o), Audio(e.file))
  BY <1>4, <1>5, Concatenated
<1> HIDE DEF z
<1>7. z \in Wav /\ Len(said) = 1
  BY <1>4, <1>5, <1>6 DEF Thereafter
<1>8. said[1].text = e.file /\ said[1].start = o
  <2>1. 1 \in 1 .. 1 /\ 1 + 0 = 1 /\ 0 + o = o
    BY <1>1
  <2> QED BY <2>1, <1>4, <1>5, <1>6 DEF Thereafter
<1>9. said \in Seq(Segment)
  BY <1>7 DEF Wav
<1> HIDE DEF said
<1>10. ASSUME e.file \in project.zipped
       PROVE  FaithfulBy(g, i, said)
  <2>1. OneToOne(g, 1 .. 1, Heard(i))
    BY <1>2, <1>10 DEF OneToOne
  <2> HIDE DEF g
  <2> QED BY <2>1, <1>1, <1>3, <1>7, <1>8 DEF FaithfulBy
<1> HIDE DEF g
<1>11. e.file \in project.zipped => Faithful(i, said)
  BY <1>10 DEF Faithful
<1> QED BY <1>2, <1>9, <1>11 DEF e, o, z, said

\* e tells which element a track is of.
Origin(e) ==
  /\ e \in [1 .. Len(tracks) -> 1 .. done]
  /\ \A j \in 1 .. Len(tracks) :
       tracks[j].name = Elements[e[j]].name /\ Faithful(e[j], tracks[j].audio)
  /\ \A j, k \in 1 .. Len(tracks) : j < k => e[j] < e[k]
  /\ \A i \in 1 .. done : Heard(i) # {} => \E j \in 1 .. Len(tracks) : e[j] = i

\* What an element lets hear of a file is as often in the transcript.
LEMMA Counted ==
  ASSUME project \in Projects, tracks \in Seq(Recorded), done = Len(Elements), NamesDiffer,
         NEW e, Origin(e), NEW G, InOrder(G), NEW i \in 1 .. Len(Elements),
         NEW f \in File \ Silent
  PROVE  Cardinality({x \in Heard(i) : TextOf(i, x) = f}) =
         Cardinality({n \in 1 .. Len(Merged) :
                        Merged[n].speaker = Elements[i].name /\ Merged[n].text = f})
<1> DEFINE N == Len(tracks)
           M == Len(Merged)
           S == {n \in 1 .. M : Merged[n].speaker = Elements[i].name /\ Merged[n].text = f}
           X == {x \in Heard(i) : TextOf(i, x) = f}
<1>1. N \in Nat /\ M \in Nat
  BY MergedInOrder, LenProperties
<1>2. DOMAIN Elements = 1 .. Len(Elements)
  BY ElementFacts
<1>3. /\ OneToOne(G, 1 .. M, Voiced)
      /\ \A n \in 1 .. M : Merged[n] = LineAt(G[n])
  BY DEF InOrder
<1>4. /\ \A x \in Places(N) : /\ x = <<x[1], x[2]>> /\ x[1] \in 1 .. N
                              /\ x[2] \in 1 .. Len(tracks[x[1]].audio)
      /\ \A j \in 1 .. N : \A b \in 1 .. Len(tracks[j].audio) : <<j, b>> \in Places(N)
  BY <1>1, PlaceOf
<1>5. /\ e \in [1 .. N -> 1 .. Len(Elements)]
      /\ \A j \in 1 .. N : tracks[j].name = Elements[e[j]].name /\ Faithful(e[j], tracks[j].audio)
      /\ \A j, k \in 1 .. N : j < k => e[j] < e[k]
      /\ Heard(i) # {} => \E j \in 1 .. N : e[j] = i
  BY DEF Origin
<1> HIDE DEF N, M
<1>6. \A j, k \in 1 .. N : e[j] = e[k] => j = k
  <2> TAKE j, k \in 1 .. N
  <2>1. e[j] \in Int /\ e[k] \in Int
    BY <1>5
  <2> QED BY <2>1, <1>1, <1>5
<1>7. ASSUME NEW n \in S
      PROVE  /\ n \in 1 .. M /\ G[n] \in Voiced /\ G[n] \in Places(N)
             /\ e[G[n][1]] = i /\ tracks[G[n][1]].audio[G[n][2]].text = f
  <2>1. n \in 1 .. M /\ G[n] \in Voiced /\ Merged[n] = LineAt(G[n])
    BY <1>3 DEF OneToOne
  <2>2. G[n] \in Places(N)
    BY <2>1 DEF Voiced, N
  <2>3. G[n][1] \in 1 .. N
    BY <2>2, <1>4
  <2>4. tracks[G[n][1]].name = Elements[i].name /\ tracks[G[n][1]].audio[G[n][2]].text = f
    BY <2>1 DEF LineAt
  <2>5. Elements[e[G[n][1]]].name = Elements[i].name /\ e[G[n][1]] \in 1 .. Len(Elements)
    BY <2>3, <2>4, <1>5
  <2>6. e[G[n][1]] = i
    BY <2>5, <1>2 DEF NamesDiffer
  <2> QED BY <2>1, <2>2, <2>4, <2>6
<1>8. IsFiniteSet(S)
  <2>1. S \in SUBSET (1 .. M)
    OBVIOUS
  <2> HIDE DEF S, X
  <2>2. IsFiniteSet(1 .. M)
    BY <1>1, FS_Interval
  <2> QED BY <2>1, <2>2, FS_Subset
<1>9. CASE \E j \in 1 .. N : e[j] = i
  <2>1. PICK j \in 1 .. N : e[j] = i
    BY <1>9
  <2> DEFINE a == tracks[j].audio
  <2>2. PICK g : FaithfulBy(g, i, a)
    BY <2>1, <1>5 DEF Faithful
  <2>3. /\ OneToOne(g, 1 .. Len(a), Heard(i))
        /\ \A b \in 1 .. Len(a) : a[b].text = TextOf(i, g[b])
    BY <2>2 DEF FaithfulBy
  <2> DEFINE k == [n \in S |-> g[G[n][2]]]
  <2>4. ASSUME NEW n \in S
        PROVE  /\ G[n] = <<j, G[n][2]>> /\ G[n][2] \in 1 .. Len(a)
               /\ a[G[n][2]].text = f /\ k[n] = g[G[n][2]]
    <3>1. /\ G[n] \in Places(N) /\ e[G[n][1]] = i
          /\ tracks[G[n][1]].audio[G[n][2]].text = f
      BY <1>7
    <3>2. G[n][1] = j
      BY <3>1, <2>1, <1>4, <1>6
    <3> QED BY <3>1, <3>2, <1>4
  <2> HIDE DEF a
  <2>5. k \in [S -> X]
    <3>1. \A n \in S : g[G[n][2]] \in X
      <4> TAKE n \in S
      <4>1. g[G[n][2]] \in Heard(i) /\ TextOf(i, g[G[n][2]]) = f
        BY <2>3, <2>4 DEF OneToOne
      <4> QED BY <4>1
    <3> HIDE DEF S, X
    <3> QED BY <3>1
  <2>6. ASSUME NEW n \in S, NEW m \in S, k[n] = k[m]
        PROVE  n = m
    <3>1. G[n][2] = G[m][2]
      BY <2>3, <2>4, <2>6 DEF OneToOne
    <3>2. G[n] = G[m]
      BY <3>1, <2>4
    <3>3. n \in 1 .. M /\ m \in 1 .. M
      OBVIOUS
    <3> QED BY <3>2, <3>3, <1>3 DEF OneToOne
  <2>7. ASSUME NEW x \in X
        PROVE  \E n \in S : k[n] = x
    <3>1. PICK b \in 1 .. Len(a) : g[b] = x
      BY <2>3 DEF OneToOne
    <3>2. a[b].text = f
      BY <3>1, <2>3
    <3>3. <<j, b>> \in Places(N) /\ LineAt(<<j, b>>) =
            [speaker |-> tracks[j].name, text |-> a[b].text, start |-> Timed(a[b].start)]
      BY <1>4 DEF LineAt, a
    <3>4. <<j, b>> \in Voiced
      BY <3>2, <3>3 DEF Voiced, N
    <3>5. PICK n \in 1 .. M : G[n] = <<j, b>>
      BY <3>4, <1>3 DEF OneToOne
    <3>6. Merged[n].speaker = tracks[j].name /\ Merged[n].text = f
      <4>1. Merged[n] = LineAt(<<j, b>>)
        BY <3>5, <1>3
      <4>2. Merged[n] = [speaker |-> tracks[j].name, text |-> a[b].text, start |-> Timed(a[b].start)]
        BY <4>1, <3>3
      <4> QED BY <4>2, <3>2
    <3>7. n \in S
      BY <3>6, <2>1, <1>5
    <3>8. k[n] = g[G[n][2]] /\ G[n][2] = b
      BY <3>5, <3>7
    <3> HIDE DEF S, k
    <3> QED BY <3>1, <3>7, <3>8
  <2>8. OneToOne(k, S, X)
    <3> HIDE DEF S, X, k
    <3> QED BY <2>5, <2>6, <2>7 DEF OneToOne
  <2> HIDE DEF S, X, k
  <2>9. Cardinality(X) = Cardinality(S)
    BY <2>8, <1>8, CountedAlike
  <2> QED BY <2>9 DEF S, X, M
<1>10. CASE ~ \E j \in 1 .. N : e[j] = i
  <2>1. X = {}
    BY <1>5, <1>10
  <2>2. S = {}
    <3> SUFFICES ASSUME NEW n \in S PROVE FALSE
      OBVIOUS
    <3>1. G[n] \in Places(N) /\ e[G[n][1]] = i
      BY <1>7
    <3> QED BY <3>1, <1>4, <1>10
  <2> QED BY <2>1, <2>2 DEF M
<1> QED BY <1>9, <1>10

\* A clip begins at a number.
LEMMA ClipOfType ==
  ASSUME project \in Projects, NEW i \in 1 .. Len(Elements), NEW x \in Heard(i)
  PROVE  ClipOf(i, x) \in Nat
<1>1. CASE project.imports # <<>>
  <2>1. Elements[i].offset \in Attribute
    BY <1>1, ElementFacts DEF Import
  <2> QED BY <1>1, <2>1, NumberType DEF ClipOf
<1>2. CASE project.imports = <<>>
  <2> DEFINE clips == Elements[i].clips
  <2>1. clips \in Seq(WaveClip)
    BY <1>2, ElementFacts DEF Wave
  <2>2. x \in Pieces(clips)
    BY <1>2 DEF Heard
  <2>3. ClipOf(i, x) = Number(clips[x[1]].offset)
    BY <1>2 DEF ClipOf
  <2> HIDE DEF clips
  <2>4. PICK k \in DOMAIN clips :
          x \in {k} \X {b \in DOMAIN clips[k].blocks : Sounds(clips[k].blocks[b])}
    BY <2>2 DEF Pieces
  <2>5. x[1] = k /\ k \in 1 .. Len(clips)
    BY <2>4, <2>1, ParsedClips
  <2> QED BY <2>1, <2>3, <2>5, ParsedClips
<1> QED BY <1>1, <1>2

\* From the tracks to what the transcript promises.
LEMMA MergedIsConversation ==
  ASSUME project \in Projects, tracks \in Seq(Recorded), done = Len(Elements), NamesDiffer,
         NEW e, Origin(e), script = Merged
  PROVE  NothingIsLeftOut /\ Chronological /\ NeverEarly /\ AtItsTime
<1> DEFINE N == Len(tracks)
           M == Len(Merged)
<1>1. PICK G : InOrder(G)
  BY MergedInOrder
<1>2. Merged \in Seq(Line)
  BY MergedInOrder
<1>3. N \in Nat /\ M \in Nat /\ DOMAIN Merged = 1 .. M
  BY <1>2, LenProperties
<1>4. Len(Elements) \in Nat /\ DOMAIN Elements = 1 .. Len(Elements)
  BY ElementFacts
<1>5. /\ OneToOne(G, 1 .. M, Voiced)
      /\ \A n \in 1 .. M : Merged[n] = LineAt(G[n])
      /\ \A k, l \in 1 .. M : k < l =>
           \/ Merged[k].start < Merged[l].start
           \/ Merged[k].start = Merged[l].start /\ G[k][1] <= G[l][1]
  BY <1>1 DEF InOrder
<1>6. /\ \A x \in Places(N) : /\ x = <<x[1], x[2]>> /\ x[1] \in 1 .. N
                              /\ x[2] \in 1 .. Len(tracks[x[1]].audio)
      /\ \A j \in 1 .. N : \A b \in 1 .. Len(tracks[j].audio) : <<j, b>> \in Places(N)
  BY <1>3, PlaceOf
<1>7. /\ e \in [1 .. N -> 1 .. Len(Elements)]
      /\ \A j \in 1 .. N : tracks[j].name = Elements[e[j]].name /\ Faithful(e[j], tracks[j].audio)
      /\ \A j, k \in 1 .. N : j < k => e[j] < e[k]
      /\ \A i \in 1 .. Len(Elements) : Heard(i) # {} => \E j \in 1 .. N : e[j] = i
  BY DEF Origin
<1>v. \A x : x \in Voiced <=> x \in Places(N) /\ LineAt(x).text \notin Silent
  BY DEF Voiced
<1> HIDE DEF N, M
<1>8. ASSUME NEW n \in 1 .. M
      PROVE  /\ G[n] \in Places(N) /\ G[n][1] \in 1 .. N
             /\ G[n][2] \in 1 .. Len(tracks[G[n][1]].audio)
             /\ Merged[n] = LineAt(G[n]) /\ Merged[n].text \notin Silent
             /\ Merged[n].speaker = Elements[e[G[n][1]]].name
  <2>1. G[n] \in Voiced /\ Merged[n] = LineAt(G[n])
    BY <1>5 DEF OneToOne
  <2>2. G[n] \in Places(N) /\ Merged[n].text \notin Silent
    BY <2>1, <1>v
  <2>3. G[n][1] \in 1 .. N /\ G[n][2] \in 1 .. Len(tracks[G[n][1]].audio)
    BY <2>2, <1>6
  <2>4. Merged[n].speaker = tracks[G[n][1]].name
    BY <2>1 DEF LineAt
  <2> QED BY <2>1, <2>2, <2>3, <2>4, <1>7
<1>9. NothingIsLeftOut
  <2> SUFFICES ASSUME NEW i \in 1 .. Len(Elements), NEW f \in File
               PROVE  TimesThere(i, f) =
                      Cardinality({n \in 1 .. M : Merged[n].speaker = Elements[i].name
                                                  /\ Merged[n].text = f})
    BY <1>3, <1>4 DEF NothingIsLeftOut
  <2>1. CASE f \in Silent
    <3>1. {n \in 1 .. M : Merged[n].speaker = Elements[i].name /\ Merged[n].text = f} = {}
      BY <1>8, <2>1
    <3>2. TimesThere(i, f) = 0
      BY <2>1 DEF TimesThere
    <3> QED BY <3>1, <3>2, FS_EmptySet
  <2>2. CASE f \notin Silent
    <3>1. TimesThere(i, f) = Cardinality({x \in Heard(i) : TextOf(i, x) = f})
      BY <2>2 DEF TimesThere
    <3>2. f \in File \ Silent
      BY <2>2
    <3> QED BY <3>1, <3>2, <1>1, Counted DEF M
  <2> QED BY <2>1, <2>2
<1>10. Chronological
  <2> SUFFICES ASSUME NEW k \in DOMAIN script, NEW l \in DOMAIN script, k < l
               PROVE  \/ script[k].start < script[l].start
                      \/ /\ script[k].start = script[l].start
                         /\ \E a, b \in DOMAIN Elements :
                              a <= b /\ Elements[a].name = script[k].speaker
                                     /\ Elements[b].name = script[l].speaker
    BY DEF Chronological
  <2>0. k \in 1 .. M /\ l \in 1 .. M
    BY <1>3
  <2> DEFINE i == G[k][1]
             j == G[l][1]
  <2>1. /\ i \in 1 .. N /\ j \in 1 .. N
        /\ Merged[k].speaker = Elements[e[i]].name /\ Merged[l].speaker = Elements[e[j]].name
    BY <2>0, <1>8
  <2>2. \/ Merged[k].start < Merged[l].start
        \/ Merged[k].start = Merged[l].start /\ i <= j
    BY <2>0, <1>5
  <2> HIDE DEF i, j
  <2>3. e[i] \in 1 .. Len(Elements) /\ e[j] \in 1 .. Len(Elements)
    BY <2>1, <1>7
  <2>4. i <= j => e[i] <= e[j]
    <3>1. i <= j => i < j \/ i = j
      BY <2>1
    <3>2. i < j => e[i] < e[j]
      BY <2>1, <1>7
    <3> QED BY <3>1, <3>2, <2>3, <1>4
  <2> QED BY <2>1, <2>2, <2>3, <2>4, <1>4
<1>11. ASSUME NEW j \in 1 .. N, NEW g, FaithfulBy(g, e[j], tracks[j].audio),
              NEW b \in 1 .. Len(tracks[j].audio)
       PROVE  /\ g[b] \in Heard(e[j])
              /\ LineAt(<<j, b>>).speaker = Elements[e[j]].name
              /\ LineAt(<<j, b>>).text = TextOf(e[j], g[b])
              /\ ClipOf(e[j], g[b]) < LineAt(<<j, b>>).start + project.chunk
              /\ Undisturbed(e[j], g[b]) => LineAt(<<j, b>>) = LineOf(e[j], g[b])
  <2> DEFINE a == tracks[j].audio
             c == ClipOf(e[j], g[b])
  <2>1. /\ g[b] \in Heard(e[j])
        /\ a[b].text = TextOf(e[j], g[b]) /\ c <= a[b].start
        /\ Undisturbed(e[j], g[b]) => a[b].start = TimeOf(e[j], g[b])
    BY <1>11 DEF FaithfulBy, OneToOne
  <2>2. LineAt(<<j, b>>) =
          [speaker |-> tracks[j].name, text |-> a[b].text, start |-> Timed(a[b].start)]
    BY DEF LineAt
  <2>3. tracks[j].name = Elements[e[j]].name
    BY <1>7
  <2>4. a[b].start \in Nat
    <3>1. tracks[j] \in Recorded
      BY ElementOfSeq DEF N
    <3>2. a \in Seq(Segment)
      BY <3>1 DEF Recorded
    <3>3. a[b] \in Segment
      BY <3>2, ElementOfSeq
    <3> QED BY <3>3 DEF Segment
  <2>5. c \in Nat
    BY <1>11, <1>7, <2>1, ClipOfType
  <2> HIDE DEF a, c
  <2>6. Timed(a[b].start) \in Nat /\ a[b].start < Timed(a[b].start) + project.chunk
    BY <2>4, TimedFacts
  <2>7. project.chunk \in Nat
    BY ProjectsAssumption
  <2>8. c < Timed(a[b].start) + project.chunk
    BY <2>1, <2>4, <2>5, <2>6, <2>7
  <2>9. Undisturbed(e[j], g[b]) => LineAt(<<j, b>>) = LineOf(e[j], g[b])
    BY <2>1, <2>2, <2>3 DEF LineOf
  <2> QED BY <2>1, <2>2, <2>3, <2>8, <2>9 DEF c
<1>12. NeverEarly
  <2> SUFFICES ASSUME NEW n \in 1 .. M
               PROVE  \E i \in DOMAIN Elements : \E x \in Heard(i) :
                        /\ Merged[n].speaker = Elements[i].name /\ Merged[n].text = TextOf(i, x)
                        /\ ClipOf(i, x) < Merged[n].start + project.chunk
    BY <1>3 DEF NeverEarly
  <2> DEFINE j == G[n][1]
             b == G[n][2]
  <2>1. /\ G[n] = <<j, b>> /\ j \in 1 .. N /\ b \in 1 .. Len(tracks[j].audio)
        /\ Merged[n] = LineAt(G[n])
    BY <1>6, <1>8
  <2> HIDE DEF j, b
  <2>2. PICK g : FaithfulBy(g, e[j], tracks[j].audio)
    BY <2>1, <1>7 DEF Faithful
  <2>3. /\ g[b] \in Heard(e[j]) /\ Merged[n].speaker = Elements[e[j]].name
        /\ Merged[n].text = TextOf(e[j], g[b])
        /\ ClipOf(e[j], g[b]) < Merged[n].start + project.chunk
    BY <2>1, <2>2, <1>11
  <2>4. e[j] \in DOMAIN Elements
    BY <2>1, <1>4, <1>7
  <2> QED BY <2>3, <2>4
<1>13. AtItsTime
  <2> SUFFICES ASSUME NEW i \in 1 .. Len(Elements), NEW x \in Heard(i), Undisturbed(i, x),
                      TextOf(i, x) \notin Silent
               PROVE  LineOf(i, x) \in ToSet(script)
    BY <1>4 DEF AtItsTime, HasItsTime
  <2>1. PICK j \in 1 .. N : e[j] = i
    BY <1>7
  <2>2. PICK g : FaithfulBy(g, i, tracks[j].audio)
    BY <2>1, <1>7 DEF Faithful
  <2>3. PICK b \in 1 .. Len(tracks[j].audio) : g[b] = x
    BY <2>2 DEF FaithfulBy, OneToOne
  <2>4. LineAt(<<j, b>>) = LineOf(i, x) /\ LineAt(<<j, b>>).text \notin Silent
    BY <2>1, <2>2, <2>3, <1>11
  <2>5. <<j, b>> \in Voiced
    BY <2>4, <1>6, <1>v
  <2>6. PICK n \in 1 .. M : G[n] = <<j, b>>
    BY <2>5, <1>5 DEF OneToOne
  <2>7. Merged[n] = LineOf(i, x)
    BY <2>4, <2>6, <1>5
  <2>8. n \in DOMAIN script /\ script[n] = LineOf(i, x)
    BY <2>7, <1>3
  <2> QED BY <2>8 DEF ToSet
<1> QED BY <1>9, <1>10, <1>12, <1>13
-----------------------------------------------------------------------------
(* The invariant. *)

\* Tracks are of different elements, in their order, and say what those do.
TracksInv == NamesDiffer => \E e : Origin(e)

ProjectInv ==
  /\ project \in Projects
  /\ stage \in {"unzip", "extract", "transcribe", "merged", "failed"}
  /\ done \in 0 .. Len(Elements) /\ tracks \in Seq(Recorded)
  /\ stage \in {"transcribe", "merged"} => done = Len(Elements)
  /\ heard \in Seq(DOMAIN tracks) /\ IsInjective(heard)
  /\ stage \in {"unzip", "extract"} => heard = <<>>
  /\ script = IF stage = "merged" THEN Merged ELSE <<>>
  /\ TracksInv

\* What is said of a project only changes with it.
LEMMA SameProject ==
  ASSUME project' = project
  PROVE  /\ Elements' = Elements /\ (NamesDiffer' <=> NamesDiffer)
         /\ \A i : Heard(i)' = Heard(i)
         /\ \A i, audio : Faithful(i, audio)' <=> Faithful(i, audio)
<1>1. Elements' = Elements
  BY DEF Elements
<1>2. NamesDiffer' <=> NamesDiffer
  BY <1>1 DEF NamesDiffer
<1>3. \A i : Heard(i)' = Heard(i)
  BY DEF Heard, Pieces, Sounds, Elements
<1>4. ASSUME NEW i, NEW audio
      PROVE  Faithful(i, audio)' <=> Faithful(i, audio)
  <2>1. \A x : TextOf(i, x)' = TextOf(i, x) /\ ClipOf(i, x)' = ClipOf(i, x)
               /\ TimeOf(i, x)' = TimeOf(i, x)
    BY DEF TextOf, ClipOf, TimeOf, Elements
  <2>2. IsApart(i)' <=> IsApart(i)
    BY DEF IsApart, ClipsAreApart, BlocksAreApart, Sounds, Elements
  <2>3. \A x : InItsClip(i, x)' <=> InItsClip(i, x)
    BY DEF InItsClip, HeardUpTo, Sounds, Elements
  <2>4. \A x : InItsTrack(i, x)' <=> InItsTrack(i, x)
    BY DEF InItsTrack, NoneSkipped, Sounds, Elements
  <2>5. \A x : Undisturbed(i, x)' <=> Undisturbed(i, x)
    BY <2>2, <2>3, <2>4 DEF Undisturbed
  <2>6. \A g : FaithfulBy(g, i, audio)' <=> FaithfulBy(g, i, audio)
    BY <1>3, <2>1, <2>5 DEF FaithfulBy
  <2> QED BY <2>6 DEF Faithful
<1> QED BY <1>1, <1>2, <1>3, <1>4

\* SetTrack keeps the tracks typed; under a new name it appends.
LEMMA SetTrackType ==
  ASSUME tracks \in Seq(Recorded), NEW name \in Name, NEW audio \in Seq(Segment)
  PROVE  /\ SetTrack(name, audio) \in Seq(Recorded)
         /\ (\A j \in 1 .. Len(tracks) : tracks[j].name # name) =>
              SetTrack(name, audio) = Append(tracks, [name |-> name, audio |-> audio])
<1> DEFINE new == [name |-> name, audio |-> audio]
           put == [i \in DOMAIN tracks |-> IF tracks[i].name = name THEN new ELSE tracks[i]]
<1>1. /\ Len(tracks) \in Nat /\ DOMAIN tracks = 1 .. Len(tracks)
      /\ \A i \in 1 .. Len(tracks) : tracks[i] \in Recorded
  BY LenProperties, ElementOfSeq
<1>2. new \in Recorded
  BY DEF Recorded
<1>3. SetTrack(name, audio) =
        IF \E i \in DOMAIN tracks : tracks[i].name = name THEN put ELSE Append(tracks, new)
  BY DEF SetTrack
<1> HIDE DEF new
<1>4. put \in [1 .. Len(tracks) -> Recorded]
  BY <1>1, <1>2
<1> HIDE DEF put
<1>5. put \in Seq(Recorded)
  BY <1>1, <1>4, SeqDef
<1>6. Append(tracks, new) \in Seq(Recorded)
  BY <1>2, AppendProperties
<1> QED BY <1>1, <1>3, <1>5, <1>6 DEF new

\* A step of the extraction adds the element's track, or the element has nothing.
LEMMA Extracting ==
  ASSUME project \in Projects, done \in 0 .. Len(Elements), done < Len(Elements),
         tracks \in Seq(Recorded), TracksInv, project' = project, done' = done + 1,
         \/ tracks' = tracks /\ Heard(done + 1) = {}
         \/ \E audio \in Seq(Segment) :
              /\ tracks' = SetTrack(Elements[done + 1].name, audio)
              /\ Faithful(done + 1, audio)
  PROVE  tracks' \in Seq(Recorded) /\ TracksInv'
<1> DEFINE i == done + 1
           N == Len(tracks)
<1>1. /\ Elements' = Elements /\ (NamesDiffer' <=> NamesDiffer)
      /\ \A j : Heard(j)' = Heard(j)
      /\ \A j, audio : Faithful(j, audio)' <=> Faithful(j, audio)
  BY SameProject
<1>2. /\ Len(Elements) \in Nat /\ DOMAIN Elements = 1 .. Len(Elements)
      /\ i \in 1 .. Len(Elements) /\ Elements[i].name \in Name
  <2>1. Len(Elements) \in Nat /\ i \in 1 .. Len(Elements)
    BY ElementFacts
  <2> QED BY <2>1, ElementFacts
<1>3. N \in Nat
  BY LenProperties
<1>4. \A k : k \in 1 .. i <=> k \in 1 .. done \/ k = i
  BY <1>2
<1>5. CASE tracks' = tracks /\ Heard(i) = {}
  <2>1. ASSUME NEW e, Origin(e)
        PROVE  Origin(e)'
    <3>1. /\ e \in [1 .. N -> 1 .. done]
          /\ \A j \in 1 .. N :
               tracks[j].name = Elements[e[j]].name /\ Faithful(e[j], tracks[j].audio)
          /\ \A j, k \in 1 .. N : j < k => e[j] < e[k]
          /\ \A k \in 1 .. done : Heard(k) # {} => \E j \in 1 .. N : e[j] = k
      BY <2>1 DEF Origin
    <3>2. e \in [1 .. N -> 1 .. i]
      BY <3>1, <1>4
    <3>3. \A k \in 1 .. i : Heard(k) # {} => \E j \in 1 .. N : e[j] = k
      BY <3>1, <1>4, <1>5
    <3>4. Len(tracks') = N /\ done' = i
      BY <1>5
    <3>5. \A j \in 1 .. N :
            tracks'[j].name = Elements'[e[j]].name /\ Faithful(e[j], tracks[j].audio)'
      <4> TAKE j \in 1 .. N
      <4>1. tracks[j].name = Elements[e[j]].name /\ Faithful(e[j], tracks[j].audio)
        BY <3>1
      <4>2. tracks' = tracks
        BY <1>5
      <4> HIDE DEF N, i
      <4> QED BY <4>1, <4>2, <1>1
    <3>6. \A k \in 1 .. i : Heard(k)' # {} => \E j \in 1 .. N : e[j] = k
      BY <3>3, <1>1
    <3> HIDE DEF i, N
    <3> QED BY <3>1, <3>2, <3>4, <3>5, <3>6 DEF Origin
  <2>2. TracksInv'
    <3> SUFFICES ASSUME NamesDiffer'
                 PROVE  \E e : Origin(e)'
      BY DEF TracksInv
    <3>1. NamesDiffer
      BY <1>1
    <3>2. PICK e : Origin(e)
      BY <3>1 DEF TracksInv
    <3>3. Origin(e)'
      BY <3>2, <2>1
    <3> QED BY <3>3
  <2> QED BY <2>2, <1>5
<1>6. CASE \E audio \in Seq(Segment) :
             tracks' = SetTrack(Elements[i].name, audio) /\ Faithful(i, audio)
  <2>1. PICK audio \in Seq(Segment) :
          tracks' = SetTrack(Elements[i].name, audio) /\ Faithful(i, audio)
    BY <1>6
  <2> DEFINE new == [name |-> Elements[i].name, audio |-> audio]
  <2>2. tracks' \in Seq(Recorded)
    BY <2>1, <1>2, SetTrackType
  <2>3. ASSUME NamesDiffer, NEW e, Origin(e)
        PROVE  \E f : Origin(f)'
    <3>1. /\ e \in [1 .. N -> 1 .. done]
          /\ \A j \in 1 .. N :
               tracks[j].name = Elements[e[j]].name /\ Faithful(e[j], tracks[j].audio)
          /\ \A j, k \in 1 .. N : j < k => e[j] < e[k]
          /\ \A k \in 1 .. done : Heard(k) # {} => \E j \in 1 .. N : e[j] = k
      BY <2>3 DEF Origin
    <3>2. \A j \in 1 .. N : tracks[j].name # Elements[i].name
      <4> TAKE j \in 1 .. N
      <4>1. e[j] \in 1 .. done /\ e[j] # i /\ e[j] \in 1 .. Len(Elements)
        BY <3>1, <1>2
      <4> QED BY <4>1, <3>1, <2>3, <1>2 DEF NamesDiffer
    <3>3. tracks' = Append(tracks, new)
      BY <3>2, <2>1, <1>2, SetTrackType
    <3>4. new \in Recorded
      BY <1>2 DEF Recorded
    <3>5. /\ Len(tracks') = N + 1 /\ tracks'[N + 1] = new
          /\ \A j \in 1 .. N : tracks'[j] = tracks[j]
      BY <3>3, <3>4, <1>3, AppendProperties
    <3>6. new.name = Elements[i].name /\ new.audio = audio /\ done' = i
      OBVIOUS
    <3>7. \A j \in 1 .. N + 1 : j \in 1 .. N \/ j = N + 1
      BY <1>3
    <3>c. PICK f : /\ f \in [1 .. N + 1 -> 1 .. i]
                   /\ f[N + 1] = i /\ \A j \in 1 .. N : f[j] = e[j] /\ e[j] \in 1 .. done
      <4> DEFINE f == [j \in 1 .. N + 1 |-> IF j = N + 1 THEN i ELSE e[j]]
      <4>1. f[N + 1] = i /\ \A j \in 1 .. N : f[j] = e[j] /\ e[j] \in 1 .. done
        BY <3>1, <1>3
      <4>2. f \in [1 .. N + 1 -> 1 .. i]
        BY <3>1, <1>2, <1>4
      <4> HIDE DEF f
      <4> QED BY <4>1, <4>2
    <3>8. f[N + 1] = i /\ \A j \in 1 .. N : f[j] = e[j] /\ e[j] \in 1 .. done
      BY <3>c
    <3>9. f \in [1 .. N + 1 -> 1 .. i]
      BY <3>c
    <3>a. \A j \in 1 .. N : j \in 1 .. N + 1
      BY <1>3
    <3>b. N + 1 \in 1 .. N + 1
      BY <1>3
    <3> HIDE DEF new, N
    <3>10. ASSUME NEW j \in 1 .. N + 1
           PROVE  /\ tracks'[j].name = Elements'[f[j]].name
                  /\ Faithful(f[j], tracks[j].audio)'
      <4>1. CASE j \in 1 .. N
        <5>1. tracks'[j] = tracks[j] /\ f[j] = e[j]
          BY <4>1, <3>5, <3>8
        <5>2. tracks[j].name = Elements[e[j]].name /\ Faithful(e[j], tracks[j].audio)
          BY <4>1, <3>1
        <5> HIDE DEF i
        <5> QED BY <5>1, <5>2, <1>1
      <4>2. CASE j = N + 1
        <5>1. tracks'[j].audio = audio /\ tracks'[j].name = Elements[i].name /\ f[j] = i
          BY <4>2, <3>5, <3>6, <3>8
        <5> HIDE DEF i
        <5> QED BY <5>1, <2>1, <1>1
      <4> QED BY <4>1, <4>2, <3>7
    <3>11. ASSUME NEW j \in 1 .. N + 1, NEW k \in 1 .. N + 1, j < k
           PROVE  f[j] < f[k]
      <4>1. j \in 1 .. N
        BY <3>11, <1>3 DEF N
      <4>2. CASE k \in 1 .. N
        BY <4>1, <4>2, <3>1, <3>8, <3>11
      <4>3. CASE k = N + 1
        <5>1. f[k] = done + 1 /\ f[j] \in 1 .. done
          BY <4>1, <4>3, <3>8
        <5> QED BY <5>1
      <4> QED BY <4>2, <4>3, <3>7
    <3>12. ASSUME NEW k \in 1 .. i, Heard(k)' # {}
           PROVE  \E j \in 1 .. N + 1 : f[j] = k
      <4>1. CASE k \in 1 .. done
        <5>1. PICK j \in 1 .. N : e[j] = k
          BY <4>1, <3>1, <3>12, <1>1
        <5> QED BY <5>1, <3>8, <3>a
      <4>2. CASE k = i
        BY <4>2, <3>8, <3>b
      <4> QED BY <4>1, <4>2, <1>4
    <3>13. Origin(f)'
      <4> HIDE DEF i
      <4>1. /\ f \in [1 .. Len(tracks') -> 1 .. done']
            /\ \A j \in 1 .. Len(tracks') :
                 tracks'[j].name = Elements'[f[j]].name /\ Faithful(f[j], tracks[j].audio)'
            /\ \A j, k \in 1 .. Len(tracks') : j < k => f[j] < f[k]
            /\ \A k \in 1 .. done' : Heard(k)' # {} => \E j \in 1 .. Len(tracks') : f[j] = k
        BY <3>5, <3>6, <3>9, <3>10, <3>11, <3>12
      <4> QED BY <4>1 DEF Origin
    <3> QED BY <3>13
  <2>4. TracksInv'
    <3> SUFFICES ASSUME NamesDiffer'
                 PROVE  \E f : Origin(f)'
      BY DEF TracksInv
    <3>1. NamesDiffer
      BY <1>1
    <3>2. PICK e : Origin(e)
      BY <3>1 DEF TracksInv
    <3> QED BY <3>1, <3>2, <2>3
  <2> QED BY <2>2, <2>4
<1> QED BY <1>5, <1>6

\* The invariant keeps while project, tracks and count stand.
LEMMA ProjectStands ==
  ASSUME project' = project, tracks' = tracks
  PROVE  Elements' = Elements /\ Merged' = Merged /\ (done' = done /\ TracksInv => TracksInv')
<1>1. /\ Elements' = Elements /\ (NamesDiffer' <=> NamesDiffer)
      /\ \A i : Heard(i)' = Heard(i)
      /\ \A i, audio : Faithful(i, audio)' <=> Faithful(i, audio)
  BY SameProject
<1>2. AllSegments' = AllSegments
  BY DEF AllSegments, TrackLines, Timed
<1>3. Merged' = Merged
  BY <1>2 DEF Merged
<1>4. ASSUME done' = done, NEW e, Origin(e)
      PROVE  Origin(e)'
  <2>1. \A j \in 1 .. Len(tracks) :
          tracks'[j].name = Elements'[e[j]].name /\ Faithful(e[j], tracks[j].audio)'
    <3> TAKE j \in 1 .. Len(tracks)
    <3>1. tracks[j].name = Elements[e[j]].name /\ Faithful(e[j], tracks[j].audio)
      BY <1>4 DEF Origin
    <3> QED BY <3>1, <1>1
  <2>2. \A i \in 1 .. done : Heard(i)' # {} => \E j \in 1 .. Len(tracks) : e[j] = i
    BY <1>1, <1>4 DEF Origin
  <2> QED BY <2>1, <2>2, <1>4 DEF Origin
<1>5. ASSUME done' = done, TracksInv
      PROVE  TracksInv'
  <2> SUFFICES ASSUME NamesDiffer'
               PROVE  \E e : Origin(e)'
    BY DEF TracksInv
  <2>1. NamesDiffer
    BY <1>1
  <2>2. PICK e : Origin(e)
    BY <2>1, <1>5 DEF TracksInv
  <2> QED BY <2>2, <1>4, <1>5
<1> QED BY <1>1, <1>3, <1>5

LEMMA ProjectStarts == ProjectInit => ProjectInv
<1> SUFFICES ASSUME ProjectInit
             PROVE  ProjectInv
  OBVIOUS
<1>1. /\ project \in Projects /\ stage = "unzip" /\ done = 0
      /\ tracks = <<>> /\ heard = <<>> /\ script = <<>>
  BY DEF ProjectInit
<1>2. Len(Elements) \in Nat /\ 0 \in 0 .. Len(Elements)
  BY <1>1, ElementFacts
<1>3. tracks \in Seq(Recorded) /\ heard \in Seq(DOMAIN tracks) /\ Len(tracks) = 0
  BY <1>1, EmptySeq
<1>4. IsInjective(heard)
  BY <1>1 DEF IsInjective
<1>5. TracksInv
  <2> DEFINE e == [j \in 1 .. 0 |-> 0]
  <2>1. Origin(e)
    BY <1>1, <1>3 DEF Origin
  <2> HIDE DEF e
  <2> QED BY <2>1 DEF TracksInv
<1> QED BY <1>1, <1>2, <1>3, <1>4, <1>5 DEF ProjectInv

LEMMA ProjectSteps == ProjectInv /\ [ProjectNext]_handling => ProjectInv'
<1> SUFFICES ASSUME ProjectInv, [ProjectNext]_handling
             PROVE  ProjectInv'
  OBVIOUS
<1>1. /\ project \in Projects /\ done \in 0 .. Len(Elements) /\ tracks \in Seq(Recorded)
      /\ stage \in {"unzip", "extract", "transcribe", "merged", "failed"}
      /\ stage \in {"transcribe", "merged"} => done = Len(Elements)
      /\ heard \in Seq(DOMAIN tracks) /\ IsInjective(heard)
      /\ stage \in {"unzip", "extract"} => heard = <<>>
      /\ script = IF stage = "merged" THEN Merged ELSE <<>>
      /\ TracksInv
  BY DEF ProjectInv
<1>2. /\ Len(Elements) \in Nat /\ DOMAIN Elements = 1 .. Len(Elements)
      /\ \A i \in 1 .. Len(Elements) : Elements[i].name \in Name
  BY <1>1, ElementFacts
<1>3. CASE Unzip
  <2>1. UNCHANGED <<project, done, tracks, heard, script>> /\ stage = "unzip"
        /\ stage' \in {"extract", "failed"}
    BY <1>3 DEF Unzip
  <2>2. Elements' = Elements /\ TracksInv'
    BY <2>1, <1>1, ProjectStands
  <2> QED BY <2>1, <2>2, <1>1 DEF ProjectInv
<1> DEFINE i == done + 1
<1>4. ASSUME stage = "extract", done < Len(Elements), done' = i,
             UNCHANGED <<project, stage, heard, script>>,
             \/ tracks' = tracks /\ Heard(i) = {}
             \/ \E audio \in Seq(Segment) :
                  tracks' = SetTrack(Elements[i].name, audio) /\ Faithful(i, audio)
      PROVE  ProjectInv'
  <2>1. tracks' \in Seq(Recorded) /\ TracksInv'
    BY <1>1, <1>4, Extracting
  <2>2. Elements' = Elements
    BY <1>4, SameProject
  <2>3. done' \in 0 .. Len(Elements)
    BY <1>1, <1>2, <1>4
  <2>4. heard' = <<>> /\ heard' \in Seq(DOMAIN tracks') /\ IsInjective(heard')
    <3>1. heard' = <<>> /\ heard' = heard
      BY <1>1, <1>4
    <3> QED BY <3>1, <1>1, EmptySeq
  <2>5. script' = <<>> /\ stage' = "extract" /\ project' \in Projects
    BY <1>1, <1>4
  <2> QED BY <2>1, <2>2, <2>3, <2>4, <2>5 DEF ProjectInv
<1>5. CASE ExtractImport
  <2> DEFINE e == Elements[i]
             said == Concat(Silence(Number(e.offset)), Audio(e.file)).said
  <2>1. /\ stage = "extract" /\ project.imports # <<>> /\ done < Len(Elements) /\ done' = i
        /\ UNCHANGED <<project, stage, heard, script>>
    BY <1>5 DEF ExtractImport
  <2>2. project.imports[i] = e /\ i \in 1 .. Len(Elements)
    BY <2>1, <1>1, <1>2 DEF Elements
  <2>3. tracks' = IF e.file \in project.zipped THEN SetTrack(e.name, said) ELSE tracks
    BY <1>5, <2>2 DEF ExtractImport
  <2>4. /\ e.file \in project.zipped => said \in Seq(Segment) /\ Faithful(i, said)
        /\ e.file \notin project.zipped => Heard(i) = {}
    BY <2>1, <2>2, <1>1, ImportFaithful
  <2> HIDE DEF said
  <2>5. \/ tracks' = tracks /\ Heard(i) = {}
        \/ \E audio \in Seq(Segment) :
             tracks' = SetTrack(Elements[i].name, audio) /\ Faithful(i, audio)
    BY <2>3, <2>4
  <2> HIDE DEF i
  <2> QED BY <2>1, <2>5, <1>4
<1>6. CASE ExtractWave
  <2> DEFINE w == Elements[i]
             audio == BuildTrackFromClips(ParseClips(w.clips))
  <2>1. /\ stage = "extract" /\ project.imports = <<>> /\ done < Len(Elements) /\ done' = i
        /\ UNCHANGED <<project, stage, heard, script>>
    BY <1>6 DEF ExtractWave
  <2>2. project.waves[i] = w /\ i \in 1 .. Len(Elements)
    BY <2>1, <1>1, <1>2 DEF Elements
  <2>3. tracks' = IF audio.length = 0 THEN tracks ELSE SetTrack(w.name, audio.said)
    BY <1>6, <2>2 DEF ExtractWave
  <2>4. /\ audio.said \in Seq(Segment) /\ Faithful(i, audio.said)
        /\ audio.length = 0 => Heard(i) = {}
    BY <2>1, <2>2, <1>1, WaveFaithful
  <2> HIDE DEF audio
  <2>5. \/ tracks' = tracks /\ Heard(i) = {}
        \/ \E x \in Seq(Segment) :
             tracks' = SetTrack(Elements[i].name, x) /\ Faithful(i, x)
    BY <2>3, <2>4
  <2> HIDE DEF i
  <2> QED BY <2>1, <2>5, <1>4
<1>7. CASE ExtractFails
  <2>1. UNCHANGED <<project, done, tracks, heard, script>> /\ stage = "extract"
        /\ stage' = "failed"
    BY <1>7 DEF ExtractFails
  <2>2. Elements' = Elements /\ TracksInv'
    BY <2>1, <1>1, ProjectStands
  <2> QED BY <2>1, <2>2, <1>1 DEF ProjectInv
<1>8. CASE Extracted
  <2>1. UNCHANGED <<project, done, tracks, heard, script>> /\ stage = "extract"
        /\ done = Len(Elements) /\ stage' \in {"failed", "transcribe"}
    BY <1>8 DEF Extracted
  <2>2. Elements' = Elements /\ TracksInv'
    BY <2>1, <1>1, ProjectStands
  <2> QED BY <2>1, <2>2, <1>1 DEF ProjectInv
<1>9. CASE MergeTracks
  <2>1. UNCHANGED <<project, done, tracks, heard>> /\ stage = "transcribe"
        /\ stage' = "merged" /\ script' = Merged
    BY <1>9 DEF MergeTracks
  <2>2. Elements' = Elements /\ TracksInv' /\ Merged' = Merged
    BY <2>1, <1>1, ProjectStands
  <2> QED BY <2>1, <2>2, <1>1 DEF ProjectInv
<1>10. ASSUME NEW t \in DOMAIN tracks, TranscribeOneTrack(t)
       PROVE  ProjectInv'
  <2>1. /\ UNCHANGED <<project, done, tracks, script>>
        /\ stage = "transcribe" /\ t \notin ToSet(heard)
        /\ \/ heard' = Append(heard, t) /\ stage' = stage
           \/ stage' = "failed" /\ heard' = heard
    BY <1>10 DEF TranscribeOneTrack
  <2>2. Elements' = Elements /\ TracksInv'
    BY <2>1, <1>1, ProjectStands
  <2>3. heard' \in Seq(DOMAIN tracks) /\ IsInjective(heard')
    <3>1. CASE heard' = Append(heard, t)
      <4> DEFINE n == Len(heard)
      <4>1. n \in Nat /\ DOMAIN heard = 1 .. n
        BY <1>1, LenProperties
      <4>2. /\ heard' \in Seq(DOMAIN tracks) /\ Len(heard') = n + 1 /\ heard'[n + 1] = t
            /\ \A k \in 1 .. n : heard'[k] = heard[k]
        BY <3>1, <1>1, AppendProperties
      <4>3. DOMAIN heard' = 1 .. n + 1
        BY <4>2, LenProperties
      <4>4. \A k \in 1 .. n : heard[k] # t
        BY <2>1, <4>1 DEF ToSet
      <4>5. \A k, l \in 1 .. n : heard[k] = heard[l] => k = l
        BY <1>1, <4>1 DEF IsInjective
      <4> HIDE DEF n
      <4>6. \A k \in 1 .. n + 1 : k \in 1 .. n \/ k = n + 1
        BY <4>1
      <4>7. \A k, l \in 1 .. n + 1 : heard'[k] = heard'[l] => k = l
        BY <4>2, <4>4, <4>5, <4>6
      <4>8. IsInjective(heard')
        BY <4>3, <4>7 DEF IsInjective
      <4> QED BY <4>2, <4>8
    <3>2. CASE heard' = heard
      BY <3>2, <1>1
    <3> QED BY <3>1, <3>2, <2>1
  <2> QED BY <2>1, <2>2, <2>3, <1>1 DEF ProjectInv
<1>11. CASE UNCHANGED handling
  <2>1. UNCHANGED <<project, stage, done, tracks, heard, script>>
    BY <1>11 DEF handling
  <2>2. Elements' = Elements /\ TracksInv' /\ Merged' = Merged
    BY <2>1, <1>1, ProjectStands
  <2> QED BY <2>1, <2>2, <1>1 DEF ProjectInv
<1> QED BY <1>3, <1>5, <1>6, <1>7, <1>8, <1>9, <1>10, <1>11 DEF ProjectNext

LEMMA ProjectHolds == ProjectSpec => []ProjectInv
BY ProjectStarts, ProjectSteps, PTL DEF ProjectSpec

\* The invariant implies the types.
LEMMA ProjectInvTypes == ProjectInv => ProjectTypeOK
<1> SUFFICES ASSUME ProjectInv
             PROVE  ProjectTypeOK
  OBVIOUS
<1>1. /\ project \in Projects /\ done \in 0 .. Len(Elements) /\ tracks \in Seq(Recorded)
      /\ stage \in {"unzip", "extract", "transcribe", "merged", "failed"}
      /\ heard \in Seq(DOMAIN tracks) /\ IsInjective(heard)
      /\ script = IF stage = "merged" THEN Merged ELSE <<>>
  BY DEF ProjectInv
<1>2. done \in Nat
  BY <1>1, ElementFacts
<1>3. \A i \in DOMAIN tracks : tracks[i].name \in Name /\ tracks[i].audio \in Seq(Segment)
  <2>1. DOMAIN tracks = 1 .. Len(tracks) /\ \A i \in 1 .. Len(tracks) : tracks[i] \in Recorded
    BY <1>1, LenProperties, ElementOfSeq
  <2> QED BY <2>1 DEF Recorded
<1>4. \A i \in DOMAIN script : script[i].speaker \in Name /\ script[i].text \in File \ Silent
  <2>1. CASE stage = "merged"
    <3>1. script \in Seq(Line) /\ \E g : InOrder(g)
      BY <1>1, <2>1, MergedInOrder
    <3>2. PICK g : InOrder(g)
      BY <3>1
    <3>3. DOMAIN script = 1 .. Len(script) /\ \A i \in 1 .. Len(script) : script[i] \in Line
      BY <3>1, LenProperties, ElementOfSeq
    <3>4. ASSUME NEW i \in 1 .. Len(script)
          PROVE  script[i].text \notin Silent
      <4>1. script = Merged
        BY <1>1, <2>1
      <4>2. g[i] \in Voiced /\ Merged[i] = LineAt(g[i])
        BY <3>2, <4>1 DEF InOrder, OneToOne
      <4> QED BY <4>1, <4>2 DEF Voiced
    <3> QED BY <3>3, <3>4 DEF Line
  <2>2. CASE stage # "merged"
    BY <1>1, <2>2
  <2> QED BY <2>1, <2>2
<1> QED BY <1>1, <1>2, <1>3, <1>4 DEF ProjectTypeOK

\* A project's tracks are of names and of audio, and every line of a transcript has
\* a speaker and was heard.
THEOREM ProjectTypes == ProjectSpec => []ProjectTypeOK
BY ProjectHolds, ProjectInvTypes, PTL

\* The transcript of a project whose tracks are of different names says everything of
\* which there is a file once and in the order of its times, whatever track returned
\* first; nothing before its clip begins; and at the project's own time what nothing
\* missing stands before.
THEOREM ConversationIsWhole == ProjectSpec => []TranscriptIsTheConversation
<1>1. ProjectInv => TranscriptIsTheConversation
  <2> SUFFICES ASSUME ProjectInv, stage = "merged", NamesDiffer
               PROVE  NothingIsLeftOut /\ Chronological /\ NeverEarly /\ AtItsTime
    BY DEF TranscriptIsTheConversation
  <2>1. /\ project \in Projects /\ tracks \in Seq(Recorded) /\ done = Len(Elements)
        /\ script = Merged
    BY DEF ProjectInv
  <2>2. PICK e : Origin(e)
    BY DEF ProjectInv, TracksInv
  <2> QED BY <2>1, <2>2, MergedIsConversation
<1> QED BY <1>1, ProjectHolds, PTL
=============================================================================
