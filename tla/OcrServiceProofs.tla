--------------------------- MODULE OcrServiceProofs ---------------------------
(***************************************************************************)
(* Theorems about OcrService, for any requests, languages, size of the     *)
(* cache, number of workers and of faults: its types; that jobs nobody     *)
(* waits for leave nothing behind; and that the unlocked cache disturbs    *)
(* nobody while the languages asked for fit in it.                         *)
(***************************************************************************)
EXTENDS OcrService, FiniteSetTheorems, SequenceTheorems, TLAPS
-----------------------------------------------------------------------------
(* The inductive invariants. *)

Distinct(q) == \A i, k \in DOMAIN q : q[i] = q[k] => i = k

\* A task waits for a worker once, and only while nobody works on it.
QueueInv == Distinct(queue) /\ \A r \in ToSet(queue) : job[r] = "queued"

\* What a request waits for says what task it can have; only an OCR job goes on
\* when its request was answered.
StageInv ==
  \A r \in Requests :
    /\ stage[r] \in {"new", "downloading"} => job[r] = "none"
    /\ stage[r] \in {"resolving", "reading"} => job[r] \in {"queued", "fetch"}
    /\ stage[r] = "recognising" => job[r] \in {"queued"} \cup OcrStep
    /\ stage[r] = "answered" => job[r] \in {"none"} \cup OcrStep

\* Nothing is served before the default engine has been made.
WarmInv == ~ warm => engines = <<>> /\ \A r \in Requests : stage[r] = "new"

\* Who needs an engine has asked for a language there is.
LangInv ==
  \A r \in Requests : job[r] \in OcrStep \ {"look_up"} => input[r].lang \in Supported

\* The tasks at work, and the files on disk, are finitely many.
FiniteInv == IsFiniteSet({r \in Requests : job[r] # "none"}) /\ IsFiniteSet(files)

Checking == {r \in Requests : job[r] \in {"check", "evict"}}
Left == {r \in files : job[r] \notin {"predict", "remove"}}

\* The cache is over its size by no more than the engines about to be checked.
CapInv == Len(engines) <= Cap + Cardinality(Checking)

BaseInv ==
  TypeOK /\ QueueInv /\ StageInv /\ WarmInv /\ LangInv /\ Distinct(engines)

PileInv == BaseInv /\ FiniteInv /\ CapInv /\ TempFilesAreRemoved

\* Only languages that were asked for have an engine.
AskedInv == Cached \subseteq Asked \cup {Default}

Fits == Cardinality(Asked \cup {Default}) <= Cap

\* While they fit nobody evicts, so what a look-up found is still there.
KeptInv ==
  Fits => /\ warm => Default \in Cached
          /\ \A r \in Requests :
               /\ job[r] # "evict"
               /\ job[r] = "touch" => input[r].lang \in Cached
               /\ answer[r] # "KeyError"
               /\ faults = 0 /\ input[r].content = "good" /\ input[r].lang \in Supported
                    => answer[r] # "422"

FittingInv == BaseInv /\ AskedInv /\ KeptInv
-----------------------------------------------------------------------------
(* Lines without repetitions. *)

LEMMA RemoveAtProperties ==
  ASSUME NEW S, NEW q \in Seq(S), NEW i \in DOMAIN q
  PROVE  /\ RemoveAt(q, i) \in Seq(S) /\ Len(RemoveAt(q, i)) = Len(q) - 1
         /\ \A k \in 1..Len(q) - 1 : RemoveAt(q, i)[k] = IF k < i THEN q[k] ELSE q[k + 1]
<1>1. i \in 1..Len(q) /\ Len(q) \in Nat
  BY LenProperties
<1> DEFINE before == SubSeq(q, 1, i - 1)
           behind == SubSeq(q, i + 1, Len(q))
<1>2. /\ before \in Seq(S) /\ Len(before) = i - 1
      /\ \A k \in 1..i - 1 : before[k] = q[k]
  BY <1>1, SubSeqProperties
<1>3. /\ behind \in Seq(S) /\ Len(behind) = Len(q) - i
      /\ \A k \in 1..Len(q) - i : behind[k] = q[i + k]
  BY <1>1, SubSeqProperties
<1>4. RemoveAt(q, i) = before \o behind
  BY DEF RemoveAt
<1> HIDE DEF before, behind
<1>5. /\ before \o behind \in Seq(S) /\ Len(before \o behind) = Len(q) - 1
      /\ \A k \in 1..Len(q) - 1 :
           (before \o behind)[k] = IF k <= i - 1 THEN before[k] ELSE behind[k - (i - 1)]
  <2>1. /\ before \o behind \in Seq(S) /\ Len(before \o behind) = Len(before) + Len(behind)
        /\ \A k \in 1..Len(before) + Len(behind) :
             (before \o behind)[k] = IF k <= Len(before) THEN before[k] ELSE behind[k - Len(before)]
    BY <1>2, <1>3, ConcatProperties
  <2>2. Len(before) + Len(behind) = Len(q) - 1 /\ Len(before) = i - 1
    BY <1>1, <1>2, <1>3
  <2> QED BY ONLY <2>1, <2>2
<1>6. ASSUME NEW k \in 1..Len(q) - 1
      PROVE  (before \o behind)[k] = IF k < i THEN q[k] ELSE q[k + 1]
  <2>1. CASE k < i
    BY <1>1, <1>2, <1>5, <2>1
  <2>2. CASE ~ (k < i)
    <3>1. k - (i - 1) \in 1..Len(q) - i /\ i + (k - (i - 1)) = k + 1
      BY <1>1, <2>2
    <3>2. (before \o behind)[k] = behind[k - (i - 1)]
      BY <1>1, <1>5, <2>2
    <3>3. behind[k - (i - 1)] = q[i + (k - (i - 1))]
      BY <1>3, <3>1
    <3> QED BY <2>2, <3>1, <3>2, <3>3
  <2> QED BY <2>1, <2>2
<1> QED BY <1>4, <1>5, <1>6

\* Whoever leaves a line leaves the others in it.
LEMMA DistinctRemoveAt ==
  ASSUME NEW S, NEW q \in Seq(S), Distinct(q), NEW i \in DOMAIN q
  PROVE  /\ Distinct(RemoveAt(q, i)) /\ ToSet(RemoveAt(q, i)) = ToSet(q) \ {q[i]}
<1> DEFINE r == RemoveAt(q, i)
<1>1. /\ r \in Seq(S) /\ Len(r) = Len(q) - 1 /\ Len(q) \in Nat /\ i \in 1..Len(q)
      /\ \A k \in 1..Len(q) - 1 : r[k] = IF k < i THEN q[k] ELSE q[k + 1]
  BY RemoveAtProperties, LenProperties
<1> HIDE DEF r
<1>2. DOMAIN r = 1..Len(q) - 1 /\ DOMAIN q = 1..Len(q)
  BY <1>1, LenProperties
<1>3. \A m, n \in DOMAIN q : q[m] = q[n] => m = n
  BY DEF Distinct
<1>4. ASSUME NEW k \in DOMAIN r
      PROVE  r[k] \in ToSet(q) \ {q[i]}
  <2>1. CASE k < i
    BY <1>1, <1>2, <1>3, <2>1 DEF ToSet
  <2>2. CASE ~ (k < i)
    <3>1. k + 1 \in DOMAIN q /\ k + 1 # i /\ r[k] = q[k + 1]
      BY <1>1, <1>2, <2>2
    <3> QED BY <1>3, <3>1 DEF ToSet
  <2> QED BY <2>1, <2>2
<1>5. ASSUME NEW n \in DOMAIN q, n # i
      PROVE  \E k \in DOMAIN r : r[k] = q[n]
  <2>1. CASE n < i
    BY <1>1, <1>2, <1>5, <2>1
  <2>2. CASE n > i
    <3>1. n - 1 \in DOMAIN r /\ ~ (n - 1 < i) /\ (n - 1) + 1 = n
      BY <1>1, <1>2, <1>5, <2>2
    <3> QED BY <1>1, <1>2, <3>1
  <2> QED BY <1>1, <1>2, <1>5, <2>1, <2>2
<1>6. ASSUME NEW m \in DOMAIN r, NEW k \in DOMAIN r, r[m] = r[k]
      PROVE  m = k
  <2> DEFINE o(x) == IF x < i THEN x ELSE x + 1
  <2>1. o(m) \in DOMAIN q /\ o(k) \in DOMAIN q /\ r[m] = q[o(m)] /\ r[k] = q[o(k)]
    BY <1>1, <1>2
  <2>2. o(m) = o(k)
    BY <1>3, <1>6, <2>1
  <2> QED BY <1>1, <1>2, <2>2
<1>7. ToSet(r) = ToSet(q) \ {q[i]}
  BY <1>4, <1>5 DEF ToSet
<1>8. Distinct(r)
  BY <1>6 DEF Distinct
<1> QED BY <1>7, <1>8 DEF r

LEMMA DistinctAppend ==
  ASSUME NEW S, NEW q \in Seq(S), Distinct(q), NEW x \in S, x \notin ToSet(q)
  PROVE  Distinct(Append(q, x)) /\ ToSet(Append(q, x)) = ToSet(q) \cup {x}
<1> DEFINE r == Append(q, x)
<1>1. /\ Len(q) \in Nat /\ DOMAIN q = 1..Len(q) /\ DOMAIN r = 1..Len(q) + 1
      /\ \A i \in 1..Len(q) : r[i] = q[i]
      /\ r[Len(q) + 1] = x
  BY AppendProperties, LenProperties
<1> HIDE DEF r
<1>2. \A i \in DOMAIN r : i \in DOMAIN q \/ i = Len(q) + 1
  BY <1>1
<1>3. \A i \in DOMAIN q : i \in DOMAIN r /\ r[i] = q[i] /\ q[i] # x
  BY <1>1 DEF ToSet
<1>4. Len(q) + 1 \in DOMAIN r
  BY <1>1
<1>5. Distinct(r)
  BY <1>1, <1>2, <1>3 DEF Distinct
<1>6. ToSet(r) = ToSet(q) \cup {x}
  BY <1>1, <1>2, <1>3, <1>4 DEF ToSet
<1> QED BY <1>5, <1>6 DEF r

LEMMA DistinctTail ==
  ASSUME NEW S, NEW q \in Seq(S), Distinct(q), q # <<>>
  PROVE  /\ Tail(q) \in Seq(S) /\ Len(Tail(q)) = Len(q) - 1 /\ Head(q) \in S
         /\ Distinct(Tail(q)) /\ ToSet(Tail(q)) = ToSet(q) \ {Head(q)} /\ Head(q) \in ToSet(q)
<1> DEFINE r == Tail(q)
<1>1. /\ r \in Seq(S) /\ Len(r) = Len(q) - 1 /\ Len(q) \in Nat /\ Len(q) > 0
      /\ Head(q) = q[1] /\ Head(q) \in S
      /\ \A k \in 1..Len(r) : r[k] = q[k + 1]
  BY HeadTailProperties, LenProperties, EmptySeq
<1> HIDE DEF r
<1>2. DOMAIN r = 1..Len(q) - 1 /\ DOMAIN q = 1..Len(q)
  BY <1>1, LenProperties
<1>3. \A m, n \in DOMAIN q : q[m] = q[n] => m = n
  BY DEF Distinct
<1>4. \A k \in DOMAIN r : k + 1 \in DOMAIN q /\ k + 1 # 1 /\ r[k] = q[k + 1]
  BY <1>1, <1>2
<1>5. \A n \in DOMAIN q : n # 1 => n - 1 \in DOMAIN r /\ r[n - 1] = q[n]
  BY <1>1, <1>2
<1>6. 1 \in DOMAIN q
  BY <1>1, <1>2
<1>7. ToSet(r) = ToSet(q) \ {Head(q)}
  <2>1. \A k \in DOMAIN r : r[k] \in ToSet(q) \ {q[1]}
    BY <1>3, <1>4, <1>6 DEF ToSet
  <2>2. \A n \in DOMAIN q : q[n] = q[1] \/ \E k \in DOMAIN r : r[k] = q[n]
    BY <1>5
  <2> QED BY <1>1, <2>1, <2>2 DEF ToSet
<1>8. Distinct(r)
  BY <1>2, <1>3, <1>4 DEF Distinct
<1> QED BY <1>1, <1>6, <1>7, <1>8 DEF r, ToSet
-----------------------------------------------------------------------------
(* What a step does to the request it is about. *)

RequestStep(r) ==
  ProcessOcr(r) \/ FetchFile(r) \/ DownloadHttp(r) \/ OcrTimeout(r) \/ WorkerStep(r)

\* Nobody else's request, answer or task changes.
Alone(r) ==
  /\ stage' \in [Requests -> Stage] /\ answer' \in [Requests -> Answer] /\ job' \in [Requests -> Task]
  /\ \A q \in Requests \ {r} : stage'[q] = stage[q] /\ answer'[q] = answer[q] /\ job'[q] = job[q]

\* The answer an exception becomes.
AnswerTo(r, e) == IF e # "ok" /\ input[r].surface = "rest" THEN StatusOf(e) ELSE e

LEMMA AnswerType ==
  ASSUME NEW r, NEW e \in Error \cup {"ok"}
  PROVE  AnswerTo(r, e) \in Answer \ {"none"}
BY DEF AnswerTo, StatusOf, Answer, Error

LEMMA Refuses ==
  ASSUME TypeOK, NEW r \in Requests, NEW e \in Error, Refuse(r, e)
  PROVE  /\ Alone(r) /\ UNCHANGED queue
         /\ stage'[r] = "answered" /\ job'[r] = "none" /\ answer'[r] = AnswerTo(r, e)
<1>1. AnswerTo(r, e) \in Answer
  BY AnswerType
<1>2. answer' = [answer EXCEPT ![r] = AnswerTo(r, e)]
  BY DEF Refuse, Respond, AnswerTo
<1> QED BY <1>1, <1>2 DEF TypeOK, Refuse, Respond, Goto, Alone, Stage, Task

LEMMA Hands ==
  ASSUME TypeOK, NEW r \in Requests, NEW s \in {"resolving", "reading", "recognising"}, Hand(r, s)
  PROVE  /\ Alone(r) /\ queue' = Append(queue, r)
         /\ stage'[r] = s /\ job'[r] = "queued" /\ answer'[r] = answer[r]
BY DEF TypeOK, Hand, Goto, Alone, Stage, Task

LEMMA Downloads ==
  ASSUME TypeOK, NEW r \in Requests, Download(r)
  PROVE  /\ Alone(r) /\ UNCHANGED queue
         /\ stage'[r] = "downloading" /\ job'[r] = "none" /\ answer'[r] = answer[r]
BY DEF TypeOK, Download, Goto, Alone, Stage, Task

\* A job that is over tells what it came to, if its request still waits.
LEMMA Finishes ==
  ASSUME TypeOK, NEW r \in Requests, NEW e \in Error \cup {"ok"}, JobEnds(r, e)
  PROVE  /\ Alone(r) /\ job'[r] = "none"
         /\ \/ /\ stage[r] = "recognising" /\ stage'[r] = "answered"
               /\ answer'[r] = AnswerTo(r, ErrorOfJob(r, e))
            \/ /\ stage[r] # "recognising" /\ stage'[r] = stage[r] /\ answer'[r] = answer[r]
<1>1. ErrorOfJob(r, e) \in Error \cup {"ok"}
  BY DEF ErrorOfJob, Error
<1>2. AnswerTo(r, ErrorOfJob(r, e)) \in Answer
  BY <1>1, AnswerType
<1>3. CASE stage[r] = "recognising"
  <2>1. answer' = [answer EXCEPT ![r] = AnswerTo(r, ErrorOfJob(r, e))]
    BY <1>3 DEF JobEnds, Respond, AnswerTo
  <2> QED BY <1>2, <1>3, <2>1 DEF TypeOK, JobEnds, Respond, Goto, Alone, Stage, Task
<1>4. CASE stage[r] # "recognising"
  BY <1>4 DEF TypeOK, JobEnds, Goto, Alone, Task
<1> QED BY <1>3, <1>4

LEMMA Goes ==
  ASSUME TypeOK, NEW r \in Requests, NEW s \in Task, Goto(r, s), UNCHANGED <<stage, answer>>
  PROVE  Alone(r) /\ job'[r] = s /\ stage'[r] = stage[r] /\ answer'[r] = answer[r]
BY DEF TypeOK, Goto, Alone

\* The event loop's part: what came of the request, and its place in the line.
LEMMA EventLoop ==
  ASSUME BaseInv, NEW r \in Requests,
         ProcessOcr(r) \/ FetchFile(r) \/ DownloadHttp(r) \/ FetchEnds(r)
  PROVE  /\ Alone(r) /\ UNCHANGED <<input, engines, files, warm, faults>> /\ warm
         /\ job[r] \in {"none", "fetch"} /\ stage'[r] # "new"
         /\ \/ /\ stage'[r] \in {"resolving", "reading", "recognising"} /\ job'[r] = "queued"
               /\ queue' = Append(queue, r) /\ answer'[r] = answer[r]
            \/ /\ stage'[r] = "downloading" /\ job'[r] = "none"
               /\ UNCHANGED queue /\ answer'[r] = answer[r]
            \/ /\ stage'[r] = "answered" /\ job'[r] = "none" /\ UNCHANGED queue
               /\ answer'[r] \notin {"422", "KeyError"}
<1>1. /\ UNCHANGED <<input, engines, files, warm, faults>> /\ job[r] \in {"none", "fetch"}
      /\ \/ \E e \in Error \ {"KeyError", "OcrProcessing"} : Refuse(r, e)
         \/ \E s \in {"resolving", "reading", "recognising"} : Hand(r, s)
         \/ Download(r)
  BY DEF ProcessOcr, FetchFile, DownloadHttp, FetchEnds, Received, Error, BaseInv, StageInv
<1>2. warm
  BY DEF ProcessOcr, FetchFile, DownloadHttp, FetchEnds, BaseInv, WarmInv, StageInv
<1>3. TypeOK
  BY DEF BaseInv
<1>4. ASSUME NEW e \in Error \ {"KeyError", "OcrProcessing"}, Refuse(r, e)
      PROVE  /\ Alone(r) /\ stage'[r] = "answered" /\ job'[r] = "none" /\ UNCHANGED queue
             /\ answer'[r] \notin {"422", "KeyError"}
  <2>1. AnswerTo(r, e) \notin {"422", "KeyError"}
    BY <1>4 DEF AnswerTo, StatusOf, Error
  <2> QED BY <1>3, <1>4, <2>1, Refuses
<1> QED BY <1>1, <1>2, <1>3, <1>4, Hands, Downloads

\* A timeout answers the request; the job it was waiting for goes on.
LEMMA TimesOut ==
  ASSUME BaseInv, NEW r \in Requests, OcrTimeout(r)
  PROVE  /\ Alone(r) /\ UNCHANGED <<input, engines, files, warm, faults>>
         /\ stage[r] = "recognising" /\ stage'[r] = "answered" /\ answer'[r] \notin {"422", "KeyError"}
         /\ \/ /\ job[r] = "queued" /\ job'[r] = "none"
               /\ queue' \in Seq(Requests) /\ Distinct(queue') /\ ToSet(queue') = ToSet(queue) \ {r}
            \/ job[r] \in OcrStep /\ job'[r] = job[r] /\ UNCHANGED queue
<1>1. /\ UNCHANGED <<input, engines, files, warm, faults>> /\ TypeOK
      /\ stage[r] = "recognising" /\ job[r] \in {"queued"} \cup OcrStep
  BY DEF OcrTimeout, BaseInv, StageInv
<1>2. AnswerTo(r, "Timeout") \in Answer \ {"422", "KeyError"}
  BY DEF AnswerTo, StatusOf, Answer, Error
<1>3. answer' = [answer EXCEPT ![r] = AnswerTo(r, "Timeout")]
  BY DEF OcrTimeout, Respond, AnswerTo
<1>4. /\ Alone(r) /\ stage'[r] = "answered" /\ answer'[r] = AnswerTo(r, "Timeout")
      /\ job[r] = "queued" => job'[r] = "none"
      /\ job[r] # "queued" => job'[r] = job[r]
  BY <1>1, <1>2, <1>3 DEF OcrTimeout, Respond, Goto, poolVars, TypeOK, Alone, Stage, Task
<1>5. CASE job[r] = "queued"
  <2>1. PICK i \in DOMAIN queue : queue[i] = r /\ queue' = RemoveAt(queue, i)
    BY <1>5 DEF OcrTimeout, poolVars
  <2>2. queue \in Seq(Requests) /\ Distinct(queue)
    BY DEF BaseInv, TypeOK, QueueInv
  <2>3. queue' \in Seq(Requests) /\ Distinct(queue') /\ ToSet(queue') = ToSet(queue) \ {r}
    BY <2>1, <2>2, RemoveAtProperties, DistinctRemoveAt
  <2> QED BY <1>1, <1>2, <1>4, <1>5, <2>3
<1>6. CASE job[r] # "queued"
  BY <1>1, <1>2, <1>4, <1>6 DEF OcrTimeout, poolVars
<1> QED BY <1>5, <1>6

OcrJobStep(r) ==
  \/ LookUp(r) \/ Touch(r) \/ Build(r) \/ Insert(r) \/ EvictIfOverCapacity(r) \/ PopOldest(r)
  \/ WriteTempFile(r) \/ Predict(r) \/ RemoveTempFile(r)

\* An OCR job goes from step to step, or it is over and its request answered.
LEMMA JobGoes ==
  ASSUME BaseInv, NEW r \in Requests, OcrJobStep(r)
  PROVE  /\ Alone(r) /\ UNCHANGED <<input, queue, warm>> /\ warm /\ job[r] \in OcrStep
         /\ stage'[r] # "new" /\ stage[r] # "new" /\ faults' \in faults..MaxFaults
         /\ \/ job'[r] \in OcrStep /\ stage'[r] = stage[r] /\ answer'[r] = answer[r]
            \/ /\ job'[r] = "none" /\ stage'[r] = "answered"
               /\ \E e \in Error \cup {"ok"} :
                    JobEnds(r, e) /\ answer'[r] \in {answer[r], AnswerTo(r, ErrorOfJob(r, e))}
<1> USE DEF OcrJobStep, LookUp, Touch, Build, Insert, EvictIfOverCapacity, PopOldest, WriteTempFile,
            Predict, RemoveTempFile
<1>1. job[r] \in OcrStep /\ UNCHANGED <<input, queue, warm>> /\ TypeOK
  BY DEF OcrStep, requestVars, BaseInv
<1>2. warm /\ stage[r] \in {"recognising", "answered"}
  BY <1>1 DEF BaseInv, WarmInv, StageInv, TypeOK, Stage, OcrStep
<1>3. faults' \in faults..MaxFaults
  BY <1>1, BoundsAssumption DEF TypeOK, Fault
<1>4. \/ \E s \in OcrStep : Goto(r, s) /\ UNCHANGED <<stage, answer>>
      \/ \E e \in Error \cup {"ok"} : JobEnds(r, e)
  BY DEF OcrStep, requestVars, Error
<1>5. ASSUME NEW s \in OcrStep, Goto(r, s), UNCHANGED <<stage, answer>>
      PROVE  /\ Alone(r) /\ job'[r] \in OcrStep
             /\ stage'[r] = stage[r] /\ answer'[r] = answer[r]
  BY <1>1, <1>5, Goes DEF Task
<1>6. ASSUME NEW e \in Error \cup {"ok"}, JobEnds(r, e)
      PROVE  /\ Alone(r) /\ job'[r] = "none" /\ stage'[r] = "answered"
             /\ answer'[r] \in {answer[r], AnswerTo(r, ErrorOfJob(r, e))}
  BY <1>1, <1>2, <1>6, Finishes
<1> HIDE DEF OcrJobStep
<1> QED BY <1>1, <1>2, <1>3, <1>4, <1>5, <1>6

\* What an OCR job does to the cache.
LEMMA JobCaches ==
  ASSUME BaseInv, NEW r \in Requests, OcrJobStep(r)
  PROVE  /\ engines' \in Seq(Supported) /\ Distinct(engines')
         /\ \/ engines' = engines
            \/ /\ job[r] = "touch" /\ job'[r] = "write" /\ Cached' = Cached
               /\ Len(engines') = Len(engines)
            \/ /\ job[r] = "insert" /\ job'[r] = "check" /\ Cached' = Cached \cup {input[r].lang}
               /\ Len(engines') = Len(engines) + 1
            \/ /\ job[r] = "evict" /\ job'[r] = "check" /\ Len(engines') = Len(engines) - 1
               /\ Cached' \subseteq Cached
<1>1. engines \in Seq(Supported) /\ Distinct(engines) /\ job \in [Requests -> Task]
  BY DEF BaseInv, TypeOK
<1>2. job[r] = "insert" => input[r].lang \in Supported
  BY DEF BaseInv, LangInv, OcrStep
<1>3. CASE engines' = engines
  BY <1>1, <1>3
<1>4. ASSUME NEW i \in DOMAIN engines, job[r] = "touch", Goto(r, "write"), engines[i] = input[r].lang,
             engines' = Append(RemoveAt(engines, i), input[r].lang)
      PROVE  /\ engines' \in Seq(Supported) /\ Distinct(engines')
             /\ job'[r] = "write" /\ Cached' = Cached /\ Len(engines') = Len(engines)
  <2> DEFINE q == RemoveAt(engines, i)
  <2>1. /\ q \in Seq(Supported) /\ Len(q) = Len(engines) - 1 /\ Len(engines) \in Nat
        /\ Distinct(q) /\ ToSet(q) = Cached \ {engines[i]}
    BY <1>1, RemoveAtProperties, DistinctRemoveAt, LenProperties DEF Cached
  <2>2. engines[i] \in Supported /\ engines[i] \in Cached
    BY <1>1, ElementOfSeq, LenProperties DEF Cached, ToSet
  <2>3. engines' = Append(q, engines[i])
    BY <1>4
  <2> HIDE DEF q
  <2>4. /\ Append(q, engines[i]) \in Seq(Supported) /\ Len(Append(q, engines[i])) = Len(q) + 1
        /\ Distinct(Append(q, engines[i])) /\ ToSet(Append(q, engines[i])) = ToSet(q) \cup {engines[i]}
    BY <2>1, <2>2, AppendProperties, DistinctAppend
  <2>5. job'[r] = "write"
    BY <1>1, <1>4 DEF Goto
  <2> QED BY <2>1, <2>2, <2>3, <2>4, <2>5 DEF Cached
<1>5. ASSUME job[r] = "insert", Goto(r, "check"), input[r].lang \notin Cached,
             engines' = Append(engines, input[r].lang)
      PROVE  /\ engines' \in Seq(Supported) /\ Distinct(engines') /\ job'[r] = "check"
             /\ Cached' = Cached \cup {input[r].lang} /\ Len(engines') = Len(engines) + 1
  BY <1>1, <1>2, <1>5, AppendProperties, DistinctAppend DEF Cached, Goto
<1>6. ASSUME job[r] = "evict", Goto(r, "check"), engines # <<>>, engines' = Tail(engines)
      PROVE  /\ engines' \in Seq(Supported) /\ Distinct(engines') /\ job'[r] = "check"
             /\ Cached' \subseteq Cached /\ Len(engines') = Len(engines) - 1
  BY <1>1, <1>6, DistinctTail DEF Cached, Goto
<1>7. \/ engines' = engines
      \/ /\ job[r] = "touch" /\ Goto(r, "write")
         /\ \E i \in DOMAIN engines : /\ engines[i] = input[r].lang
                                      /\ engines' = Append(RemoveAt(engines, i), input[r].lang)
      \/ /\ job[r] = "insert" /\ Goto(r, "check") /\ input[r].lang \notin Cached
         /\ engines' = Append(engines, input[r].lang)
      \/ job[r] = "evict" /\ Goto(r, "check") /\ engines # <<>> /\ engines' = Tail(engines)
  BY DEF OcrJobStep, LookUp, Touch, Build, Insert, EvictIfOverCapacity, PopOldest, WriteTempFile,
         Predict, RemoveTempFile
<1> QED BY <1>3, <1>4, <1>5, <1>6, <1>7

\* What it does to the disk.
LEMMA JobWrites ==
  ASSUME BaseInv, NEW r \in Requests, OcrJobStep(r)
  PROVE  \/ /\ files' = files
            /\ job[r] \in {"predict", "remove"} <=> job'[r] \in {"predict", "remove"}
         \/ job[r] = "write" /\ job'[r] = "predict" /\ files' = files \cup {r}
         \/ job[r] = "write" /\ files' = files \cup {r} /\ faults' = faults + 1
         \/ job[r] = "remove" /\ files' = files \ {r}
<1>1. job \in [Requests -> Task]
  BY DEF BaseInv, TypeOK
<1> QED BY <1>1 DEF OcrJobStep, LookUp, Touch, Build, Insert, EvictIfOverCapacity, PopOldest,
        WriteTempFile, Predict, RemoveTempFile, JobEnds, Goto, Fault, requestVars

\* Only a job that asks for a language there is gets past the look-up.
LEMMA JobNeedsEngine ==
  ASSUME BaseInv, NEW r \in Requests, OcrJobStep(r), job'[r] \in OcrStep
  PROVE  input[r].lang \in Supported /\ job'[r] # "look_up"
<1>1. job \in [Requests -> Task] /\ engines \in Seq(Supported)
  BY DEF BaseInv, TypeOK
<1>2. Cached \subseteq Supported
  BY <1>1, ElementOfSeq, LenProperties DEF Cached, ToSet
<1>3. job'[r] # "look_up"
  BY <1>1 DEF OcrJobStep, LookUp, Touch, Build, Insert, EvictIfOverCapacity, PopOldest,
        WriteTempFile, Predict, RemoveTempFile, JobEnds, Goto
<1>4. CASE job[r] = "look_up"
  BY <1>1, <1>2, <1>3, <1>4 DEF OcrJobStep, LookUp, Touch, Build, Insert, EvictIfOverCapacity,
        PopOldest, WriteTempFile, Predict, RemoveTempFile, JobEnds, Goto, OcrStep
<1>5. CASE job[r] # "look_up"
  BY <1>3, <1>5, JobGoes DEF BaseInv, LangInv
<1> QED BY <1>3, <1>4, <1>5

\* A worker takes the oldest task.
LEMMA TaskStarts ==
  ASSUME BaseInv, StartTask
  PROVE  \E r \in Requests :
           /\ Alone(r) /\ UNCHANGED <<input, engines, files, warm, faults>>
           /\ stage'[r] = stage[r] /\ answer'[r] = answer[r]
           /\ job[r] = "queued"
           /\ \/ stage[r] = "recognising" /\ job'[r] = "look_up"
              \/ stage[r] # "recognising" /\ job'[r] = "fetch"
           /\ queue' \in Seq(Requests) /\ Distinct(queue') /\ ToSet(queue') = ToSet(queue) \ {r}
<1>1. queue \in Seq(Requests) /\ Distinct(queue) /\ queue # <<>> /\ TypeOK
  BY DEF StartTask, BaseInv, QueueInv, TypeOK
<1> DEFINE r == Head(queue)
<1>2. /\ r \in Requests /\ r \in ToSet(queue) /\ Tail(queue) \in Seq(Requests)
      /\ Distinct(Tail(queue)) /\ ToSet(Tail(queue)) = ToSet(queue) \ {r}
  BY <1>1, DistinctTail
<1>3. job[r] = "queued"
  BY <1>2 DEF BaseInv, QueueInv
<1>4. /\ Goto(r, IF stage[r] = "recognising" THEN "look_up" ELSE "fetch") /\ queue' = Tail(queue)
      /\ UNCHANGED <<input, stage, answer, engines, files, warm, faults>>
  BY DEF StartTask, requestVars
<1> HIDE DEF r
<1>5. /\ Alone(r) /\ job'[r] = IF stage[r] = "recognising" THEN "look_up" ELSE "fetch"
      /\ stage'[r] = stage[r] /\ answer'[r] = answer[r]
  BY <1>1, <1>2, <1>4, Goes DEF Task, OcrStep
<1> QED BY <1>2, <1>3, <1>4, <1>5
-----------------------------------------------------------------------------
(* Every step keeps the base. *)

LEMMA BaseInit == Init => BaseInv
<1> SUFFICES ASSUME Init
             PROVE  BaseInv
  OBVIOUS
<1>1. input \in [Requests -> Input]
  <2>1. input \in [Requests -> UNION {Inputs[r] : r \in Requests}]
        /\ \A r \in Requests : input[r] \in Inputs[r]
    BY DEF Init
  <2>2. \A r \in Requests : input[r] \in Input
    BY <2>1, InputsAssumption
  <2> QED BY <2>1, <2>2
<1>2. TypeOK
  <2>1. queue \in Seq(Requests) /\ engines \in Seq(Supported)
    BY EmptySeq DEF Init
  <2>2. faults \in 0..MaxFaults /\ files \subseteq Requests
    <3>1. faults = 0 /\ files = {}
      BY DEF Init
    <3> QED BY <3>1, BoundsAssumption
  <2>3. /\ stage \in [Requests -> Stage] /\ answer \in [Requests -> Answer]
        /\ job \in [Requests -> Task]
    BY DEF Init, Stage, Answer, Task
  <2>4. warm \in BOOLEAN
    BY Zenon DEF Init
  <2> QED BY <1>1, <2>1, <2>2, <2>3, <2>4 DEF TypeOK
<1>3. ToSet(queue) = {} /\ Distinct(queue) /\ Distinct(engines)
  BY EmptySeq DEF Init, ToSet, Distinct
<1>4. QueueInv /\ StageInv /\ WarmInv /\ LangInv
  BY <1>3 DEF Init, QueueInv, StageInv, WarmInv, LangInv, OcrStep
<1> QED BY <1>2, <1>3, <1>4 DEF BaseInv

\* Enough for the base, of a step about one request.
LEMMA OneRequest ==
  ASSUME BaseInv, NEW r \in Requests, Alone(r), UNCHANGED <<input, warm>>, warm,
         engines' \in Seq(Supported), Distinct(engines'), files' \subseteq Requests,
         faults' \in 0..MaxFaults, queue' \in Seq(Requests), Distinct(queue'),
         ToSet(queue') \ {r} \subseteq ToSet(queue), r \in ToSet(queue') => job'[r] = "queued",
         stage'[r] # "new",
         stage'[r] = "downloading" => job'[r] = "none",
         stage'[r] \in {"resolving", "reading"} => job'[r] \in {"queued", "fetch"},
         stage'[r] = "recognising" => job'[r] \in {"queued"} \cup OcrStep,
         stage'[r] = "answered" => job'[r] \in {"none"} \cup OcrStep,
         job'[r] \in OcrStep \ {"look_up"} => input[r].lang \in Supported
  PROVE  BaseInv'
<1>1. TypeOK'
  BY DEF BaseInv, TypeOK, Alone
<1>2. QueueInv'
  <2>1. ASSUME NEW q \in ToSet(queue')
        PROVE  job'[q] = "queued"
    <3>1. CASE q = r
      BY <2>1, <3>1
    <3>2. CASE q # r
      <4>1. q \in ToSet(queue)
        BY <2>1, <3>2
      <4>2. q \in Requests
        BY <4>1, ElementOfSeq, LenProperties DEF ToSet, BaseInv, TypeOK
      <4> QED BY <3>2, <4>1, <4>2 DEF BaseInv, QueueInv, Alone
    <3> QED BY <3>1, <3>2
  <2> QED BY <2>1 DEF QueueInv
<1>3. StageInv'
  BY DEF BaseInv, StageInv, Alone
<1>4. WarmInv' /\ LangInv'
  BY DEF BaseInv, WarmInv, LangInv, Alone
<1> QED BY <1>1, <1>2, <1>3, <1>4 DEF BaseInv

LEMMA BaseStep == BaseInv /\ [Next]_vars => BaseInv'
<1> SUFFICES ASSUME BaseInv, [Next]_vars
             PROVE  BaseInv'
  OBVIOUS
<1>0. /\ TypeOK /\ queue \in Seq(Requests) /\ Distinct(queue) /\ engines \in Seq(Supported)
      /\ Distinct(engines) /\ files \subseteq Requests /\ faults \in 0..MaxFaults
      /\ \A r \in ToSet(queue) : job[r] = "queued"
  BY DEF BaseInv, TypeOK, QueueInv
<1>1. CASE WarmUp
  <2>1. /\ UNCHANGED <<requestVars, poolVars, files, faults>> /\ warm' = TRUE
        /\ engines' = <<Default>>
    BY <1>1 DEF WarmUp
  <2>2. engines' \in Seq(Supported) /\ Distinct(engines')
    BY <2>1, BoundsAssumption DEF Distinct
  <2> QED BY <1>0, <2>1, <2>2 DEF BaseInv, TypeOK, QueueInv, StageInv, WarmInv, LangInv, requestVars, poolVars
<1>2. CASE StartTask
  <2>1. PICK r \in Requests :
           /\ Alone(r) /\ UNCHANGED <<input, engines, files, warm, faults>>
           /\ stage'[r] = stage[r] /\ answer'[r] = answer[r]
           /\ job[r] = "queued"
           /\ \/ stage[r] = "recognising" /\ job'[r] = "look_up"
              \/ stage[r] # "recognising" /\ job'[r] = "fetch"
           /\ queue' \in Seq(Requests) /\ Distinct(queue') /\ ToSet(queue') = ToSet(queue) \ {r}
    BY <1>2, TaskStarts
  <2>2. stage[r] \in {"resolving", "reading", "recognising"} /\ warm
    BY <1>0, <2>1 DEF BaseInv, StageInv, WarmInv, TypeOK, Stage, OcrStep
  <2> QED BY <1>0, <2>1, <2>2, OneRequest DEF OcrStep
<1>3. ASSUME NEW r \in Requests, ProcessOcr(r) \/ FetchFile(r) \/ DownloadHttp(r) \/ FetchEnds(r)
      PROVE  BaseInv'
  <2> DEFINE stays == UNCHANGED queue /\ job'[r] = "none"
             joins == queue' = Append(queue, r) /\ job'[r] = "queued"
  <2>1. /\ Alone(r) /\ UNCHANGED <<input, engines, files, warm, faults>> /\ warm
        /\ job[r] \in {"none", "fetch"} /\ stage'[r] # "new"
        /\ \/ stage'[r] \in {"resolving", "reading", "recognising"} /\ joins
           \/ stage'[r] \in {"downloading", "answered"} /\ stays
    BY <1>3, EventLoop
  <2>2. r \notin ToSet(queue)
    BY <1>0, <2>1
  <2>3. CASE joins
    <3>1. queue' \in Seq(Requests) /\ Distinct(queue') /\ ToSet(queue') = ToSet(queue) \cup {r}
      BY <1>0, <2>2, <2>3, AppendProperties, DistinctAppend
    <3> QED BY <1>0, <2>1, <2>3, <3>1, OneRequest DEF OcrStep
  <2>4. CASE stays
    BY <1>0, <2>1, <2>2, <2>4, OneRequest DEF OcrStep
  <2> QED BY <2>1, <2>3, <2>4
<1>4. ASSUME NEW r \in Requests, OcrTimeout(r)
      PROVE  BaseInv'
  <2>1. /\ Alone(r) /\ UNCHANGED <<input, engines, files, warm, faults>>
        /\ stage[r] = "recognising" /\ stage'[r] = "answered"
        /\ \/ /\ job[r] = "queued" /\ job'[r] = "none"
              /\ queue' \in Seq(Requests) /\ Distinct(queue') /\ ToSet(queue') = ToSet(queue) \ {r}
           \/ job[r] \in OcrStep /\ job'[r] = job[r] /\ UNCHANGED queue
    BY <1>4, TimesOut
  <2>2. warm
    BY <2>1 DEF BaseInv, WarmInv
  <2>3. job[r] \in OcrStep \ {"look_up"} => input[r].lang \in Supported
    BY DEF BaseInv, LangInv
  <2>4. "none" \notin OcrStep /\ "queued" \notin OcrStep
    BY DEF OcrStep
  <2> QED BY <1>0, <2>1, <2>2, <2>3, <2>4, OneRequest
<1>5. ASSUME NEW r \in Requests, OcrJobStep(r)
      PROVE  BaseInv'
  <2>1. /\ Alone(r) /\ UNCHANGED <<input, queue, warm>> /\ warm /\ job[r] \in OcrStep
        /\ stage'[r] # "new" /\ faults' \in faults..MaxFaults
        /\ \/ job'[r] \in OcrStep /\ stage'[r] = stage[r]
           \/ job'[r] = "none" /\ stage'[r] = "answered"
    BY <1>5, JobGoes
  <2>2. engines' \in Seq(Supported) /\ Distinct(engines')
    BY <1>5, JobCaches
  <2>3. files' \subseteq Requests
    BY <1>0, <1>5, JobWrites
  <2>4. job'[r] \in OcrStep => input[r].lang \in Supported
    BY <1>5, JobNeedsEngine
  <2>5. r \notin ToSet(queue) /\ "none" \notin OcrStep
    BY <1>0, <2>1 DEF OcrStep
  <2>6. stage[r] \in {"recognising", "answered"}
    BY <1>0, <2>1 DEF BaseInv, StageInv, TypeOK, Stage, OcrStep
  <2>7. faults' \in 0..MaxFaults
    BY <1>0, <2>1, BoundsAssumption
  <2> QED BY <1>0, <2>1, <2>2, <2>3, <2>4, <2>5, <2>6, <2>7, OneRequest
<1>6. CASE UNCHANGED vars
  BY <1>6 DEF vars, requestVars, poolVars, BaseInv, TypeOK, QueueInv, StageInv, WarmInv, LangInv
<1> QED BY <1>1, <1>2, <1>3, <1>4, <1>5, <1>6 DEF Next, WorkerStep, OcrJobStep
-----------------------------------------------------------------------------
(* Nothing piles up. *)

\* A line without repetitions has as many members as places.
LEMMA DistinctCounts ==
  ASSUME NEW S, NEW q \in Seq(S), Distinct(q)
  PROVE  IsFiniteSet(ToSet(q)) /\ Cardinality(ToSet(q)) = Len(q)
<1>1. Len(q) \in Nat /\ DOMAIN q = 1..Len(q) /\ q \in [1..Len(q) -> S]
  BY LenProperties
<1>2. q \in [1..Len(q) -> ToSet(q)]
  BY <1>1 DEF ToSet
<1>3. q \in Bijection(1..Len(q), ToSet(q))
  BY <1>1, <1>2 DEF Bijection, Injection, IsInjective, Surjection, Distinct, ToSet
<1>4. IsFiniteSet(1..Len(q)) /\ Cardinality(1..Len(q)) = Len(q)
  BY <1>1, FS_Interval
<1> QED BY <1>3, <1>4, FS_Bijection DEF ExistsBijection

\* A job leaves the check only when the cache is within its size.
LEMMA JobChecks ==
  ASSUME BaseInv, NEW r \in Requests, OcrJobStep(r),
         job[r] \in {"check", "evict"}, job'[r] \notin {"check", "evict"}
  PROVE  Len(engines') <= Cap
<1>1. job \in [Requests -> Task] /\ Len(engines) \in Nat /\ Cap \in Nat
  BY LenProperties, BoundsAssumption DEF BaseInv, TypeOK
<1>2. CASE EvictIfOverCapacity(r)
  BY <1>1, <1>2 DEF EvictIfOverCapacity, Goto
<1>3. CASE PopOldest(r)
  BY <1>1, <1>3, EmptySeq DEF PopOldest, Goto
<1> QED
  BY <1>1, <1>2, <1>3 DEF OcrJobStep, LookUp, Touch, Build, Insert, WriteTempFile, Predict, RemoveTempFile

LEMMA TasksAreFinite ==
  ASSUME BaseInv, FiniteInv, NEW r \in Requests, Alone(r)
  PROVE  IsFiniteSet({q \in Requests : job'[q] # "none"})
<1>1. {q \in Requests : job'[q] # "none"} \subseteq {q \in Requests : job[q] # "none"} \cup {r}
  BY DEF Alone
<1> QED BY <1>1, FS_AddElement, FS_Subset DEF FiniteInv

LEMMA CheckingIsFinite ==
  ASSUME FiniteInv
  PROVE  /\ IsFiniteSet(Checking) /\ Cardinality(Checking) \in Nat
         /\ IsFiniteSet(Left) /\ Cardinality(Left) \in Nat
<1>1. Checking \subseteq {r \in Requests : job[r] # "none"} /\ Left \subseteq files
  BY DEF Checking, Left
<1> QED BY <1>1, FS_Subset, FS_CardinalityType DEF FiniteInv

\* The steps that leave the cache and the disk alone.
LEMMA KeepsPile ==
  ASSUME PileInv, BaseInv', NEW r \in Requests, Alone(r), UNCHANGED <<engines, files, faults>>,
         \/ job'[r] = job[r]
         \/ /\ job[r] \notin {"check", "evict", "predict", "remove"}
            /\ job'[r] \notin {"check", "evict", "predict", "remove"}
  PROVE  PileInv'
<1>1. FiniteInv'
  BY TasksAreFinite DEF PileInv, FiniteInv
<1>2. Checking' = Checking /\ Left' = Left
  BY DEF Alone, Checking, Left, PileInv, BaseInv, TypeOK
<1> QED BY <1>1, <1>2 DEF PileInv, CapInv, TempFilesAreRemoved, Left

LEMMA JobKeepsPile ==
  ASSUME PileInv, BaseInv', NEW r \in Requests, OcrJobStep(r)
  PROVE  PileInv'
<1>1. /\ Alone(r) /\ job[r] \in OcrStep /\ faults' \in faults..MaxFaults
      /\ faults \in Nat /\ faults' \in Nat /\ files \subseteq Requests
  BY JobGoes, BoundsAssumption DEF PileInv, BaseInv, TypeOK
<1>2. /\ files' = files \/ files' = files \cup {r} \/ files' = files \ {r}
  BY JobWrites DEF PileInv
<1>3. FiniteInv'
  <2>1. IsFiniteSet(files')
    BY <1>2, FS_AddElement, FS_RemoveElement DEF PileInv, FiniteInv
  <2> QED BY <1>1, <2>1, TasksAreFinite DEF PileInv, FiniteInv
<1>4. /\ IsFiniteSet(Checking) /\ Cardinality(Checking) \in Nat
      /\ IsFiniteSet(Left) /\ Cardinality(Left) \in Nat
      /\ IsFiniteSet(Checking') /\ Cardinality(Checking') \in Nat
      /\ IsFiniteSet(Left') /\ Cardinality(Left') \in Nat
  <2>1. Checking' \subseteq {q \in Requests : job'[q] # "none"} /\ Left' \subseteq files'
    BY DEF Checking, Left
  <2>2. /\ IsFiniteSet(Checking') /\ Cardinality(Checking') \in Nat
        /\ IsFiniteSet(Left') /\ Cardinality(Left') \in Nat
    BY <1>3, <2>1, FS_Subset, FS_CardinalityType DEF FiniteInv
  <2> QED BY <2>2, CheckingIsFinite DEF PileInv
<1>5. /\ Len(engines) \in Nat /\ Len(engines') \in Nat /\ Cap \in Nat
      /\ Len(engines) <= Cap + Cardinality(Checking)
  BY LenProperties, BoundsAssumption DEF PileInv, BaseInv, TypeOK, CapInv
<1>6. CapInv'
  <2>1. CASE job[r] \in {"check", "evict"} /\ job'[r] \notin {"check", "evict"}
    <3>1. Len(engines') <= Cap
      BY <2>1, JobChecks DEF PileInv
    <3> QED BY <1>4, <1>5, <3>1 DEF CapInv
  <2>2. CASE job[r] \in {"check", "evict"} <=> job'[r] \in {"check", "evict"}
    <3>1. Checking' = Checking
      BY <1>1, <2>2 DEF Checking, Alone
    <3>2. Len(engines') <= Len(engines)
      BY <1>5, <2>2, JobCaches DEF PileInv
    <3> QED BY <1>4, <1>5, <3>1, <3>2 DEF CapInv
  <2>3. CASE job[r] \notin {"check", "evict"} /\ job'[r] \in {"check", "evict"}
    <3>1. Checking' = Checking \cup {r} /\ r \notin Checking
      BY <1>1, <2>3 DEF Checking, Alone
    <3>2. Cardinality(Checking') = Cardinality(Checking) + 1
      BY <1>4, <3>1, FS_AddElement
    <3>3. Len(engines') <= Len(engines) + 1
      BY <1>5, JobCaches DEF PileInv
    <3> QED BY <1>4, <1>5, <3>2, <3>3 DEF CapInv
  <2> QED BY <2>1, <2>2, <2>3
<1>7. TempFilesAreRemoved'
  <2>1. Cardinality(Left) <= faults
    BY DEF PileInv, TempFilesAreRemoved, Left
  <2>2. \/ Left' \subseteq Left
        \/ Left' \subseteq Left \cup {r} /\ faults' = faults + 1
    BY <1>1, JobWrites DEF Left, Alone, PileInv
  <2>3. CASE Left' \subseteq Left
    <3>1. Cardinality(Left') <= Cardinality(Left)
      BY <1>4, <2>3, FS_Subset
    <3> QED BY <1>1, <1>4, <2>1, <3>1 DEF TempFilesAreRemoved, Left
  <2>4. CASE Left' \subseteq Left \cup {r} /\ faults' = faults + 1
    <3>1. IsFiniteSet(Left \cup {r}) /\ Cardinality(Left \cup {r}) <= Cardinality(Left) + 1
      <4>1. IsFiniteSet(Left) /\ Cardinality(Left) \in Nat
        BY <1>4
      <4>2. /\ IsFiniteSet(Left \cup {r})
            /\ Cardinality(Left \cup {r}) = IF r \in Left THEN Cardinality(Left) ELSE Cardinality(Left) + 1
        BY <4>1, FS_AddElement
      <4> QED BY <4>1, <4>2
    <3>2. Cardinality(Left') <= Cardinality(Left \cup {r})
      BY <2>4, <3>1, FS_Subset
    <3>3. Cardinality(Left \cup {r}) \in Nat
      BY <3>1, FS_CardinalityType
    <3> QED BY <1>1, <1>4, <2>1, <2>4, <3>1, <3>2, <3>3 DEF TempFilesAreRemoved, Left
  <2> QED BY <2>2, <2>3, <2>4
<1> QED BY <1>3, <1>6, <1>7 DEF PileInv

LEMMA PileInit == Init => PileInv
<1> SUFFICES ASSUME Init
             PROVE  PileInv
  OBVIOUS
<1>1. {r \in Requests : job[r] # "none"} = {} /\ files = {} /\ Checking = {} /\ faults = 0
  BY DEF Init, Checking
<1>2. {r \in files : job[r] \notin {"predict", "remove"}} = {}
  BY <1>1
<1>3. Len(engines) = 0
  BY DEF Init
<1>4. IsFiniteSet({}) /\ Cardinality({}) = 0
  BY FS_EmptySet
<1>5. FiniteInv
  BY <1>1, <1>4 DEF FiniteInv
<1>6. CapInv
  BY <1>1, <1>3, <1>4, BoundsAssumption DEF CapInv
<1>7. TempFilesAreRemoved
  BY <1>1, <1>2, <1>4 DEF TempFilesAreRemoved
<1> QED BY <1>5, <1>6, <1>7, BaseInit DEF PileInv

LEMMA PileStep == PileInv /\ [Next]_vars => PileInv'
<1> SUFFICES ASSUME PileInv, [Next]_vars
             PROVE  PileInv'
  OBVIOUS
<1>0. BaseInv /\ BaseInv'
  BY BaseStep DEF PileInv
<1>1. CASE WarmUp
  <2>1. /\ UNCHANGED <<requestVars, poolVars, files, faults>> /\ engines' = <<Default>>
    BY <1>1 DEF WarmUp
  <2>2. FiniteInv' /\ TempFilesAreRemoved' /\ Checking' = Checking
    BY <2>1 DEF PileInv, FiniteInv, TempFilesAreRemoved, Checking, poolVars
  <2>3. Cardinality(Checking) \in Nat
    BY CheckingIsFinite DEF PileInv
  <2>4. Len(engines') = 1
    BY <2>1
  <2> QED BY <1>0, <2>2, <2>3, <2>4, BoundsAssumption DEF PileInv, CapInv
<1>2. CASE StartTask
  <2>1. PICK r \in Requests :
          /\ Alone(r) /\ UNCHANGED <<engines, files, faults>>
          /\ job[r] = "queued" /\ job'[r] \in {"look_up", "fetch"}
    BY <1>0, <1>2, TaskStarts
  <2> QED BY <1>0, <2>1, KeepsPile
<1>3. ASSUME NEW r \in Requests, ProcessOcr(r) \/ FetchFile(r) \/ DownloadHttp(r) \/ FetchEnds(r)
      PROVE  PileInv'
  <2>1. /\ Alone(r) /\ UNCHANGED <<engines, files, faults>>
        /\ job[r] \in {"none", "fetch"} /\ job'[r] \in {"none", "queued"}
    BY <1>0, <1>3, EventLoop
  <2> QED BY <1>0, <2>1, KeepsPile
<1>4. ASSUME NEW r \in Requests, OcrTimeout(r)
      PROVE  PileInv'
  <2>1. /\ Alone(r) /\ UNCHANGED <<engines, files, faults>>
        /\ job'[r] = job[r] \/ (job[r] = "queued" /\ job'[r] = "none")
    BY <1>0, <1>4, TimesOut
  <2> QED BY <1>0, <2>1, KeepsPile
<1>5. ASSUME NEW r \in Requests, OcrJobStep(r)
      PROVE  PileInv'
  BY <1>0, <1>5, JobKeepsPile
<1>6. CASE UNCHANGED vars
  BY <1>0, <1>6 DEF vars, requestVars, poolVars, PileInv, FiniteInv, CapInv, Checking, TempFilesAreRemoved
<1> QED BY <1>1, <1>2, <1>3, <1>4, <1>5, <1>6 DEF Next, WorkerStep, OcrJobStep

\* The state is of its types.
THEOREM OcrTypes == Spec => []TypeOK
<1>1. BaseInv => TypeOK
  BY DEF BaseInv
<1> QED BY <1>1, BaseInit, BaseStep, PTL DEF Spec

\* Requests that time out while their jobs go on, and jobs that race for one
\* engine, leave at most one engine too many for each job that is about to check,
\* and one temporary file for each write that failed (ocr_service.py).
THEOREM NothingEverPilesUp == Spec => []NothingPilesUp
<1>1. ASSUME PileInv
      PROVE  NothingPilesUp
  <2>1. engines \in Seq(Supported) /\ Distinct(engines)
    BY <1>1 DEF PileInv, BaseInv, TypeOK
  <2>2. Cardinality(Cached) = Len(engines)
    BY <2>1, DistinctCounts DEF Cached
  <2> QED BY <1>1, <2>2 DEF PileInv, CapInv, Checking, NothingPilesUp, CacheIsBounded
<1> QED BY <1>1, PileInit, PileStep, PTL DEF Spec
-----------------------------------------------------------------------------
(* While the languages fit. *)

\* What is asked for only grows.
LEMMA FitsBefore ==
  ASSUME BaseInv, UNCHANGED input, \A r \in Requests : stage[r] # "new" => stage'[r] # "new"
  PROVE  Asked \subseteq Asked' /\ (Fits' => Fits)
<1>1. Asked \subseteq Asked'
  BY DEF Asked
<1>2. IsFiniteSet(Asked' \cup {Default})
  BY FS_Subset, FS_AddElement, BoundsAssumption DEF Asked
<1>3. /\ IsFiniteSet(Asked \cup {Default})
      /\ Cardinality(Asked \cup {Default}) <= Cardinality(Asked' \cup {Default})
  BY <1>1, <1>2, FS_Subset
<1>4. /\ Cardinality(Asked \cup {Default}) \in Nat /\ Cardinality(Asked' \cup {Default}) \in Nat
      /\ Cap \in Nat
  BY <1>2, <1>3, FS_CardinalityType, BoundsAssumption
<1> QED BY <1>1, <1>3, <1>4 DEF Fits

\* Then no job finds the cache over its size.
LEMMA NoneToEvict ==
  ASSUME FittingInv, Fits
  PROVE  Len(engines) <= Cap
<1>1. engines \in Seq(Supported) /\ Distinct(engines)
  BY DEF FittingInv, BaseInv, TypeOK
<1>2. IsFiniteSet(Cached) /\ Cardinality(Cached) = Len(engines) /\ Len(engines) \in Nat
  BY <1>1, DistinctCounts, LenProperties DEF Cached
<1>3. IsFiniteSet(Asked \cup {Default})
  BY FS_Subset, FS_AddElement, BoundsAssumption DEF Asked
<1>4. Cardinality(Cached) <= Cardinality(Asked \cup {Default})
  BY <1>3, FS_Subset DEF FittingInv, AskedInv
<1>5. Cardinality(Asked \cup {Default}) \in Nat /\ Cap \in Nat
  BY <1>3, FS_CardinalityType, BoundsAssumption
<1> QED BY <1>2, <1>4, <1>5 DEF Fits

\* What an OCR job comes to, and when.
Outcome(r, e) ==
  \/ e = "ok"
  \/ e = "ValueError" /\ input[r].lang \notin Supported
  \/ e = "KeyError" /\ (job[r] = "evict" \/ (job[r] = "touch" /\ input[r].lang \notin Cached))
  \/ e \in {"EngineError", "OSError"} /\ (faults' = faults + 1 \/ input[r].content # "good")

LEMMA JobOutcome ==
  ASSUME BaseInv, NEW r \in Requests, OcrJobStep(r)
  PROVE  \/ answer'[r] = answer[r]
         \/ \E e \in Error \cup {"ok"} :
              Outcome(r, e) /\ answer'[r] = AnswerTo(r, ErrorOfJob(r, e))
<1>1. \/ UNCHANGED answer
      \/ \E e \in Error \cup {"ok"} : Outcome(r, e) /\ JobEnds(r, e)
  <2>1. \A i \in DOMAIN engines : engines[i] \in Cached
    BY DEF Cached, ToSet
  <2>2. CASE LookUp(r)
    BY <2>2 DEF LookUp, Outcome, Error
  <2>3. CASE Touch(r)
    BY <2>3 DEF Touch, Outcome, Error
  <2>4. CASE Build(r)
    BY <2>4 DEF Build, Fault, Outcome, Error
  <2>5. CASE PopOldest(r)
    BY <2>5 DEF PopOldest, Outcome, Error
  <2>6. CASE WriteTempFile(r)
    BY <2>6 DEF WriteTempFile, Fault, Outcome, Error
  <2>7. CASE RemoveTempFile(r)
    BY <2>7 DEF RemoveTempFile, Outcome, Error
  <2>8. CASE Insert(r) \/ EvictIfOverCapacity(r) \/ Predict(r)
    BY <2>8 DEF Insert, EvictIfOverCapacity, Predict, requestVars
  <2> QED BY <2>2, <2>3, <2>4, <2>5, <2>6, <2>7, <2>8 DEF OcrJobStep
<1>2. ASSUME NEW e \in Error \cup {"ok"}, JobEnds(r, e)
      PROVE  answer'[r] \in {answer[r], AnswerTo(r, ErrorOfJob(r, e))}
  BY <1>2, Finishes DEF BaseInv
<1> QED BY <1>1, <1>2

\* What a job finds in the cache, and that it is over its size.
LEMMA JobLooks ==
  ASSUME BaseInv, NEW r \in Requests, OcrJobStep(r)
  PROVE  /\ job'[r] = "touch" => input[r].lang \in Cached
         /\ job'[r] = "evict" => ~ (Len(engines) <= Cap)
<1>1. job \in [Requests -> Task] /\ Len(engines) \in Nat /\ Cap \in Nat
  BY LenProperties, BoundsAssumption DEF BaseInv, TypeOK
<1> QED BY <1>1 DEF OcrJobStep, LookUp, Touch, Build, Insert, EvictIfOverCapacity, PopOldest,
        WriteTempFile, Predict, RemoveTempFile, JobEnds, Goto

LEMMA JobKeepsFitting ==
  ASSUME FittingInv, BaseInv', NEW r \in Requests, OcrJobStep(r)
  PROVE  FittingInv'
<1>1. /\ BaseInv /\ Alone(r) /\ UNCHANGED <<input, warm>> /\ warm /\ job[r] \in OcrStep
      /\ stage'[r] # "new" /\ stage[r] # "new" /\ faults' \in faults..MaxFaults
  BY JobGoes DEF FittingInv
<1>2. \A q \in Requests : stage[q] # "new" => stage'[q] # "new"
  BY <1>1 DEF Alone
<1>3. Asked \subseteq Asked' /\ (Fits' => Fits)
  BY <1>1, <1>2, FitsBefore
<1>4. AskedInv'
  <2>1. Cached' \subseteq Cached \/ (job[r] = "insert" /\ Cached' = Cached \cup {input[r].lang})
    BY <1>1, JobCaches DEF Cached
  <2>2. job[r] = "insert" => input[r].lang \in Asked
    BY <1>1 DEF BaseInv, LangInv, Asked, OcrStep
  <2> QED BY <1>3, <2>1, <2>2 DEF FittingInv, AskedInv
<1>5. ASSUME Fits'
      PROVE  /\ Default \in Cached'
             /\ \A q \in Requests :
                  /\ job'[q] # "evict"
                  /\ job'[q] = "touch" => input[q].lang \in Cached'
                  /\ answer'[q] # "KeyError"
                  /\ faults' = 0 /\ input[q].content = "good" /\ input[q].lang \in Supported
                       => answer'[q] # "422"
  <2>1. /\ Default \in Cached
        /\ \A q \in Requests :
             /\ job[q] # "evict"
             /\ job[q] = "touch" => input[q].lang \in Cached
             /\ answer[q] # "KeyError"
             /\ faults = 0 /\ input[q].content = "good" /\ input[q].lang \in Supported
                  => answer[q] # "422"
    BY <1>1, <1>3, <1>5 DEF FittingInv, KeptInv
  <2>2. Cached \subseteq Cached'
    <3>1. \/ engines' = engines \/ Cached' = Cached \/ Cached' = Cached \cup {input[r].lang}
      BY <1>1, <2>1, JobCaches
    <3> QED BY <3>1 DEF Cached
  <2>3. job'[r] # "evict" /\ (job'[r] = "touch" => input[r].lang \in Cached)
    BY <1>1, <1>3, <1>5, JobLooks, NoneToEvict
  <2>4. /\ answer'[r] # "KeyError"
        /\ faults' = 0 /\ input[r].content = "good" /\ input[r].lang \in Supported
             => answer'[r] # "422"
    <3>0. faults \in Nat /\ faults' \in Nat /\ faults <= faults'
      BY <1>1, BoundsAssumption DEF BaseInv, TypeOK
    <3>1. CASE answer'[r] = answer[r]
      BY <2>1, <3>0, <3>1
    <3>2. ASSUME NEW e \in Error \cup {"ok"}, Outcome(r, e),
                 answer'[r] = AnswerTo(r, ErrorOfJob(r, e))
          PROVE  /\ answer'[r] # "KeyError"
                 /\ faults' = 0 /\ input[r].content = "good" /\ input[r].lang \in Supported
                      => answer'[r] # "422"
      <4>1. e # "KeyError"
        BY <2>1, <3>2 DEF Outcome
      <4>2. answer'[r] # "KeyError" /\ (e = "ok" => answer'[r] = "ok")
        BY <3>2, <4>1 DEF AnswerTo, ErrorOfJob, StatusOf, Error
      <4>3. ASSUME faults' = 0, input[r].content = "good", input[r].lang \in Supported
            PROVE  e = "ok"
        BY <3>0, <3>2, <4>1, <4>3 DEF Outcome
      <4> QED BY <4>2, <4>3
    <3> QED BY <1>1, <3>1, <3>2, JobOutcome
  <2>5. ASSUME NEW q \in Requests, q # r
        PROVE  /\ job'[q] # "evict"
               /\ job'[q] = "touch" => input[q].lang \in Cached'
               /\ answer'[q] # "KeyError"
               /\ faults' = 0 /\ input[q].content = "good" /\ input[q].lang \in Supported
                    => answer'[q] # "422"
    <3>1. job'[q] = job[q] /\ answer'[q] = answer[q]
      BY <1>1, <2>5 DEF Alone
    <3>2. faults' = 0 => faults = 0
      BY <1>1, BoundsAssumption DEF BaseInv, TypeOK
    <3> QED BY <2>1, <2>2, <3>1, <3>2
  <2> QED BY <2>1, <2>2, <2>3, <2>4, <2>5
<1>6. KeptInv'
  BY <1>1, <1>5 DEF KeptInv
<1> QED BY <1>4, <1>6 DEF FittingInv

\* The steps of the event loop, and a worker's taking of a task.
LEMMA KeepsFitting ==
  ASSUME FittingInv, BaseInv', NEW r \in Requests, Alone(r),
         UNCHANGED <<input, engines, warm, faults>>, stage'[r] # "new",
         job'[r] = job[r] \/ job'[r] \notin {"evict", "touch"},
         answer'[r] = answer[r] \/ answer'[r] \notin {"422", "KeyError"}
  PROVE  FittingInv'
<1>1. BaseInv /\ \A q \in Requests : stage[q] # "new" => stage'[q] # "new"
  BY DEF Alone, FittingInv
<1>2. Asked \subseteq Asked' /\ (Fits' => Fits) /\ Cached' = Cached
  BY <1>1, FitsBefore DEF Cached
<1>3. AskedInv'
  BY <1>2 DEF FittingInv, AskedInv
<1>4. KeptInv'
  BY <1>2 DEF FittingInv, KeptInv, Alone
<1> QED BY <1>3, <1>4 DEF FittingInv

LEMMA FittingInit == Init => FittingInv
<1> SUFFICES ASSUME Init
             PROVE  FittingInv
  OBVIOUS
<1>1. Cached = {} /\ ~ warm
  BY DEF Init, Cached, ToSet
<1>2. \A r \in Requests : job[r] = "none" /\ answer[r] = "none"
  BY DEF Init
<1> QED BY <1>1, <1>2, BaseInit DEF FittingInv, AskedInv, KeptInv

LEMMA FittingStep == FittingInv /\ [Next]_vars => FittingInv'
<1> SUFFICES ASSUME FittingInv, [Next]_vars
             PROVE  FittingInv'
  OBVIOUS
<1>0. BaseInv /\ BaseInv'
  BY BaseStep DEF FittingInv
<1>1. CASE WarmUp
  <2>1. /\ UNCHANGED <<requestVars, poolVars, files, faults>> /\ engines' = <<Default>>
        /\ ~ warm
    BY <1>1 DEF WarmUp
  <2>2. Cached' = {Default}
    BY <2>1 DEF Cached, ToSet
  <2>3. \A r \in Requests : stage[r] = "new" /\ job[r] = "none"
    BY <1>0, <2>1 DEF BaseInv, WarmInv, StageInv
  <2>4. Asked' = Asked /\ (Fits' => Fits)
    BY <2>1 DEF Asked, Fits, requestVars
  <2>5. KeptInv'
    BY <2>1, <2>2, <2>3, <2>4 DEF FittingInv, KeptInv, requestVars, poolVars
  <2> QED BY <1>0, <2>2, <2>5 DEF FittingInv, AskedInv
<1>2. CASE StartTask
  <2>1. PICK r \in Requests :
          /\ Alone(r) /\ UNCHANGED <<input, engines, warm, faults>>
          /\ stage'[r] = stage[r] /\ answer'[r] = answer[r]
          /\ job[r] = "queued" /\ job'[r] \in {"look_up", "fetch"}
    BY <1>0, <1>2, TaskStarts
  <2>2. stage'[r] # "new"
    BY <1>0, <2>1 DEF BaseInv, StageInv
  <2> QED BY <1>0, <2>1, <2>2, KeepsFitting
<1>3. ASSUME NEW r \in Requests, ProcessOcr(r) \/ FetchFile(r) \/ DownloadHttp(r) \/ FetchEnds(r)
      PROVE  FittingInv'
  <2>1. /\ Alone(r) /\ UNCHANGED <<input, engines, warm, faults>> /\ stage'[r] # "new"
        /\ job'[r] \in {"none", "queued"}
        /\ answer'[r] = answer[r] \/ answer'[r] \notin {"422", "KeyError"}
    BY <1>0, <1>3, EventLoop
  <2> QED BY <1>0, <2>1, KeepsFitting
<1>4. ASSUME NEW r \in Requests, OcrTimeout(r)
      PROVE  FittingInv'
  <2>1. /\ Alone(r) /\ UNCHANGED <<input, engines, warm, faults>> /\ stage'[r] # "new"
        /\ job'[r] = job[r] \/ job'[r] = "none"
        /\ answer'[r] \notin {"422", "KeyError"}
    BY <1>0, <1>4, TimesOut
  <2> QED BY <1>0, <2>1, KeepsFitting
<1>5. ASSUME NEW r \in Requests, OcrJobStep(r)
      PROVE  FittingInv'
  BY <1>0, <1>5, JobKeepsFitting
<1>6. CASE UNCHANGED vars
  BY <1>0, <1>6 DEF vars, requestVars, poolVars, FittingInv, AskedInv, KeptInv, Fits, Asked, Cached
<1> QED BY <1>1, <1>2, <1>3, <1>4, <1>5, <1>6 DEF Next, WorkerStep, OcrJobStep

\* As long as the languages asked for fit in the cache together, look-ups,
\* insertions and evictions without a lock disturb nobody: the service stays
\* ready, and no good file is refused for an engine that went away (_get_engine).
THEOREM FittingLanguagesStay == Spec => []FittingLanguagesAreUndisturbed
<1>1. FittingInv => FittingLanguagesAreUndisturbed
  BY DEF FittingInv, KeptInv, Fits, FittingLanguagesAreUndisturbed
<1> QED BY <1>1, FittingInit, FittingStep, PTL DEF Spec
=============================================================================
