------------------------- MODULE DocumentRouterProofs -------------------------
(***************************************************************************)
(* Proofs about DocumentRouter, for any files, any number of pages and     *)
(* any configured number of threads; and about IngestPipeline, for any     *)
(* objects, folders, uploads and failures.                                 *)
(***************************************************************************)
EXTENDS DocumentRouter, IngestPipeline, FiniteSetTheorems, SequenceTheorems, TLAPS

NonePages == \A p \in Pages : future[p] = "none"

(* What the request's thread has done at each of its places.               *)
PlaceInv ==
  /\ pc \in {"route", "call", "slice"} => NonePages /\ ~interrupted
  /\ pc = "call" => file.extension # "pdf"
  /\ pc \in {"submit", "wait"} => ~interrupted /\ Len(work) = Len(file.pages) /\ Len(work) > 0
  /\ pc = "done" => NonePages \/ (Len(work) = Len(file.pages) /\ Len(work) > 0)
  /\ pc = "submit" => \A p, q \in Pages : q < p /\ future[q] = "none" => future[p] = "none"

(* The lengths the pages are routed by are those of the file.              *)
WorkInv ==
  \A i \in DOMAIN work :
    work[i] = IF file.pages[i].textReadable THEN file.pages[i].length ELSE 0

(* A page that went well has what the file says it should have.            *)
FoundInv == \A p \in Pages : future[p] = "done" => found[p] = Expected[p]

(* At an answer nothing is left, but for the threads' own pages after an   *)
(* interrupt.                                                              *)
LeftInv ==
  pc = "done" =>
    \A p \in Pages : /\ future[p] = "queued" => interrupted /\ p \in Own
                     /\ future[p] = "running" => interrupted

(* The pages that hold a thread are no more than the threads.              *)
PoolInv ==
  ~NonePages => IsFiniteSet(Busy) /\ Cardinality(Busy) <= Parallelism

RouterInv == TypeOK /\ PlaceInv /\ WorkInv /\ FoundInv /\ LeftInv /\ PoolInv /\ PdfIsWhole

-----------------------------------------------------------------------------
LEMMA FileFacts ==
  ASSUME RouterInv
  PROVE  /\ file \in Files /\ file.pages \in Seq(Page) /\ Len(file.pages) \in Nat
         /\ Pages = 1 .. Len(file.pages)
         /\ Threshold \in Nat /\ ParallelPages \in Int
  BY RouterAssumption DEF RouterInv, TypeOK, Pages

LEMMA ThreadFacts ==
  ASSUME Len(work) \in Nat, Len(work) > 0, ParallelPages \in Int
  PROVE  Parallelism \in 1 .. Len(work)
  BY DEF Parallelism

(* Service and CASE: only a PDF goes page by page.                         *)
LEMMA ServiceOfPdf ==
  /\ file.extension = "pdf" => Service(file.extension) = "per page"
  /\ file.extension # "pdf" => Service(file.extension) # "per page"
  BY DEF Service

LEMMA InitOK == Init => RouterInv
<1> SUFFICES ASSUME Init PROVE RouterInv
  OBVIOUS
<1> USE DEF Init
<1>1. file.pages \in Seq(Page) /\ DOMAIN file.pages = 1 .. Len(file.pages) /\ Len(file.pages) \in Nat
  BY RouterAssumption
<1>2. TypeOK
  <2>1. found \in [Pages -> Seq(Pages \X {"paddleocr", "docling"})]
    BY DEF Pages
  <2>2. future \in [Pages -> Futures]
    BY DEF Pages, Futures
  <2>3. work \in Seq(Nat) /\ Len(work) <= Len(file.pages)
    BY <1>1
  <2>4. faults \in 0 .. MaxFaults
    BY RouterAssumption
  <2>7. interrupted \in BOOLEAN
    OBVIOUS
  <2>5. answer.status \in {"none", "ok", "error"} /\ (answer = NoAnswer <=> pc # "done")
    BY DEF NoAnswer
  <2>6. pc \in {"route", "call", "slice", "submit", "wait", "done"} /\ file \in Files
    OBVIOUS
  <2> QED
    BY <2>1, <2>2, <2>3, <2>4, <2>5, <2>6, <2>7 DEF TypeOK
<1>3. PlaceInv /\ WorkInv /\ FoundInv /\ LeftInv /\ PoolInv /\ PdfIsWhole
  BY DEF PlaceInv, WorkInv, FoundInv, LeftInv, PoolInv, PdfIsWhole, NonePages, Pages, NoAnswer
<1> QED
  BY <1>2, <1>3 DEF RouterInv

-----------------------------------------------------------------------------
(* Steps of the request's thread before a page is submitted, and answers   *)
(* to files that are no PDF: the futures stay as they are.                 *)
LEMMA RequestStep ==
  ASSUME RouterInv, Route \/ CallService \/ CallFails \/ SlicePage \/ Sliced
  PROVE  RouterInv'
<1>1. /\ UNCHANGED <<file, future, found, interrupted>> /\ Pages' = Pages
      /\ NonePages /\ NonePages' /\ ~interrupted
  BY DEF RouterInv, PlaceInv, NonePages, Pages, Route, CallService, CallFails, SlicePage, Sliced
<1>2. PoolInv' /\ LeftInv' /\ FoundInv'
  BY <1>1 DEF PoolInv, LeftInv, FoundInv, NonePages
<1>3. CASE Route
  <2>1. pc' \in {"call", "slice", "done"} /\ UNCHANGED <<work, faults>>
        /\ (pc' = "done" => answer' = Error) /\ (pc' # "done" => answer' = answer)
        /\ (pc' = "call" => file.extension # "pdf")
    <3>1. CASE Service(file.extension) = ""
      BY <1>3, <3>1 DEF Route, Finish
    <3>2. CASE Service(file.extension) = "per page"
      BY <1>3, <3>2 DEF Route, Finish
    <3>3. CASE Service(file.extension) \notin {"", "per page"}
      BY <1>3, <3>3, ServiceOfPdf DEF Route, Finish
    <3> QED
      BY <3>1, <3>2, <3>3
  <2>2. TypeOK'
    <3>1. pc = "route" /\ answer = NoAnswer
      BY <1>3 DEF Route, RouterInv, TypeOK
    <3>2. answer'.status \in {"none", "ok", "error"} /\ (answer' = NoAnswer <=> pc' # "done")
      BY <2>1, <3>1 DEF Error, NoAnswer
    <3> QED
      BY <1>1, <2>1, <3>2 DEF RouterInv, TypeOK
  <2>3. PlaceInv'
    BY <1>1, <2>1 DEF PlaceInv
  <2>4. WorkInv'
    BY <1>1, <2>1 DEF RouterInv, WorkInv
  <2>5. answer'.status # "ok"
    <3>1. answer = NoAnswer
      BY <1>3 DEF Route, RouterInv, TypeOK
    <3>2. answer' \in {Error, NoAnswer}
      BY <2>1, <3>1
    <3> QED
      BY <3>2 DEF Error, NoAnswer
  <2> QED
    BY <1>2, <2>2, <2>3, <2>4, <2>5 DEF RouterInv, PdfIsWhole
<1>4. CASE CallService \/ CallFails
  <2>1. pc' = "done" /\ pc = "call" /\ UNCHANGED work /\ answer'.status \in {"ok", "error"}
    BY <1>4 DEF CallService, CallFails, Finish, Ok, Error
  <2>2. faults' \in 0 .. MaxFaults
    BY <1>4, RouterAssumption DEF CallService, CallFails, RouterInv, TypeOK
  <2>3. TypeOK'
    BY <1>1, <2>1, <2>2 DEF RouterInv, TypeOK, NoAnswer
  <2>4. PlaceInv' /\ WorkInv' /\ PdfIsWhole'
    BY <1>1, <2>1 DEF RouterInv, PlaceInv, WorkInv, PdfIsWhole
  <2> QED
    BY <1>2, <2>3, <2>4 DEF RouterInv
<1>5. CASE SlicePage
  <2> DEFINE n == Len(work) + 1
  <2>1. /\ pc = "slice" /\ Len(work) \in Nat /\ Len(work) < Len(file.pages)
        /\ file.pages \in Seq(Page) /\ file.pages[n] \in Page
    BY <1>5, RouterAssumption DEF SlicePage, RouterInv, TypeOK
  <2>2. CASE file.pages[n].sliceable
    <3>1. /\ work' = Append(work, IF file.pages[n].textReadable THEN file.pages[n].length ELSE 0)
          /\ UNCHANGED <<pc, answer, faults>>
      BY <1>5, <2>2 DEF SlicePage
    <3>2. work \in Seq(Nat) /\ work' \in Seq(Nat) /\ Len(work') = n
          /\ work'[n] = (IF file.pages[n].textReadable THEN file.pages[n].length ELSE 0)
          /\ \A i \in 1 .. Len(work) : work'[i] = work[i]
      BY <2>1, <3>1 DEF RouterInv, TypeOK, Page
    <3>3. TypeOK'
      BY <1>1, <2>1, <3>1, <3>2 DEF RouterInv, TypeOK
    <3>4. WorkInv'
      BY <1>1, <3>1, <3>2 DEF RouterInv, WorkInv
    <3>5. PlaceInv' /\ PdfIsWhole'
      BY <1>1, <2>1, <3>1 DEF RouterInv, PlaceInv, PdfIsWhole, TypeOK, NoAnswer
    <3> QED
      BY <1>2, <3>3, <3>4, <3>5 DEF RouterInv
  <2>3. CASE ~file.pages[n].sliceable
    <3>1. pc' = "done" /\ answer' = Error /\ UNCHANGED <<work, faults>>
      BY <1>5, <2>3 DEF SlicePage, Finish
    <3>2. TypeOK' /\ WorkInv' /\ PlaceInv' /\ PdfIsWhole'
      BY <1>1, <3>1 DEF RouterInv, TypeOK, WorkInv, PlaceInv, PdfIsWhole, Error, NoAnswer
    <3> QED
      BY <1>2, <3>2 DEF RouterInv
  <2> QED
    BY <2>2, <2>3
<1>6. CASE Sliced
  <2>1. pc = "slice" /\ Len(work) = Len(file.pages) /\ UNCHANGED <<work, faults>>
    BY <1>6 DEF Sliced
  <2>2. CASE work = <<>>
    <3>1. pc' = "done" /\ answer' = Ok(<<>>)
      BY <1>6, <2>2 DEF Sliced, Finish
    <3>2. Expected' = <<>>
      <4>1. file.pages \in Seq(Page) /\ Len(file.pages) = 0
        BY <2>1, <2>2, RouterAssumption DEF RouterInv, TypeOK
      <4>2. Pages = {} /\ file' = file
        BY <1>1, <4>1 DEF Pages
      <4> QED
        BY <4>1, <4>2, <1>1 DEF Expected
    <3>3. PdfIsWhole'
      BY <3>1, <3>2 DEF PdfIsWhole, FlattenSeq, Ok
    <3>4. TypeOK' /\ WorkInv' /\ PlaceInv'
      BY <1>1, <2>1, <3>1 DEF RouterInv, TypeOK, WorkInv, PlaceInv, Ok, NoAnswer
    <3> QED
      BY <1>2, <3>3, <3>4 DEF RouterInv
  <2>3. CASE work # <<>>
    <3>1. pc' = "submit" /\ answer' = answer
      BY <1>6, <2>3 DEF Sliced
    <3>2. Len(work) > 0
      BY <2>3 DEF RouterInv, TypeOK
    <3>3. TypeOK' /\ WorkInv' /\ PlaceInv' /\ PdfIsWhole'
      BY <1>1, <2>1, <3>1, <3>2 DEF RouterInv, TypeOK, WorkInv, PlaceInv, PdfIsWhole, NonePages, NoAnswer
    <3> QED
      BY <1>2, <3>3 DEF RouterInv
  <2> QED
    BY <2>2, <2>3
<1> QED
  BY <1>3, <1>4, <1>5, <1>6

LEMMA OneLong ==
  ASSUME NEW S, NEW e \in S
  PROVE  <<e>> \in Seq(S)
  OBVIOUS

-----------------------------------------------------------------------------
(* Steps of the pool.  Pages, and the threads there are, do not change.    *)
LEMMA SamePool ==
  ASSUME UNCHANGED <<file, work>>
  PROVE  /\ Pages' = Pages /\ Own' = Own /\ Parallelism' = Parallelism
         /\ Expected' = Expected
  BY DEF Pages, Own, Parallelism, Expected

(* The first pages are as many as the threads, at most. *)
LEMMA OwnIsSmall ==
  ASSUME RouterInv, Len(work) > 0, NEW S, S \subseteq Own
  PROVE  IsFiniteSet(S) /\ Cardinality(S) <= Parallelism
<1>1. Parallelism \in Nat /\ Pages \subseteq Nat \ {0}
  BY FileFacts, ThreadFacts DEF RouterInv, TypeOK
<1>2. S \subseteq 1 .. Parallelism
  BY <1>1 DEF Own
<1>3. IsFiniteSet(1 .. Parallelism) /\ Cardinality(1 .. Parallelism) = Parallelism
  BY <1>1, FS_Interval
<1>4. S \in SUBSET (1 .. Parallelism)
  BY <1>2
<1>5. IsFiniteSet(S) /\ Cardinality(S) <= Cardinality(1 .. Parallelism)
  BY <1>3, <1>4, FS_Subset
<1> QED
  BY <1>3, <1>5

LEMMA SubmitStep ==
  ASSUME RouterInv, NEW p \in Pages, SubmitPage(p)
  PROVE  RouterInv'
<1>1. /\ UNCHANGED <<file, work, found, answer, interrupted, faults>>
      /\ pc = "submit" /\ future[p] = "none" /\ \A q \in 1 .. p - 1 : future[q] # "none"
      /\ future' = [future EXCEPT ![p] = "queued"]
      /\ pc' = (IF p = Len(work) THEN "wait" ELSE pc)
  BY DEF SubmitPage
<1>2. /\ Pages' = Pages /\ Own' = Own /\ Parallelism' = Parallelism /\ Expected' = Expected
      /\ Pages = 1 .. Len(file.pages) /\ Len(file.pages) \in Nat /\ p \in Nat
  BY <1>1, SamePool, FileFacts
<1>3. /\ future \in [Pages -> Futures] /\ Len(work) = Len(file.pages) /\ Len(work) > 0 /\ ~interrupted
      /\ \A q, r \in Pages : r < q /\ future[r] = "none" => future[q] = "none"
  BY <1>1 DEF RouterInv, TypeOK, PlaceInv
<1>4. /\ future' \in [Pages -> Futures] /\ future'[p] = "queued"
      /\ \A q \in Pages \ {p} : future'[q] = future[q]
  BY <1>1, <1>3 DEF Futures
<1>5. TypeOK'
  BY <1>1, <1>2, <1>4 DEF RouterInv, TypeOK, NoAnswer
<1>6. PlaceInv'
  BY <1>1, <1>2, <1>3, <1>4 DEF PlaceInv, RouterInv, TypeOK
<1>7. WorkInv' /\ FoundInv' /\ LeftInv' /\ PdfIsWhole'
  BY <1>1, <1>2, <1>4 DEF RouterInv, WorkInv, FoundInv, LeftInv, PdfIsWhole
<1>8. PoolInv'
  <2>1. Busy' = IF p \in Own THEN Busy \union {p} ELSE Busy
    BY <1>1, <1>2, <1>3, <1>4 DEF Busy, InState, Own, Futures
  <2>2. CASE p \in Own
    <3>1. Busy' \subseteq Own
      <4> SUFFICES ASSUME NEW q \in Busy, q # p PROVE q \in Own
        BY <2>1, <2>2
      <4>1. q \in Pages /\ future[q] # "none"
        BY DEF Busy, InState, Own
      <4>2. ~(p < q)
        BY <1>1, <1>3, <4>1
      <4> QED
        BY <1>2, <2>2, <4>1, <4>2, ThreadFacts, FileFacts, <1>3 DEF Own
    <3> QED
      BY <1>2, <1>3, <3>1, OwnIsSmall DEF PoolInv
  <2>3. CASE p \notin Own
    <3>1. ~NonePages
      <4>1. 1 \in Own /\ Parallelism \in Nat
        BY <1>2, <1>3, FileFacts, ThreadFacts DEF Own
      <4>2. p # 1 /\ future[1] # "none"
        BY <1>1, <1>2, <2>3, <4>1
      <4> QED
        BY <4>1, <4>2 DEF NonePages, Own
    <3> QED
      BY <1>2, <2>1, <2>3, <3>1 DEF PoolInv, RouterInv
  <2> QED
    BY <2>2, <2>3
<1> QED
  BY <1>5, <1>6, <1>7, <1>8 DEF RouterInv

LEMMA StartStep ==
  ASSUME RouterInv, NEW p \in Pages, StartPage(p)
  PROVE  RouterInv'
<1>1. /\ UNCHANGED <<file, pc, work, found, answer, interrupted, faults>>
      /\ future[p] = "queued" /\ future' = [future EXCEPT ![p] = "running"]
      /\ p \notin Own => Cardinality(Busy) < Parallelism
  BY DEF StartPage
<1>2. /\ Pages' = Pages /\ Own' = Own /\ Parallelism' = Parallelism /\ Expected' = Expected
  BY <1>1, SamePool
<1>3. /\ future \in [Pages -> Futures] /\ future' \in [Pages -> Futures] /\ future'[p] = "running"
      /\ \A q \in Pages \ {p} : future'[q] = future[q]
      /\ ~NonePages
  BY <1>1 DEF RouterInv, TypeOK, Futures, NonePages
<1>4. TypeOK' /\ PlaceInv'
  BY <1>1, <1>2, <1>3 DEF RouterInv, TypeOK, PlaceInv, NonePages, NoAnswer
<1>5. WorkInv' /\ FoundInv' /\ LeftInv' /\ PdfIsWhole'
  BY <1>1, <1>2, <1>3 DEF RouterInv, WorkInv, FoundInv, LeftInv, PdfIsWhole
<1>6. PoolInv'
  <2>1. IsFiniteSet(Busy) /\ Cardinality(Busy) <= Parallelism /\ Parallelism \in Nat
    BY <1>3, ThreadFacts, FileFacts DEF RouterInv, PoolInv, PlaceInv, TypeOK
  <2>2. CASE p \in Own
    <3>1. Busy' = Busy
      BY <1>1, <1>2, <1>3, <2>2 DEF Busy, InState, Own
    <3> QED
      BY <1>2, <2>1, <3>1 DEF PoolInv
  <2>3. CASE p \notin Own
    <3>1. Busy' = Busy \union {p}
      BY <1>1, <1>2, <1>3, <2>3 DEF Busy, InState, Own
    <3>2. Cardinality(Busy) \in Nat
      BY <2>1, FS_CardinalityType
    <3>3. /\ IsFiniteSet(Busy \union {p})
          /\ Cardinality(Busy \union {p}) = IF p \in Busy THEN Cardinality(Busy) ELSE Cardinality(Busy) + 1
      BY <2>1, FS_AddElement
    <3>4. Cardinality(Busy \union {p}) <= Parallelism
      BY <1>1, <2>1, <2>3, <3>2, <3>3
    <3> QED
      BY <1>2, <3>1, <3>3, <3>4 DEF PoolInv
  <2> QED
    BY <2>2, <2>3
<1> QED
  BY <1>4, <1>5, <1>6 DEF RouterInv

(* A call ends, well or not: its page leaves the busy ones.                *)
LEMMA PageStep ==
  ASSUME RouterInv, NEW p \in Pages, PageDone(p) \/ PageFails(p)
  PROVE  RouterInv'
<1>1. /\ UNCHANGED <<file, pc, work, answer, interrupted>>
      /\ future[p] = "running"
      /\ \/ future' = [future EXCEPT ![p] = "done"]
            /\ found' = [found EXCEPT ![p] = DocumentsOf(p, PageService(p))]
         \/ future' = [future EXCEPT ![p] = "failed"] /\ found' = found
      /\ faults' \in 0 .. MaxFaults
  BY RouterAssumption DEF PageDone, PageFails, PageFailsAs, RouterInv, TypeOK
<1>2. /\ Pages' = Pages /\ Own' = Own /\ Parallelism' = Parallelism /\ Expected' = Expected
      /\ file.pages \in Seq(Page) /\ Pages = 1 .. Len(file.pages)
  BY <1>1, SamePool, FileFacts
<1>3. /\ future' \in [Pages -> Futures] /\ future'[p] \in {"done", "failed"}
      /\ future \in [Pages -> Futures]
      /\ \A q \in Pages \ {p} : future'[q] = future[q] /\ found'[q] = found[q]
      /\ ~NonePages
  BY <1>1 DEF RouterInv, TypeOK, Futures, NonePages
<1>4. Len(work) = Len(file.pages) /\ Len(work) > 0
  BY <1>1, <1>3 DEF RouterInv, PlaceInv, TypeOK
<1>5. DocumentsOf(p, PageService(p)) = Expected[p]
  <2>1. work[p] = IF file.pages[p].textReadable THEN file.pages[p].length ELSE 0
    BY <1>2, <1>4 DEF RouterInv, WorkInv, TypeOK
  <2>2. work[p] \in Nat /\ Threshold \in Nat
    BY <1>2, <1>4, FileFacts DEF RouterInv, TypeOK
  <2> QED
    BY <2>1, <2>2 DEF DocumentsOf, PageService, Expected
<1>6. found' \in [Pages -> Seq(Pages \X {"paddleocr", "docling"})]
  <2>1. Expected[p] \in Seq(Pages \X {"paddleocr", "docling"})
    <3>1. /\ <<>> \in Seq(Pages \X {"paddleocr", "docling"})
          /\ <<<<p, "docling">>>> \in Seq(Pages \X {"paddleocr", "docling"})
          /\ <<<<p, "paddleocr">>>> \in Seq(Pages \X {"paddleocr", "docling"})
      <4> DEFINE S == Pages \X {"paddleocr", "docling"}
                 d == <<p, "docling">>
                 o == <<p, "paddleocr">>
      <4>1. d \in S /\ o \in S
        OBVIOUS
      <4> HIDE DEF S, d, o
      <4>2. <<>> \in Seq(S) /\ <<d>> \in Seq(S) /\ <<o>> \in Seq(S)
        BY <4>1, OneLong
      <4> QED
        BY <4>2 DEF S, d, o
    <3>2. DocumentsOf(p, PageService(p)) \in
             {<<>>, <<<<p, "docling">>>>, <<<<p, "paddleocr">>>>}
      <4>1. PageService(p) \in {"docling", "paddleocr"}
        BY DEF PageService
      <4>2. DocumentsOf(p, PageService(p)) \in {<<>>, <<<<p, PageService(p)>>>>}
        BY Zenon DEF DocumentsOf
      <4> QED
        BY <4>1, <4>2
    <3> QED
      BY <1>5, <3>1, <3>2
  <2>2. found \in [Pages -> Seq(Pages \X {"paddleocr", "docling"})]
    BY DEF RouterInv, TypeOK
  <2>3. found' = found \/ found' = [found EXCEPT ![p] = Expected[p]]
    BY <1>1, <1>5
  <2> QED
    BY <2>1, <2>2, <2>3
<1>7. TypeOK'
  <2>1. work \in Seq(Nat) /\ Len(work) <= Len(file.pages) /\ file \in Files /\ interrupted \in BOOLEAN
        /\ pc \in {"route", "call", "slice", "submit", "wait", "done"}
        /\ answer.status \in {"none", "ok", "error"} /\ (answer = NoAnswer <=> pc # "done")
    BY DEF RouterInv, TypeOK
  <2> QED
    BY <1>1, <1>2, <1>3, <1>6, <2>1 DEF TypeOK, NoAnswer
<1>8. PlaceInv' /\ WorkInv' /\ LeftInv' /\ PdfIsWhole'
  <2>1. PlaceInv /\ WorkInv /\ LeftInv /\ PdfIsWhole
    BY DEF RouterInv
  <2>2. PlaceInv'
    BY <1>1, <1>2, <1>3, <1>4, <2>1 DEF PlaceInv, NonePages
  <2>3. WorkInv' /\ LeftInv'
    BY <1>1, <1>2, <1>3, <2>1 DEF WorkInv, LeftInv
  <2>4. PdfIsWhole'
    BY <1>1, <1>2, <2>1 DEF PdfIsWhole
  <2> QED
    BY <2>2, <2>3, <2>4
<1>9. FoundInv'
  <2>1. FoundInv /\ found \in [Pages -> Seq(Pages \X {"paddleocr", "docling"})]
    BY DEF RouterInv, TypeOK
  <2>2. future'[p] = "done" => found'[p] = Expected[p]
    BY <1>1, <1>3, <1>5, <2>1 DEF Futures
  <2> QED
    BY <1>2, <1>3, <2>1, <2>2 DEF FoundInv
<1>10. PoolInv'
  <2>1. IsFiniteSet(Busy) /\ Cardinality(Busy) <= Parallelism /\ Parallelism \in Nat
    BY <1>3, <1>4, ThreadFacts, FileFacts DEF RouterInv, PoolInv
  <2>2. Busy' \in SUBSET Busy
    BY <1>2, <1>3 DEF Busy, InState
  <2>3. IsFiniteSet(Busy') /\ Cardinality(Busy') <= Cardinality(Busy)
    BY <2>1, <2>2, FS_Subset
  <2>4. Cardinality(Busy) \in Nat /\ Cardinality(Busy') \in Nat
    BY <2>1, <2>3, FS_CardinalityType
  <2> QED
    BY <1>2, <2>1, <2>3, <2>4 DEF PoolInv
<1> QED
  BY <1>7, <1>8, <1>9, <1>10 DEF RouterInv

(* The answer of a request that waited for its pages: all of them went     *)
(* well, and what was found is what the file says.                         *)
LEMMA AnswerStep ==
  ASSUME RouterInv, AllPagesOver
  PROVE  RouterInv'
<1>1. /\ UNCHANGED <<file, work, future, found, interrupted, faults>>
      /\ pc = "wait" /\ pc' = "done"
      /\ \A p \in Pages : future[p] \in {"done", "failed"}
      /\ answer' = (IF InState("failed") = {} THEN Ok(FlattenSeq(found)) ELSE Error)
  BY DEF AllPagesOver, Awaited, Finish
<1>2. /\ Pages' = Pages /\ Own' = Own /\ Parallelism' = Parallelism /\ Expected' = Expected
      /\ Busy' = Busy /\ (NonePages' <=> NonePages)
  BY <1>1, SamePool DEF Busy, InState, NonePages
<1>3. PoolInv' /\ WorkInv' /\ FoundInv' /\ LeftInv' /\ PlaceInv'
  BY <1>1, <1>2 DEF RouterInv, PoolInv, WorkInv, FoundInv, LeftInv, PlaceInv
<1>4. CASE InState("failed") = {}
  <2>1. \A p \in Pages : found[p] = Expected[p]
    BY <1>1, <1>4 DEF RouterInv, FoundInv, InState
  <2>2. found = Expected
    BY <2>1 DEF RouterInv, TypeOK, Expected
  <2>3. answer' = Ok(FlattenSeq(Expected))
    BY <1>1, <1>4, <2>2
  <2>4. PdfIsWhole'
    BY <1>2, <2>3 DEF PdfIsWhole, Ok
  <2>5. TypeOK'
    BY <1>1, <1>2, <2>3 DEF RouterInv, TypeOK, Ok, NoAnswer
  <2> QED
    BY <1>3, <2>4, <2>5 DEF RouterInv
<1>5. CASE InState("failed") # {}
  <2>1. answer' = Error
    BY <1>1, <1>5
  <2>2. PdfIsWhole' /\ TypeOK'
    BY <1>1, <1>2, <2>1 DEF RouterInv, PdfIsWhole, TypeOK, Error, NoAnswer
  <2> QED
    BY <1>3, <2>2 DEF RouterInv
<1> QED
  BY <1>4, <1>5

(* An interrupt drops the queue and leaves the busy threads as they are.   *)
LEMMA InterruptStep ==
  ASSUME RouterInv, Interrupt
  PROVE  RouterInv'
<1>1. /\ UNCHANGED <<file, work, found, faults>>
      /\ pc = "wait" /\ pc' = "done" /\ interrupted' = TRUE /\ answer' = Error
      /\ future' = QueueDropped
  BY DEF Interrupt, Finish
<1>2. /\ Pages' = Pages /\ Own' = Own /\ Parallelism' = Parallelism /\ Expected' = Expected
  BY <1>1, SamePool
<1>3. future \in [Pages -> Futures]
  BY DEF RouterInv, TypeOK
<1>4. /\ future' \in [Pages -> Futures]
      /\ \A p \in Pages : future'[p] = IF future[p] = "queued" /\ p \notin Own THEN "dropped" ELSE future[p]
  BY <1>1, <1>3 DEF QueueDropped, Futures
<1>5. Busy' = Busy
  BY <1>2, <1>4 DEF Busy, InState, Own
<1>6. NonePages' <=> NonePages
  BY <1>2, <1>4 DEF NonePages
<1>7. TypeOK'
  BY <1>1, <1>2, <1>4 DEF RouterInv, TypeOK, Error, NoAnswer
<1>8. PlaceInv' /\ WorkInv' /\ FoundInv' /\ PdfIsWhole'
  BY <1>1, <1>2, <1>4 DEF RouterInv, PlaceInv, WorkInv, FoundInv, PdfIsWhole, Error
<1>9. LeftInv'
  BY <1>1, <1>2, <1>4 DEF LeftInv
<1>10. PoolInv'
  BY <1>2, <1>5, <1>6 DEF RouterInv, PoolInv
<1> QED
  BY <1>7, <1>8, <1>9, <1>10 DEF RouterInv

LEMMA RouterStep ==
  ASSUME RouterInv, [Next]_vars
  PROVE  RouterInv'
<1>1. CASE UNCHANGED vars
  <2>1. /\ UNCHANGED <<file, pc, work, future, found, answer, interrupted, faults>>
        /\ Pages' = Pages /\ Own' = Own /\ Parallelism' = Parallelism /\ Expected' = Expected
    BY <1>1, SamePool DEF vars
  <2>2. Busy' = Busy /\ (NonePages' <=> NonePages)
    BY <2>1 DEF Busy, InState, NonePages
  <2> QED
    BY <2>1, <2>2 DEF RouterInv, TypeOK, PlaceInv, WorkInv, FoundInv, LeftInv, PoolInv, PdfIsWhole, NoAnswer
<1>2. CASE Next
  BY <1>2, RequestStep, AnswerStep, InterruptStep, SubmitStep, StartStep, PageStep DEF Next
<1> QED
  BY <1>1, <1>2

LEMMA RouterInvariant == Spec => []RouterInv
  BY InitOK, RouterStep, PTL DEF Spec

-----------------------------------------------------------------------------
(* Every variable of the router has its type, and an answer is there once  *)
(* the request is over and not before.                                     *)
THEOREM RouterTypeCorrect == Spec => []TypeOK
<1>1. RouterInv => TypeOK
  BY DEF RouterInv
<1> QED
  BY <1>1, RouterInvariant, PTL

(* A PDF that is answered is answered whole: each page that has something  *)
(* on it, from the service its text calls for, in page order, whatever the *)
(* number of pages and threads and whichever page fails                    *)
(* (dispatchPagesInParallel, collectInPageOrder).                          *)
THEOREM PdfsAreWhole == Spec => []PdfIsWhole
<1>1. RouterInv => PdfIsWhole
  BY DEF RouterInv
<1> QED
  BY <1>1, RouterInvariant, PTL

(* An answered request has no page at work, and an interrupted one no more *)
(* than its threads (awaitAllPagesOrThrow, shutdownPool).                  *)
THEOREM NothingIsLeftRunning == Spec => []NothingGoesOn
<1>1. ASSUME RouterInv PROVE NothingGoesOn
  <2> DEFINE left == InState("queued") \union InState("running")
  <2> SUFFICES ASSUME pc = "done"
               PROVE  IF interrupted THEN Cardinality(left) <= Parallelism ELSE left = {}
    BY DEF NothingGoesOn
  <2>1. LeftInv
    BY <1>1 DEF RouterInv
  <2>2. CASE ~interrupted
    BY <2>1, <2>2 DEF LeftInv, InState
  <2>3. CASE interrupted /\ NonePages
    <3>1. left = {} /\ Cardinality(left) = 0
      BY <2>3, FS_EmptySet DEF NonePages, InState
    <3>2. Len(work) \in Nat /\ ParallelPages \in Int
      BY <1>1, FileFacts DEF RouterInv, TypeOK
    <3>3. Parallelism >= 0
      BY <3>2 DEF Parallelism
    <3> QED
      BY <2>3, <3>1, <3>3
  <2>4. CASE interrupted /\ ~NonePages
    <3>1. IsFiniteSet(Busy) /\ Cardinality(Busy) <= Parallelism
      BY <1>1, <2>4 DEF RouterInv, PoolInv
    <3>2. left \in SUBSET Busy
      BY <2>1 DEF LeftInv, InState, Busy
    <3>3. IsFiniteSet(left) /\ Cardinality(left) <= Cardinality(Busy)
      BY <3>1, <3>2, FS_Subset
    <3>4. Cardinality(left) \in Nat /\ Cardinality(Busy) \in Nat /\ Parallelism \in Int
      BY <1>1, <3>1, <3>3, FS_CardinalityType, FileFacts DEF Parallelism, RouterInv, TypeOK
    <3> QED
      BY <2>4, <3>1, <3>3, <3>4
  <2> QED
    BY <2>2, <2>3, <2>4
<1> QED
  BY <1>1, RouterInvariant, PTL

-----------------------------------------------------------------------------
(* The automatic ingestion, IngestPipeline.                                *)

JobSet == [key : Keys, upload : 1..Len(uploads), step : Steps, chunk : Nat]

\* The listed objects are as they are now or were, one entry for each.
ListInv ==
  /\ \A f \in backlog : f.upload <= current[f.key]
  /\ \A f, g \in backlog : f.key = g.key => f = g

\* How far the guards of its steps let a handler come.
StepInv ==
  \A j \in DOMAIN jobs :
    /\ jobs[j].step \in {"process", "remove", "add"} => Folder[jobs[j].key] # "none"
    /\ jobs[j].step \in {"remove", "add"} =>
         (Folder[jobs[j].key] = "unstructured" => uploads[jobs[j].upload].size > 0)
    /\ jobs[j].step = "add" => jobs[j].chunk < uploads[jobs[j].upload].size
    /\ jobs[j].step \in {"route", "process", "remove"} => jobs[j].chunk = 0

AtWork(k) == {j \in Running : jobs[j].key = k}

\* One handler at most is at the object, with the version the bucket has.
AloneInv(k) ==
  /\ \A i, j \in AtWork(k) : i = j
  /\ \A j \in AtWork(k) : jobs[j].upload = current[k] /\ stamp[k] = current[k]
  /\ \A f \in backlog : f.key = k => f.upload \in {stamp[k], current[k]}

\* The first n chunks of the version, by handler j.
ChunksBy(k, j, n) ==
  {[key |-> k, upload |-> current[k], chunk |-> c, job |-> j] : c \in 1..n}

\* What the store has while a handler adds, and when it is through.
PartInv(k) ==
  \A j \in AtWork(k) :
    jobs[j].step = "add" => ChunksOf(k) = ChunksBy(k, j, jobs[j].chunk)
WholeInv(k) ==
  Ingestable(k) /\ Resting(k) /\ <<k, current[k]>> \notin lost =>
    \E j \in DOMAIN jobs : ChunksOf(k) = ChunksBy(k, j, uploads[current[k]].size)

KeyInv(k) == AloneInv(k) /\ PartInv(k) /\ WholeInv(k)
PipeInv == PipelineTypeOK /\ ListInv /\ StepInv /\ \A k \in Keys \ overtaken : KeyInv(k)
-----------------------------------------------------------------------------
LEMMA PipeInit ==
  ASSUME Setting, PipelineInit
  PROVE  PipeInv
<1> USE DEF PipelineInit
<1>1. uploads \in Seq([key : Keys, size : Sizes]) /\ Len(uploads) = 0
  BY EmptySeq
<1>2. jobs \in Seq(JobSet) /\ Len(jobs) = 0
  BY EmptySeq
<1>3. DOMAIN jobs = {}
  BY <1>2, LenProperties
<1>4. PipelineTypeOK
  <2>1. current \in [Keys -> 0..Len(uploads)] /\ stamp \in [Keys -> 0..Len(uploads)]
    BY <1>1
  <2> QED BY <1>1, <1>2, <2>1 DEF PipelineTypeOK, JobSet, Setting
<1>5. ListInv /\ StepInv
  BY <1>3 DEF ListInv, StepInv
<1>6. ASSUME NEW k \in Keys
      PROVE  KeyInv(k)
  <2>1. AtWork(k) = {}
    BY <1>3 DEF AtWork, Running
  <2>2. ~ Ingestable(k)
    BY DEF Ingestable
  <2> QED BY <2>1, <2>2 DEF KeyInv, AloneInv, PartInv, WholeInv
<1> QED BY <1>4, <1>5, <1>6 DEF PipeInv

\* A longer history of uploads is a history for what is already there.
LEMMA SeqOfMore ==
  ASSUME NEW S, NEW T, S \subseteq T, NEW q \in Seq(S)
  PROVE  q \in Seq(T)
<1>1. /\ \A U : Seq(U) = UNION {[1..n -> U] : n \in Nat}
      /\ Len(q) \in Nat /\ q \in [1..Len(q) -> S]
  BY SeqDef, LenProperties
<1>2. q \in [1..Len(q) -> T]
  BY <1>1
<1> QED BY <1>1, <1>2

\* What a handler is.
LEMMA JobType ==
  ASSUME PipelineTypeOK, NEW j \in DOMAIN jobs
  PROVE  /\ jobs \in Seq(JobSet) /\ j \in 1..Len(jobs) /\ Len(jobs) \in Nat
         /\ DOMAIN jobs = 1..Len(jobs)
         /\ jobs[j] \in JobSet
         /\ jobs[j].key \in Keys /\ jobs[j].upload \in 1..Len(uploads)
         /\ jobs[j].step \in Steps /\ jobs[j].chunk \in Nat
<1>1. jobs \in Seq(JobSet)
  BY DEF PipelineTypeOK, JobSet
<1>2. DOMAIN jobs = 1..Len(jobs) /\ Len(jobs) \in Nat
  BY <1>1, LenProperties
<1>3. jobs[j] \in JobSet
  BY <1>1, <1>2, ElementOfSeq
<1>4. /\ jobs[j].key \in Keys /\ jobs[j].upload \in 1..Len(uploads)
      /\ jobs[j].step \in Steps /\ jobs[j].chunk \in Nat
  BY <1>3 DEF JobSet
<1> QED BY <1>1, <1>2, <1>3, <1>4

\* An upload and its number of chunks.
LEMMA UploadType ==
  ASSUME PipelineTypeOK, Setting
  PROVE  /\ Len(uploads) \in Nat /\ DOMAIN uploads = 1..Len(uploads)
         /\ \A u \in 1..Len(uploads) : uploads[u].size \in Nat
<1>1. uploads \in Seq([key : Keys, size : Sizes])
  BY DEF PipelineTypeOK
<1>2. Len(uploads) \in Nat /\ DOMAIN uploads = 1..Len(uploads)
  BY <1>1, LenProperties
<1>3. ASSUME NEW u \in 1..Len(uploads)
      PROVE  uploads[u].size \in Nat
  <2>1. uploads[u] \in [key : Keys, size : Sizes]
    BY <1>1, ElementOfSeq
  <2> QED BY <2>1 DEF Setting
<1> QED BY <1>2, <1>3

\* A handler's record changed in one place.
LEMMA JobMoves ==
  ASSUME PipelineTypeOK, NEW j \in DOMAIN jobs, NEW e \in JobSet,
         jobs' = [jobs EXCEPT ![j] = e]
  PROVE  /\ jobs' \in Seq(JobSet) /\ DOMAIN jobs' = DOMAIN jobs
         /\ jobs'[j] = e /\ \A i \in DOMAIN jobs : i # j => jobs'[i] = jobs[i]
<1>1. /\ jobs \in Seq(JobSet) /\ j \in 1..Len(jobs) /\ DOMAIN jobs = 1..Len(jobs)
  BY JobType
<1>2. /\ jobs' \in Seq(JobSet)
      /\ \A i \in 1..Len(jobs) : jobs'[i] = IF i = j THEN e ELSE jobs[i]
  BY <1>1, ExceptSeq
<1>3. DOMAIN jobs' = DOMAIN jobs
  OBVIOUS
<1> QED BY <1>1, <1>2, <1>3

\* A handler goes on: to a step, with a number of chunks.
Moves(j, s, n) ==
  /\ j \in DOMAIN jobs /\ s \in Steps /\ n \in Nat
  /\ jobs'[j] = [jobs[j] EXCEPT !.step = s, !.chunk = n]
  /\ jobs' \in Seq(JobSet) /\ DOMAIN jobs' = DOMAIN jobs
  /\ \A i \in DOMAIN jobs : i # j => jobs'[i] = jobs[i]

LEMMA GotoMoves ==
  ASSUME PipelineTypeOK, NEW j \in DOMAIN jobs, NEW s \in Steps, Goto(j, s)
  PROVE  Moves(j, s, jobs[j].chunk)
<1> DEFINE e == [jobs[j] EXCEPT !.step = s]
<1>1. jobs[j] \in JobSet /\ jobs[j].chunk \in Nat
  BY JobType
<1>2. e \in JobSet /\ e = [jobs[j] EXCEPT !.step = s, !.chunk = jobs[j].chunk]
  BY <1>1 DEF JobSet
<1>3. jobs' = [jobs EXCEPT ![j] = e]
  BY DEF Goto
<1> HIDE DEF e
<1>4. /\ jobs' \in Seq(JobSet) /\ DOMAIN jobs' = DOMAIN jobs
      /\ jobs'[j] = e /\ \A i \in DOMAIN jobs : i # j => jobs'[i] = jobs[i]
  BY <1>2, <1>3, JobMoves
<1> QED BY <1>1, <1>2, <1>4 DEF Moves

LEMMA AddMoves ==
  ASSUME PipelineTypeOK, NEW j \in DOMAIN jobs, AddChunk(j)
  PROVE  Moves(j, IF jobs[j].chunk + 1 = uploads[jobs[j].upload].size THEN "over" ELSE "add",
               jobs[j].chunk + 1)
<1> DEFINE n == jobs[j].chunk + 1
           s == IF n = uploads[jobs[j].upload].size THEN "over" ELSE "add"
           e == [jobs[j] EXCEPT !.step = s, !.chunk = n]
<1>1. jobs[j] \in JobSet /\ n \in Nat /\ s \in Steps /\ jobs[j].step = "add"
  BY JobType DEF AddChunk, Steps
<1>2. jobs' = [jobs EXCEPT ![j] = e]
  <2>1. jobs' = [jobs EXCEPT ![j].chunk = n,
                    ![j].step = IF n = uploads[jobs[j].upload].size THEN "over" ELSE @]
    BY DEF AddChunk
  <2>2. j \in DOMAIN jobs
    OBVIOUS
  <2>3. ASSUME NEW i \in DOMAIN jobs
        PROVE  jobs'[i] = IF i = j THEN e ELSE jobs[i]
    BY <2>1, <1>1 DEF JobSet
  <2>4. jobs' = [i \in DOMAIN jobs |-> IF i = j THEN e ELSE jobs[i]]
    BY <2>1, <2>3
  <2> QED BY <2>4
<1>3. e \in JobSet
  BY <1>1 DEF JobSet
<1> HIDE DEF e
<1>4. /\ jobs' \in Seq(JobSet) /\ DOMAIN jobs' = DOMAIN jobs
      /\ jobs'[j] = e /\ \A i \in DOMAIN jobs : i # j => jobs'[i] = jobs[i]
  BY <1>2, <1>3, JobMoves
<1> QED BY <1>1, <1>4 DEF Moves, e

\* What the steps of a handler leave.
LEMMA StepLeaves ==
  ASSUME NEW j, JobStep(j) \/ HandlerFails(j)
  PROVE  /\ UNCHANGED <<uploads, current, stamp, backlog, overtaken>>
         /\ JobStep(j) => UNCHANGED <<failures, lost>>
         /\ AddChunk(j) \/ points' \subseteq points
         /\ jobs[j].step # "over"
BY DEF JobStep, RouteFile, ProcessMessage, RemoveOldDocuments,
       AddChunk, HandlerFails

-----------------------------------------------------------------------------
(* Types. *)

\* A handler that moves keeps the types.
LEMMA MovesType ==
  ASSUME PipelineTypeOK, NEW j, NEW s, NEW n, Moves(j, s, n),
         UNCHANGED <<uploads, current, stamp, backlog, overtaken>>,
         failures' \in 0..MaxFailures, lost' \subseteq Keys \X (1..Len(uploads)),
         points' \subseteq [key : Keys, upload : 1..Len(uploads), chunk : Nat \ {0},
                            job : DOMAIN jobs]
  PROVE  PipelineTypeOK'
<1>1. jobs' \in Seq([key : Keys, upload : 1..Len(uploads), step : Steps, chunk : Nat])
      /\ DOMAIN jobs' = DOMAIN jobs
  BY DEF Moves, JobSet
<1> QED BY <1>1 DEF PipelineTypeOK

LEMMA UploadTypes ==
  ASSUME PipelineTypeOK, Setting, NEW k \in Keys, NEW n \in Sizes, Upload(k,
         n)
  PROVE  /\ PipelineTypeOK' /\ Len(uploads') = Len(uploads) + 1
         /\ \A u \in 1..Len(uploads) : uploads'[u] = uploads[u]
<1> DEFINE Up == [key : Keys, size : Sizes]
           L == Len(uploads)
<1>1. uploads \in Seq(Up) /\ L \in Nat /\ L < MaxUploads /\ MaxUploads \in Nat
  BY UploadType DEF PipelineTypeOK, Upload, Setting
<1>2. uploads' = Append(uploads, [key |-> k, size |-> n]) /\ [key |-> k, size |-> n] \in Up
  BY DEF Upload
<1>3. /\ uploads' \in Seq(Up) /\ Len(uploads') = L + 1
      /\ \A u \in 1..L : uploads'[u] = uploads[u]
  BY <1>1, <1>2, AppendProperties
<1>4. 1..L \subseteq 1..Len(uploads') /\ 0..L \subseteq 0..Len(uploads')
      /\ Len(uploads') <= MaxUploads /\ L + 1 \in 0..Len(uploads')
  BY <1>1, <1>3
<1>5. current' \in [Keys -> 0..Len(uploads')] /\ stamp' \in [Keys -> 0..Len(uploads')]
  <2>1. current \in [Keys -> 0..L] /\ stamp \in [Keys -> 0..L]
    BY DEF PipelineTypeOK
  <2>2. current' = [current EXCEPT ![k] = L + 1] /\ stamp' = stamp
    BY DEF Upload
  <2> HIDE DEF L
  <2> QED BY <1>4, <2>1, <2>2
<1>6. jobs' \in Seq([key : Keys, upload : 1..Len(uploads'), step : Steps, chunk : Nat])
  <2>1. [key : Keys, upload : 1..L, step : Steps, chunk : Nat]
        \subseteq [key : Keys, upload : 1..Len(uploads'), step : Steps, chunk : Nat]
    BY <1>4
  <2>2. jobs' = jobs
        /\ jobs \in Seq([key : Keys, upload : 1..L, step : Steps, chunk : Nat])
    BY DEF Upload, PipelineTypeOK
  <2> QED BY <2>1, <2>2, SeqOfMore
<1>7. /\ backlog' \subseteq [key : Keys, upload : 1..Len(uploads')]
      /\ points' \subseteq [key : Keys, upload : 1..Len(uploads'), chunk : Nat \ {0},
                            job : DOMAIN jobs']
      /\ lost' \subseteq Keys \X (1..Len(uploads'))
      /\ failures' = failures /\ overtaken' \subseteq Keys
  BY <1>4 DEF PipelineTypeOK, Upload
<1> HIDE DEF L, Up
<1>8. PipelineTypeOK'
  BY <1>3, <1>4, <1>5, <1>6, <1>7 DEF PipelineTypeOK, Up
<1> QED BY <1>3, <1>8 DEF L

\* A listed object and what the bucket has for it.
LEMMA EntryType ==
  ASSUME PipelineTypeOK, Setting, ListInv, NEW f \in backlog
  PROVE  /\ f.key \in Keys /\ f.upload \in 1..Len(uploads)
         /\ current[f.key] \in 1..Len(uploads)
<1>1. f.key \in Keys /\ f.upload \in 1..Len(uploads) /\ f.upload <= current[f.key]
  BY DEF PipelineTypeOK, ListInv
<1>2. current[f.key] \in 0..Len(uploads) /\ Len(uploads) \in Nat
  BY <1>1, UploadType DEF PipelineTypeOK
<1> QED BY <1>1, <1>2

LEMMA ListTypes ==
  ASSUME PipelineTypeOK, ListFiles
  PROVE  PipelineTypeOK'
<1>1. UNCHANGED <<uploads, current, stamp, jobs, points, failures, lost, overtaken>>
      /\ backlog' \subseteq [key : Keys, upload : 1..Len(uploads)]
  BY DEF ListFiles, Listed
<1> QED BY <1>1 DEF PipelineTypeOK

LEMMA SkipTypes ==
  ASSUME PipelineTypeOK, NEW f \in backlog, SkipFile(f)
  PROVE  PipelineTypeOK'
<1>1. UNCHANGED <<uploads, current, stamp, jobs, points, failures, lost, overtaken>>
      /\ backlog' \subseteq backlog
  BY DEF SkipFile
<1> QED BY <1>1 DEF PipelineTypeOK

\* The handler that starts is the last in line.
LEMMA ReceiveStarts ==
  ASSUME PipelineTypeOK, Setting, ListInv, NEW f \in backlog, ReceiveFile(f)
  PROVE  /\ jobs' \in Seq(JobSet)
         /\ \A j \in DOMAIN jobs : j \in DOMAIN jobs' /\ jobs'[j] = jobs[j]
         /\ \A j \in DOMAIN jobs' : j \in DOMAIN jobs
              \/ jobs'[j] = [key |-> f.key, upload |-> current[f.key],
                             step |-> "route", chunk |-> 0]
         /\ \E i \in DOMAIN jobs' : \A j \in DOMAIN jobs' : j \notin DOMAIN jobs <=> j = i
<1> DEFINE e == [key |-> f.key, upload |-> current[f.key], step |-> "route", chunk |-> 0]
           L == Len(jobs)
<1>1. jobs \in Seq(JobSet) /\ L \in Nat /\ DOMAIN jobs = 1..L
  <2>1. jobs \in Seq(JobSet)
    BY DEF PipelineTypeOK, JobSet
  <2> QED BY <2>1, LenProperties
<1>2. e \in JobSet
  BY EntryType DEF JobSet, Steps
<1>3. jobs' = Append(jobs, e)
  BY DEF ReceiveFile
<1> HIDE DEF e
<1>4. /\ jobs' \in Seq(JobSet) /\ Len(jobs') = L + 1
      /\ \A i \in 1..L : jobs'[i] = jobs[i]
      /\ jobs'[L + 1] = e
  BY <1>1, <1>2, <1>3, AppendProperties
<1>5. DOMAIN jobs' = 1..L + 1
  BY <1>4, LenProperties
<1>6. \A i \in 1..L + 1 : i \in 1..L \/ i = L + 1
  BY <1>1
<1>7. 1..L \subseteq 1..L + 1
  BY <1>1
<1>8. \E i \in DOMAIN jobs' : \A j \in DOMAIN jobs' : j \notin DOMAIN jobs <=> j = i
  <2>1. L + 1 \in 1..L + 1 /\ L + 1 \notin 1..L
    BY <1>1
  <2> QED BY <1>1, <1>5, <1>6, <2>1
<1> QED BY <1>1, <1>4, <1>5, <1>6, <1>7, <1>8 DEF e

LEMMA ReceiveTypes ==
  ASSUME PipelineTypeOK, Setting, ListInv, NEW f \in backlog, ReceiveFile(f)
  PROVE  PipelineTypeOK'
<1>1. UNCHANGED <<uploads, current, points, failures, lost, overtaken>>
      /\ stamp' = [stamp EXCEPT ![f.key] = f.upload] /\ backlog' \subseteq backlog
  BY DEF ReceiveFile
<1>2. f.upload \in 0..Len(uploads)
  BY EntryType, UploadType
<1>3. stamp' \in [Keys -> 0..Len(uploads)]
  BY <1>1, <1>2 DEF PipelineTypeOK
<1>4. jobs' \in Seq([key : Keys, upload : 1..Len(uploads), step : Steps, chunk : Nat])
      /\ DOMAIN jobs \subseteq DOMAIN jobs'
  BY ReceiveStarts DEF JobSet
<1>5. points' \subseteq [key : Keys, upload : 1..Len(uploads), chunk : Nat \ {0},
                         job : DOMAIN jobs']
  BY <1>1, <1>4 DEF PipelineTypeOK
<1> QED BY <1>1, <1>3, <1>4, <1>5 DEF PipelineTypeOK

LEMMA FaultType ==
  ASSUME PipelineTypeOK, Setting, Fault
  PROVE  failures' \in 0..MaxFailures
BY DEF PipelineTypeOK, Setting, Fault

LEMMA ReceiveFailsTypes ==
  ASSUME PipelineTypeOK, Setting, ListInv, NEW f \in backlog, ReceiveFails(f)
  PROVE  PipelineTypeOK'
<1>1. UNCHANGED <<uploads, current, jobs, points, lost, overtaken>>
      /\ stamp' = [stamp EXCEPT ![f.key] = 0] /\ backlog' \subseteq backlog /\ Fault
  BY DEF ReceiveFails, OpeningFails
<1>2. 0 \in 0..Len(uploads)
  BY UploadType
<1>3. stamp' \in [Keys -> 0..Len(uploads)] /\ failures' \in 0..MaxFailures
  BY <1>1, <1>2, FaultType DEF PipelineTypeOK
<1> QED BY <1>1, <1>3 DEF PipelineTypeOK

\* What a handler's step does to its record.
LEMMA StepMoves ==
  ASSUME PipelineTypeOK, NEW j \in DOMAIN jobs, JobStep(j) \/ HandlerFails(j)
  PROVE  \E s \in Steps, n \in Nat : Moves(j, s, n)
<1>1. jobs[j].chunk \in Nat
  BY JobType
<1>2. \A s \in Steps : Goto(j, s) => Moves(j, s, jobs[j].chunk)
  BY GotoMoves
<1>3. CASE AddChunk(j)
  <2>1. jobs[j].chunk + 1 \in Nat /\ {"over", "add"} \subseteq Steps
    BY <1>1 DEF Steps
  <2> QED BY <1>3, <2>1, AddMoves
<1>4. CASE \/ RouteFile(j) \/ ProcessMessage(j)
           \/ RemoveOldDocuments(j) \/ HandlerFails(j)
  <2>1. \E s \in Steps : Goto(j, s)
    BY <1>4 DEF RouteFile, ProcessMessage, RemoveOldDocuments,
                HandlerFails, Steps
  <2> QED BY <1>1, <1>2, <2>1
<1> QED BY <1>3, <1>4 DEF JobStep

LEMMA StepTypes ==
  ASSUME PipelineTypeOK, Setting, NEW j \in DOMAIN jobs,
         JobStep(j) \/ HandlerFails(j)
  PROVE  PipelineTypeOK'
<1>1. PICK s \in Steps, n \in Nat : Moves(j, s, n)
  BY StepMoves
<1>2. UNCHANGED <<uploads, current, stamp, backlog, overtaken>>
  BY StepLeaves
<1>3. failures' \in 0..MaxFailures /\ lost' \subseteq Keys \X (1..Len(uploads))
  <2>1. CASE HandlerFails(j)
    <3>1. <<jobs[j].key, jobs[j].upload>> \in Keys \X (1..Len(uploads))
      BY JobType
    <3> QED BY <2>1, <3>1, FaultType DEF HandlerFails, PipelineTypeOK
  <2>2. CASE JobStep(j)
    <3>1. UNCHANGED <<failures, lost>>
      BY <2>2, StepLeaves
    <3> QED BY <3>1 DEF PipelineTypeOK
  <2> QED BY <2>1, <2>2
<1> DEFINE Points == [key : Keys, upload : 1..Len(uploads), chunk : Nat \ {0},
                      job : DOMAIN jobs]
<1>4. points' \subseteq Points
  <2>0. points \subseteq Points
    BY DEF PipelineTypeOK
  <2>1. CASE AddChunk(j)
    <3>1. [key |-> jobs[j].key, upload |-> jobs[j].upload,
           chunk |-> jobs[j].chunk + 1, job |-> j] \in Points
      <4>1. jobs[j].chunk + 1 \in Nat \ {0}
        BY JobType
      <4> QED BY <4>1, JobType
    <3> QED BY <2>0, <2>1, <3>1 DEF AddChunk
  <2>2. CASE ~ AddChunk(j)
    <3>1. points' \subseteq points
      BY <2>2, StepLeaves
    <3> QED BY <2>0, <3>1
  <2> QED BY <2>1, <2>2
<1> QED BY <1>1, <1>2, <1>3, <1>4, MovesType

\* A crash ends every handler; one that is over stays as it is.
LEMMA CrashEnds ==
  ASSUME PipelineTypeOK, Crash
  PROVE  /\ jobs' \in Seq(JobSet) /\ DOMAIN jobs' = DOMAIN jobs
         /\ \A j \in DOMAIN jobs : /\ jobs'[j].key = jobs[j].key
                                   /\ jobs'[j].step = "over"
<1>1. jobs' = [j \in DOMAIN jobs |-> [jobs[j] EXCEPT !.step = "over"]]
  BY DEF Crash
<1>2. jobs \in Seq(JobSet)
  BY DEF PipelineTypeOK, JobSet
<1>3. DOMAIN jobs = 1..Len(jobs) /\ Len(jobs) \in Nat
  BY <1>2, LenProperties
<1>4. ASSUME NEW j \in DOMAIN jobs
      PROVE  /\ [jobs[j] EXCEPT !.step = "over"] \in JobSet
             /\ jobs'[j].key = jobs[j].key /\ jobs'[j].step = "over"
  <2>1. jobs[j] \in JobSet
    BY JobType
  <2> QED BY <1>1, <2>1 DEF JobSet, Steps
<1>5. jobs' \in [1..Len(jobs) -> JobSet]
  BY <1>1, <1>3, <1>4
<1>6. jobs' \in Seq(JobSet)
  BY <1>3, <1>5, SeqDef
<1> QED BY <1>1, <1>4, <1>6

LEMMA CrashTypes ==
  ASSUME PipelineTypeOK, Setting, Crash
  PROVE  PipelineTypeOK'
<1>1. UNCHANGED <<uploads, current, stamp, points, overtaken>> /\ backlog' = {} /\ Fault
  BY DEF Crash
<1>2. jobs' \in Seq([key : Keys, upload : 1..Len(uploads), step : Steps, chunk : Nat])
      /\ DOMAIN jobs' = DOMAIN jobs
  BY CrashEnds DEF JobSet
<1>3. lost' \subseteq Keys \X (1..Len(uploads))
  <2>1. ASSUME NEW j \in Running
        PROVE  <<jobs[j].key, jobs[j].upload>> \in Keys \X (1..Len(uploads))
    BY JobType DEF Running
  <2> QED BY <2>1 DEF Crash, PipelineTypeOK
<1> QED BY <1>1, <1>2, <1>3, FaultType DEF PipelineTypeOK
-----------------------------------------------------------------------------
(* The list and the steps. *)

\* A step that takes from the list at most, and leaves the bucket.
LEMMA ListShrinks ==
  ASSUME ListInv, backlog' \subseteq backlog, UNCHANGED current
  PROVE  ListInv'
BY DEF ListInv

LEMMA ListKept ==
  ASSUME PipelineTypeOK, Setting, ListInv, PipelineNext
  PROVE  ListInv'
<1>1. ASSUME NEW k \in Keys, NEW n \in Sizes, Upload(k, n)
      PROVE  ListInv'
  <2>1. backlog' = backlog /\ current' = [current EXCEPT ![k] = Len(uploads) + 1]
    BY <1>1 DEF Upload
  <2>2. ASSUME NEW f \in backlog
        PROVE  f.upload <= current'[f.key]
    <3>1. /\ f.key \in Keys /\ f.upload \in 1..Len(uploads) /\ f.upload <= current[f.key]
          /\ Len(uploads) \in Nat /\ current \in [Keys -> 0..Len(uploads)]
      BY EntryType, UploadType DEF PipelineTypeOK, ListInv
    <3>2. CASE f.key = k
      BY <2>1, <3>1, <3>2
    <3>3. CASE f.key # k
      BY <2>1, <3>1, <3>3
    <3> QED BY <3>2, <3>3
  <2> QED BY <2>1, <2>2 DEF ListInv
<1>2. CASE ListFiles
  <2>1. current' = current /\ backlog' = Listed
    BY <1>2 DEF ListFiles
  <2>2. ASSUME NEW f \in Listed
        PROVE  f.upload <= current[f.key]
    BY UploadType DEF Listed
  <2>3. ASSUME NEW f \in Listed, NEW g \in Listed, f.key = g.key
        PROVE  f = g
    BY <2>3 DEF Listed
  <2> QED BY <2>1, <2>2, <2>3 DEF ListInv
<1>3. ASSUME NEW f \in First,
             SkipFile(f) \/ ReceiveFile(f) \/ ReceiveFails(f)
      PROVE  ListInv'
  BY <1>3, ListShrinks DEF SkipFile, ReceiveFile, ReceiveFails,
                           OpeningFails
<1>4. ASSUME NEW j \in DOMAIN jobs, JobStep(j) \/ HandlerFails(j)
      PROVE  ListInv'
  <2>1. UNCHANGED <<backlog, current>>
    BY <1>4, StepLeaves
  <2> QED BY <2>1, ListShrinks
<1>5. CASE Crash
  BY <1>5, ListShrinks DEF Crash
<1> QED BY <1>1, <1>2, <1>3, <1>4, <1>5 DEF PipelineNext, PollStep

\* A step that leaves the handlers and what they read.
LEMMA StepsStay ==
  ASSUME PipelineTypeOK, Setting, StepInv, UNCHANGED jobs,
         \A u \in 1..Len(uploads) : uploads'[u] = uploads[u]
  PROVE  StepInv'
<1> SUFFICES ASSUME NEW j \in DOMAIN jobs
             PROVE  StepInv!(j)'
  BY DEF StepInv
<1>1. uploads'[jobs[j].upload] = uploads[jobs[j].upload]
  BY JobType
<1> QED BY <1>1 DEF StepInv

\* A handler goes where its guard lets it.
LEMMA StepsKeptByJob ==
  ASSUME PipelineTypeOK, Setting, StepInv, NEW j \in DOMAIN jobs,
         JobStep(j) \/ HandlerFails(j)
  PROVE  StepInv'
<1> DEFINE r == jobs[j]
           size == uploads[jobs[j].upload].size
           t == jobs'[j]
<1>1. /\ r.chunk \in Nat /\ r.step \in Steps /\ size \in Nat
  BY JobType, UploadType
<1>2. UNCHANGED uploads
  BY StepLeaves
<1>3. PICK s \in Steps, n \in Nat : Moves(j, s, n)
  BY StepMoves
<1>4. /\ DOMAIN jobs' = DOMAIN jobs
      /\ \A i \in DOMAIN jobs : i # j => jobs'[i] = jobs[i]
      /\ t = [r EXCEPT !.step = s, !.chunk = n]
  BY <1>3 DEF Moves
<1>5. /\ r.step \in {"process", "remove", "add"} => Folder[r.key] # "none"
      /\ r.step \in {"remove", "add"} => (Folder[r.key] = "unstructured" => size > 0)
      /\ r.step = "add" => r.chunk < size
      /\ r.step \in {"route", "process", "remove"} => r.chunk = 0
  BY DEF StepInv
<1>6. t.key = r.key /\ t.upload = r.upload /\ t.step = s /\ t.chunk = n
  BY <1>4, JobType DEF JobSet
<1>7. \A v \in Steps : Goto(j, v) => t.step = v /\ t.chunk = r.chunk
  <2>1. ASSUME NEW v \in Steps, Goto(j, v)
        PROVE  t.step = v /\ t.chunk = r.chunk
    <3>1. t = [r EXCEPT !.step = v, !.chunk = r.chunk] /\ r \in JobSet
      BY <2>1, GotoMoves, JobType DEF Moves
    <3> QED BY <3>1 DEF JobSet
  <2> QED BY <2>1
<1>8. /\ t.step \in {"process", "remove", "add"} => Folder[r.key] # "none"
      /\ t.step \in {"remove", "add"} => (Folder[r.key] = "unstructured" => size > 0)
      /\ t.step = "add" => t.chunk < size
      /\ t.step \in {"route", "process", "remove"} => t.chunk = 0
  <2> HIDE DEF r, t, size
  <2>1. CASE RouteFile(j)
    <3>1. r.step = "route" /\ t.chunk = r.chunk
          /\ t.step = IF Folder[r.key] = "none" THEN "over" ELSE "process"
      BY <2>1, <1>7 DEF RouteFile, r, Steps
    <3> QED BY <3>1, <1>5
  <2>2. CASE ProcessMessage(j)
    <3>1. r.step = "process" /\ t.chunk = r.chunk
          /\ t.step = IF Folder[r.key] = "unstructured" /\ size = 0 THEN "over" ELSE "remove"
      BY <2>2, <1>7 DEF ProcessMessage, r, size, Steps
    <3> QED BY <3>1, <1>1, <1>5
  <2>3. CASE RemoveOldDocuments(j)
    <3>1. r.step = "remove" /\ t.chunk = r.chunk
          /\ t.step = IF size = 0 THEN "over" ELSE "add"
      BY <2>3, <1>7 DEF RemoveOldDocuments, r, size, Steps
    <3> QED BY <3>1, <1>1, <1>5
  <2>4. CASE AddChunk(j)
    <3>1. r.step = "add"
      BY <2>4 DEF AddChunk, r
    <3>2. Moves(j, IF r.chunk + 1 = size THEN "over" ELSE "add", r.chunk + 1)
      BY <2>4, AddMoves DEF r, size
    <3>3. t.chunk = r.chunk + 1
          /\ t.step = IF r.chunk + 1 = size THEN "over" ELSE "add"
      BY <3>2, JobType DEF Moves, JobSet, r, t
    <3> QED BY <3>1, <3>3, <1>1, <1>5
  <2>5. CASE HandlerFails(j)
    <3>1. t.step = "over"
      BY <2>5, <1>7 DEF HandlerFails, Steps
    <3> QED BY <3>1
  <2> QED BY <2>1, <2>2, <2>3, <2>4, <2>5 DEF JobStep
<1>9. ASSUME NEW i \in DOMAIN jobs
      PROVE  StepInv!(i)'
  <2>1. CASE i = j
    BY <1>2, <1>6, <1>8, <2>1
  <2>2. CASE i # j
    BY <1>2, <1>4, <2>2 DEF StepInv
  <2> QED BY <2>1, <2>2
<1> QED BY <1>4, <1>9 DEF StepInv

LEMMA StepsKept ==
  ASSUME PipelineTypeOK, Setting, ListInv, StepInv, PipelineNext
  PROVE  StepInv'
<1>1. ASSUME NEW k \in Keys, NEW n \in Sizes, Upload(k, n)
      PROVE  StepInv'
  <2>1. UNCHANGED jobs
    BY <1>1 DEF Upload
  <2> QED BY <1>1, <2>1, UploadTypes, StepsStay
<1>2. CASE ListFiles
  BY <1>2, StepsStay DEF ListFiles
<1>3. ASSUME NEW f \in First, SkipFile(f) \/ ReceiveFails(f)
      PROVE  StepInv'
  BY <1>3, StepsStay DEF SkipFile, ReceiveFails, OpeningFails
<1>4. ASSUME NEW f \in First, ReceiveFile(f)
      PROVE  StepInv'
  <2>1. f \in backlog /\ UNCHANGED uploads
    BY <1>4 DEF First, ReceiveFile
  <2>2. ASSUME NEW j \in DOMAIN jobs'
        PROVE  StepInv!(j)'
    <3>1. CASE j \in DOMAIN jobs /\ jobs'[j] = jobs[j]
      BY <2>1, <3>1 DEF StepInv
    <3>2. CASE jobs'[j] = [key |-> f.key, upload |-> current[f.key],
                           step |-> "route", chunk |-> 0]
      BY <3>2
    <3> QED BY <1>4, <2>1, <3>1, <3>2, ReceiveStarts
  <2> QED BY <2>2 DEF StepInv
<1>5. ASSUME NEW j \in DOMAIN jobs, JobStep(j) \/ HandlerFails(j)
      PROVE  StepInv'
  BY <1>5, StepsKeptByJob
<1>6. CASE Crash
  BY <1>6, CrashEnds DEF StepInv
<1> QED BY <1>1, <1>2, <1>3, <1>4, <1>5, <1>6 DEF PipelineNext, PollStep

LEMMA TypesKept ==
  ASSUME PipelineTypeOK, Setting, ListInv, PipelineNext
  PROVE  PipelineTypeOK'
<1>1. \A f \in First : f \in backlog
  BY DEF First
<1> QED BY <1>1, UploadTypes, ListTypes, SkipTypes, ReceiveTypes, ReceiveFailsTypes,
           StepTypes, CrashTypes DEF PipelineNext, PollStep
-----------------------------------------------------------------------------
(* Steps that are not about an object. *)

\* Bucket, stamp, chunks and handlers of the object stay; what is listed of it
\* was, or is its present version.
Apart(k) ==
  /\ current'[k] = current[k] /\ stamp'[k] = stamp[k]
  /\ current[k] # 0 => uploads'[current[k]] = uploads[current[k]]
  /\ \A j \in DOMAIN jobs : j \in DOMAIN jobs' /\ (jobs[j].key = k => jobs'[j] = jobs[j])
  /\ \A j \in DOMAIN jobs' : jobs'[j].key = k => j \in DOMAIN jobs /\ jobs[j].key = k
  /\ ChunksOf(k)' = ChunksOf(k)
  /\ lost \subseteq lost'
  /\ \A f \in backlog' : f.key = k => f \in backlog \/ f.upload = current[k]

LEMMA ApartKeeps ==
  ASSUME NEW k \in Keys, KeyInv(k), Apart(k)
  PROVE  KeyInv(k)'
<1>1. /\ current'[k] = current[k] /\ stamp'[k] = stamp[k]
      /\ current[k] # 0 => uploads'[current[k]] = uploads[current[k]]
      /\ ChunksOf(k)' = ChunksOf(k) /\ lost \subseteq lost'
      /\ DOMAIN jobs \subseteq DOMAIN jobs'
  BY DEF Apart
<1>2. /\ AtWork(k)' = AtWork(k)
      /\ \A j \in AtWork(k) : jobs'[j] = jobs[j]
  BY DEF Apart, AtWork, Running
<1>3. AloneInv(k)'
  <2>1. ASSUME NEW f \in backlog', f.key = k
        PROVE  f.upload \in {stamp[k], current[k]}
    BY <2>1 DEF Apart, KeyInv, AloneInv
  <2> QED BY <1>1, <1>2, <2>1 DEF KeyInv, AloneInv
<1>4. \A j, n : ChunksBy(k, j, n)' = ChunksBy(k, j, n)
  BY <1>1 DEF ChunksBy
<1>5. PartInv(k)'
  BY <1>1, <1>2, <1>4 DEF KeyInv, PartInv
<1>6. WholeInv(k)'
  <2>1. Ingestable(k)' => Ingestable(k) /\ uploads'[current[k]] = uploads[current[k]]
    BY <1>1 DEF Ingestable
  <2>2. Resting(k)' => Resting(k)
    BY <1>1, <1>2 DEF Resting, AtWork, Running
  <2>3. SUFFICES ASSUME Ingestable(k)', Resting(k)', <<k,
                        current[k]>> \notin lost'
                 PROVE  (\E j \in DOMAIN jobs :
                           ChunksOf(k) = ChunksBy(k, j, uploads[current[k]].size))'
    BY <1>1 DEF WholeInv
  <2>4. PICK j \in DOMAIN jobs : ChunksOf(k) = ChunksBy(k, j, uploads[current[k]].size)
    BY <1>1, <2>1, <2>2, <2>3 DEF KeyInv, WholeInv
  <2>5. /\ j \in DOMAIN jobs' /\ ChunksOf(k)' = ChunksOf(k) /\ current'[k] = current[k]
        /\ uploads'[current[k]].size = uploads[current[k]].size
    BY <1>1, <2>1, <2>3
  <2>6. (ChunksOf(k) = ChunksBy(k, j, uploads[current[k]].size))'
    BY <2>4, <2>5 DEF ChunksBy
  <2> QED BY <2>5, <2>6
<1> QED BY <1>3, <1>5, <1>6 DEF KeyInv

\* The poller leaves what it passes over.
LEMMA PollApart ==
  ASSUME PipelineTypeOK, NEW k \in Keys,
         ListFiles \/ (\E f \in First : SkipFile(f)) \/ UNCHANGED pipeline
  PROVE  Apart(k)
<1>1. UNCHANGED <<uploads, current, stamp, jobs, points, lost>>
  BY DEF ListFiles, SkipFile, pipeline
<1>2. ASSUME NEW f \in backlog', f.key = k
      PROVE  f \in backlog \/ f.upload = current[k]
  <2>1. CASE ListFiles
    BY <1>2, <2>1 DEF ListFiles, Listed
  <2>2. CASE ~ ListFiles
    BY <1>2, <2>2 DEF SkipFile, pipeline
  <2> QED BY <2>1, <2>2
<1>3. ChunksOf(k)' = ChunksOf(k)
  BY <1>1 DEF ChunksOf
<1> QED BY <1>1, <1>2, <1>3 DEF Apart

LEMMA UploadApart ==
  ASSUME PipelineTypeOK, Setting, NEW k \in Keys, NEW i \in Keys, NEW n \in Sizes,
         Upload(i, n), i # k
  PROVE  Apart(k)
<1>1. UNCHANGED <<stamp, backlog, jobs, points, lost>> /\ current'[k] = current[k]
  BY DEF Upload, PipelineTypeOK
<1>2. current[k] # 0 => uploads'[current[k]] = uploads[current[k]]
  <2>1. current[k] \in 0..Len(uploads) /\ Len(uploads) \in Nat
    BY UploadType DEF PipelineTypeOK
  <2>2. current[k] # 0 => current[k] \in 1..Len(uploads)
    BY <2>1
  <2> QED BY <2>2, UploadTypes
<1>3. ChunksOf(k)' = ChunksOf(k)
  BY <1>1 DEF ChunksOf
<1> QED BY <1>1, <1>2, <1>3 DEF Apart

LEMMA ReceiveApart ==
  ASSUME PipelineTypeOK, Setting, ListInv, NEW k \in Keys, NEW f \in backlog,
         ReceiveFile(f) \/ ReceiveFails(f), f.key # k
  PROVE  Apart(k)
<1>1. UNCHANGED <<uploads, current, points, lost>> /\ backlog' \subseteq backlog
      /\ stamp'[k] = stamp[k]
  BY DEF ReceiveFile, ReceiveFails, OpeningFails, PipelineTypeOK
<1>2. /\ \A j \in DOMAIN jobs : j \in DOMAIN jobs' /\ (jobs[j].key = k => jobs'[j] = jobs[j])
      /\ \A j \in DOMAIN jobs' : jobs'[j].key = k => j \in DOMAIN jobs /\ jobs[j].key = k
  <2>1. CASE ReceiveFile(f)
    BY <2>1, ReceiveStarts
  <2>2. CASE ReceiveFails(f)
    BY <2>2 DEF ReceiveFails, OpeningFails
  <2> QED BY <2>1, <2>2
<1>3. ChunksOf(k)' = ChunksOf(k)
  BY <1>1 DEF ChunksOf
<1> QED BY <1>1, <1>2, <1>3 DEF Apart

LEMMA JobApart ==
  ASSUME PipelineTypeOK, NEW k \in Keys, NEW j \in DOMAIN jobs, jobs[j].key # k,
         JobStep(j) \/ HandlerFails(j)
  PROVE  Apart(k)
<1>1. UNCHANGED <<uploads, current, stamp, backlog>> /\ lost \subseteq lost'
  BY StepLeaves DEF HandlerFails
<1>2. PICK s \in Steps, n \in Nat : Moves(j, s, n)
  BY StepMoves
<1>3. /\ DOMAIN jobs' = DOMAIN jobs /\ jobs'[j].key = jobs[j].key
      /\ \A i \in DOMAIN jobs : i # j => jobs'[i] = jobs[i]
  BY <1>2, JobType DEF Moves, JobSet
<1>4. ChunksOf(k)' = ChunksOf(k)
  <2>1. points' = points \/ points' = {p \in points : p.key # jobs[j].key}
        \/ points' = points \union {[key |-> jobs[j].key, upload |-> jobs[j].upload,
                                     chunk |-> jobs[j].chunk + 1, job |-> j]}
    BY DEF JobStep, RouteFile, ProcessMessage,
           RemoveOldDocuments, AddChunk, HandlerFails
  <2>2. CASE points' = points
    BY <2>2 DEF ChunksOf
  <2>3. CASE points' = {p \in points : p.key # jobs[j].key}
    BY <2>3 DEF ChunksOf
  <2>4. CASE points' = points \union {[key |-> jobs[j].key, upload |-> jobs[j].upload,
                                       chunk |-> jobs[j].chunk + 1, job |-> j]}
    BY <2>4 DEF ChunksOf
  <2> QED BY <2>1, <2>2, <2>3, <2>4
<1>5. \A i \in DOMAIN jobs : i \in DOMAIN jobs' /\ (jobs[i].key = k => jobs'[i] = jobs[i])
  BY <1>3
<1>6. \A i \in DOMAIN jobs' : jobs'[i].key = k => i \in DOMAIN jobs /\ jobs[i].key = k
  BY <1>3
<1> QED BY <1>1, <1>4, <1>5, <1>6 DEF Apart

LEMMA CrashApart ==
  ASSUME PipelineTypeOK, NEW k \in Keys, Crash, AtWork(k) = {}
  PROVE  Apart(k)
<1>1. UNCHANGED <<uploads, current, stamp, points>> /\ backlog' = {} /\ lost \subseteq lost'
      /\ jobs' = [j \in DOMAIN jobs |-> [jobs[j] EXCEPT !.step = "over"]]
  BY DEF Crash
<1>2. /\ DOMAIN jobs' = DOMAIN jobs /\ \A j \in DOMAIN jobs : jobs'[j].key = jobs[j].key
  BY CrashEnds
<1>3. ASSUME NEW j \in DOMAIN jobs, jobs[j].key = k
      PROVE  jobs'[j] = jobs[j]
  <2>1. jobs[j].step = "over" /\ jobs[j] \in JobSet
    BY <1>3, JobType DEF AtWork, Running
  <2> QED BY <1>1, <2>1 DEF JobSet
<1>4. ChunksOf(k)' = ChunksOf(k)
  BY <1>1 DEF ChunksOf
<1> QED BY <1>1, <1>2, <1>3, <1>4 DEF Apart
-----------------------------------------------------------------------------
(* Steps that are about the object. *)

LEMMA UploadOwn ==
  ASSUME PipelineTypeOK, Setting, NEW k \in Keys, NEW n \in Sizes, Upload(k,
         n), KeyInv(k),
         k \notin overtaken'
  PROVE  KeyInv(k)'
<1>1. Resting(k) /\ UNCHANGED <<stamp, backlog, jobs, lost>>
      /\ current'[k] = Len(uploads) + 1
  BY DEF Upload, PipelineTypeOK
<1>2. AtWork(k) = {} /\ AtWork(k)' = {}
  BY <1>1 DEF Resting, AtWork, Running
<1>3. stamp[k] = current[k] /\ stamp[k] \in 0..Len(uploads) /\ Len(uploads) \in Nat
  BY <1>1, UploadType DEF Resting, PipelineTypeOK
<1>4. AloneInv(k)' /\ PartInv(k)'
  BY <1>1, <1>2, <1>3 DEF KeyInv, AloneInv, PartInv
<1>5. stamp'[k] # current'[k]
  BY <1>1, <1>3
<1>6. WholeInv(k)'
  BY <1>5 DEF WholeInv, Resting
<1> QED BY <1>4, <1>6 DEF KeyInv

\* Only a version that is new to the filter is received or fails to be, and
\* then no handler is at the object.
LEMMA NewIsUnattended ==
  ASSUME PipelineTypeOK, Setting, ListInv, NEW f \in backlog,
         stamp[f.key] # f.upload,
         KeyInv(f.key)
  PROVE  AtWork(f.key) = {} /\ f.upload = current[f.key]
<1>1. f.upload = current[f.key]
  BY DEF KeyInv, AloneInv
<1> QED BY <1>1 DEF KeyInv, AloneInv

LEMMA ReceiveOwn ==
  ASSUME PipelineTypeOK, Setting, ListInv, NEW f \in backlog, ReceiveFile(f),
         KeyInv(f.key)
  PROVE  KeyInv(f.key)'
<1> DEFINE k == f.key
<1>1. /\ UNCHANGED <<uploads, current>> /\ backlog' = backlog \ {f}
      /\ stamp'[k] = f.upload /\ stamp[k] # f.upload
  BY EntryType DEF ReceiveFile, PipelineTypeOK
<1>2. AtWork(k) = {} /\ f.upload = current[k]
  BY <1>1, NewIsUnattended
<1>3. PICK i \in DOMAIN jobs' :
        /\ \A j \in DOMAIN jobs' : j \notin DOMAIN jobs <=> j = i
        /\ jobs'[i] = [key |-> k, upload |-> current[k], step |-> "route", chunk |-> 0]
        /\ \A j \in DOMAIN jobs : jobs'[j] = jobs[j]
  BY ReceiveStarts
<1>4. AtWork(k)' = {i}
  BY <1>2, <1>3 DEF AtWork, Running
<1>5. \A g \in backlog' : g.key # k
  BY <1>1 DEF ListInv
<1>6. AloneInv(k)'
  BY <1>1, <1>2, <1>3, <1>4, <1>5 DEF AloneInv
<1>7. PartInv(k)'
  BY <1>3, <1>4 DEF PartInv
<1>8. ~ Resting(k)'
  BY <1>4 DEF Resting, AtWork
<1>9. WholeInv(k)'
  BY <1>8 DEF WholeInv
<1> QED BY <1>6, <1>7, <1>9 DEF KeyInv

LEMMA ReceiveFailsOwn ==
  ASSUME PipelineTypeOK, Setting, ListInv, NEW f \in backlog, ReceiveFails(f),
         KeyInv(f.key)
  PROVE  KeyInv(f.key)'
<1> DEFINE k == f.key
<1>1. /\ UNCHANGED <<uploads, current, jobs>> /\ backlog' = backlog \ {f}
      /\ stamp'[k] = 0 /\ stamp[k] # f.upload
  BY EntryType DEF ReceiveFails, OpeningFails, PipelineTypeOK
<1>2. AtWork(k)' = {}
  BY <1>1, NewIsUnattended DEF AtWork, Running
<1>3. \A g \in backlog' : g.key # k
  BY <1>1 DEF ListInv
<1>4. AloneInv(k)' /\ PartInv(k)'
  BY <1>2, <1>3 DEF AloneInv, PartInv
<1>5. current[k] # 0
  BY EntryType, UploadType
<1>6. WholeInv(k)'
  BY <1>1, <1>5 DEF WholeInv, Resting
<1> QED BY <1>4, <1>6 DEF KeyInv

\* The handler of an object goes on.
LEMMA OwnMoves ==
  ASSUME PipelineTypeOK, NEW k \in Keys, KeyInv(k), NEW j \in AtWork(k), NEW s, NEW n,
         Moves(j, s, n), UNCHANGED <<uploads, current, stamp, backlog>>
  PROVE  /\ AloneInv(k)' /\ AtWork(k)' = {i \in {j} : s # "over"}
         /\ jobs[j].upload = current[k] /\ jobs'[j].chunk = n /\ jobs'[j].step = s
         /\ s # "over" => WholeInv(k)'
<1>1. j \in DOMAIN jobs /\ jobs[j].key = k
  BY DEF AtWork, Running
<1>2. /\ jobs'[j].key = k /\ jobs'[j].upload = jobs[j].upload
      /\ jobs'[j].step = s /\ jobs'[j].chunk = n
      /\ DOMAIN jobs' = DOMAIN jobs /\ \A i \in DOMAIN jobs : i # j => jobs'[i] = jobs[i]
  BY <1>1, JobType DEF Moves, JobSet
<1>3. AtWork(k) = {j} /\ jobs[j].upload = current[k] /\ stamp[k] = current[k]
  BY DEF KeyInv, AloneInv
<1>4. AtWork(k)' = {i \in {j} : s # "over"}
  BY <1>1, <1>2, <1>3 DEF AtWork, Running
<1>5. AloneInv(k)'
  BY <1>2, <1>3, <1>4 DEF KeyInv, AloneInv
<1>6. ASSUME s # "over"
      PROVE  WholeInv(k)'
  <2>1. ~ Resting(k)'
    BY <1>4, <1>6 DEF Resting, AtWork
  <2> QED BY <2>1 DEF WholeInv
<1> QED BY <1>2, <1>3, <1>4, <1>5, <1>6

\* A handler that stops before it removed anything has nothing to index.
LEMMA RouteOrProcessOwn ==
  ASSUME PipelineTypeOK, Setting, StepInv, NEW k \in Keys, KeyInv(k),
         NEW j \in AtWork(k),
         RouteFile(j) \/ ProcessMessage(j)
  PROVE  KeyInv(k)'
<1>1. j \in DOMAIN jobs /\ jobs[j].key = k
  BY DEF AtWork, Running
<1>2. PICK s \in Steps, n \in Nat : Moves(j, s, n)
  BY <1>1, StepMoves DEF JobStep
<1>3. /\ UNCHANGED <<uploads, current, stamp, backlog>>
      /\ AloneInv(k)' /\ AtWork(k)' = {i \in {j} : s # "over"}
      /\ jobs[j].upload = current[k] /\ jobs'[j].step = s
      /\ s # "over" => WholeInv(k)'
  BY <1>1, <1>2, StepLeaves, OwnMoves DEF JobStep
<1>4. /\ s # "add"
      /\ s = "over" => Folder[k] = "none"
           \/ (Folder[k] = "unstructured" /\ uploads[current[k]].size = 0)
  <2>1. ASSUME NEW v \in Steps, Goto(j, v)
        PROVE  jobs'[j].step = v
    <3>1. jobs'[j] = [jobs[j] EXCEPT !.step = v, !.chunk = jobs[j].chunk]
      BY <1>1, <2>1, GotoMoves DEF Moves
    <3> QED BY <1>1, <3>1, JobType DEF JobSet
  <2>2. CASE RouteFile(j)
    <3>1. s = IF Folder[k] = "none" THEN "over" ELSE "process"
      BY <1>1, <1>3, <2>1, <2>2 DEF RouteFile, Steps
    <3> QED BY <3>1
  <2>3. CASE ProcessMessage(j)
    <3>1. s = IF Folder[k] = "unstructured" /\ uploads[current[k]].size = 0
              THEN "over" ELSE "remove"
      BY <1>1, <1>3, <2>1, <2>3 DEF ProcessMessage, Steps
    <3> QED BY <3>1
  <2> QED BY <2>2, <2>3
<1>5. PartInv(k)'
  BY <1>3, <1>4 DEF PartInv
<1>6. ASSUME s = "over"
      PROVE  WholeInv(k)'
  <2>1. ~ Ingestable(k)'
    <3>1. UNCHANGED <<uploads, current>>
      BY <1>3
    <3> QED BY <3>1, <1>4, <1>6 DEF Ingestable
  <2> QED BY <2>1 DEF WholeInv
<1> QED BY <1>3, <1>5, <1>6 DEF KeyInv

\* After the removal there is nothing, and a handler without chunks is through.
LEMMA RemoveOwn ==
  ASSUME PipelineTypeOK, Setting, StepInv, NEW k \in Keys, KeyInv(k),
         NEW j \in AtWork(k),
         RemoveOldDocuments(j)
  PROVE  KeyInv(k)'
<1> DEFINE size == uploads[jobs[j].upload].size
           s == IF size = 0 THEN "over" ELSE "add"
<1>1. /\ j \in DOMAIN jobs /\ jobs[j].key = k /\ jobs[j].step = "remove"
      /\ jobs[j].chunk = 0
  BY DEF AtWork, Running, RemoveOldDocuments, StepInv
<1>2. Moves(j, s, 0)
  BY <1>1, GotoMoves DEF RemoveOldDocuments, Steps
<1>3. UNCHANGED <<uploads, current, stamp, backlog>> /\ ChunksOf(k)' = {}
  BY <1>1 DEF RemoveOldDocuments, ChunksOf
<1>4. /\ AloneInv(k)' /\ AtWork(k)' = {i \in {j} : s # "over"}
      /\ jobs[j].upload = current[k] /\ jobs'[j].chunk = 0
      /\ s # "over" => WholeInv(k)'
  BY <1>2, <1>3, OwnMoves
<1>5. ChunksBy(k, j, 0)' = {}
  BY DEF ChunksBy
<1>6. PartInv(k)'
  <2>1. SUFFICES ASSUME NEW i \in AtWork(k)', jobs'[i].step = "add"
                 PROVE  (ChunksOf(k) = ChunksBy(k, i, jobs[i].chunk))'
    BY DEF PartInv
  <2>2. i = j /\ jobs'[i].chunk = 0
    BY <1>4, <2>1
  <2> QED BY <1>3, <2>2 DEF ChunksBy
<1>7. ASSUME s = "over"
      PROVE  WholeInv(k)'
  <2>1. /\ uploads'[current'[k]].size = 0 /\ ChunksOf(k)' = {}
        /\ j \in DOMAIN jobs'
    BY <1>1, <1>2, <1>3, <1>4, <1>7 DEF Moves
  <2>2. (ChunksOf(k) = ChunksBy(k, j, uploads[current[k]].size))'
    BY <2>1 DEF ChunksBy
  <2> QED BY <2>1, <2>2 DEF WholeInv
<1> QED BY <1>4, <1>6, <1>7 DEF KeyInv

\* One chunk more.
LEMMA ChunksGrow ==
  ASSUME NEW k, NEW j, NEW n \in Nat
  PROVE  ChunksBy(k, j, n + 1)
           = ChunksBy(k, j, n) \cup {[key |-> k, upload |-> current[k],
                                      chunk |-> n + 1, job |-> j]}
<1>1. 1..n + 1 = 1..n \cup {n + 1}
  OBVIOUS
<1> QED BY <1>1 DEF ChunksBy

LEMMA AddOwn ==
  ASSUME PipelineTypeOK, Setting, NEW k \in Keys, KeyInv(k), NEW j \in AtWork(k),
         AddChunk(j)
  PROVE  KeyInv(k)'
<1> DEFINE size == uploads[jobs[j].upload].size
           n == jobs[j].chunk + 1
           s == IF n = size THEN "over" ELSE "add"
           p == [key |-> k, upload |-> current[k], chunk |-> n, job |-> j]
<1>1. j \in DOMAIN jobs /\ jobs[j].key = k /\ jobs[j].step = "add"
  BY DEF AtWork, Running, AddChunk
<1>2. Moves(j, s, n) /\ jobs[j].chunk \in Nat
  BY <1>1, AddMoves, JobType
<1>3. UNCHANGED <<uploads, current, stamp, backlog>>
  BY DEF AddChunk
<1>4. /\ AloneInv(k)' /\ AtWork(k)' = {i \in {j} : s # "over"}
      /\ jobs[j].upload = current[k] /\ jobs'[j].chunk = n
      /\ s # "over" => WholeInv(k)'
  BY <1>2, <1>3, OwnMoves
<1>5. ChunksOf(k) = ChunksBy(k, j, jobs[j].chunk)
  BY <1>1 DEF KeyInv, PartInv
<1>6. ChunksOf(k)' = ChunksOf(k) \cup {p}
  <2>1. points' = points \cup {p}
    BY <1>1, <1>4 DEF AddChunk
  <2> HIDE DEF n
  <2> QED BY <2>1 DEF ChunksOf
<1>7. ChunksOf(k)' = ChunksBy(k, j, n)
  BY <1>2, <1>5, <1>6, ChunksGrow
<1>8. \A i, m : ChunksBy(k, i, m)' = ChunksBy(k, i, m)
  BY <1>3 DEF ChunksBy
<1>9. PartInv(k)'
  <2>1. SUFFICES ASSUME NEW i \in AtWork(k)', jobs'[i].step = "add"
                 PROVE  (ChunksOf(k) = ChunksBy(k, i, jobs[i].chunk))'
    BY DEF PartInv
  <2>2. i = j /\ jobs'[i].chunk = n
    BY <1>4, <2>1
  <2> HIDE DEF n
  <2> QED BY <1>3, <1>7, <2>2 DEF ChunksBy
<1>10. ASSUME s = "over"
       PROVE  WholeInv(k)'
  <2>1. uploads'[current'[k]].size = n /\ j \in DOMAIN jobs'
    BY <1>1, <1>2, <1>3, <1>4, <1>10 DEF Moves
  <2> HIDE DEF n
  <2>2. (ChunksOf(k) = ChunksBy(k, j, uploads[current[k]].size))'
    BY <1>3, <1>7, <2>1 DEF ChunksBy
  <2> QED BY <2>1, <2>2 DEF WholeInv
<1> QED BY <1>4, <1>9, <1>10 DEF KeyInv

LEMMA FailOwn ==
  ASSUME PipelineTypeOK, NEW k \in Keys, KeyInv(k), NEW j \in AtWork(k),
         HandlerFails(j)
  PROVE  KeyInv(k)'
<1>1. j \in DOMAIN jobs /\ jobs[j].key = k
  BY DEF AtWork, Running
<1>2. Moves(j, "over", jobs[j].chunk)
  BY <1>1, GotoMoves DEF HandlerFails, Steps
<1>3. UNCHANGED <<uploads, current, stamp, backlog>>
  BY StepLeaves
<1>4. AloneInv(k)' /\ AtWork(k)' = {i \in {j} : "over" # "over"}
      /\ jobs[j].upload = current[k]
  BY <1>2, <1>3, OwnMoves
<1>5. PartInv(k)'
  BY <1>4 DEF PartInv
<1>6. <<k, current'[k]>> \in lost'
  BY <1>1, <1>3, <1>4 DEF HandlerFails
<1>7. WholeInv(k)'
  BY <1>6 DEF WholeInv
<1> QED BY <1>4, <1>5, <1>7 DEF KeyInv

LEMMA CrashOwn ==
  ASSUME PipelineTypeOK, NEW k \in Keys, KeyInv(k), NEW j \in AtWork(k), Crash
  PROVE  KeyInv(k)'
<1>1. UNCHANGED <<current, stamp>> /\ backlog' = {}
  BY DEF Crash
<1>2. AtWork(k)' = {}
  BY CrashEnds DEF AtWork, Running
<1>3. AloneInv(k)' /\ PartInv(k)'
  BY <1>1, <1>2 DEF AloneInv, PartInv
<1>4. <<k, current[k]>> \in lost'
  <2>1. j \in Running /\ jobs[j].key = k /\ jobs[j].upload = current[k]
    BY DEF AtWork, KeyInv, AloneInv
  <2>2. lost' = lost \union {<<jobs[i].key, jobs[i].upload>> : i \in Running}
    BY DEF Crash
  <2> QED BY <2>1, <2>2
<1>5. WholeInv(k)'
  BY <1>1, <1>4 DEF WholeInv
<1> QED BY <1>3, <1>5 DEF KeyInv
-----------------------------------------------------------------------------
(* Every step. *)

LEMMA KeyKept ==
  ASSUME PipelineTypeOK, Setting, ListInv, StepInv, [PipelineNext]_pipeline,
         NEW k \in Keys, KeyInv(k), k \notin overtaken'
  PROVE  KeyInv(k)'
<1>1. ASSUME NEW i \in Keys, NEW n \in Sizes, Upload(i, n)
      PROVE  KeyInv(k)'
  BY <1>1, UploadOwn, UploadApart, ApartKeeps
<1>2. CASE ListFiles \/ (\E f \in First : SkipFile(f)) \/ UNCHANGED pipeline
  BY <1>2, PollApart, ApartKeeps
<1>3. ASSUME NEW f \in First, ReceiveFile(f) \/ ReceiveFails(f)
      PROVE  KeyInv(k)'
  <2>1. f \in backlog
    BY DEF First
  <2> QED BY <1>3, <2>1, ReceiveOwn, ReceiveFailsOwn, ReceiveApart, ApartKeeps
<1>4. ASSUME NEW j \in DOMAIN jobs, JobStep(j) \/ HandlerFails(j)
      PROVE  KeyInv(k)'
  <2>1. CASE jobs[j].key # k
    BY <1>4, <2>1, JobApart, ApartKeeps
  <2>2. CASE jobs[j].key = k
    <3>1. jobs[j].step # "over"
      BY <1>4, StepLeaves
    <3>2. j \in AtWork(k)
      BY <2>2, <3>1 DEF AtWork, Running
    <3> QED BY <1>4, <3>2, RouteOrProcessOwn, RemoveOwn, AddOwn, FailOwn DEF JobStep
  <2> QED BY <2>1, <2>2
<1>5. CASE Crash
  <2>1. CASE AtWork(k) = {}
    BY <1>5, <2>1, CrashApart, ApartKeeps
  <2>2. CASE AtWork(k) # {}
    BY <1>5, <2>2, CrashOwn
  <2> QED BY <2>1, <2>2
<1> QED BY <1>1, <1>2, <1>3, <1>4, <1>5 DEF PipelineNext, PollStep

LEMMA PipeStep ==
  ASSUME Setting, PipeInv, [PipelineNext]_pipeline
  PROVE  PipeInv'
<1>1. PipelineTypeOK /\ ListInv /\ StepInv
  BY DEF PipeInv
<1>2. PipelineTypeOK' /\ ListInv' /\ StepInv'
  <2>1. CASE PipelineNext
    BY <1>1, <2>1, TypesKept, ListKept, StepsKept
  <2>2. CASE UNCHANGED pipeline
    BY <1>1, <2>2 DEF pipeline, PipelineTypeOK, ListInv, StepInv
  <2> QED BY <2>1, <2>2
<1>3. overtaken \subseteq overtaken'
  BY StepLeaves DEF PipelineNext, PollStep, pipeline, Upload, ListFiles,
                    SkipFile, ReceiveFile,
                    ReceiveFails, OpeningFails, Crash
<1>4. ASSUME NEW k \in Keys \ overtaken'
      PROVE  KeyInv(k)'
  BY <1>1, <1>3, KeyKept DEF PipeInv
<1> QED BY <1>2, <1>4 DEF PipeInv

\* The first n chunks of a version by one handler are each there once.
LEMMA ChunksAreOnce ==
  ASSUME NEW k, NEW j, NEW n \in Nat
  PROVE  /\ {<<p.upload, p.chunk>> : p \in ChunksBy(k, j, n)} = {current[k]} \X (1..n)
         /\ \A p, q \in ChunksBy(k, j, n) : p.chunk = q.chunk => p = q
<1> DEFINE P(c) == [key |-> k, upload |-> current[k], chunk |-> c, job |-> j]
<1>1. \A p \in ChunksBy(k, j, n) : <<p.upload, p.chunk>> \in {current[k]} \X (1..n)
  BY DEF ChunksBy
<1>2. ASSUME NEW c \in 1..n
      PROVE  \E p \in ChunksBy(k, j, n) : <<current[k], c>> = <<p.upload, p.chunk>>
  <2>1. P(c) \in ChunksBy(k, j, n) /\ P(c).upload = current[k] /\ P(c).chunk = c
    BY DEF ChunksBy
  <2> QED BY <2>1
<1>3. \A q \in {current[k]} \X (1..n) : \E c \in 1..n : q = <<current[k], c>>
  OBVIOUS
<1>4. \A p, q \in ChunksBy(k, j, n) : p.chunk = q.chunk => p = q
  BY DEF ChunksBy
<1> QED BY <1>1, <1>2, <1>3, <1>4

\* The automatic pipeline's state is of its types: in particular no handler ever
\* has an upload the bucket never had, for the poller only opens what it lists.
THEOREM PipelineTypeCorrect == PipelineSpec => []PipelineTypeOK
<1>1. PipelineInit => PipeInv
  BY PipeInit, PipelineAssumption
<1>2. PipeInv /\ [PipelineNext]_pipeline => PipeInv'
  BY PipeStep, PipelineAssumption
<1>3. PipeInv => PipelineTypeOK
  BY DEF PipeInv
<1> QED BY <1>1, <1>2, <1>3, PTL DEF PipelineSpec

\* An object of the bucket that the filter has taken in its present version, that
\* no handler is at and that was not uploaded while an earlier version was on its
\* way has each of its chunks in the store once and no other, unless the handler
\* of this version failed: the accept-once filter and the two flows of
\* IngestionPipelineConfig.
THEOREM PipelineIndexes == PipelineSpec => []RestingIsIndexed
<1>1. PipelineInit => PipeInv
  BY PipeInit, PipelineAssumption
<1>2. PipeInv /\ [PipelineNext]_pipeline => PipeInv'
  BY PipeStep, PipelineAssumption
<1>3. PipeInv => RestingIsIndexed
  <2>1. SUFFICES ASSUME PipeInv, NEW k \in Keys \ overtaken, Ingestable(k),
                        Resting(k),
                        <<k, current[k]>> \notin lost
                 PROVE  Indexed(k)
    BY DEF RestingIsIndexed
  <2>2. PICK j : ChunksOf(k) = ChunksBy(k, j, uploads[current[k]].size)
    BY <2>1 DEF PipeInv, KeyInv, WholeInv
  <2>3. current[k] \in 1..Len(uploads)
    BY <2>1, UploadType DEF PipeInv, PipelineTypeOK, Ingestable
  <2>4. uploads[current[k]].size \in Nat
    BY <2>1, <2>3, UploadType, PipelineAssumption DEF PipeInv
  <2> DEFINE size == uploads[current[k]].size
  <2>5. /\ {<<p.upload, p.chunk>> : p \in ChunksBy(k, j, size)} = {current[k]} \X (1..size)
        /\ \A p, q \in ChunksBy(k, j, size) : p.chunk = q.chunk => p = q
    BY <2>4, ChunksAreOnce
  <2>6. /\ {<<p.upload, p.chunk>> : p \in ChunksOf(k)} = {current[k]} \X (1..size)
        /\ \A p, q \in ChunksOf(k) : p.chunk = q.chunk => p = q
    <3> HIDE DEF size
    <3> QED BY <2>2, <2>5, Zenon DEF size
  <2> QED BY <2>6, Zenon DEF Indexed
<1> QED BY <1>1, <1>2, <1>3, PTL DEF PipelineSpec
=============================================================================
