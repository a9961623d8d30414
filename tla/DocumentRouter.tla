---------------------------- MODULE DocumentRouter ----------------------------
(***************************************************************************)
(* The document a prompt brings along (DocumentIngestionService.java,      *)
(* DocumentRouter.java of AscendAgent): one request, on its own thread,    *)
(* sends it to the service for its type.  A PDF is cut into pages by the   *)
(* request's thread; a pool made for this request sends each page to OCR   *)
(* or to Docling, and the request waits for all of them.                   *)
(*                                                                         *)
(* Of a page only this is kept: how long its text is, whether the text can *)
(* be read and the page cut out, and whether a service finds anything on   *)
(* it.  A document is <<page, service>>; a file that is no PDF is page 1.  *)
(***************************************************************************)
EXTENDS Integers, Sequences, SequencesExt, FiniteSets

CONSTANTS
  Files,           \* the files that may come: records of an extension and pages
  Threshold,       \* app.document-router.pdf-min-text-threshold-per-page
  ParallelPages,   \* app.document-router.pdf-parallel-pages
  MaxFaults        \* bound: calls of a service that fail

Page == [length : Nat, textReadable : BOOLEAN, sliceable : BOOLEAN, blank : BOOLEAN]

ASSUME RouterAssumption ==
  /\ \A f \in Files : /\ f.extension \in STRING
                      /\ f.pages \in Seq(Page)
                      /\ f.extension # "pdf" => Len(f.pages) = 1
  /\ Threshold \in Nat /\ ParallelPages \in Int /\ MaxFaults \in Nat

VARIABLES
  file,         \* the file of the request
  pc,           \* where its thread is
  work,         \* text lengths of the pages cut out so far
  future,       \* each page's future
  found,        \* the documents of its result
  answer,       \* documents handed to the prompt, or the error
  interrupted,  \* the thread was interrupted while it waited
  faults

vars == <<file, pc, work, future, found, answer, interrupted, faults>>

NoAnswer == [status |-> "none", documents |-> <<>>]
Error    == [status |-> "error", documents |-> <<>>]
Ok(docs) == [status |-> "ok", documents |-> docs]

Pages == DOMAIN file.pages
Futures == {"none", "queued", "running", "done", "failed", "dropped"}

TypeOK ==
  /\ file \in Files
  /\ pc \in {"route", "call", "slice", "submit", "wait", "done"}
  /\ work \in Seq(Nat) /\ Len(work) <= Len(file.pages)
  /\ future \in [Pages -> Futures]
  /\ found \in [Pages -> Seq(Pages \X {"paddleocr", "docling"})]
  /\ answer.status \in {"none", "ok", "error"}
  /\ answer = NoAnswer <=> pc # "done"
  /\ interrupted \in BOOLEAN
  /\ faults \in 0 .. MaxFaults

Init ==
  /\ file \in Files
  /\ pc = "route"
  /\ work = <<>>
  /\ future = [p \in DOMAIN file.pages |-> "none"]
  /\ found = [p \in DOMAIN file.pages |-> <<>>]
  /\ answer = NoAnswer
  /\ interrupted = FALSE
  /\ faults = 0

Finish(a) == pc' = "done" /\ answer' = a

-----------------------------------------------------------------------------
(* routeAndProcess: the service for an extension, "" when there is none.   *)
Service(extension) ==
  CASE extension = "md" -> "markdown"
    [] extension \in {"docx", "xlsx", "pptx", "html"} -> "docling"
    [] extension \in {"png", "jpg", "jpeg", "tiff", "bmp", "webp"} -> "paddleocr"
    [] extension \in {"eml", "msg", "epub", "rtf", "xml", "odt"} -> "unstructured"
    [] extension = "pdf" -> "per page"
    [] OTHER -> ""

Route ==
  /\ pc = "route"
  /\ CASE Service(file.extension) = ""         -> Finish(Error)
       [] Service(file.extension) = "per page" -> pc' = "slice" /\ UNCHANGED answer
       [] OTHER                                -> pc' = "call" /\ UNCHANGED answer
  /\ UNCHANGED <<file, work, future, found, interrupted, faults>>

(* What a service makes of a page: a document if it finds any text.        *)
DocumentsOf(p, service) ==
  IF file.pages[p].blank THEN <<>> ELSE <<<<p, service>>>>

(* Markdown is made into a document whatever it says. *)
CallService ==
  /\ pc = "call"
  /\ Finish(Ok(IF Service(file.extension) = "markdown" THEN <<<<1, "markdown">>>>
               ELSE DocumentsOf(1, Service(file.extension))))
  /\ UNCHANGED <<file, work, future, found, interrupted, faults>>

CallFails ==
  /\ pc = "call"
  /\ faults < MaxFaults
  /\ faults' = faults + 1
  /\ Finish(Error)
  /\ UNCHANGED <<file, work, future, found, interrupted>>

-----------------------------------------------------------------------------
(* buildPageWork: a page whose text cannot be read counts as one without;  *)
(* one that cannot be cut out fails the whole file.                        *)
SlicePage ==
  LET page == file.pages[Len(work) + 1] IN
  /\ pc = "slice"
  /\ Len(work) < Len(file.pages)
  /\ IF page.sliceable
     THEN /\ work' = Append(work, IF page.textReadable THEN page.length ELSE 0)
          /\ UNCHANGED <<pc, answer>>
     ELSE Finish(Error) /\ UNCHANGED work
  /\ UNCHANGED <<file, future, found, interrupted, faults>>

Sliced ==
  /\ pc = "slice"
  /\ Len(work) = Len(file.pages)
  /\ IF work = <<>> THEN Finish(Ok(<<>>))
     ELSE pc' = "submit" /\ UNCHANGED answer
  /\ UNCHANGED <<file, work, future, found, interrupted, faults>>

(* Math.clamp(pdfParallelPages, 1, pages) *)
Parallelism ==
  CASE ParallelPages < 1         -> 1
    [] ParallelPages > Len(work) -> Len(work)
    [] OTHER                     -> ParallelPages

InState(s) == {p \in Pages : future[p] = s}

(* submitPageJobs, one page at a time, the workers already at it.          *)
SubmitPage(p) ==
  /\ pc = "submit"
  /\ future[p] = "none" /\ \A q \in 1 .. p - 1 : future[q] # "none"
  /\ future' = [future EXCEPT ![p] = "queued"]
  /\ pc' = IF p = Len(work) THEN "wait" ELSE pc
  /\ UNCHANGED <<file, work, found, answer, interrupted, faults>>

(* The pool makes a thread for each of its first pages, which holds it     *)
(* until that page is over; any free thread takes the others, in turn.     *)
Own == {p \in Pages : p <= Parallelism}
Busy == InState("running") \union (Own \intersect InState("queued"))

StartPage(p) ==
  /\ future[p] = "queued"
  /\ p \notin Own => /\ Cardinality(Busy) < Parallelism
                     /\ \A q \in Pages \ Own : q < p => future[q] # "queued"
  /\ future' = [future EXCEPT ![p] = "running"]
  /\ UNCHANGED <<file, pc, work, found, answer, interrupted, faults>>

(* routeSinglePdfPage *)
PageService(p) == IF work[p] < Threshold THEN "paddleocr" ELSE "docling"

PageDone(p) ==
  /\ future[p] = "running"
  /\ future' = [future EXCEPT ![p] = "done"]
  /\ found' = [found EXCEPT ![p] = DocumentsOf(p, PageService(p))]
  /\ UNCHANGED <<file, pc, work, answer, interrupted, faults>>

PageFailsAs(p, state) ==
  /\ future[p] = "running"
  /\ faults < MaxFaults
  /\ faults' = faults + 1
  /\ future' = [future EXCEPT ![p] = state]
  /\ UNCHANGED <<file, pc, work, found, answer, interrupted>>

(* Mutant: a page that failed is left out. *)
PageFailsQuietly(p) == PageFailsAs(p, "done")

PageFails(p) == PageFailsAs(p, "failed")

-----------------------------------------------------------------------------
(* Mutant: waiting ends at the first page that fails. *)
AwaitedUntilFailure ==
  InState("failed") # {} \/ \A p \in Pages : future[p] \in {"done", "failed"}

(* Mutant: only pages that went well count. *)
AwaitedWell == \A p \in Pages : future[p] = "done"

(* allOf(...).get(): every page is over, a failed one does not end it.     *)
Awaited == \A p \in Pages : future[p] \in {"done", "failed"}

(* collectInPageOrder, or the exception; the pool's threads have nothing   *)
(* left and end.                                                           *)
AllPagesOver ==
  /\ pc = "wait"
  /\ Awaited
  /\ Finish(IF InState("failed") = {} THEN Ok(FlattenSeq(found)) ELSE Error)
  /\ UNCHANGED <<file, work, future, found, interrupted, faults>>

(* shutdownNow: what is still in the queue is never started; the threads'  *)
(* own pages are not in it, and the HTTP calls do not heed an interrupt.   *)
QueueDropped ==
  [p \in Pages |-> IF future[p] = "queued" /\ p \notin Own THEN "dropped" ELSE future[p]]

Interrupt ==
  /\ pc = "wait"
  /\ interrupted' = TRUE
  /\ future' = QueueDropped
  /\ Finish(Error)
  /\ UNCHANGED <<file, work, found, faults>>

-----------------------------------------------------------------------------
Next == \/ Route
        \/ CallService
        \/ CallFails
        \/ SlicePage
        \/ Sliced
        \/ AllPagesOver
        \/ Interrupt
        \/ \E p \in Pages : SubmitPage(p) \/ StartPage(p) \/ PageDone(p) \/ PageFails(p)

Spec == Init /\ [][Next]_vars

(* The request's thread goes on, the pool's threads start what is theirs,  *)
(* and a call comes back: the client has a connect and a read timeout.     *)
FairSpec ==
  /\ Spec
  /\ WF_vars(Route \/ CallService \/ SlicePage \/ Sliced \/ AllPagesOver)
  /\ WF_vars(\E p \in Pages : SubmitPage(p))
  /\ \A n \in {Len(f.pages) : f \in Files} : \A p \in 1 .. n :
        WF_vars(p \in Pages /\ StartPage(p)) /\ WF_vars(p \in Pages /\ PageDone(p))

-----------------------------------------------------------------------------
(* What each page of the file must become, from the file alone.            *)
Expected ==
  [p \in Pages |->
     LET page == file.pages[p]
         text == IF page.textReadable THEN page.length ELSE 0
     IN  IF page.blank THEN <<>>
         ELSE IF text >= Threshold THEN <<<<p, "docling">>>> ELSE <<<<p, "paddleocr">>>>]

(* A prompt gets a PDF whole or not at all: every page that has something  *)
(* on it is there, from the service for it, in page order, however the     *)
(* pool's threads interleave and whichever page fails (dispatchPagesIn-    *)
(* Parallel).                                                              *)
PdfIsWhole ==
  file.extension = "pdf" /\ answer.status = "ok" =>
    answer.documents = FlattenSeq(Expected)

(* An answered request leaves no page at work behind it, whether it went   *)
(* well or failed; only an interrupted one does, and then no more than its *)
(* threads were at (awaitAllPagesOrThrow, shutdownPool).                   *)
NothingGoesOn ==
  pc = "done" =>
    LET left == InState("queued") \union InState("running")
    IN  IF interrupted THEN Cardinality(left) <= Parallelism ELSE left = {}

(* Every request is answered, and what it started comes to an end, also    *)
(* after an interrupt.                                                     *)
RequestsEnd == <>[](pc = "done" /\ InState("running") = {} /\ InState("queued") = {})

=============================================================================
