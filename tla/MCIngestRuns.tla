---------------------------- MODULE MCIngestRuns ----------------------------
(*************************************************************************)
(* Ingestion in three settings, one of them chosen at the start:         *)
(*   "overlap"  two overlapping runs for one collection, uploads at any  *)
(*              time, a failure and an outage (the constants of the cfg);*)
(*   "quiet"    three runs, two of them at a time, for two collections   *)
(*              and with pages of two, texts uploaded between runs, a    *)
(*              failure;                                                 *)
(*   "retry"    three runs one after the other for one collection, pages *)
(*              of one, any uploads between them, two failures.          *)
(*************************************************************************)
EXTENDS MCIngestion

VARIABLE setting

Texts == Contents \ {Blank}
TextChunks == [c \in Texts |-> ChunkCount[c]]

Between == INSTANCE Ingestion WITH
  Contents <- Texts, ChunkCount <- TextChunks, PageSize <- 2, MaxUploads <- 3,
  UploadsDuringRuns <- FALSE, MaxOutages <- 0

Retried == INSTANCE Ingestion WITH
  MaxActive <- 1, MaxUploads <- 3,
  UploadsDuringRuns <- FALSE, MaxFaults <- 2, MaxOutages <- 0

OneCollection == \A r, s \in Runs : provider[r] = provider[s]

SettingInit ==
  /\ Init
  /\ setting \in {"overlap", "quiet", "retry"}
  /\ provider[1] = CHOOSE p \in Providers : TRUE
  /\ setting # "quiet" => OneCollection

\* Requests are interchangeable, and so are texts: they are used in the order
\* of their numbers.  (So are providers: the one of run 1 is fixed.)
Used == {u[2] : u \in uploaded} \cap Texts
InOrder ==
  /\ \A r, s \in Runs : r < s /\ stage[s] # "new" => stage[r] # "new"
  /\ \A c, d \in Texts : c < d /\ d \in Used => c \in Used

\* In the setting "overlap" the third run is never asked for.
TwoAnswered ==
  /\ setting = "overlap"
  /\ \A r \in {1, 2} : stage[r] \in {"done", "failed"}
  /\ UNCHANGED vars

SettingNext ==
  /\ \/ setting = "overlap" /\ Next /\ stage[3]' = "new"
     \/ setting = "quiet" /\ Between!Next
     \/ setting = "retry" /\ Retried!Next
     \/ TwoAnswered
  /\ UNCHANGED setting
  /\ InOrder'

SettingStep(r) ==
  /\ \/ setting = "overlap" /\ RunStep(r)
     \/ setting = "quiet" /\ Between!RunStep(r)
     \/ setting = "retry" /\ Retried!RunStep(r)
  /\ UNCHANGED setting

SettingSpec ==
  /\ SettingInit /\ [][SettingNext]_<<vars, setting>>
  /\ \A r \in Runs : WF_<<vars, setting>>(SettingStep(r))
=============================================================================
