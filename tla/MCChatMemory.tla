---------------------------- MODULE MCChatMemory ----------------------------
(***************************************************************************)
(* ChatMemory in two settings, one of them chosen at the start:            *)
(*   "concurrent"  two prompts at a time, two failures or crashes and the  *)
(*                 key expiring at any moment (the constants of the cfg);  *)
(*   "serial"      six prompts, each after the compaction before it is     *)
(*                 over, nothing failing and the key expiring between      *)
(*                 prompts.                                                *)
(***************************************************************************)
EXTENDS ChatMemory

CONSTANT Two  \* the prompts sent in the setting "concurrent"

VARIABLE setting

\* Two turns are kept raw, so that a summary has company in the table; the
\* configuration is Roomy, like the one of the cfg.
OneByOne == INSTANCE ChatMemory WITH
  MaxSize <- 6, TurnTrigger <- 5, KeepRecentTurns <- 2, MaxInFlight <- 1,
  PromptsOverlapJobs <- FALSE, ExpireWhileActive <- FALSE, MaxFaults <- 0

SettingInit == setting \in {"concurrent", "serial"} /\ Init

Sent == {p \in Prompts : pc[p] # "new"}

\* Both are answered and nothing is under way.
AllAnswered ==
  setting = "concurrent" /\ Sent = Two /\ Quiet /\ UNCHANGED vars

\* Prompts are interchangeable: they are sent in the order of their numbers.
InOrder ==
  /\ \A p, q \in Prompts : p < q /\ q \in Sent => p \in Sent
  /\ setting = "concurrent" => Sent \subseteq Two

SettingNext ==
  /\ \/ setting = "concurrent" /\ Next
     \/ setting = "serial" /\ OneByOne!Next
     \/ AllAnswered
  /\ UNCHANGED setting
  /\ InOrder'

ConcurrentStep(Step) == setting = "concurrent" /\ Step /\ UNCHANGED setting

SettingSpec ==
  /\ SettingInit /\ [][SettingNext]_<<vars, setting>>
  /\ \A p \in Two :
       /\ WF_<<vars, setting>>(ConcurrentStep(PromptStep(p)))
       /\ WF_<<vars, setting>>(ConcurrentStep(JobStep(p)))
-----------------------------------------------------------------------------
\* PromptsAndJobsEnd and LongHistoryIsCompacted where threads interleave:
\* whatever the other prompt and its job do, threads end, and a table above
\* the trigger is brought back to it unless something fails.
ConcurrentThreadsEnd ==
  setting = "concurrent" =>
    \A p \in Two :
      /\ p \in InFlight ~> p \notin InFlight
      /\ p \in Compacting ~> p \notin Compacting
ConcurrentIsCompacted == setting = "concurrent" => LongHistoryIsCompacted
=============================================================================
