----------------------------- MODULE ChatMemory -----------------------------
(***************************************************************************)
(* Chat history of ONE conversation of AscendAgent: the Redis list, the    *)
(* Postgres rows, the prompts that read and extend them, and the           *)
(* compaction jobs the prompts leave behind.                               *)
(*                                                                         *)
(* Conversations share nothing (every command names one Redis key and one  *)
(* user_id), so one is enough.  A prompt runs on its own servlet thread;   *)
(* a compaction job runs on its own virtual thread (AppConfig.taskExecutor)*)
(* and nothing serialises either.  One action is one Redis command, one    *)
(* SQL statement or transaction, or one LLM call: what other threads can   *)
(* interleave with.                                                        *)
(***************************************************************************)
EXTENDS Integers, Sequences, FiniteSets

CONSTANTS
  Prompts,              \* the prompts ever sent to the conversation
  RedisEnabled,         \* app.memory.chat-history.redis.enabled
  PostgresEnabled,      \* app.memory.chat-history.postgres.enabled
  MaxSize,              \* app.memory.chat-history.max-size
  LoadLimit,            \* lastN of ChatHistoryService.loadHistory (100)
  CompactionEnabled,    \* app.memory.chat-history.compaction.enabled
  TurnTrigger,          \* ... .compaction.turn-trigger
  KeepRecentTurns,      \* ... .compaction.keep-recent-turns
  TurnTokens,           \* estimated tokens of a raw turn
  SummaryTokens,        \* estimated tokens of a summary
  TokenTrigger,         \* token-trigger-fraction times the context window
  MaxInFlight,          \* bound: prompts in progress at the same time
  PromptsOverlapJobs,   \* bound: may a prompt start while a job runs?
  ExpireWhileActive,    \* bound: may the key's TTL run out under a prompt?
  MaxFaults             \* bound: failures and crashes in a behaviour

ASSUME ConfigAssumption ==
  /\ {RedisEnabled, PostgresEnabled, CompactionEnabled} \subseteq BOOLEAN
  /\ MaxSize \in Nat \ {0}
  /\ LoadLimit \in Nat \ {0}
  /\ TurnTrigger \in Nat \ {0}
  /\ KeepRecentTurns \in Nat
  /\ {TurnTokens, SummaryTokens, TokenTrigger} \subseteq Nat

ASSUME BoundAssumption ==
  /\ {PromptsOverlapJobs, ExpireWhileActive} \subseteq BOOLEAN
  /\ MaxInFlight \in Nat \ {0}
  /\ MaxFaults \in Nat

VARIABLES
  redis,     \* the list at key "chat:<id>"; the empty list is the absent key
  ttl,       \* does the key carry an expiry?
  rows,      \* the conversation's rows of table chat_history
  nextId,    \* the next row id; created_at grows with it
  pc,        \* where each prompt stands
  msg,       \* the message a saving prompt is at: 1 user's, 2 assistant's
  history,   \* what each prompt has read of the history
  job,       \* where the compaction job each prompt dispatched stands
  prefix,    \* the rows each job decided to replace
  unsaved,   \* turns whose INSERT failed and was only logged
  lastDone,  \* the prompt that most recently finished saving, as a set
  lastSeen,  \* lastDone when each prompt began
  met,       \* which kinds of interference the conversation has met so far
  faults     \* failures so far

cacheVars == <<redis, ttl>>
tableVars == <<rows, nextId>>
promptVars == <<pc, msg, history>>
jobVars == <<job, prefix>>
ghostVars == <<unsaved, lastDone, lastSeen, met>>
vars == <<cacheVars, tableVars, promptVars, jobVars, ghostVars, faults>>
-----------------------------------------------------------------------------
(* Data.  A turn is one message of one prompt.  An entry stands for the    *)
(* turns it carries: a raw message for itself, a "[Conversation summary]"  *)
(* for everything that was summarised into it.                             *)

Turn == Prompts \X {1, 2}
Role == {"user", "assistant", "system"}
Entry == [role : Role, turns : SUBSET Turn]
Row == [id : Nat, role : Role, turns : SUBSET Turn]

TurnsOf(p) == {<<p, 1>>, <<p, 2>>}
RawEntry(p, i) ==
  [role |-> IF i = 1 THEN "user" ELSE "assistant", turns |-> {<<p, i>>}]
SummaryOf(S) == [role |-> "system", turns |-> UNION {r.turns : r \in S}]
RowOf(id, e) == [id |-> id, role |-> e.role, turns |-> e.turns]
EntryOf(r) == [role |-> r.role, turns |-> r.turns]

Covered(S) == UNION {r.turns : r \in S}
Entries(q) == {q[i] : i \in DOMAIN q}
IsSummary(e) == e.role = "system"
-----------------------------------------------------------------------------
(* Redis list commands. *)

MaxOf(a, b) == IF a >= b THEN a ELSE b

\* LTRIM key a b, counting from 0.
LTrim(q, a, b) == SubSeq(q, a + 1, IF b + 1 <= Len(q) THEN b + 1 ELSE Len(q))

\* Java's sliceTail: the last n elements.
SliceTail(q, n) == SubSeq(q, MaxOf(0, Len(q) - n) + 1, Len(q))

(* Queries of ChatHistoryRepository. *)

Older(S, r) == {x \in S : x.id < r.id}
Newer(S, r) == {x \in S : x.id > r.id}
Oldest(S, n) == {r \in S : Cardinality(Older(S, r)) < n}
Newest(S, n) == {r \in S : Cardinality(Newer(S, r)) < n}

\* The rows S as a list of messages, oldest first.
Listing(S) ==
  [i \in 1..Cardinality(S) |->
     EntryOf(CHOOSE r \in S : Cardinality(Older(S, r)) = i - 1)]
-----------------------------------------------------------------------------
(* Decisions. *)

\* effectiveCacheSize(): room for the summary and the turns kept raw.
EffectiveCacheSize ==
  IF CompactionEnabled THEN MaxOf(MaxSize, KeepRecentTurns + 1) ELSE MaxSize

\* estimateTokens()
TokenEstimate(S) ==
  LET summaries == {r \in S : IsSummary(r)}
  IN TurnTokens * Cardinality(S \ summaries) + SummaryTokens * Cardinality(summaries)

\* computePrefixCount()
PrefixCount(turns) ==
  LET count == MaxOf(1, turns - KeepRecentTurns)
  IN IF count >= turns THEN turns - 1 ELSE count

\* Mutant: fires only on the very turn that reaches the trigger.
TurnTriggeredOnce(S) == Cardinality(S) = TurnTrigger
TurnTriggered(S) == Cardinality(S) >= TurnTrigger
TokenTriggered(S) == TokenEstimate(S) >= TokenTrigger
AlreadySummarised(S) ==
  /\ \E r \in Oldest(S, 1) : IsSummary(r)
  /\ Cardinality(S) - 1 < TurnTrigger

\* decideCompaction(): the rows to replace, none to skip.
PrefixToCompact(S) ==
  IF /\ TurnTriggered(S) \/ TokenTriggered(S)
     /\ ~ AlreadySummarised(S)
  THEN Oldest(S, PrefixCount(Cardinality(S)))
  ELSE {}
-----------------------------------------------------------------------------
PromptState ==
  {"new", "range", "select", "hydrate", "expireHydrated", "llm",
   "push", "insert", "trim", "expire", "done", "failed"}
JobState ==
  {"none", "read", "summarise", "replace", "trim", "push", "expire", "done"}

\* A prompt began, or the key expired, while something was under way; a job
\* was dispatched while another ran.
Interference == {"prompt", "expiry", "jobs"}

TypeOK ==
  /\ redis \in Seq(Entry)
  /\ ttl \in BOOLEAN
  /\ rows \subseteq Row
  /\ nextId \in Nat
  /\ pc \in [Prompts -> PromptState]
  /\ msg \in [Prompts -> {1, 2}]
  /\ history \in [Prompts -> Seq(Entry)]
  /\ job \in [Prompts -> JobState]
  /\ prefix \in [Prompts -> SUBSET Row]
  /\ unsaved \subseteq Turn
  /\ lastDone \subseteq Prompts
  /\ lastSeen \in [Prompts -> SUBSET Prompts]
  /\ met \subseteq Interference
  /\ faults \in Nat

Init ==
  /\ redis = <<>>
  /\ ttl = FALSE
  /\ rows = {}
  /\ nextId = 1
  /\ pc = [p \in Prompts |-> "new"]
  /\ msg = [p \in Prompts |-> 1]
  /\ history = [p \in Prompts |-> <<>>]
  /\ job = [p \in Prompts |-> "none"]
  /\ prefix = [p \in Prompts |-> {}]
  /\ unsaved = {}
  /\ lastDone = {}
  /\ lastSeen = [p \in Prompts |-> {}]
  /\ met = {}
  /\ faults = 0

InFlight == {p \in Prompts : pc[p] \notin {"new", "done", "failed"}}
Compacting == {p \in Prompts : job[p] \notin {"none", "done"}}
Quiet == InFlight = {} /\ Compacting = {}

Goto(p, state) == pc' = [pc EXCEPT ![p] = state]
JobGoto(p, state) == job' = [job EXCEPT ![p] = state]
\* A job's locals go when it returns.
EndJob(p) == JobGoto(p, "done") /\ prefix' = [prefix EXCEPT ![p] = {}]
\* What a prompt has read goes with it, and once the model has answered.
Forget(p) ==
  /\ history' = [history EXCEPT ![p] = <<>>]
  /\ lastSeen' = [lastSeen EXCEPT ![p] = {}]
Fault == faults < MaxFaults /\ faults' = faults + 1

\* Commands that write the list.  A command that empties it deletes the key
\* and with it the expiry; one that creates it leaves it without any.
WriteList(q) ==
  /\ redis' = q
  /\ ttl' = (ttl /\ redis # <<>> /\ q # <<>>)
\* EXPIRE does nothing to an absent key.
ExpireCommand == ttl' = (redis # <<>>) /\ UNCHANGED redis
-----------------------------------------------------------------------------
(* PersistentChatMemory.get, called by loadHistory.                        *)

AfterRedis == IF PostgresEnabled THEN "select" ELSE "llm"

\* A prompt reaches loadHistory.
BeginPrompt(p) ==
  /\ pc[p] = "new"
  /\ Cardinality(InFlight) < MaxInFlight
  /\ PromptsOverlapJobs \/ Compacting = {}
  /\ Goto(p, IF RedisEnabled THEN "range" ELSE AfterRedis)
  /\ lastSeen' = [lastSeen EXCEPT ![p] = lastDone]
  /\ met' = met \cup {i \in {"prompt"} : ~ Quiet}
  /\ UNCHANGED <<cacheVars, tableVars, msg, history, jobVars, unsaved, lastDone, faults>>

\* Mutant: a miss waits for somebody else to fill the cache.
LoadFromRedisWaits(p) ==
  /\ pc[p] = "range"
  /\ redis # <<>>
  /\ Goto(p, "llm")
  /\ history' = [history EXCEPT ![p] = SliceTail(redis, LoadLimit)]
  /\ UNCHANGED <<cacheVars, tableVars, msg, jobVars, ghostVars, faults>>

\* LRANGE 0 -1: a list that is not empty is the answer.
LoadFromRedis(p) ==
  /\ pc[p] = "range"
  /\ Goto(p, IF redis # <<>> THEN "llm" ELSE AfterRedis)
  /\ history' = [history EXCEPT ![p] = SliceTail(redis, LoadLimit)]
  /\ UNCHANGED <<cacheVars, tableVars, msg, jobVars, ghostVars, faults>>

\* findRecentHistory, reversed.
LoadFromPostgres(p) ==
  /\ pc[p] = "select"
  /\ LET hydrated == Listing(Newest(rows, EffectiveCacheSize))
     IN IF RedisEnabled /\ hydrated # <<>>
        THEN /\ history' = [history EXCEPT ![p] = hydrated]
             /\ Goto(p, "hydrate")
        ELSE /\ history' = [history EXCEPT ![p] = SliceTail(hydrated, LoadLimit)]
             /\ Goto(p, "llm")
  /\ UNCHANGED <<cacheVars, tableVars, msg, jobVars, ghostVars, faults>>

\* RPUSH of the whole list, whatever the key holds by now.
PopulateCache(p) ==
  /\ pc[p] = "hydrate"
  /\ WriteList(redis \o history[p])
  /\ Goto(p, "expireHydrated")
  /\ UNCHANGED <<tableVars, msg, history, jobVars, ghostVars, faults>>

ExpireHydrated(p) ==
  /\ pc[p] = "expireHydrated"
  /\ ExpireCommand
  /\ history' = [history EXCEPT ![p] = SliceTail(@, LoadLimit)]
  /\ Goto(p, "llm")
  /\ UNCHANGED <<tableVars, msg, jobVars, ghostVars, faults>>
-----------------------------------------------------------------------------
(* PersistentChatMemory.add, called by saveHistory with both messages.     *)

FirstWrite == IF RedisEnabled THEN "push" ELSE "insert"

\* The model answers; add() returns at once when both backends are off.
ChatReply(p) ==
  /\ pc[p] = "llm"
  /\ Goto(p, IF RedisEnabled \/ PostgresEnabled THEN FirstWrite ELSE "done")
  /\ Forget(p)
  /\ UNCHANGED <<cacheVars, tableVars, msg, jobVars, unsaved, lastDone, met, faults>>

\* add() has returned: the job is dispatched, the reply goes out.
FinishAdd(p) ==
  /\ Goto(p, "done")
  /\ JobGoto(p, IF CompactionEnabled THEN "read" ELSE "done")
  /\ lastDone' = {p}
  /\ met' = met \cup {i \in {"jobs"} : CompactionEnabled /\ Compacting # {}}

\* The loop over the two messages goes on, or ends.
NextMessage(p) ==
  IF msg[p] = 1
  THEN /\ msg' = [msg EXCEPT ![p] = 2]
       /\ Goto(p, FirstWrite)
       /\ UNCHANGED <<job, lastDone, met>>
  ELSE /\ UNCHANGED msg
       /\ IF RedisEnabled
          THEN Goto(p, "trim") /\ UNCHANGED <<job, lastDone, met>>
          ELSE FinishAdd(p)

PushMessage(p) ==
  /\ pc[p] = "push"
  /\ WriteList(Append(redis, RawEntry(p, msg[p])))
  /\ IF PostgresEnabled
     THEN Goto(p, "insert") /\ UNCHANGED <<msg, job, lastDone, met>>
     ELSE NextMessage(p)
  /\ UNCHANGED <<tableVars, history, prefix, unsaved, lastSeen, faults>>

\* Mutant: the loop saves the user's message twice.
PersistUserTwice(p) ==
  /\ pc[p] = "insert"
  /\ rows' = rows \cup {RowOf(nextId, RawEntry(p, 1))}
  /\ nextId' = nextId + 1
  /\ NextMessage(p)
  /\ UNCHANGED <<cacheVars, history, prefix, unsaved, lastSeen, faults>>

\* persistToDb, on the caller's thread.
PersistToDb(p) ==
  /\ pc[p] = "insert"
  /\ rows' = rows \cup {RowOf(nextId, RawEntry(p, msg[p]))}
  /\ nextId' = nextId + 1
  /\ NextMessage(p)
  /\ UNCHANGED <<cacheVars, history, prefix, unsaved, lastSeen, faults>>

\* persistToDb catches every exception and logs it.
PersistFails(p) ==
  /\ pc[p] = "insert"
  /\ Fault
  /\ unsaved' = unsaved \cup {<<p, msg[p]>>}
  /\ NextMessage(p)
  /\ UNCHANGED <<cacheVars, tableVars, history, prefix, lastSeen>>

\* LTRIM 0 size-1: the head of the list stays.
TrimCache(p) ==
  /\ pc[p] = "trim"
  /\ WriteList(LTrim(redis, 0, EffectiveCacheSize - 1))
  /\ Goto(p, "expire")
  /\ UNCHANGED <<tableVars, msg, history, jobVars, ghostVars, faults>>

ExpireCache(p) ==
  /\ pc[p] = "expire"
  /\ ExpireCommand
  /\ FinishAdd(p)
  /\ UNCHANGED <<tableVars, msg, history, prefix, unsaved, lastSeen, faults>>

\* A Redis command, the SELECT or the model call throws: the prompt ends
\* with an error and what it wrote stays.
PromptFails(p) ==
  /\ pc[p] \in {"range", "select", "hydrate", "expireHydrated", "llm", "push",
                "trim", "expire"}
  /\ Fault
  /\ Goto(p, "failed")
  /\ Forget(p)
  /\ msg' = [msg EXCEPT ![p] = 1]
  /\ UNCHANGED <<cacheVars, tableVars, jobVars, unsaved, lastDone, met>>
-----------------------------------------------------------------------------
(* ChatHistoryCompactionService.maybeCompact, one job per finished prompt. *)

\* findAllHistoryOrdered and decideCompaction.
ReadAndDecide(p) ==
  /\ job[p] = "read"
  /\ LET S == IF PostgresEnabled THEN PrefixToCompact(rows) ELSE {}
     IN IF S = {}
        THEN EndJob(p)
        ELSE JobGoto(p, "summarise") /\ prefix' = [prefix EXCEPT ![p] = S]
  /\ UNCHANGED <<cacheVars, tableVars, promptVars, ghostVars, faults>>

\* The summariser returned an acceptable text.
Summarise(p) ==
  /\ job[p] = "summarise"
  /\ JobGoto(p, "replace")
  /\ UNCHANGED <<cacheVars, tableVars, promptVars, prefix, ghostVars, faults>>

\* Mutants: the prefix is looked up again instead of deleted by id; the
\* summary takes the id of the oldest row it replaces; nothing is deleted.
ReplaceOldest(p) ==
  /\ job[p] = "replace"
  /\ rows' = (rows \ Oldest(rows, Cardinality(prefix[p])))
                \cup {RowOf(nextId, SummaryOf(prefix[p]))}
  /\ nextId' = nextId + 1
  /\ IF RedisEnabled THEN JobGoto(p, "trim") /\ UNCHANGED prefix ELSE EndJob(p)
  /\ UNCHANGED <<cacheVars, promptVars, ghostVars, faults>>

ReplaceReusesId(p) ==
  /\ job[p] = "replace"
  /\ rows' = {r \in rows : \A x \in prefix[p] : r.id # x.id}
                \cup {RowOf(x.id, SummaryOf(prefix[p])) : x \in Oldest(prefix[p], 1)}
  /\ UNCHANGED nextId
  /\ IF RedisEnabled THEN JobGoto(p, "trim") /\ UNCHANGED prefix ELSE EndJob(p)
  /\ UNCHANGED <<cacheVars, promptVars, ghostVars, faults>>

ReplaceDeletesNothing(p) ==
  /\ job[p] = "replace"
  /\ rows' = rows \cup {RowOf(nextId, SummaryOf(prefix[p]))}
  /\ nextId' = nextId + 1
  /\ IF RedisEnabled THEN JobGoto(p, "trim") /\ UNCHANGED prefix ELSE EndJob(p)
  /\ UNCHANGED <<cacheVars, promptVars, ghostVars, faults>>

\* applyToPostgres: one transaction deletes the prefix by id and inserts the
\* summary, created now.
ReplacePrefix(p) ==
  /\ job[p] = "replace"
  /\ rows' = {r \in rows : \A x \in prefix[p] : r.id # x.id}
                \cup {RowOf(nextId, SummaryOf(prefix[p]))}
  /\ nextId' = nextId + 1
  /\ IF RedisEnabled THEN JobGoto(p, "trim") /\ UNCHANGED prefix ELSE EndJob(p)
  /\ UNCHANGED <<cacheVars, promptVars, ghostVars, faults>>

\* Mutants: LTRIM keeps the wrong end; LTRIM is off by one, either way.
TrimPrefixWrongEnd(p) ==
  /\ job[p] = "trim"
  /\ WriteList(LTrim(redis, 0, Cardinality(prefix[p]) - 1))
  /\ JobGoto(p, "push")
  /\ UNCHANGED <<tableVars, promptVars, prefix, ghostVars, faults>>

TrimPrefixOneShort(p) ==
  /\ job[p] = "trim"
  /\ WriteList(LTrim(redis, Cardinality(prefix[p]) - 1, Len(redis) - 1))
  /\ JobGoto(p, "push")
  /\ UNCHANGED <<tableVars, promptVars, prefix, ghostVars, faults>>

TrimPrefixOneTooMany(p) ==
  /\ job[p] = "trim"
  /\ WriteList(LTrim(redis, Cardinality(prefix[p]) + 1, Len(redis) - 1))
  /\ JobGoto(p, "push")
  /\ UNCHANGED <<tableVars, promptVars, prefix, ghostVars, faults>>

\* applyToRedis: LTRIM prefixCount -1 ...
TrimPrefix(p) ==
  /\ job[p] = "trim"
  /\ WriteList(LTrim(redis, Cardinality(prefix[p]), Len(redis) - 1))
  /\ JobGoto(p, "push")
  /\ UNCHANGED <<tableVars, promptVars, prefix, ghostVars, faults>>

\* Mutant: the job forgets the EXPIRE.
PushSummaryAndEnd(p) ==
  /\ job[p] = "push"
  /\ WriteList(<<SummaryOf(prefix[p])>> \o redis)
  /\ EndJob(p)
  /\ UNCHANGED <<tableVars, promptVars, ghostVars, faults>>

\* ... then LPUSH of the summary ...
PushSummary(p) ==
  /\ job[p] = "push"
  /\ WriteList(<<SummaryOf(prefix[p])>> \o redis)
  /\ JobGoto(p, "expire")
  /\ UNCHANGED <<tableVars, promptVars, prefix, ghostVars, faults>>

\* ... then EXPIRE.
ExpireSummary(p) ==
  /\ job[p] = "expire"
  /\ ExpireCommand
  /\ EndJob(p)
  /\ UNCHANGED <<tableVars, promptVars, ghostVars, faults>>

\* An exception or a rejected summary ends the job; what it did stays.
JobFails(p) ==
  /\ p \in Compacting
  /\ Fault
  /\ EndJob(p)
  /\ UNCHANGED <<cacheVars, tableVars, promptVars, ghostVars>>
-----------------------------------------------------------------------------
(* The environment. *)

\* The key's time to live runs out.
KeyExpires ==
  /\ ttl
  /\ ExpireWhileActive \/ Quiet
  /\ redis' = <<>> /\ ttl' = FALSE
  /\ met' = met \cup {i \in {"expiry"} : ~ Quiet}
  /\ UNCHANGED <<tableVars, promptVars, jobVars, unsaved, lastDone, lastSeen, faults>>

\* The agent dies and is restarted: prompts and jobs are gone, the two
\* stores stay.
Crash ==
  /\ ~ Quiet
  /\ Fault
  /\ pc' = [p \in Prompts |-> IF p \in InFlight THEN "failed" ELSE pc[p]]
  /\ job' = [p \in Prompts |-> IF p \in Compacting THEN "done" ELSE job[p]]
  /\ msg' = [p \in Prompts |-> IF p \in InFlight THEN 1 ELSE msg[p]]
  /\ history' = [p \in Prompts |-> <<>>]
  /\ prefix' = [p \in Prompts |-> {}]
  /\ lastSeen' = [p \in Prompts |-> {}]
  /\ UNCHANGED <<cacheVars, tableVars, unsaved, lastDone, met>>

\* Every prompt was answered and every job is over.
Finished ==
  /\ \A p \in Prompts : pc[p] \in {"done", "failed"}
  /\ Compacting = {}
  /\ UNCHANGED vars

PromptStep(p) ==
  \/ LoadFromRedis(p)
  \/ LoadFromPostgres(p)
  \/ PopulateCache(p)
  \/ ExpireHydrated(p)
  \/ ChatReply(p)
  \/ PushMessage(p)
  \/ PersistToDb(p)
  \/ TrimCache(p)
  \/ ExpireCache(p)

JobStep(p) ==
  \/ ReadAndDecide(p)
  \/ Summarise(p)
  \/ ReplacePrefix(p)
  \/ TrimPrefix(p)
  \/ PushSummary(p)
  \/ ExpireSummary(p)

Next ==
  \/ \E p \in Prompts :
       \/ BeginPrompt(p)
       \/ PromptStep(p)
       \/ PersistFails(p)
       \/ PromptFails(p)
       \/ JobStep(p)
       \/ JobFails(p)
  \/ KeyExpires
  \/ Crash
  \/ Finished

Spec == Init /\ [][Next]_vars

\* Prompts and jobs have threads of their own and every call they make
\* returns or times out, so each keeps moving; nobody has to send a prompt.
Fairness == \A p \in Prompts : WF_vars(PromptStep(p)) /\ WF_vars(JobStep(p))
FairSpec == Spec /\ Fairness
-----------------------------------------------------------------------------
(* What the archive keeps. *)

\* Compaction never loses, invents or repeats a turn: seen through the turns
\* its rows carry, table chat_history only ever gains one new turn at a time,
\* however jobs, prompts, failures and crashes interleave.
Archive == INSTANCE ChatArchive WITH kept <- Covered(rows)
TurnsAreNeverLost == Archive!ArchiveSpec

\* A prompt answered without an error left both its messages in the archive,
\* except where persistToDb swallowed a failed INSERT.
DoneIsArchived ==
  PostgresEnabled =>
    \A p \in Prompts : pc[p] = "done" => TurnsOf(p) \subseteq Covered(rows) \cup unsaved

\* Row ids identify rows for as long as a job remembers them: what a job
\* deletes by id is what it read and summarised, and its summary says
\* nothing the archive did not hold.
RowIdsAreStable ==
  /\ \A r \in rows : r.id < nextId
  /\ \A r, s \in rows : r.id = s.id => r = s
  /\ \A p \in Prompts : job[p] \in {"summarise", "replace"} =>
       /\ Covered(prefix[p]) \subseteq Covered(rows)
       /\ \A x \in prefix[p] :
            /\ x.id < nextId
            /\ \A r \in rows : r.id = x.id => r = x

\* Every key left behind carries an expiry: each write is followed by EXPIRE.
KeyCarriesTtl == Quiet /\ redis # <<>> => ttl
KeyCarriesTtlUnlessFaulty == faults = 0 => KeyCarriesTtl

\* No turn is in the archive twice, raw and folded or folded twice.
TurnsFoldedOnce ==
  \A r, s \in rows : r # s => r.turns \cap s.turns = {}
-----------------------------------------------------------------------------
(* What a prompt and the cache see. *)

\* The exchange that finished last before a prompt began is in the history
\* the prompt hands to the model, raw or folded into a summary, unless its
\* INSERT failed.
PromptSeesLastExchange ==
  \A p \in Prompts : pc[p] = "llm" =>
    \A q \in lastSeen[p] :
      TurnsOf(q) \subseteq Covered(Entries(history[p])) \cup unsaved

\* At rest the cache, when it holds anything, holds exactly the archive's
\* entries.
Agree == {EntryOf(r) : r \in rows} = Entries(redis)
BackendsAgree == Quiet /\ redis # <<>> => Agree

\* The cache lists no turn twice.
CacheHoldsTurnsOnce ==
  \A i, j \in DOMAIN redis : i # j => redis[i].turns \cap redis[j].turns = {}

\* A job takes from the cache only what it summarised.
TrimsOnlyThePrefix ==
  \A p \in Prompts : job[p] = "trim" /\ job'[p] = "push" =>
    Covered(Entries(redis)) \ Covered(Entries(redis')) \subseteq Covered(prefix[p])

\* A job that runs to its end leaves the two stores in agreement, also when
\* an earlier one was cut off between them.
CompactionHealsDivergence ==
  [][\A p \in Prompts :
       job[p] = "expire" /\ Compacting = {p} /\ InFlight = {} /\ job'[p] = "done"
         /\ faults' = faults => Agree']_vars

\* A history with one summary and fewer than TurnTrigger other entries is
\* left alone.
SummarisedHistoryIsLeftAlone ==
  [][\A p \in Prompts : job[p] = "read" /\ job'[p] = "summarise" =>
       ~ /\ Cardinality({r \in rows : IsSummary(r)}) = 1
         /\ Cardinality(rows) - 1 < TurnTrigger]_vars
-----------------------------------------------------------------------------
(* What the two stores keep to when nothing came between their commands.   *)

\* The turns a compaction leaves raw.
KeptRaw == MaxOf(1, KeepRecentTurns)

\* The cache holds the table at its longest and a prompt reads all of it; a
\* prefix is longer than the rows a summary stands behind in the table.
Roomy ==
  /\ RedisEnabled /\ PostgresEnabled /\ CompactionEnabled
  /\ EffectiveCacheSize > TurnTrigger
  /\ LoadLimit >= EffectiveCacheSize
  /\ TurnTrigger > 2 * KeptRaw
  /\ TokenTrigger > 2 * KeptRaw * MaxOf(TurnTokens, SummaryTokens)

\* So far nothing failed, each prompt began after the compaction before it was
\* over, and the key expired between prompts only.
Serial == Roomy /\ met = {} /\ faults = 0

\* A prompt in its turn sees the exchange before it.
SerialSeesLastExchange == Serial => PromptSeesLastExchange

\* Between the turns the stores agree, however often they were compacted.
SerialBackendsAgree == Serial => BackendsAgree

\* A turn is told once: not by two rows of the table, whatever prompts and
\* failures did, as long as no two jobs read it before one replaced its prefix;
\* and not by two entries of the list.
TurnsToldOnce ==
  /\ "jobs" \notin met => TurnsFoldedOnce
  /\ Serial => CacheHoldsTurnsOnce

\* The count a job made from the table cuts from the list what it summarised,
\* although the table has an earlier summary elsewhere than the list.
SerialTrimsOnlyThePrefix == [][Serial => TrimsOnlyThePrefix]_vars
-----------------------------------------------------------------------------
(* Progress. *)

\* Every prompt that began ends, and every job that was dispatched ends.
PromptsAndJobsEnd ==
  \A p \in Prompts :
    /\ p \in InFlight ~> p \notin InFlight
    /\ p \in Compacting ~> p \notin Compacting

\* A table that has outgrown the trigger is brought back below it, unless
\* something fails.
LongHistoryIsCompacted ==
  Cardinality(rows) > TurnTrigger ~> Cardinality(rows) <= TurnTrigger \/ faults > 0
=============================================================================
