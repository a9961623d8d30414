-------------------------- MODULE ChatMemoryProofs --------------------------
(***************************************************************************)
(* Theorems about ChatMemory, for any set of prompts and any setting: its  *)
(* types, the identity of its rows, what a finished prompt has archived,   *)
(* that the table implements ChatArchive, that keys expire, and that table *)
(* and list tell the same turns, each once.                                *)
(***************************************************************************)
EXTENDS ChatMemory, FiniteSetTheorems, SequenceTheorems, TLAPS
-----------------------------------------------------------------------------
(* The operators the model is built from. *)

\* Trimming a list leaves a list of the same elements.
LEMMA LTrimType ==
  ASSUME NEW S, NEW q \in Seq(S), NEW a \in Nat, NEW b \in Int
  PROVE  LTrim(q, a, b) \in Seq(S)
<1> DEFINE e == IF b + 1 <= Len(q) THEN b + 1 ELSE Len(q)
<1>1. e \in Int /\ a + 1 \in Int /\ e <= Len(q)
  BY LenProperties
<1>2. \A i \in (a + 1)..e : q[i] \in S
  BY <1>1, LenProperties
<1> HIDE DEF e
<1>3. SubSeq(q, a + 1, e) \in Seq(S)
  BY <1>1, <1>2, SubSeqProperties
<1> QED BY <1>3 DEF LTrim, e

\* So does taking its tail.
LEMMA SliceTailType ==
  ASSUME NEW S, NEW q \in Seq(S), NEW n \in Nat
  PROVE  SliceTail(q, n) \in Seq(S)
<1> DEFINE m == MaxOf(0, Len(q) - n) + 1
<1>1. m \in Nat /\ m >= 1 /\ Len(q) \in Nat
  BY LenProperties DEF MaxOf
<1>2. \A i \in m..Len(q) : q[i] \in S
  BY <1>1, LenProperties
<1> HIDE DEF m
<1>3. SubSeq(q, m, Len(q)) \in Seq(S)
  BY <1>1, <1>2, SubSeqProperties
<1> QED BY <1>3 DEF SliceTail, m

\* In a finite set of rows with distinct ids each row has a rank of its own, and
\* every rank is taken.
Rank(S) == [r \in S |-> Cardinality(Older(S, r))]

LEMMA RankBijection ==
  ASSUME NEW S \in SUBSET Row, IsFiniteSet(S),
         \A r, s \in S : r.id = s.id => r = s
  PROVE  /\ Cardinality(S) \in Nat
         /\ Rank(S) \in Injection(S, 0..(Cardinality(S) - 1))
         /\ Rank(S) \in Surjection(S, 0..(Cardinality(S) - 1))
<1> DEFINE n == Cardinality(S)
           rank == [r \in S |-> Cardinality(Older(S, r))]
<1>1. n \in Nat
  BY FS_CardinalityType
<1>2. ASSUME NEW r \in S
      PROVE  rank[r] \in 0..(n - 1)
  <2>1. Older(S, r) \in SUBSET S /\ r \notin Older(S, r)
    BY DEF Older, Row
  <2>2. IsFiniteSet(Older(S, r)) /\ Cardinality(Older(S, r)) <= n /\ Cardinality(Older(S, r)) # n
    BY <2>1, FS_Subset
  <2>3. Cardinality(Older(S, r)) \in Nat
    BY <2>2, FS_CardinalityType
  <2> QED BY <2>2, <2>3, <1>1
<1>3. ASSUME NEW r \in S, NEW s \in S, r.id < s.id
      PROVE  rank[r] < rank[s]
  <2>1. r.id \in Nat /\ s.id \in Nat /\ \A x \in S : x.id \in Nat
    BY DEF Row
  <2>2. /\ Older(S, s) \in SUBSET S
        /\ Older(S, r) \in SUBSET Older(S, s)
        /\ r \in Older(S, s) \ Older(S, r)
    BY <1>3, <2>1 DEF Older
  <2>3. IsFiniteSet(Older(S, s))
    BY <2>2, FS_Subset
  <2>4. /\ Cardinality(Older(S, r)) <= Cardinality(Older(S, s))
        /\ Cardinality(Older(S, r)) # Cardinality(Older(S, s))
    BY <2>2, <2>3, FS_Subset
  <2> QED BY <2>4, <1>2
<1>4. rank \in Injection(S, 0..(n - 1))
  <2>1. rank \in [S -> 0..(n - 1)]
    BY <1>2
  <2>2. ASSUME NEW r \in S, NEW s \in S, rank[r] = rank[s]
        PROVE  r = s
    <3>1. rank[r] \in Int /\ rank[s] \in Int
      BY <1>2
    <3>2. r.id \in Nat /\ s.id \in Nat
      BY DEF Row
    <3>3. ~ (r.id < s.id) /\ ~ (s.id < r.id)
      BY <1>3, <2>2, <3>1
    <3> QED BY <3>2, <3>3
  <2> HIDE DEF rank
  <2> QED BY <2>1, <2>2 DEF Injection, IsInjective
<1> HIDE DEF rank
<1>5. IsFiniteSet(0..(n - 1)) /\ Cardinality(0..(n - 1)) = n
  <2> HIDE DEF n
  <2>1. 0 \in Int /\ n - 1 \in Int
    BY <1>1
  <2>2. /\ IsFiniteSet(0..(n - 1))
        /\ Cardinality(0..(n - 1)) = IF 0 > n - 1 THEN 0 ELSE (n - 1) - 0 + 1
    BY <2>1, FS_Interval
  <2> QED BY <2>2, <1>1
<1>6. rank \in Surjection(S, 0..(n - 1))
  BY <1>4, <1>5, FS_Injection
<1>7. rank = Rank(S)
  BY DEF rank, Rank
<1> HIDE DEF n
<1>8. n \in Nat /\ Rank(S) \in Injection(S, 0..(n - 1)) /\ Rank(S) \in Surjection(S, 0..(n - 1))
  BY <1>1, <1>4, <1>6, <1>7
<1> QED BY <1>8 DEF n

\* So the Listing of the set names a row at every index.
LEMMA RankExists ==
  ASSUME NEW S \in SUBSET Row, IsFiniteSet(S),
         \A r, s \in S : r.id = s.id => r = s,
         NEW i \in 1..Cardinality(S)
  PROVE  \E r \in S : Cardinality(Older(S, r)) = i - 1
<1>1. Cardinality(S) \in Nat /\ Rank(S) \in Surjection(S, 0..(Cardinality(S) - 1))
  BY RankBijection
<1>2. i - 1 \in 0..(Cardinality(S) - 1)
  BY <1>1
<1>3. PICK r \in S : Rank(S)[r] = i - 1
  BY <1>1, <1>2 DEF Surjection
<1> QED BY <1>3 DEF Rank

\* The listing of such a set is a list of entries.
LEMMA ListingType ==
  ASSUME NEW S \in SUBSET Row, IsFiniteSet(S),
         \A r, s \in S : r.id = s.id => r = s
  PROVE  Listing(S) \in Seq(Entry)
<1> DEFINE at(i) == CHOOSE r \in S : Cardinality(Older(S, r)) = i - 1
<1>1. Cardinality(S) \in Nat
  BY FS_CardinalityType
<1>2. ASSUME NEW i \in 1..Cardinality(S)
      PROVE  EntryOf(at(i)) \in Entry
  <2>1. at(i) \in Row
    BY RankExists
  <2> HIDE DEF at
  <2> QED BY <2>1 DEF EntryOf, Entry, Row
<1> DEFINE n == Cardinality(S)
<1>3. [i \in 1..n |-> EntryOf(at(i))] \in [1..n -> Entry]
  BY <1>2
<1> HIDE DEF at
<1>4. [i \in 1..n |-> EntryOf(at(i))] \in Seq(Entry)
  BY <1>1, <1>3, SeqDef
<1> QED BY <1>4 DEF Listing, at
-----------------------------------------------------------------------------
(* Type correctness. *)

\* What the types need of the table: finitely many rows, told apart by ids
\* that were all handed out before the next one.
RowsInv ==
  /\ IsFiniteSet(rows)
  /\ \A r \in rows : r.id < nextId
  /\ \A r, s \in rows : r.id = s.id => r = s
  /\ \A p \in Prompts : IsFiniteSet(prefix[p])

TypeInv == TypeOK /\ RowsInv

LEMMA CacheSizePositive == EffectiveCacheSize \in Nat \ {0}
  BY ConfigAssumption DEF EffectiveCacheSize, MaxOf

LEMMA EntryTypes ==
  /\ \A p \in Prompts, i \in {1, 2} : RawEntry(p, i) \in Entry
  /\ \A S \in SUBSET Row : SummaryOf(S) \in Entry
  /\ \A id \in Nat, e \in Entry : RowOf(id, e) \in Row
  BY DEF RawEntry, SummaryOf, RowOf, Entry, Row, Role, Turn

\* Rows with a fresh id may join.
LEMMA AddRow ==
  ASSUME TypeInv, NEW S \in SUBSET rows, NEW e \in Entry,
         rows' = S \cup {RowOf(nextId, e)}, nextId' = nextId + 1
  PROVE  /\ rows' \subseteq Row /\ nextId' \in Nat
         /\ IsFiniteSet(rows')
         /\ \A r \in rows' : r.id < nextId'
         /\ \A r, s \in rows' : r.id = s.id => r = s
<1> DEFINE new == RowOf(nextId, e)
<1>1. new \in Row /\ new.id = nextId
  BY EntryTypes DEF RowOf, TypeInv, TypeOK
<1>2. IsFiniteSet(S) /\ IsFiniteSet(S \cup {new})
  BY FS_Subset, FS_AddElement DEF TypeInv, RowsInv
<1>3. \A r \in rows : r.id \in Nat /\ r.id < nextId
  BY DEF TypeInv, TypeOK, RowsInv, Row
<1>4. nextId \in Nat
  BY DEF TypeInv, TypeOK
<1>5. rows \subseteq Row /\ \A r, s \in rows : r.id = s.id => r = s
  BY DEF TypeInv, TypeOK, RowsInv
<1> HIDE DEF new
<1>6. rows' = S \cup {new}
  BY DEF new
<1>7. \A r \in rows' : r = new \/ r \in rows
  BY <1>6
<1>8. rows' \subseteq Row
  BY <1>1, <1>5, <1>7
<1>9. IsFiniteSet(rows')
  BY <1>2, <1>6
<1>10. \A r \in rows' : r.id < nextId'
  BY <1>1, <1>3, <1>4, <1>7
<1>11. \A r, s \in rows' : r.id = s.id => r = s
  BY <1>1, <1>3, <1>4, <1>5, <1>7
<1> QED BY <1>4, <1>8, <1>9, <1>10, <1>11

LEMMA TypeInit == Init => TypeInv
<1> SUFFICES ASSUME Init PROVE TypeInv
  OBVIOUS
<1>1. TypeOK
  BY EmptySeq DEF Init, TypeOK, PromptState, JobState
<1>2. RowsInv
  BY FS_EmptySet DEF Init, RowsInv
<1> QED BY <1>1, <1>2 DEF TypeInv
\* What a prefix is cut from, and how much the cache may change.
LEMMA PrefixType ==
  ASSUME TypeInv
  PROVE  /\ PrefixToCompact(rows) \in SUBSET rows
         /\ IsFiniteSet(PrefixToCompact(rows))
<1>1. PrefixToCompact(rows) \in SUBSET rows
  BY DEF PrefixToCompact, Oldest
<1> QED BY <1>1, FS_Subset DEF TypeInv, RowsInv

LEMMA HydratedType ==
  ASSUME TypeInv
  PROVE  Listing(Newest(rows, EffectiveCacheSize)) \in Seq(Entry)
<1> DEFINE S == Newest(rows, EffectiveCacheSize)
<1>1. S \in SUBSET rows
  BY DEF Newest
<1>2. S \in SUBSET Row /\ IsFiniteSet(S) /\ \A r, s \in S : r.id = s.id => r = s
  BY <1>1, FS_Subset DEF TypeInv, TypeOK, RowsInv
<1> HIDE DEF S
<1>3. Listing(S) \in Seq(Entry)
  BY <1>2, ListingType
<1> QED BY <1>3 DEF S

LEMMA TypeStep == TypeInv /\ [Next]_vars => TypeInv'
<1> SUFFICES ASSUME TypeInv, [Next]_vars PROVE TypeInv'
  OBVIOUS
<1> USE DEF TypeInv
<1> USE DEF cacheVars, tableVars, promptVars, jobVars, ghostVars, Goto, JobGoto, EndJob,
            Forget, Fault, WriteList, ExpireCommand
<1>1. ASSUME NEW p \in Prompts, BeginPrompt(p) PROVE TypeInv'
  BY <1>1 DEF BeginPrompt, TypeOK, RowsInv, PromptState, AfterRedis, Interference
<1>2. ASSUME NEW p \in Prompts, LoadFromRedis(p) PROVE TypeInv'
  <2>1. SliceTail(redis, LoadLimit) \in Seq(Entry)
    BY SliceTailType, ConfigAssumption DEF TypeOK
  <2> QED BY <1>2, <2>1 DEF LoadFromRedis, TypeOK, RowsInv, PromptState, AfterRedis
<1>3. ASSUME NEW p \in Prompts, LoadFromPostgres(p) PROVE TypeInv'
  <2> DEFINE hydrated == Listing(Newest(rows, EffectiveCacheSize))
  <2>1. hydrated \in Seq(Entry)
    BY HydratedType
  <2> HIDE DEF hydrated
  <2>2. SliceTail(hydrated, LoadLimit) \in Seq(Entry)
    BY <2>1, SliceTailType, ConfigAssumption
  <2>3. /\ \/ history' = [history EXCEPT ![p] = hydrated]
           \/ history' = [history EXCEPT ![p] = SliceTail(hydrated, LoadLimit)]
        /\ \/ pc' = [pc EXCEPT ![p] = "hydrate"]
           \/ pc' = [pc EXCEPT ![p] = "llm"]
        /\ UNCHANGED <<cacheVars, tableVars, msg, jobVars, ghostVars, faults>>
    BY <1>3 DEF LoadFromPostgres, hydrated
  <2>4. history' \in [Prompts -> Seq(Entry)]
    <3>1. PICK h \in Seq(Entry) : history' = [history EXCEPT ![p] = h]
      BY <2>1, <2>2, <2>3
    <3>2. history \in [Prompts -> Seq(Entry)]
      BY DEF TypeOK
    <3> QED BY <3>1, <3>2
  <2>5. pc' \in [Prompts -> PromptState]
    BY <2>3 DEF TypeOK, PromptState
  <2> QED BY <2>3, <2>4, <2>5 DEF TypeOK, RowsInv
<1>4. ASSUME NEW p \in Prompts, PopulateCache(p) PROVE TypeInv'
  <2>1. redis \o history[p] \in Seq(Entry)
    BY ConcatProperties DEF TypeOK
  <2> QED BY <1>4, <2>1 DEF PopulateCache, TypeOK, RowsInv, PromptState
<1>5. ASSUME NEW p \in Prompts, ExpireHydrated(p) PROVE TypeInv'
  <2>1. SliceTail(history[p], LoadLimit) \in Seq(Entry)
    BY SliceTailType, ConfigAssumption DEF TypeOK
  <2> QED BY <1>5, <2>1 DEF ExpireHydrated, TypeOK, RowsInv, PromptState
<1>6. ASSUME NEW p \in Prompts, ChatReply(p) PROVE TypeInv'
  BY <1>6, EmptySeq DEF ChatReply, TypeOK, RowsInv, PromptState, FirstWrite
<1>7. ASSUME NEW p \in Prompts, NextMessage(p)
      PROVE  /\ pc' \in [Prompts -> PromptState]
             /\ msg' \in [Prompts -> {1, 2}]
             /\ job' \in [Prompts -> JobState]
             /\ lastDone' \subseteq Prompts
             /\ met' \subseteq Interference
  BY <1>7 DEF NextMessage, FinishAdd, FirstWrite, TypeOK, PromptState, JobState, Interference
<1>8. ASSUME NEW p \in Prompts, PushMessage(p) PROVE TypeInv'
  <2>0. RawEntry(p, msg[p]) \in Entry /\ redis \in Seq(Entry)
    BY EntryTypes DEF TypeOK
  <2>1. Append(redis, RawEntry(p, msg[p])) \in Seq(Entry)
    BY <2>0, AppendProperties
  <2>2. /\ pc' \in [Prompts -> PromptState] /\ msg' \in [Prompts -> {1, 2}]
        /\ job' \in [Prompts -> JobState] /\ lastDone' \subseteq Prompts
        /\ met' \subseteq Interference
    BY <1>8, <1>7 DEF PushMessage, TypeOK, PromptState
  <2> QED BY <1>8, <2>1, <2>2 DEF PushMessage, TypeOK, RowsInv
<1>9. ASSUME NEW p \in Prompts, PersistToDb(p) PROVE TypeInv'
  <2>1. RawEntry(p, msg[p]) \in Entry
    BY EntryTypes DEF TypeOK
  <2>2. rows' \subseteq Row /\ nextId' \in Nat /\ IsFiniteSet(rows')
        /\ (\A r \in rows' : r.id < nextId') /\ \A r, s \in rows' : r.id = s.id => r = s
    BY <1>9, <2>1, AddRow DEF PersistToDb
  <2> QED BY <1>9, <1>7, <2>2 DEF PersistToDb, TypeOK, RowsInv
<1>10. ASSUME NEW p \in Prompts, PersistFails(p) PROVE TypeInv'
  BY <1>10, <1>7 DEF PersistFails, TypeOK, RowsInv, Turn
<1>11. ASSUME NEW p \in Prompts, TrimCache(p) PROVE TypeInv'
  <2>1. EffectiveCacheSize - 1 \in Int
    BY CacheSizePositive
  <2>2. LTrim(redis, 0, EffectiveCacheSize - 1) \in Seq(Entry)
    BY <2>1, LTrimType DEF TypeOK
  <2> QED BY <1>11, <2>2 DEF TrimCache, TypeOK, RowsInv, PromptState
<1>12. ASSUME NEW p \in Prompts, ExpireCache(p) PROVE TypeInv'
  BY <1>12 DEF ExpireCache, FinishAdd, TypeOK, RowsInv, PromptState, JobState, Interference
<1>13. ASSUME NEW p \in Prompts, PromptFails(p) PROVE TypeInv'
  BY <1>13, EmptySeq DEF PromptFails, TypeOK, RowsInv, PromptState
<1>14. ASSUME NEW p \in Prompts, ReadAndDecide(p) PROVE TypeInv'
  <2> DEFINE S == IF PostgresEnabled THEN PrefixToCompact(rows) ELSE {}
  <2>1. S \in SUBSET rows /\ IsFiniteSet(S)
    BY PrefixType, FS_EmptySet
  <2> HIDE DEF S
  <2>2. /\ \/ prefix' = [prefix EXCEPT ![p] = {}]
           \/ prefix' = [prefix EXCEPT ![p] = S]
        /\ \/ job' = [job EXCEPT ![p] = "done"]
           \/ job' = [job EXCEPT ![p] = "summarise"]
        /\ UNCHANGED <<cacheVars, tableVars, promptVars, ghostVars, faults>>
    BY <1>14 DEF ReadAndDecide, S
  <2> QED BY <2>1, <2>2, FS_EmptySet DEF TypeOK, RowsInv, JobState
<1>15. ASSUME NEW p \in Prompts, Summarise(p) PROVE TypeInv'
  BY <1>15 DEF Summarise, TypeOK, RowsInv, JobState
<1>16. ASSUME NEW p \in Prompts, ReplacePrefix(p) PROVE TypeInv'
  <2> DEFINE S == {r \in rows : \A x \in prefix[p] : r.id # x.id}
  <2>1. SummaryOf(prefix[p]) \in Entry /\ S \in SUBSET rows
    BY EntryTypes DEF TypeOK
  <2> HIDE DEF S
  <2>2. rows' = S \cup {RowOf(nextId, SummaryOf(prefix[p]))} /\ nextId' = nextId + 1
    BY <1>16 DEF ReplacePrefix, S
  <2>3. rows' \subseteq Row /\ nextId' \in Nat /\ IsFiniteSet(rows')
        /\ (\A r \in rows' : r.id < nextId') /\ \A r, s \in rows' : r.id = s.id => r = s
    BY <2>1, <2>2, AddRow
  <2>4. /\ prefix' \in [Prompts -> SUBSET Row] /\ job' \in [Prompts -> JobState]
        /\ \A q \in Prompts : IsFiniteSet(prefix'[q])
    BY <1>16, FS_EmptySet DEF ReplacePrefix, TypeOK, RowsInv, JobState
  <2> QED BY <1>16, <2>3, <2>4 DEF ReplacePrefix, TypeOK, RowsInv
<1>17. ASSUME NEW p \in Prompts, TrimPrefix(p) PROVE TypeInv'
  <2>1. Cardinality(prefix[p]) \in Nat /\ Len(redis) - 1 \in Int
    BY FS_CardinalityType, LenProperties DEF TypeOK, RowsInv
  <2>2. LTrim(redis, Cardinality(prefix[p]), Len(redis) - 1) \in Seq(Entry)
    BY <2>1, LTrimType DEF TypeOK
  <2> QED BY <1>17, <2>2 DEF TrimPrefix, TypeOK, RowsInv, JobState
<1>18. ASSUME NEW p \in Prompts, PushSummary(p) PROVE TypeInv'
  <2>1. SummaryOf(prefix[p]) \in Entry
    BY EntryTypes DEF TypeOK
  <2>2. <<SummaryOf(prefix[p])>> \o redis \in Seq(Entry)
    BY <2>1, ConcatProperties DEF TypeOK
  <2> QED BY <1>18, <2>2 DEF PushSummary, TypeOK, RowsInv, JobState
<1>19. ASSUME NEW p \in Prompts, ExpireSummary(p) PROVE TypeInv'
  BY <1>19, FS_EmptySet DEF ExpireSummary, TypeOK, RowsInv, JobState
<1>20. ASSUME NEW p \in Prompts, JobFails(p) PROVE TypeInv'
  BY <1>20, FS_EmptySet DEF JobFails, TypeOK, RowsInv, JobState
<1>21. CASE KeyExpires
  BY <1>21, EmptySeq DEF KeyExpires, TypeOK, RowsInv, Interference
<1>22. CASE Crash
  BY <1>22, EmptySeq, FS_EmptySet DEF Crash, TypeOK, RowsInv, PromptState, JobState
<1>23. CASE UNCHANGED vars
  BY <1>23 DEF vars, TypeOK, RowsInv
<1> QED
  BY <1>1, <1>2, <1>3, <1>4, <1>5, <1>6, <1>8, <1>9, <1>10, <1>11, <1>12, <1>13, <1>14,
     <1>15, <1>16, <1>17, <1>18, <1>19, <1>20, <1>21, <1>22, <1>23
  DEF Next, PromptStep, JobStep, Finished

\* Every variable keeps its type, for any prompts and any configuration: in
\* particular a message list built by hydration, trimming and compaction is
\* always a list of messages.
THEOREM TypeCorrect == Spec => []TypeOK
<1>1. TypeInv => TypeOK
  BY DEF TypeInv
<1> QED BY <1>1, TypeInit, TypeStep, PTL DEF Spec
-----------------------------------------------------------------------------
(* The archive.  Neither property below is inductive.  A finished prompt's *)
(* turns are archived because each of its earlier steps put one there, and *)
(* a turn is archived once because a prompt has not saved before its turn  *)
(* comes: LedgerInv says where each prompt stands with the table.          *)
(* Compaction keeps what is covered only because a job deletes rows it     *)
(* read: RowIdsAreStable says an id still means the row the job read.      *)

BeforeSaving == {"new", "range", "select", "hydrate", "expireHydrated", "llm"}
Saving == {"push", "insert"}
Saved == {"trim", "expire", "done"}

\* Where one prompt stands with the table.
LedgerOf(p) ==
  /\ pc[p] \in BeforeSaving => msg[p] = 1
  /\ pc[p] \in BeforeSaving \cup Saving =>
       \A i \in {1, 2} : i >= msg[p] => <<p, i>> \notin Covered(rows)
  /\ PostgresEnabled /\ pc[p] \in Saving /\ msg[p] = 2 =>
       <<p, 1>> \in Covered(rows) \cup unsaved
  /\ PostgresEnabled /\ pc[p] \in Saved =>
       TurnsOf(p) \subseteq Covered(rows) \cup unsaved

LedgerInv == \A p \in Prompts : LedgerOf(p)

ArchiveInv == TypeInv /\ RowIdsAreStable /\ LedgerInv
LEMMA CoveredElement ==
  ASSUME NEW S, NEW t
  PROVE  t \in Covered(S) <=> \E r \in S : t \in r.turns
  BY DEF Covered

\* The two steps that touch the table, and what they do to the archive.
LEMMA RowsStep ==
  ASSUME [Next]_vars
  PROVE  \/ UNCHANGED rows
         \/ \E p \in Prompts : PersistToDb(p)
         \/ \E p \in Prompts : ReplacePrefix(p)
  BY DEF Next, PromptStep, JobStep, BeginPrompt, LoadFromRedis, LoadFromPostgres,
         PopulateCache, ExpireHydrated, ChatReply, PushMessage, PersistFails, TrimCache,
         ExpireCache, PromptFails, ReadAndDecide, Summarise, TrimPrefix, PushSummary,
         ExpireSummary, JobFails, KeyExpires, Crash, Finished, tableVars, vars

\* PersistToDb archives the message its prompt is at, which was not archived.
LEMMA PersistArchives ==
  ASSUME ArchiveInv, NEW p \in Prompts, PersistToDb(p)
  PROVE  /\ Covered(rows') = Covered(rows) \cup {<<p, msg[p]>>}
         /\ <<p, msg[p]>> \notin Covered(rows)
<1> DEFINE new == RowOf(nextId, RawEntry(p, msg[p]))
<1>1. new.turns = {<<p, msg[p]>>}
  BY DEF RowOf, RawEntry
<1> HIDE DEF new
<1>2. rows' = rows \cup {new}
  BY DEF PersistToDb, new
<1>3. \A t : t \in Covered(rows') <=> t \in Covered(rows) \cup {<<p, msg[p]>>}
  BY <1>1, <1>2, CoveredElement
<1>4. <<p, msg[p]>> \notin Covered(rows)
  <2>1. pc[p] = "insert" /\ msg[p] \in {1, 2}
    BY DEF PersistToDb, ArchiveInv, TypeInv, TypeOK
  <2>2. \A i \in {1, 2} : i >= msg[p] => <<p, i>> \notin Covered(rows)
    BY <2>1 DEF ArchiveInv, LedgerInv, LedgerOf, Saving
  <2>3. msg[p] >= msg[p]
    BY <2>1
  <2> QED BY <2>1, <2>2, <2>3
<1> QED BY <1>3, <1>4

\* ReplacePrefix archives nothing and forgets nothing.
LEMMA ReplaceKeeps ==
  ASSUME ArchiveInv, NEW p \in Prompts, ReplacePrefix(p)
  PROVE  Covered(rows') = Covered(rows)
<1> DEFINE new == RowOf(nextId, SummaryOf(prefix[p]))
           S == {r \in rows : \A x \in prefix[p] : r.id # x.id}
<1>1. new.turns = Covered(prefix[p])
  BY DEF RowOf, SummaryOf, Covered
<1>2. /\ Covered(prefix[p]) \subseteq Covered(rows)
      /\ \A x \in prefix[p] : \A r \in rows : r.id = x.id => r = x
  BY DEF ReplacePrefix, ArchiveInv, RowIdsAreStable
<1>3. rows' = S \cup {new}
  BY DEF ReplacePrefix
<1>4. \A r \in rows : r \in S \/ r \in prefix[p]
  BY <1>2
<1>5. S \subseteq rows
  OBVIOUS
<1> HIDE DEF S, new
<1>6. \A t : t \in Covered(rows') <=> t \in Covered(rows)
  BY <1>1, <1>2, <1>3, <1>4, <1>5, CoveredElement
<1> QED BY <1>6

LEMMA ArchiveGrows ==
  ASSUME ArchiveInv, [Next]_vars
  PROVE  Covered(rows) \subseteq Covered(rows')
  BY RowsStep, PersistArchives, ReplaceKeeps DEF Covered

\* A job that is about to replace rows either already was, with the same
\* prefix, or has just cut the prefix from the table.
LEMMA PrefixStep ==
  ASSUME TypeInv, [Next]_vars, NEW q \in Prompts, job'[q] \in {"summarise", "replace"}
  PROVE  \/ job[q] \in {"summarise", "replace"} /\ prefix'[q] = prefix[q]
         \/ UNCHANGED <<rows, nextId>> /\ prefix'[q] \subseteq rows
<1> USE DEF TypeInv, TypeOK, Goto, JobGoto, EndJob
<1>1. CASE \E p \in Prompts : ReadAndDecide(p)
  <2>1. PICK p \in Prompts : ReadAndDecide(p)
    BY <1>1
  <2> DEFINE S == IF PostgresEnabled THEN PrefixToCompact(rows) ELSE {}
  <2>2. S \subseteq rows
    BY PrefixType
  <2> HIDE DEF S
  <2>3. /\ \/ prefix' = [prefix EXCEPT ![p] = {}] /\ job' = [job EXCEPT ![p] = "done"]
           \/ prefix' = [prefix EXCEPT ![p] = S] /\ job' = [job EXCEPT ![p] = "summarise"]
        /\ UNCHANGED <<rows, nextId>>
    BY <2>1 DEF ReadAndDecide, S, tableVars
  <2> QED BY <2>2, <2>3
<1>2. CASE \E p \in Prompts : Summarise(p)
  BY <1>2 DEF Summarise
<1>3. CASE \E p \in Prompts : ReplacePrefix(p)
  BY <1>3 DEF ReplacePrefix
<1>4. CASE \E p \in Prompts : TrimPrefix(p) \/ PushSummary(p) \/ ExpireSummary(p) \/ JobFails(p)
  BY <1>4 DEF TrimPrefix, PushSummary, ExpireSummary, JobFails
<1>5. CASE \E p \in Prompts : PushMessage(p) \/ PersistToDb(p) \/ PersistFails(p) \/ ExpireCache(p)
  BY <1>5 DEF PushMessage, PersistToDb, PersistFails, ExpireCache, NextMessage, FinishAdd
<1>6. CASE \E p \in Prompts :
        \/ BeginPrompt(p) \/ LoadFromRedis(p) \/ LoadFromPostgres(p) \/ PopulateCache(p)
        \/ ExpireHydrated(p) \/ ChatReply(p) \/ TrimCache(p) \/ PromptFails(p)
  BY <1>6 DEF BeginPrompt, LoadFromRedis, LoadFromPostgres, PopulateCache, ExpireHydrated,
              ChatReply, TrimCache, PromptFails, jobVars
<1>7. CASE KeyExpires \/ UNCHANGED vars
  BY <1>7 DEF KeyExpires, vars, jobVars
<1>8. CASE Crash
  BY <1>8 DEF Crash, Compacting
<1> QED
  BY <1>1, <1>2, <1>3, <1>4, <1>5, <1>6, <1>7, <1>8 DEF Next, PromptStep, JobStep, Finished
LEMMA StableStep == ArchiveInv /\ [Next]_vars => RowIdsAreStable'
<1> SUFFICES ASSUME ArchiveInv, [Next]_vars PROVE RowIdsAreStable'
  OBVIOUS
<1>1. TypeInv'
  BY TypeStep DEF ArchiveInv
<1>2. /\ \A r \in rows' : r.id < nextId'
      /\ \A r, s \in rows' : r.id = s.id => r = s
  BY <1>1 DEF TypeInv, RowsInv
<1>3. nextId <= nextId' /\ \A r \in rows' : r \in rows \/ r.id = nextId
  <2>1. nextId \in Nat
    BY DEF ArchiveInv, TypeInv, TypeOK
  <2>2. CASE \E p \in Prompts : PersistToDb(p)
    BY <2>1, <2>2 DEF PersistToDb, RowOf
  <2>3. CASE \E p \in Prompts : ReplacePrefix(p)
    BY <2>1, <2>3 DEF ReplacePrefix, RowOf
  <2>4. CASE UNCHANGED rows
    <3>1. nextId' = nextId \/ nextId' = nextId + 1
      BY DEF Next, PromptStep, JobStep, BeginPrompt, LoadFromRedis, LoadFromPostgres,
             PopulateCache, ExpireHydrated, ChatReply, PushMessage, PersistToDb, PersistFails,
             TrimCache, ExpireCache, PromptFails, ReadAndDecide, Summarise, ReplacePrefix,
             TrimPrefix, PushSummary, ExpireSummary, JobFails, KeyExpires, Crash, Finished,
             tableVars, vars
    <3> QED BY <3>1, <2>1, <2>4
  <2> QED BY RowsStep, <2>2, <2>3, <2>4
<1>4. ASSUME NEW q \in Prompts, job'[q] \in {"summarise", "replace"}
      PROVE  /\ Covered(prefix'[q]) \subseteq Covered(rows')
             /\ \A x \in prefix'[q] :
                  /\ x.id < nextId'
                  /\ \A r \in rows' : r.id = x.id => r = x
  <2>1. CASE job[q] \in {"summarise", "replace"} /\ prefix'[q] = prefix[q]
    <3>1. /\ Covered(prefix[q]) \subseteq Covered(rows)
          /\ \A x \in prefix[q] : x.id < nextId /\ \A r \in rows : r.id = x.id => r = x
      BY <2>1 DEF ArchiveInv, RowIdsAreStable
    <3>2. Covered(prefix'[q]) \subseteq Covered(rows')
      BY <2>1, <3>1, ArchiveGrows
    <3>3. nextId \in Nat /\ nextId' \in Nat /\ \A x \in prefix[q] : x.id \in Nat
      BY <1>1 DEF ArchiveInv, TypeInv, TypeOK, Row
    <3> QED BY <2>1, <3>1, <3>2, <3>3, <1>3
  <2>2. CASE UNCHANGED <<rows, nextId>> /\ prefix'[q] \subseteq rows
    <3>1. Covered(prefix'[q]) \subseteq Covered(rows')
      BY <2>2 DEF Covered
    <3> QED BY <2>2, <3>1, <1>2
  <2> QED BY <1>4, <2>1, <2>2, PrefixStep DEF ArchiveInv
<1> QED BY <1>2, <1>4 DEF RowIdsAreStable

\* A prompt the step leaves alone keeps its ledger, if none of its turns
\* was archived behind its back.
LEMMA LedgerFrame ==
  ASSUME NEW q \in Prompts, LedgerOf(q),
         pc'[q] = pc[q], msg'[q] = msg[q], unsaved \subseteq unsaved',
         Covered(rows) \subseteq Covered(rows'),
         \A i \in {1, 2} : <<q, i>> \in Covered(rows') => <<q, i>> \in Covered(rows)
  PROVE  LedgerOf(q)'
  BY DEF LedgerOf

LEMMA NextMessageEffect ==
  ASSUME TypeInv, NEW p \in Prompts, NextMessage(p)
  PROVE  /\ msg[p] = 1 => msg'[p] = 2 /\ pc'[p] \in Saving
         /\ msg[p] = 2 => msg'[p] = 2 /\ pc'[p] \in Saved
         /\ \A q \in Prompts : q # p => pc'[q] = pc[q] /\ msg'[q] = msg[q]
  BY DEF NextMessage, FinishAdd, Goto, FirstWrite, TypeInv, TypeOK, Saving, Saved

\* A prompt moves on without touching the table.
LEMMA LedgerQuietStep ==
  ASSUME ArchiveInv, NEW p \in Prompts, UNCHANGED <<rows, msg, unsaved>>,
         \A q \in Prompts : q # p => pc'[q] = pc[q],
         \/ pc[p] \in BeforeSaving /\ pc'[p] \in BeforeSaving \cup Saving
         \/ pc[p] \in BeforeSaving /\ pc'[p] \in Saved /\ ~ PostgresEnabled
         \/ pc[p] \in Saving /\ pc'[p] \in Saving
         \/ pc[p] \in Saved /\ pc'[p] \in Saved
  PROVE  LedgerInv'
<1> SUFFICES ASSUME NEW q \in Prompts PROVE LedgerOf(q)'
  BY DEF LedgerInv
<1>1. LedgerOf(q)
  BY DEF ArchiveInv, LedgerInv
<1>2. CASE q # p
  BY <1>1, <1>2, LedgerFrame
<1>3. CASE q = p
  BY <1>1, <1>3 DEF LedgerOf, BeforeSaving, Saving, Saved
<1> QED BY <1>2, <1>3

LEMMA LedgerStep == ArchiveInv /\ [Next]_vars => LedgerInv'
<1> SUFFICES ASSUME ArchiveInv, [Next]_vars PROVE LedgerInv'
  OBVIOUS
<1>0. /\ TypeInv /\ pc \in [Prompts -> PromptState] /\ msg \in [Prompts -> {1, 2}]
      /\ \A q \in Prompts : LedgerOf(q)
  BY DEF ArchiveInv, TypeInv, TypeOK, LedgerInv
<1>1. CASE \E p \in Prompts : \/ BeginPrompt(p) \/ LoadFromRedis(p) \/ LoadFromPostgres(p)
                              \/ PopulateCache(p) \/ ExpireHydrated(p)
  <2>1. PICK p \in Prompts : \/ BeginPrompt(p) \/ LoadFromRedis(p) \/ LoadFromPostgres(p)
                             \/ PopulateCache(p) \/ ExpireHydrated(p)
    BY <1>1
  <2>2. /\ pc[p] \in BeforeSaving /\ pc'[p] \in BeforeSaving
        /\ \A q \in Prompts : q # p => pc'[q] = pc[q]
        /\ UNCHANGED <<rows, msg, unsaved>>
    BY <1>0, <2>1 DEF BeginPrompt, LoadFromRedis, LoadFromPostgres, PopulateCache, ExpireHydrated,
                      Goto, AfterRedis, BeforeSaving, tableVars, ghostVars
  <2> QED BY <2>2, LedgerQuietStep
<1>2. CASE \E p \in Prompts : ChatReply(p)
  <2>1. PICK p \in Prompts : ChatReply(p)
    BY <1>2
  <2>2. /\ pc[p] \in BeforeSaving
        /\ pc'[p] \in Saving \/ (pc'[p] \in Saved /\ ~ PostgresEnabled)
        /\ \A q \in Prompts : q # p => pc'[q] = pc[q]
        /\ UNCHANGED <<rows, msg, unsaved>>
    BY <1>0, <2>1 DEF ChatReply, Goto, FirstWrite, BeforeSaving, Saving, Saved, tableVars
  <2> QED BY <2>2, LedgerQuietStep
<1>3. CASE \E p \in Prompts : PushMessage(p)
  <2>1. PICK p \in Prompts : PushMessage(p)
    BY <1>3
  <2>2. pc[p] \in Saving /\ UNCHANGED <<rows, unsaved>>
    BY <2>1 DEF PushMessage, Saving, tableVars
  <2>3. CASE PostgresEnabled
    <3>1. /\ pc'[p] \in Saving /\ UNCHANGED msg
          /\ \A q \in Prompts : q # p => pc'[q] = pc[q]
      BY <1>0, <2>1, <2>3 DEF PushMessage, Goto, Saving
    <3> QED BY <3>1, <2>2, LedgerQuietStep
  <2>4. CASE ~ PostgresEnabled
    <3>1. NextMessage(p)
      BY <2>1, <2>4 DEF PushMessage
    <3>2. SUFFICES ASSUME NEW q \in Prompts PROVE LedgerOf(q)'
      BY DEF LedgerInv
    <3>3. CASE q # p
      BY <1>0, <2>2, <3>1, <3>3, NextMessageEffect, LedgerFrame
    <3>4. CASE q = p
      BY <1>0, <2>2, <2>4, <3>1, <3>4, NextMessageEffect DEF LedgerOf, BeforeSaving, Saving, Saved
    <3> QED BY <3>3, <3>4
  <2> QED BY <2>3, <2>4
<1>4. CASE \E p \in Prompts : PersistToDb(p)
  <2>1. PICK p \in Prompts : PersistToDb(p)
    BY <1>4
  <2>2. /\ NextMessage(p) /\ UNCHANGED unsaved /\ pc[p] \in Saving
        /\ Covered(rows') = Covered(rows) \cup {<<p, msg[p]>>}
    BY <2>1, PersistArchives DEF PersistToDb, Saving
  <2>3. SUFFICES ASSUME NEW q \in Prompts PROVE LedgerOf(q)'
    BY DEF LedgerInv
  <2>4. CASE q # p
    <3>1. \A j \in {1, 2} : <<q, j>> # <<p, msg[p]>>
      BY <2>4
    <3>2. /\ pc'[q] = pc[q] /\ msg'[q] = msg[q]
      BY <1>0, <2>2, <2>4, NextMessageEffect
    <3>3. /\ Covered(rows) \subseteq Covered(rows')
          /\ \A j \in {1, 2} : <<q, j>> \in Covered(rows') => <<q, j>> \in Covered(rows)
      BY <2>2, <3>1
    <3> QED BY <1>0, <2>2, <3>2, <3>3, LedgerFrame
  <2>5. CASE q = p /\ msg[p] = 1
    <3>1. pc'[p] \in Saving /\ msg'[p] = 2
      BY <1>0, <2>2, <2>5, NextMessageEffect
    <3>2. \A j \in {1, 2} : j >= msg[p] => <<p, j>> \notin Covered(rows)
      BY <1>0, <2>2 DEF LedgerOf
    <3>3. <<p, 2>> \notin Covered(rows)
      BY <2>5, <3>2
    <3>4. <<p, 1>> # <<p, 2>>
      OBVIOUS
    <3>5. <<p, 2>> \notin Covered(rows') /\ <<p, 1>> \in Covered(rows')
      BY <2>2, <2>5, <3>3, <3>4
    <3>6. pc'[p] \notin BeforeSaving \cup Saved
      BY <3>1 DEF BeforeSaving, Saving, Saved
    <3> QED BY <2>5, <3>1, <3>5, <3>6 DEF LedgerOf
  <2>6. CASE q = p /\ msg[p] = 2
    BY <1>0, <2>2, <2>6, NextMessageEffect DEF LedgerOf, BeforeSaving, Saving, Saved, TurnsOf
  <2> QED BY <1>0, <2>4, <2>5, <2>6
<1>5. CASE \E p \in Prompts : PersistFails(p)
  <2>1. PICK p \in Prompts : PersistFails(p)
    BY <1>5
  <2>2. /\ NextMessage(p) /\ unsaved' = unsaved \cup {<<p, msg[p]>>} /\ pc[p] \in Saving
        /\ UNCHANGED rows
    BY <2>1 DEF PersistFails, Saving, tableVars
  <2>3. SUFFICES ASSUME NEW q \in Prompts PROVE LedgerOf(q)'
    BY DEF LedgerInv
  <2>4. CASE q # p
    BY <1>0, <2>2, <2>4, NextMessageEffect, LedgerFrame
  <2>5. CASE q = p /\ msg[p] = 1
    BY <1>0, <2>2, <2>5, NextMessageEffect DEF LedgerOf, BeforeSaving, Saving, Saved
  <2>6. CASE q = p /\ msg[p] = 2
    BY <1>0, <2>2, <2>6, NextMessageEffect DEF LedgerOf, BeforeSaving, Saving, Saved, TurnsOf
  <2> QED BY <1>0, <2>4, <2>5, <2>6
<1>6. CASE \E p \in Prompts : TrimCache(p) \/ ExpireCache(p)
  <2>1. PICK p \in Prompts : TrimCache(p) \/ ExpireCache(p)
    BY <1>6
  <2>2. /\ pc[p] \in Saved /\ pc'[p] \in Saved
        /\ \A q \in Prompts : q # p => pc'[q] = pc[q]
        /\ UNCHANGED <<rows, msg, unsaved>>
    BY <1>0, <2>1 DEF TrimCache, ExpireCache, FinishAdd, Goto, Saved, tableVars, ghostVars
  <2> QED BY <2>2, LedgerQuietStep
<1>7. CASE (\E p \in Prompts : PromptFails(p)) \/ Crash
  <2>1. /\ UNCHANGED <<rows, unsaved>>
        /\ \A q \in Prompts : pc'[q] = "failed" \/ (pc'[q] = pc[q] /\ msg'[q] = msg[q])
    BY <1>0, <1>7 DEF PromptFails, Crash, Goto, tableVars
  <2>2. SUFFICES ASSUME NEW q \in Prompts PROVE LedgerOf(q)'
    BY DEF LedgerInv
  <2>3. CASE pc'[q] = "failed"
    <3>1. pc'[q] \notin BeforeSaving \cup Saving \cup Saved
      BY <2>3 DEF BeforeSaving, Saving, Saved
    <3> QED BY <3>1 DEF LedgerOf
  <2>4. CASE pc'[q] = pc[q] /\ msg'[q] = msg[q]
    <3>1. Covered(rows') = Covered(rows)
      BY <2>1
    <3> QED BY <1>0, <2>1, <2>4, <3>1, LedgerFrame
  <2> QED BY <2>1, <2>3, <2>4
<1>8. CASE \/ \E p \in Prompts : JobStep(p) \/ JobFails(p)
           \/ KeyExpires \/ UNCHANGED vars
  <2>1. UNCHANGED <<pc, msg, unsaved>>
    BY <1>8 DEF JobStep, ReadAndDecide, Summarise, ReplacePrefix, TrimPrefix, PushSummary,
                ExpireSummary, JobFails, KeyExpires, promptVars, ghostVars, vars
  <2>2. Covered(rows') = Covered(rows)
    <3>1. CASE \E p \in Prompts : ReplacePrefix(p)
      BY <3>1, ReplaceKeeps
    <3>2. CASE UNCHANGED rows
      BY <3>2
    <3>3. UNCHANGED rows \/ \E p \in Prompts : ReplacePrefix(p)
      BY <1>8 DEF JobStep, ReadAndDecide, Summarise, TrimPrefix, PushSummary,
                  ExpireSummary, JobFails, KeyExpires, tableVars, vars
    <3> QED BY <3>1, <3>2, <3>3
  <2>3. SUFFICES ASSUME NEW q \in Prompts PROVE LedgerOf(q)'
    BY DEF LedgerInv
  <2> QED BY <1>0, <2>1, <2>2, LedgerFrame
<1> QED
  BY <1>1, <1>2, <1>3, <1>4, <1>5, <1>6, <1>7, <1>8 DEF Next, PromptStep, Finished

LEMMA ArchiveInvInit == Init => ArchiveInv
<1> SUFFICES ASSUME Init PROVE ArchiveInv
  OBVIOUS
<1>1. TypeInv
  BY TypeInit
<1>2. RowIdsAreStable
  BY DEF Init, RowIdsAreStable
<1>3. LedgerInv
  BY DEF Init, LedgerInv, LedgerOf, BeforeSaving, Saving, Saved, Covered
<1> QED BY <1>1, <1>2, <1>3 DEF ArchiveInv

LEMMA ArchiveInvariant == Spec => []ArchiveInv
<1>1. ArchiveInv /\ [Next]_vars => ArchiveInv'
  BY TypeStep, StableStep, LedgerStep DEF ArchiveInv
<1> QED BY <1>1, ArchiveInvInit, PTL DEF Spec

\* An id a compaction job remembers still means the row it read, so the
\* delete by id removes what the summary covers and nothing else.
THEOREM RowsAreStable == Spec => []RowIdsAreStable
<1>1. ArchiveInv => RowIdsAreStable
  BY DEF ArchiveInv
<1> QED BY <1>1, ArchiveInvariant, PTL

\* A prompt that finished has both its messages in the table, raw or folded,
\* except those whose INSERT persistToDb saw fail.
THEOREM FinishedPromptsAreArchived == Spec => []DoneIsArchived
<1>1. ArchiveInv => DoneIsArchived
  BY DEF ArchiveInv, LedgerInv, LedgerOf, DoneIsArchived, Saved
<1> QED BY <1>1, ArchiveInvariant, PTL

\* The table implements ChatArchive: turns join it one at a time, each once,
\* and no compaction, failure or crash takes one out.
THEOREM TableImplementsArchive == Spec => TurnsAreNeverLost
<1>1. Init => Archive!ArchiveInit
  BY DEF Init, Archive!ArchiveInit, Covered
<1>2. ArchiveInv /\ [Next]_vars => [Archive!ArchiveNext]_(Covered(rows))
  <2> SUFFICES ASSUME ArchiveInv, [Next]_vars
               PROVE  [Archive!ArchiveNext]_(Covered(rows))
    OBVIOUS
  <2>1. CASE UNCHANGED rows
    BY <2>1 DEF Covered
  <2>2. CASE \E p \in Prompts : PersistToDb(p)
    <3>1. PICK p \in Prompts : PersistToDb(p)
      BY <2>2
    <3>2. <<p, msg[p]>> \in Turn
      BY DEF Turn, ArchiveInv, TypeInv, TypeOK
    <3>3. Archive!Archive(<<p, msg[p]>>)
      BY <3>1, PersistArchives DEF Archive!Archive
    <3> QED BY <3>2, <3>3 DEF Archive!ArchiveNext
  <2>3. CASE \E p \in Prompts : ReplacePrefix(p)
    BY <2>3, ReplaceKeeps
  <2> QED BY RowsStep, <2>1, <2>2, <2>3
<1> QED BY <1>1, <1>2, ArchiveInvariant, PTL DEF Spec, TurnsAreNeverLost, Archive!ArchiveSpec
-----------------------------------------------------------------------------
(* The expiry of the key.  Between RPUSH and EXPIRE the key has none, so   *)
(* the invariant names who is still to send EXPIRE.                        *)

\* Without Redis there is no key and nobody writes one.
RedisInv ==
  ~ RedisEnabled =>
    /\ redis = <<>>
    /\ \A p \in Prompts :
         /\ pc[p] \notin {"range", "hydrate", "expireHydrated", "push", "trim", "expire"}
         /\ job[p] \notin {"trim", "push", "expire"}

WillExpire(p) ==
  \/ pc[p] \in {"expireHydrated", "insert", "trim", "expire"}
  \/ pc[p] = "push" /\ msg[p] = 2
  \/ job[p] \in {"push", "expire"}

KeyInv ==
  faults = 0 /\ redis # <<>> /\ ~ ttl => \E p \in Prompts : WillExpire(p)

ExpiryInv == TypeInv /\ RedisInv /\ KeyInv

LEMMA RedisStep == TypeInv /\ RedisInv /\ [Next]_vars => RedisInv'
<1> SUFFICES ASSUME TypeInv, RedisInv, [Next]_vars, ~ RedisEnabled PROVE RedisInv'
  BY DEF RedisInv
<1>0. /\ pc \in [Prompts -> PromptState] /\ job \in [Prompts -> JobState]
      /\ redis = <<>>
      /\ \A p \in Prompts :
           /\ pc[p] \notin {"range", "hydrate", "expireHydrated", "push", "trim", "expire"}
           /\ job[p] \notin {"trim", "push", "expire"}
  BY DEF TypeInv, TypeOK, RedisInv
<1> USE DEF RedisInv, Goto, JobGoto, EndJob, cacheVars, promptVars, jobVars
<1>1. CASE \E p \in Prompts : BeginPrompt(p) \/ LoadFromPostgres(p) \/ ChatReply(p)
  BY <1>0, <1>1 DEF BeginPrompt, LoadFromPostgres, ChatReply, AfterRedis, FirstWrite
<1>2. CASE \E p \in Prompts : \/ LoadFromRedis(p) \/ PopulateCache(p) \/ ExpireHydrated(p)
                              \/ PushMessage(p) \/ TrimCache(p) \/ ExpireCache(p)
                              \/ TrimPrefix(p) \/ PushSummary(p) \/ ExpireSummary(p)
  BY <1>0, <1>2 DEF LoadFromRedis, PopulateCache, ExpireHydrated, PushMessage, TrimCache,
                    ExpireCache, TrimPrefix, PushSummary, ExpireSummary
<1>3. CASE \E p \in Prompts : PersistToDb(p) \/ PersistFails(p)
  BY <1>0, <1>3 DEF PersistToDb, PersistFails, NextMessage, FinishAdd, FirstWrite
<1>4. CASE \E p \in Prompts : PromptFails(p) \/ ReadAndDecide(p) \/ Summarise(p) \/ ReplacePrefix(p)
                              \/ JobFails(p)
  BY <1>0, <1>4 DEF PromptFails, ReadAndDecide, Summarise, ReplacePrefix, JobFails
<1>5. CASE KeyExpires \/ UNCHANGED vars
  BY <1>0, <1>5 DEF KeyExpires, vars
<1>6. CASE Crash
  BY <1>0, <1>6 DEF Crash
<1> QED
  BY <1>1, <1>2, <1>3, <1>4, <1>5, <1>6 DEF Next, PromptStep, JobStep, Finished

LEMMA KeyStep == ExpiryInv /\ [Next]_vars => KeyInv'
<1> SUFFICES ASSUME ExpiryInv, [Next]_vars, faults' = 0, redis' # <<>>, ~ ttl'
             PROVE  \E p \in Prompts : WillExpire(p)'
  BY DEF KeyInv
<1>0. /\ pc \in [Prompts -> PromptState] /\ job \in [Prompts -> JobState]
      /\ msg \in [Prompts -> {1, 2}] /\ faults \in Nat /\ ttl \in BOOLEAN
      /\ \A p \in Prompts : pc[p] = "push" \/ redis # <<>> => RedisEnabled
  BY DEF ExpiryInv, TypeInv, TypeOK, RedisInv
<1>1. faults = 0 /\ redis # <<>> /\ ~ ttl => \E p \in Prompts : WillExpire(p)
  BY DEF ExpiryInv, KeyInv
<1> USE DEF Goto, JobGoto, EndJob, cacheVars, promptVars, jobVars, ExpireCommand, WriteList
\* These leave the key to their own next step.
<1>2. CASE \E p \in Prompts : PopulateCache(p)
  BY <1>0, <1>2 DEF PopulateCache, WillExpire
<1>3. CASE \E p \in Prompts : PushMessage(p)
  BY <1>0, <1>3 DEF PushMessage, NextMessage, FirstWrite, WillExpire
<1>4. CASE \E p \in Prompts : PushSummary(p)
  BY <1>0, <1>4 DEF PushSummary, WillExpire
\* These set the expiry, or take the key away.
<1>5. CASE (\E p \in Prompts : ExpireHydrated(p) \/ ExpireCache(p) \/ ExpireSummary(p)) \/ KeyExpires
  BY <1>5 DEF ExpireHydrated, ExpireCache, ExpireSummary, KeyExpires
\* These are failures.
<1>6. CASE (\E p \in Prompts : PersistFails(p) \/ PromptFails(p) \/ JobFails(p)) \/ Crash
  BY <1>0, <1>6 DEF PersistFails, PromptFails, JobFails, Crash, Fault
\* The rest neither create a key nor stop before its EXPIRE.
<1>7. CASE \E p \in Prompts : BeginPrompt(p) \/ LoadFromRedis(p) \/ LoadFromPostgres(p) \/ ChatReply(p)
  <2>1. PICK p \in Prompts : BeginPrompt(p) \/ LoadFromRedis(p) \/ LoadFromPostgres(p) \/ ChatReply(p)
    BY <1>7
  <2>2. UNCHANGED <<redis, ttl, faults>>
    BY <2>1 DEF BeginPrompt, LoadFromRedis, LoadFromPostgres, ChatReply
  <2>3. PICK q \in Prompts : WillExpire(q)
    BY <1>1, <2>2
  <2>4. UNCHANGED <<msg, job>> /\ (pc'[q] = pc[q] \/ (q = p /\ pc[p] \in {"new", "range", "select", "llm"}))
    BY <1>0, <2>1 DEF BeginPrompt, LoadFromRedis, LoadFromPostgres, ChatReply
  <2>5. WillExpire(q)'
    BY <2>3, <2>4 DEF WillExpire
  <2> QED BY <2>5
<1>8. CASE \E p \in Prompts : PersistToDb(p)
  <2>1. PICK p \in Prompts : PersistToDb(p)
    BY <1>8
  <2>2. RedisEnabled
    BY <1>0, <2>1 DEF PersistToDb
  <2>3. WillExpire(p)'
    BY <1>0, <2>1, <2>2 DEF PersistToDb, NextMessage, FirstWrite, WillExpire
  <2> QED BY <2>3
<1>9. CASE \E p \in Prompts : TrimCache(p)
  BY <1>0, <1>9 DEF TrimCache, WillExpire
<1>10. CASE \E p \in Prompts : ReadAndDecide(p) \/ Summarise(p) \/ ReplacePrefix(p)
  <2>1. PICK p \in Prompts : ReadAndDecide(p) \/ Summarise(p) \/ ReplacePrefix(p)
    BY <1>10
  <2>2. UNCHANGED <<redis, ttl, faults>>
    BY <2>1 DEF ReadAndDecide, Summarise, ReplacePrefix
  <2>3. PICK q \in Prompts : WillExpire(q)
    BY <1>1, <2>2
  <2>4. /\ UNCHANGED <<msg, pc>>
        /\ job'[q] = job[q] \/ (q = p /\ job[p] \in {"read", "summarise", "replace"})
    BY <1>0, <2>1 DEF ReadAndDecide, Summarise, ReplacePrefix
  <2>5. WillExpire(q)'
    BY <2>3, <2>4 DEF WillExpire
  <2> QED BY <2>5
<1>11. CASE \E p \in Prompts : TrimPrefix(p)
  BY <1>0, <1>11 DEF TrimPrefix, WillExpire
<1>12. CASE UNCHANGED vars
  BY <1>1, <1>12 DEF vars, WillExpire
<1> QED
  BY <1>2, <1>3, <1>4, <1>5, <1>6, <1>7, <1>8, <1>9, <1>10, <1>11, <1>12
  DEF Next, PromptStep, JobStep, Finished

\* As long as nothing fails, a conversation at rest never holds a key that
\* will not expire: whichever write created it, an EXPIRE followed.
THEOREM KeysExpire == Spec => []KeyCarriesTtlUnlessFaulty
<1>1. Init => ExpiryInv
  <2>1. Init => RedisInv /\ KeyInv
    BY DEF Init, RedisInv, KeyInv
  <2> QED BY <2>1, TypeInit DEF ExpiryInv
<1>2. ExpiryInv /\ [Next]_vars => ExpiryInv'
  BY TypeStep, RedisStep, KeyStep DEF ExpiryInv
<1>3. ExpiryInv => KeyCarriesTtlUnlessFaulty
  BY DEF ExpiryInv, KeyInv, WillExpire, KeyCarriesTtlUnlessFaulty, KeyCarriesTtl, Quiet,
         InFlight, Compacting
<1> QED BY <1>1, <1>2, <1>3, PTL DEF Spec
-----------------------------------------------------------------------------
(* Rows by rank.                                                           *)

\* A set of rows such as the table's: finite, and ids tell its rows apart.
RowSet(S) ==
  /\ S \in SUBSET Row
  /\ IsFiniteSet(S)
  /\ \A r, s \in S : r.id = s.id => r = s

\* Ranks run from 0 to one less than the number of rows.
LEMMA RankRange ==
  ASSUME NEW S, RowSet(S), NEW r \in S
  PROVE  /\ Cardinality(S) \in Nat
         /\ Cardinality(Older(S, r)) \in 0..(Cardinality(S) - 1)
<1>1. Cardinality(S) \in Nat /\ Rank(S) \in Injection(S, 0..(Cardinality(S) - 1))
  BY RankBijection DEF RowSet
<1>2. Rank(S) \in [S -> 0..(Cardinality(S) - 1)]
  BY <1>1 DEF Injection
<1>3. Rank(S)[r] \in 0..(Cardinality(S) - 1)
  BY <1>2
<1> QED BY <1>1, <1>3 DEF Rank

\* The n oldest of at least n rows are n.
LEMMA OldestCount ==
  ASSUME NEW S, RowSet(S), NEW n \in 0..Cardinality(S)
  PROVE  /\ Oldest(S, n) \in SUBSET S
         /\ IsFiniteSet(Oldest(S, n))
         /\ Cardinality(Oldest(S, n)) = n
<1> DEFINE c == Cardinality(S)
           T == Oldest(S, n)
           f == [r \in T |-> Rank(S)[r]]
<1>1. c \in Nat /\ Rank(S) \in Injection(S, 0..(c - 1)) /\ Rank(S) \in Surjection(S, 0..(c - 1))
  BY RankBijection DEF RowSet
<1>2. T \in SUBSET S /\ \A r \in S : r \in T <=> Rank(S)[r] < n
  BY DEF Oldest, Rank
<1>3. /\ Rank(S) \in [S -> 0..(c - 1)]
      /\ \A r, s \in S : Rank(S)[r] = Rank(S)[s] => r = s
  BY <1>1 DEF Injection, IsInjective
<1>4. \A i \in 0..(c - 1) : \E r \in S : Rank(S)[r] = i
  BY <1>1 DEF Surjection
<1>5. n \in 0..c
  OBVIOUS
<1> HIDE DEF c, T
<1>6. \A r \in T : Rank(S)[r] \in 0..(n - 1)
  BY <1>1, <1>2, <1>3, <1>5
<1>7. f \in [T -> 0..(n - 1)] /\ \A r, s \in T : f[r] = f[s] => r = s
  BY <1>2, <1>3, <1>6
<1>8. \A i \in 0..(n - 1) : \E r \in T : f[r] = i
  <2>1. SUFFICES ASSUME NEW i \in 0..(n - 1) PROVE \E r \in T : f[r] = i
    OBVIOUS
  <2>2. i \in 0..(c - 1) /\ i < n
    BY <1>1, <1>5
  <2>3. PICK r \in S : Rank(S)[r] = i
    BY <1>4, <2>2
  <2>4. r \in T
    BY <1>2, <2>2, <2>3
  <2> QED BY <2>3, <2>4
<1> HIDE DEF f
<1>9. f \in Bijection(T, 0..(n - 1))
  BY <1>7, <1>8 DEF Bijection, Injection, Surjection, IsInjective
<1>10. IsFiniteSet(T)
  BY <1>2, FS_Subset DEF RowSet
<1>11. Cardinality(0..(n - 1)) = Cardinality(T)
  BY <1>9, <1>10, FS_Bijection DEF ExistsBijection
<1>12. Cardinality(0..(n - 1)) = n
  <2>1. n \in Nat
    BY <1>1, <1>5
  <2>2. 0 \in Int /\ n - 1 \in Int
    BY <2>1
  <2>3. Cardinality(0..(n - 1)) = IF 0 > n - 1 THEN 0 ELSE (n - 1) - 0 + 1
    BY <2>2, FS_Interval
  <2> QED BY <2>1, <2>3
<1> QED BY <1>2, <1>10, <1>11, <1>12 DEF T

\* As many as there are, or more, are all of them: the oldest and the newest.
LEMMA OldestAndNewestAll ==
  ASSUME NEW S, RowSet(S), NEW n \in Nat, n >= Cardinality(S)
  PROVE  Oldest(S, n) = S /\ Newest(S, n) = S
<1>1. ASSUME NEW r \in S
      PROVE  Cardinality(Older(S, r)) < n /\ Cardinality(Newer(S, r)) < n
  <2>1. Cardinality(S) \in Nat /\ Cardinality(Older(S, r)) < n
    BY RankRange
  <2>2. Newer(S, r) \in SUBSET S /\ r \notin Newer(S, r)
    BY DEF Newer, RowSet, Row
  <2>3. /\ IsFiniteSet(Newer(S, r)) /\ Cardinality(Newer(S, r)) <= Cardinality(S)
        /\ Cardinality(Newer(S, r)) # Cardinality(S)
    BY <2>2, FS_Subset DEF RowSet
  <2>4. Cardinality(Newer(S, r)) \in Nat
    BY <2>3, FS_CardinalityType
  <2> QED BY <2>1, <2>3, <2>4
<1> QED BY <1>1 DEF Oldest, Newest

\* A row newer than all others takes the last rank and leaves them theirs.
LEMMA NewestJoins ==
  ASSUME NEW S, RowSet(S), NEW x \in Row, \A r \in S : r.id < x.id
  PROVE  /\ RowSet(S \cup {x}) /\ x \notin S
         /\ Cardinality(S) \in Nat
         /\ Cardinality(S \cup {x}) = Cardinality(S) + 1
         /\ Older(S \cup {x}, x) = S
         /\ \A r \in S : Older(S \cup {x}, r) = Older(S, r)
         /\ \A m \in 0..Cardinality(S) : Oldest(S \cup {x}, m) = Oldest(S, m)
<1> DEFINE T == S \cup {x}
<1>1. x \notin S /\ \A r \in S : r.id \in Nat /\ ~ (x.id < r.id) /\ r.id # x.id
  BY DEF RowSet, Row
<1>2. RowSet(T)
  <2>1. IsFiniteSet(S \cup {x})
    BY FS_AddElement DEF RowSet
  <2>2. \A r, s \in T : r.id = s.id => r = s
    BY <1>1 DEF RowSet
  <2> QED BY <2>1, <2>2 DEF RowSet
<1>3. Cardinality(S) \in Nat /\ Cardinality(T) = Cardinality(S) + 1
  BY <1>1, FS_AddElement, FS_CardinalityType DEF RowSet
<1>4. Older(T, x) = S
  BY <1>1 DEF Older, Row
<1>5. \A r \in S : Older(T, r) = Older(S, r)
  BY <1>1 DEF Older
<1>6. ASSUME NEW m \in 0..Cardinality(S)
      PROVE  Oldest(T, m) = Oldest(S, m)
  <2>1. ~ (Cardinality(Older(T, x)) < m)
    BY <1>3, <1>4
  <2> QED BY <1>5, <2>1 DEF Oldest
<1> QED BY <1>1, <1>2, <1>3, <1>4, <1>5, <1>6
-----------------------------------------------------------------------------
(* A table in which no turn is told twice.  A job's summary tells again    *)
(* what its prefix told, so the prefix has to be in the table until the    *)
(* job replaces it: the only step that takes rows out is another job's.    *)

JobsApart == \A p, q \in Compacting : p = q
PrefixIsThere == \A p \in Prompts : job[p] \in {"summarise", "replace"} => prefix[p] \subseteq rows

FoldInv == "jobs" \notin met => JobsApart /\ PrefixIsThere /\ TurnsFoldedOnce
-----------------------------------------------------------------------------
(* Two stores in step.  The list and the table have the same length and    *)
(* entries but not the same order: a summary is the first of the list and  *)
(* stands behind the raw turns that were kept in the table.  So they split *)
(* alike wherever the first part is longer than the turns that are kept,   *)
(* and that is where a job splits them.                                    *)

Told(S) == {EntryOf(r) : r \in S}
FirstOf(q, m) == {q[i] : i \in 1..m}
Behind(q, m) == {q[i] : i \in (m + 1)..Len(q)}

SplitAlike(q, S, m) ==
  /\ FirstOf(q, m) = Told(Oldest(S, m))
  /\ Behind(q, m) = Told(S \ Oldest(S, m))
InStep(q, S) ==
  /\ Len(q) = Cardinality(S)
  /\ \A m \in 0..Cardinality(S) : m > KeptRaw \/ m = Cardinality(S) => SplitAlike(q, S, m)

Size == Cardinality(rows)

\* Who is under way, and that it is one.
Busy == InFlight \cup Compacting
AloneInv ==
  /\ \A p, q \in Busy : p = q
  /\ \A p \in Prompts : pc[p] # "failed" /\ (pc[p] # "done" => job[p] = "none")

\* A summary has rows before it in the table, but never more than are kept.
SummaryInv == \A s \in rows : IsSummary(s) => Cardinality(Older(rows, s)) \in 1..KeptRaw

\* Where a prompt, and its job, stand with the two stores.
PromptAt(p) ==
  /\ pc[p] \in BeforeSaving => Size < TurnTrigger
  /\ pc[p] \in Saving => Size + 1 < TurnTrigger + msg[p]
  /\ pc[p] \in {"trim", "expire"} => Size < TurnTrigger + 2
  /\ pc[p] = "range" => redis = <<>> \/ InStep(redis, rows)
  /\ pc[p] = "select" => redis = <<>>
  /\ pc[p] = "hydrate" => redis = <<>> /\ history[p] = Listing(rows)
  /\ pc[p] = "expireHydrated" => history[p] = redis
  /\ pc[p] = "llm" => Entries(history[p]) = Told(rows)
  /\ pc[p] \in {"expireHydrated", "llm", "push", "trim", "expire"} => InStep(redis, rows)
  /\ pc[p] = "insert" =>
       \E q \in Seq(Entry) : InStep(q, rows) /\ redis = Append(q, RawEntry(p, msg[p]))

Replacing(p) ==
  \E s \in rows :
    /\ EntryOf(s) = SummaryOf(prefix[p])
    /\ Len(redis) = Cardinality(prefix[p]) + KeptRaw
    /\ FirstOf(redis, Cardinality(prefix[p])) = Told(prefix[p])
    /\ Behind(redis, Cardinality(prefix[p])) = Told(rows \ {s})
Replaced(p) ==
  \E s \in rows :
    /\ EntryOf(s) = SummaryOf(prefix[p])
    /\ Len(redis) = KeptRaw
    /\ Entries(redis) = Told(rows \ {s})

JobAt(p) ==
  /\ job[p] \in {"read", "summarise", "replace"} => Size < TurnTrigger + 2
  /\ job[p] \in {"read", "summarise", "replace", "expire"} => InStep(redis, rows)
  /\ job[p] \in {"summarise", "replace"} =>
       Size > 2 * KeptRaw /\ prefix[p] = Oldest(rows, Size - KeptRaw)
  /\ job[p] \in {"trim", "push", "expire"} => Size = KeptRaw + 1
  /\ job[p] = "trim" => Replacing(p)
  /\ job[p] = "push" => Replaced(p)

AtRest == Size < TurnTrigger /\ (redis = <<>> \/ InStep(redis, rows))

StoresInv ==
  /\ \A p \in Busy : PromptAt(p) /\ JobAt(p)
  /\ Busy = {} => AtRest

\* What was seen was done.
SeenInv == \A p \in Prompts : \A q \in lastDone \cup lastSeen[p] : pc[q] = "done"

LEMMA ToldUnion ==
  /\ \A S, T : Told(S \cup T) = Told(S) \cup Told(T)
  /\ \A r : Told({r}) = {EntryOf(r)}
  /\ \A S : Covered(Told(S)) = Covered(S)
  /\ \A S, T : S \subseteq T => Told(S) \subseteq Told(T)
<1>1. \A S, T : Told(S \cup T) = Told(S) \cup Told(T)
  BY DEF Told
<1>2. ASSUME NEW S PROVE Covered(Told(S)) = Covered(S)
  <2>1. \A r \in S : EntryOf(r) \in Told(S) /\ EntryOf(r).turns = r.turns
    BY DEF Told, EntryOf
  <2>2. \A e \in Told(S) : \E r \in S : e.turns = r.turns
    BY DEF Told, EntryOf
  <2>3. \A t : t \in Covered(Told(S)) <=> t \in Covered(S)
    BY <2>1, <2>2, CoveredElement
  <2> QED BY <2>3
<1> QED BY <1>1, <1>2 DEF Told

\* The first elements of a list are those of a shorter one, and so on.
LEMMA ListParts ==
  ASSUME NEW q \in Seq(Entry), NEW e \in Entry
  PROVE  /\ Len(q) \in Nat
         /\ Entries(q) = FirstOf(q, Len(q)) /\ Behind(q, Len(q)) = {}
         /\ \A m \in 0..Len(q) : Entries(q) = FirstOf(q, m) \cup Behind(q, m)
         /\ Append(q, e) \in Seq(Entry) /\ Len(Append(q, e)) = Len(q) + 1
         /\ Entries(Append(q, e)) = Entries(q) \cup {e}
         /\ \A m \in 0..Len(q) :
              /\ FirstOf(Append(q, e), m) = FirstOf(q, m)
              /\ Behind(Append(q, e), m) = Behind(q, m) \cup {e}
<1>1. Len(q) \in Nat /\ DOMAIN q = 1..Len(q)
  BY LenProperties
<1>2. /\ Append(q, e) \in Seq(Entry) /\ Len(Append(q, e)) = Len(q) + 1
      /\ \A i \in 1..Len(q) : Append(q, e)[i] = q[i]
      /\ Append(q, e)[Len(q) + 1] = e
  BY AppendProperties
<1>3. DOMAIN Append(q, e) = 1..(Len(q) + 1)
  BY <1>2, LenProperties
<1>4. Entries(q) = FirstOf(q, Len(q)) /\ Behind(q, Len(q)) = {}
  BY <1>1 DEF Entries, FirstOf, Behind
<1>5. \A m \in 0..Len(q) : Entries(q) = FirstOf(q, m) \cup Behind(q, m)
  BY <1>1 DEF Entries, FirstOf, Behind
<1>6. Entries(Append(q, e)) = Entries(q) \cup {e}
  BY <1>1, <1>2, <1>3 DEF Entries
<1>7. ASSUME NEW m \in 0..Len(q)
      PROVE  /\ FirstOf(Append(q, e), m) = FirstOf(q, m)
             /\ Behind(Append(q, e), m) = Behind(q, m) \cup {e}
  BY <1>1, <1>2 DEF FirstOf, Behind
<1> QED BY <1>1, <1>2, <1>4, <1>5, <1>6, <1>7

\* The commands and slices that leave a list as it was, or cut it in two.
LEMMA ListCuts ==
  ASSUME NEW q \in Seq(Entry), NEW n \in Nat
  PROVE  /\ Len(q) <= n => SliceTail(q, n) = q /\ LTrim(q, 0, n - 1) = q
         /\ n <= Len(q) => /\ LTrim(q, n, Len(q) - 1) \in Seq(Entry)
                           /\ Len(LTrim(q, n, Len(q) - 1)) = Len(q) - n
                           /\ Entries(LTrim(q, n, Len(q) - 1)) = Behind(q, n)
                           /\ \A i \in 1..(Len(q) - n) : LTrim(q, n, Len(q) - 1)[i] = q[n + i]
<1>1. Len(q) \in Nat /\ DOMAIN q = 1..Len(q) /\ \A i \in 1..Len(q) : q[i] \in Entry
  BY LenProperties
<1>0. Len(q) \in Nat
  BY <1>1
<1>2. SubSeq(q, 1, Len(q)) = q
  BY SubSeqFull
<1>3. ASSUME Len(q) <= n
      PROVE  SliceTail(q, n) = q /\ LTrim(q, 0, n - 1) = q
  <2>1. MaxOf(0, Len(q) - n) = 0
    BY <1>1, <1>3 DEF MaxOf
  <2>2. SliceTail(q, n) = SubSeq(q, 1, Len(q))
    BY <2>1 DEF SliceTail
  <2>3. LTrim(q, 0, n - 1) = SubSeq(q, 1, Len(q))
    <3>1. n - 1 + 1 <= Len(q) => n - 1 + 1 = Len(q)
      BY <1>0, <1>3
    <3>2. LTrim(q, 0, n - 1) = SubSeq(q, 1, IF n - 1 + 1 <= Len(q) THEN n - 1 + 1 ELSE Len(q))
      BY DEF LTrim
    <3>3. (IF n - 1 + 1 <= Len(q) THEN n - 1 + 1 ELSE Len(q)) = Len(q)
      BY <3>1, Zenon
    <3> QED BY <3>2, <3>3, Zenon
  <2> QED BY <1>2, <2>2, <2>3
<1>4. ASSUME n <= Len(q)
      PROVE  /\ LTrim(q, n, Len(q) - 1) \in Seq(Entry)
             /\ Len(LTrim(q, n, Len(q) - 1)) = Len(q) - n
             /\ Entries(LTrim(q, n, Len(q) - 1)) = Behind(q, n)
             /\ \A i \in 1..(Len(q) - n) : LTrim(q, n, Len(q) - 1)[i] = q[n + i]
  <2> DEFINE t == SubSeq(q, n + 1, Len(q))
  <2>1. LTrim(q, n, Len(q) - 1) = t
    BY <1>1 DEF LTrim
  <2>2. n + 1 \in Int /\ Len(q) \in Int /\ \A i \in (n + 1)..Len(q) : q[i] \in Entry
    BY <1>1
  <2>3. /\ t \in Seq(Entry)
        /\ Len(t) = IF n + 1 <= Len(q) THEN Len(q) - (n + 1) + 1 ELSE 0
        /\ \A i \in 1..(Len(q) - (n + 1) + 1) : t[i] = q[n + 1 + i - 1]
    BY <2>2, SubSeqProperties
  <2> HIDE DEF t
  <2>4. Len(t) = Len(q) - n /\ \A i \in 1..(Len(q) - n) : t[i] = q[n + i]
    <3>1. CASE n + 1 <= Len(q)
      BY <1>1, <2>3, <3>1
    <3>2. CASE ~ (n + 1 <= Len(q))
      <4>1. Len(t) = 0
        BY <2>3, <3>2
      <4>2. Len(q) - n = 0
        BY <1>0, <1>4, <3>2
      <4> QED BY <4>1, <4>2
    <3> QED BY <3>1, <3>2
  <2>5. DOMAIN t = 1..(Len(q) - n)
    BY <2>3, <2>4, LenProperties
  <2>6. Entries(t) = Behind(q, n)
    <3>1. \A i \in DOMAIN t : t[i] \in Behind(q, n)
      BY <1>1, <2>4, <2>5 DEF Behind
    <3>2. ASSUME NEW j \in (n + 1)..Len(q)
          PROVE  q[j] \in Entries(t)
      <4>1. j - n \in 1..(Len(q) - n) /\ n + (j - n) = j
        BY <1>1
      <4> QED BY <2>4, <2>5, <4>1 DEF Entries
    <3> QED BY <3>1, <3>2 DEF Entries, Behind
  <2> QED BY <2>1, <2>3, <2>4, <2>6
<1> QED BY <1>3, <1>4

\* LPUSH.
LEMMA ListHead ==
  ASSUME NEW q \in Seq(Entry), NEW e \in Entry
  PROVE  /\ <<e>> \o q \in Seq(Entry)
         /\ Len(<<e>> \o q) = Len(q) + 1
         /\ Entries(<<e>> \o q) = {e} \cup Entries(q)
         /\ (<<e>> \o q)[1] = e
         /\ \A i \in 1..Len(q) : (<<e>> \o q)[i + 1] = q[i]
<1>1. Len(q) \in Nat /\ DOMAIN q = 1..Len(q) /\ <<e>> \in Seq(Entry) /\ Len(<<e>>) = 1 /\ <<e>>[1] = e
  BY LenProperties
<1>2. /\ <<e>> \o q \in Seq(Entry)
      /\ Len(<<e>> \o q) = Len(<<e>>) + Len(q)
      /\ \A i \in 1..(Len(<<e>>) + Len(q)) :
           (<<e>> \o q)[i] = IF i <= Len(<<e>>) THEN <<e>>[i] ELSE q[i - Len(<<e>>)]
  BY <1>1, ConcatProperties
<1> DEFINE t == <<e>> \o q
<1>3. DOMAIN t = 1..Len(t)
  BY <1>2, LenProperties
<1> HIDE DEF t
<1>4. /\ Len(t) = Len(q) + 1 /\ t[1] = e
      /\ \A i \in 1..Len(q) : t[i + 1] = q[i]
      /\ \A i \in 2..(Len(q) + 1) : t[i] = q[i - 1]
  <2>1. Len(t) = 1 + Len(q) /\ \A i \in 1..(1 + Len(q)) : t[i] = IF i <= 1 THEN e ELSE q[i - 1]
    BY <1>1, <1>2 DEF t
  <2> QED BY <1>1, <2>1
<1>5. Entries(t) = {e} \cup Entries(q)
  <2>1. \A i \in DOMAIN t : t[i] \in {e} \cup Entries(q)
    BY <1>1, <1>3, <1>4 DEF Entries
  <2>2. \A i \in DOMAIN q : q[i] \in Entries(t)
    BY <1>1, <1>3, <1>4 DEF Entries
  <2>3. e \in Entries(t)
    BY <1>1, <1>3, <1>4 DEF Entries
  <2> QED BY <2>1, <2>2, <2>3 DEF Entries
<1> QED BY <1>2, <1>4, <1>5 DEF t
-----------------------------------------------------------------------------
(* Lists in step with a table.                                             *)

LEMMA KeptRawType == KeptRaw \in Nat \ {0}
  BY ConfigAssumption DEF KeptRaw, MaxOf

LEMMA InStepEmpty == InStep(<<>>, {})
<1>1. Len(<<>>) = 0 /\ Cardinality({}) = 0
  BY FS_EmptySet
<1>2. \A m : FirstOf(<<>>, 0) = {} /\ Behind(<<>>, 0) = {} /\ Oldest({}, m) = {} /\ Told({}) = {}
  BY <1>1 DEF FirstOf, Behind, Oldest, Told
<1>3. SplitAlike(<<>>, {}, 0)
  BY <1>2 DEF SplitAlike
<1> QED BY <1>1, <1>3 DEF InStep

\* In step means the same entries.
LEMMA InStepWhole ==
  ASSUME NEW q \in Seq(Entry), NEW S, RowSet(S), InStep(q, S)
  PROVE  /\ Entries(q) = Told(S)
         /\ Covered(Entries(q)) = Covered(S)
         /\ Len(q) = Cardinality(S) /\ Cardinality(S) \in Nat
<1>1. Len(q) \in Nat /\ DOMAIN q = 1..Len(q)
  BY LenProperties
<1>2. Len(q) = Cardinality(S) /\ SplitAlike(q, S, Len(q))
  BY <1>1 DEF InStep
<1>3. Oldest(S, Len(q)) = S
  BY <1>1, <1>2, OldestAndNewestAll
<1>4. FirstOf(q, Len(q)) = Told(S)
  BY <1>2, <1>3 DEF SplitAlike
<1>5. FirstOf(q, Len(q)) = Entries(q)
  BY <1>1 DEF FirstOf, Entries
<1> QED BY <1>1, <1>2, <1>4, <1>5, ToldUnion

\* A list that is in step stays so when the same turn is appended to both.
LEMMA InStepAppend ==
  ASSUME NEW q \in Seq(Entry), NEW S, RowSet(S), InStep(q, S),
         NEW x \in Row, \A r \in S : r.id < x.id
  PROVE  InStep(Append(q, EntryOf(x)), S \cup {x})
<1> DEFINE T == S \cup {x}
           e == EntryOf(x)
           n == Cardinality(S)
<1>1. /\ RowSet(T) /\ x \notin S /\ n \in Nat /\ Cardinality(T) = n + 1
      /\ \A m \in 0..n : Oldest(T, m) = Oldest(S, m)
  BY NewestJoins
<1>2. e \in Entry
  BY DEF EntryOf, Entry, Row
<1>3. Len(q) = n /\ \A m \in 0..n : m > KeptRaw \/ m = n => SplitAlike(q, S, m)
  BY DEF InStep
<1>4. Told(T) = Told(S) \cup {e}
  BY DEF Told
<1>t. \A z : z \in T <=> z \in S \/ z = x
  OBVIOUS
<1> HIDE DEF e, n, T
<1>5. /\ Append(q, e) \in Seq(Entry) /\ Len(Append(q, e)) = n + 1
      /\ Entries(Append(q, e)) = Entries(q) \cup {e}
      /\ \A m \in 0..n :
           /\ FirstOf(Append(q, e), m) = FirstOf(q, m)
           /\ Behind(Append(q, e), m) = Behind(q, m) \cup {e}
  BY <1>2, <1>3, ListParts
<1>6. ASSUME NEW m \in 0..n, m > KeptRaw \/ m = n
      PROVE  SplitAlike(Append(q, e), T, m)
  <2>1. FirstOf(q, m) = Told(Oldest(S, m)) /\ Behind(q, m) = Told(S \ Oldest(S, m))
    BY <1>3, <1>6 DEF SplitAlike
  <2>2. T \ Oldest(T, m) = (S \ Oldest(S, m)) \cup {x}
    <3>1. x \notin Oldest(S, m) /\ Oldest(T, m) = Oldest(S, m)
      BY <1>1 DEF Oldest
    <3> QED BY <3>1, <1>1, <1>t
  <2>3. Told(T \ Oldest(T, m)) = Told(S \ Oldest(S, m)) \cup {e}
    BY <2>2 DEF Told, e
  <2> QED BY <1>1, <1>5, <2>1, <2>3 DEF SplitAlike
<1>7. SplitAlike(Append(q, e), T, n + 1)
  <2>1. Oldest(T, n + 1) = T
    BY <1>1, OldestAndNewestAll
  <2>2. Entries(q) = Told(S)
    BY InStepWhole
  <2>3. /\ Entries(Append(q, e)) = FirstOf(Append(q, e), n + 1)
        /\ Behind(Append(q, e), n + 1) = {}
    BY <1>2, <1>5, ListParts
  <2>4. Told(T \ T) = {}
    BY DEF Told
  <2> QED BY <1>4, <1>5, <2>1, <2>2, <2>3, <2>4 DEF SplitAlike
<1>8. \A m \in 0..(n + 1) : m > KeptRaw \/ m = n + 1 => SplitAlike(Append(q, e), T, m)
  <2>1. \A m \in 0..(n + 1) : m \in 0..n \/ m = n + 1
    BY <1>1
  <2> QED BY <1>6, <1>7, <2>1
<1> QED BY <1>1, <1>5, <1>8 DEF InStep, e, T

\* A list of the length a compaction leaves is in step when it has the entries.
LEMMA InStepShort ==
  ASSUME NEW q \in Seq(Entry), NEW S, RowSet(S),
         Len(q) = KeptRaw + 1, Cardinality(S) = KeptRaw + 1, Entries(q) = Told(S)
  PROVE  InStep(q, S)
<1>1. KeptRaw \in Nat
  BY KeptRawType
<1>2. Oldest(S, KeptRaw + 1) = S
  BY <1>1, OldestAndNewestAll
<1>3. FirstOf(q, KeptRaw + 1) = Entries(q) /\ Behind(q, KeptRaw + 1) = {}
  <2>1. DOMAIN q = 1..(KeptRaw + 1)
    BY LenProperties
  <2> QED BY <1>1, <2>1 DEF FirstOf, Behind, Entries
<1>4. Told(S \ S) = {}
  BY DEF Told
<1>5. SplitAlike(q, S, KeptRaw + 1)
  BY <1>2, <1>3, <1>4 DEF SplitAlike
<1> QED BY <1>1, <1>5 DEF InStep

\* Row i of a Listing is the row of rank i - 1.
LEMMA ListingNames ==
  ASSUME NEW S, RowSet(S)
  PROVE  /\ Cardinality(S) \in Nat
         /\ Listing(S) \in Seq(Entry) /\ Len(Listing(S)) = Cardinality(S)
         /\ \E at \in [1..Cardinality(S) -> S] :
              /\ \A i \in 1..Cardinality(S) :
                   Listing(S)[i] = EntryOf(at[i]) /\ Cardinality(Older(S, at[i])) = i - 1
              /\ \A r \in S : \E i \in 1..Cardinality(S) : at[i] = r
<1> DEFINE n == Cardinality(S)
           f == [i \in 1..n |-> CHOOSE r \in S : Cardinality(Older(S, r)) = i - 1]
<1>1. Listing(S) \in Seq(Entry)
  BY ListingType DEF RowSet
<1>2. n \in Nat /\ Rank(S) \in Injection(S, 0..(n - 1))
  BY RankBijection DEF RowSet
<1>3. \A r, s \in S : Cardinality(Older(S, r)) = Cardinality(Older(S, s)) => r = s
  BY <1>2 DEF Injection, IsInjective, Rank
<1>4. ASSUME NEW i \in 1..n
      PROVE  f[i] \in S /\ Cardinality(Older(S, f[i])) = i - 1 /\ Listing(S)[i] = EntryOf(f[i])
  <2>1. \E r \in S : Cardinality(Older(S, r)) = i - 1
    BY RankExists DEF RowSet
  <2>2. f[i] = CHOOSE r \in S : Cardinality(Older(S, r)) = i - 1
    OBVIOUS
  <2>3. Listing(S)[i] = EntryOf(f[i])
    BY <2>2 DEF Listing
  <2> HIDE DEF f
  <2> QED BY <2>1, <2>2, <2>3
<1>5. DOMAIN Listing(S) = 1..n /\ DOMAIN f = 1..n
  BY DEF Listing
<1> HIDE DEF f, n
<1>6. Len(Listing(S)) = n
  <2>1. Len(Listing(S)) \in Nat /\ 1..Len(Listing(S)) = 1..n
    BY <1>1, <1>5, LenProperties
  <2>2. \A i \in Nat : i \in 1..Len(Listing(S)) <=> i \in 1..n
    BY <2>1
  <2> QED BY <1>2, <2>1, <2>2
<1>7. \A r \in S : \E i \in 1..n : f[i] = r
  <2>1. SUFFICES ASSUME NEW r \in S PROVE \E i \in 1..n : f[i] = r
    OBVIOUS
  <2>2. Cardinality(Older(S, r)) \in 0..(n - 1)
    BY RankRange DEF n
  <2> DEFINE i == Cardinality(Older(S, r)) + 1
  <2>3. i \in 1..n /\ i - 1 = Cardinality(Older(S, r))
    BY <1>2, <2>2
  <2> HIDE DEF i
  <2>4. f[i] = r
    BY <1>3, <1>4, <2>3
  <2> QED BY <2>3, <2>4
<1>8. f \in [1..n -> S]
  <2>1. f = [i \in 1..n |-> f[i]]
    BY DEF f
  <2> QED BY <1>4, <2>1
<1> QED BY <1>1, <1>2, <1>4, <1>6, <1>7, <1>8 DEF n

\* What is read from the table is in step with it, and tells no turn twice if
\* the table does not.
LEMMA InStepListing ==
  ASSUME NEW S, RowSet(S)
  PROVE  /\ Listing(S) \in Seq(Entry)
         /\ InStep(Listing(S), S)
         /\ (\A r, s \in S : r # s => r.turns \cap s.turns = {}) =>
              \A i, j \in DOMAIN Listing(S) :
                i # j => Listing(S)[i].turns \cap Listing(S)[j].turns = {}
<1> DEFINE n == Cardinality(S)
           q == Listing(S)
<1>1. n \in Nat /\ q \in Seq(Entry) /\ Len(q) = n
  BY ListingNames
<1>2. PICK at \in [1..n -> S] :
        /\ \A i \in 1..n : q[i] = EntryOf(at[i]) /\ Cardinality(Older(S, at[i])) = i - 1
        /\ \A r \in S : \E i \in 1..n : at[i] = r
  BY ListingNames
<1> HIDE DEF n, q
<1>3. ASSUME NEW m \in 0..n
      PROVE  SplitAlike(q, S, m)
  <2>1. \A i \in 1..n : at[i] \in Oldest(S, m) <=> i <= m
    BY <1>1, <1>2 DEF Oldest
  <2>2. \A r \in Oldest(S, m) : \E i \in 1..n : at[i] = r /\ i <= m
    BY <1>2, <2>1 DEF Oldest
  <2>3. \A r \in S \ Oldest(S, m) : \E i \in 1..n : at[i] = r /\ i > m
    BY <1>1, <1>2, <2>1
  <2>4. \A i \in 1..m : i \in 1..n
    BY <1>1
  <2>5. \A i \in (m + 1)..n : i \in 1..n /\ ~ (i <= m)
    BY <1>1
  <2>6. \A i \in 1..n : i <= m => i \in 1..m
    BY <1>1
  <2>7. \A i \in 1..n : i > m => i \in (m + 1)..n
    BY <1>1
  <2>8. FirstOf(q, m) = Told(Oldest(S, m))
    BY <1>2, <2>1, <2>2, <2>4, <2>6 DEF FirstOf, Told
  <2>9. Behind(q, m) = Told(S \ Oldest(S, m))
    <3>1. Behind(q, m) = {q[i] : i \in (m + 1)..n}
      BY <1>1 DEF Behind
    <3>2. \A i \in (m + 1)..n : at[i] \in S \ Oldest(S, m)
      BY <1>2, <2>1, <2>5
    <3> QED BY <1>2, <2>3, <2>5, <2>7, <3>1, <3>2 DEF Told
  <2> QED BY <2>8, <2>9 DEF SplitAlike
<1>4. InStep(q, S)
  BY <1>1, <1>3 DEF InStep, n
<1>5. ASSUME \A r, s \in S : r # s => r.turns \cap s.turns = {},
             NEW i \in DOMAIN q, NEW j \in DOMAIN q, i # j
      PROVE  q[i].turns \cap q[j].turns = {}
  <2>1. i \in 1..n /\ j \in 1..n
    BY <1>1, LenProperties
  <2>2. at[i] # at[j]
    BY <1>2, <1>5, <2>1
  <2>3. at[i] \in S /\ at[j] \in S
    BY <2>1
  <2>4. q[i].turns = at[i].turns /\ q[j].turns = at[j].turns
    <3>1. q[i] = EntryOf(at[i]) /\ q[j] = EntryOf(at[j])
      BY <1>2, <2>1
    <3>2. \A r : EntryOf(r).turns = r.turns
      BY DEF EntryOf
    <3> QED BY <3>1, <3>2
  <2> QED BY <1>5, <2>2, <2>3, <2>4
<1> QED BY <1>1, <1>4, <1>5 DEF q

\* What was met and what failed stays on record.
LEMMA RecordGrows ==
  ASSUME TypeInv, [Next]_vars
  PROVE  met \subseteq met' /\ (faults' = 0 => faults = 0)
<1>1. faults \in Nat
  BY DEF TypeInv, TypeOK
<1>2. met \subseteq met'
  BY DEF Next, PromptStep, JobStep, BeginPrompt, LoadFromRedis, LoadFromPostgres,
         PopulateCache, ExpireHydrated, ChatReply, PushMessage, PersistToDb, PersistFails,
         TrimCache, ExpireCache, NextMessage, FinishAdd, PromptFails, ReadAndDecide, Summarise,
         ReplacePrefix, TrimPrefix, PushSummary, ExpireSummary, JobFails, KeyExpires, Crash,
         Finished, ghostVars, vars
<1>3. faults' = faults \/ faults' = faults + 1
  BY DEF Next, PromptStep, JobStep, BeginPrompt, LoadFromRedis, LoadFromPostgres,
         PopulateCache, ExpireHydrated, ChatReply, PushMessage, PersistToDb, PersistFails,
         TrimCache, ExpireCache, PromptFails, ReadAndDecide, Summarise,
         ReplacePrefix, TrimPrefix, PushSummary, ExpireSummary, JobFails, KeyExpires, Crash,
         Finished, Fault, vars
<1> QED BY <1>1, <1>2, <1>3

\* A job joins those that run only where add() dispatches it.
LEMMA JobsStep ==
  ASSUME TypeInv, [Next]_vars
  PROVE  \/ Compacting' \subseteq Compacting
         \/ /\ "jobs" \in met' \/ Compacting = {}
            /\ \E p \in Prompts : Compacting' = Compacting \cup {p}
<1>0. job \in [Prompts -> JobState]
  BY DEF TypeInv, TypeOK
<1> USE DEF Compacting, Goto, JobGoto, EndJob
<1>1. ASSUME NEW p \in Prompts, FinishAdd(p)
      PROVE  \/ Compacting' \subseteq Compacting
             \/ /\ "jobs" \in met' \/ Compacting = {}
                /\ \E q \in Prompts : Compacting' = Compacting \cup {q}
  <2>1. CASE CompactionEnabled
    <3>1. job' = [job EXCEPT ![p] = "read"] /\ ("jobs" \in met' \/ Compacting = {})
      BY <1>1, <2>1 DEF FinishAdd
    <3>2. Compacting' = Compacting \cup {p}
      BY <1>0, <3>1
    <3> QED BY <3>1, <3>2
  <2>2. CASE ~ CompactionEnabled
    BY <1>0, <1>1, <2>2 DEF FinishAdd
  <2> QED BY <2>1, <2>2
<1>2. CASE \E p \in Prompts : PushMessage(p) \/ PersistToDb(p) \/ PersistFails(p) \/ ExpireCache(p)
  <2>1. UNCHANGED job \/ \E p \in Prompts : FinishAdd(p)
    BY <1>2 DEF PushMessage, PersistToDb, PersistFails, ExpireCache, NextMessage
  <2>2. CASE UNCHANGED job
    BY <2>2
  <2>3. CASE \E p \in Prompts : FinishAdd(p)
    BY <1>1, <2>3
  <2> QED BY <2>1, <2>2, <2>3
<1>3. CASE \E p \in Prompts : JobStep(p) \/ JobFails(p)
  <2>1. PICK p \in Prompts : JobStep(p) \/ JobFails(p)
    BY <1>3
  <2>2. p \in Compacting /\ \A q \in Prompts : q # p => job'[q] = job[q]
    <3>1. CASE ReadAndDecide(p)
      BY <1>0, <3>1 DEF ReadAndDecide
    <3>2. CASE Summarise(p) \/ ReplacePrefix(p) \/ TrimPrefix(p) \/ PushSummary(p) \/ ExpireSummary(p)
      BY <1>0, <3>2 DEF Summarise, ReplacePrefix, TrimPrefix, PushSummary, ExpireSummary
    <3>3. CASE JobFails(p)
      BY <1>0, <3>3 DEF JobFails
    <3> QED BY <2>1, <3>1, <3>2, <3>3 DEF JobStep
  <2> QED BY <2>2
<1>4. CASE (\E p \in Prompts :
              \/ BeginPrompt(p) \/ LoadFromRedis(p) \/ LoadFromPostgres(p) \/ PopulateCache(p)
              \/ ExpireHydrated(p) \/ ChatReply(p) \/ TrimCache(p) \/ PromptFails(p))
           \/ KeyExpires \/ UNCHANGED vars
  <2>1. UNCHANGED job
    BY <1>4 DEF BeginPrompt, LoadFromRedis, LoadFromPostgres, PopulateCache, ExpireHydrated,
                ChatReply, TrimCache, PromptFails, KeyExpires, jobVars, vars
  <2> QED BY <2>1
<1>5. CASE Crash
  BY <1>0, <1>5 DEF Crash
<1> QED BY <1>2, <1>3, <1>4, <1>5 DEF Next, PromptStep, Finished

\* What ReplacePrefix does to a table that holds the prefix.
LEMMA ReplaceEffect ==
  ASSUME ArchiveInv, NEW p \in Prompts, ReplacePrefix(p), prefix[p] \subseteq rows
  PROVE  rows' = (rows \ prefix[p]) \cup {RowOf(nextId, SummaryOf(prefix[p]))}
<1>1. \A x \in prefix[p] : \A r \in rows : r.id = x.id => r = x
  BY DEF ReplacePrefix, ArchiveInv, RowIdsAreStable
<1>2. \A r \in rows : r \notin prefix[p] <=> \A x \in prefix[p] : r.id # x.id
  BY <1>1
<1>3. {r \in rows : \A x \in prefix[p] : r.id # x.id} = rows \ prefix[p]
  BY <1>2
<1>4. rows' = {r \in rows : \A x \in prefix[p] : r.id # x.id} \cup {RowOf(nextId, SummaryOf(prefix[p]))}
  BY DEF ReplacePrefix
<1> QED BY <1>3, <1>4

LEMMA FoldStep == ArchiveInv /\ FoldInv /\ [Next]_vars => FoldInv'
<1> SUFFICES ASSUME ArchiveInv, FoldInv, [Next]_vars, "jobs" \notin met'
             PROVE  JobsApart' /\ PrefixIsThere' /\ TurnsFoldedOnce'
  BY DEF FoldInv
<1>0. TypeInv /\ job \in [Prompts -> JobState]
  BY DEF ArchiveInv, TypeInv, TypeOK
<1>1. JobsApart /\ PrefixIsThere /\ TurnsFoldedOnce
  BY <1>0, RecordGrows DEF FoldInv
<1>2. JobsApart'
  <2>1. CASE Compacting' \subseteq Compacting
    BY <1>1, <2>1 DEF JobsApart
  <2>2. CASE Compacting = {} /\ \E p \in Prompts : Compacting' = Compacting \cup {p}
    BY <2>2 DEF JobsApart
  <2> QED BY <1>0, <2>1, <2>2, JobsStep
<1>3. ASSUME NEW p \in Prompts, ReplacePrefix(p)
      PROVE  /\ prefix[p] \subseteq rows
             /\ \A q \in Prompts : job[q] \in {"summarise", "replace"} => q = p
             /\ job'[p] \notin {"summarise", "replace"}
  BY <1>0, <1>1, <1>3 DEF ReplacePrefix, PrefixIsThere, JobsApart, Compacting, JobGoto, EndJob
<1>4. PrefixIsThere'
  <2>1. SUFFICES ASSUME NEW q \in Prompts, job'[q] \in {"summarise", "replace"}
                 PROVE  prefix'[q] \subseteq rows'
    BY DEF PrefixIsThere
  <2>2. CASE job[q] \in {"summarise", "replace"} /\ prefix'[q] = prefix[q]
    <3>1. prefix[q] \subseteq rows
      BY <1>1, <2>2 DEF PrefixIsThere
    <3>2. rows \subseteq rows'
      BY <1>3, <2>1, <2>2, RowsStep DEF PersistToDb
    <3> QED BY <2>2, <3>1, <3>2
  <2>3. CASE UNCHANGED <<rows, nextId>> /\ prefix'[q] \subseteq rows
    BY <2>3
  <2> QED BY <1>0, <2>1, <2>2, <2>3, PrefixStep
<1>5. TurnsFoldedOnce'
  <2>1. CASE \E p \in Prompts : PersistToDb(p)
    <3>1. PICK p \in Prompts : PersistToDb(p)
      BY <2>1
    <3> DEFINE new == RowOf(nextId, RawEntry(p, msg[p]))
    <3>2. new.turns = {<<p, msg[p]>>}
      BY DEF RowOf, RawEntry
    <3> HIDE DEF new
    <3>3. rows' = rows \cup {new}
      BY <3>1 DEF PersistToDb, new
    <3>4. \A r \in rows : <<p, msg[p]>> \notin r.turns
      BY <3>1, PersistArchives, CoveredElement
    <3> QED BY <1>1, <3>2, <3>3, <3>4 DEF TurnsFoldedOnce
  <2>2. CASE \E p \in Prompts : ReplacePrefix(p)
    <3>1. PICK p \in Prompts : ReplacePrefix(p)
      BY <2>2
    <3> DEFINE new == RowOf(nextId, SummaryOf(prefix[p]))
    <3>2. new.turns = Covered(prefix[p])
      BY DEF RowOf, SummaryOf, Covered
    <3> HIDE DEF new
    <3>3. rows' = (rows \ prefix[p]) \cup {new} /\ prefix[p] \subseteq rows
      BY <1>3, <3>1, ReplaceEffect DEF new
    <3>4. ASSUME NEW r \in rows \ prefix[p], NEW t \in r.turns
          PROVE  t \notin new.turns
      <4>1. SUFFICES ASSUME NEW x \in prefix[p], t \in x.turns PROVE FALSE
        BY <3>2, CoveredElement
      <4>2. x \in rows /\ x # r /\ t \in r.turns \cap x.turns
        BY <3>3, <3>4, <4>1
      <4> QED BY <1>1, <4>2 DEF TurnsFoldedOnce
    <3>5. \A r \in rows \ prefix[p] : r.turns \cap new.turns = {} /\ new.turns \cap r.turns = {}
      BY <3>4
    <3> QED BY <1>1, <3>3, <3>5 DEF TurnsFoldedOnce
  <2>3. CASE UNCHANGED rows
    BY <1>1, <2>3 DEF TurnsFoldedOnce
  <2> QED BY RowsStep, <2>1, <2>2, <2>3
<1> QED BY <1>2, <1>4, <1>5

LEMMA FoldInvInit == Init => FoldInv
  BY DEF Init, FoldInv, JobsApart, PrefixIsThere, TurnsFoldedOnce, Compacting

LEMMA SeenStep == TypeInv /\ SeenInv /\ [Next]_vars => SeenInv'
<1> SUFFICES ASSUME TypeInv, SeenInv, [Next]_vars PROVE SeenInv'
  OBVIOUS
<1>0. /\ pc \in [Prompts -> PromptState] /\ lastSeen \in [Prompts -> SUBSET Prompts]
      /\ lastDone \subseteq Prompts
  BY DEF TypeInv, TypeOK
<1>1. \A p \in Prompts : \A q \in lastDone \cup lastSeen[p] : q \in Prompts /\ pc[q] = "done"
  BY <1>0 DEF SeenInv
<1> USE DEF Goto, Forget
<1>2. \A q \in Prompts : pc[q] = "done" => pc'[q] = "done"
  <2>1. CASE (\E p \in Prompts : \/ BeginPrompt(p) \/ LoadFromRedis(p) \/ LoadFromPostgres(p)
                                 \/ PopulateCache(p) \/ ExpireHydrated(p) \/ ChatReply(p))
    BY <1>0, <2>1 DEF BeginPrompt, LoadFromRedis, LoadFromPostgres, PopulateCache, ExpireHydrated,
                      ChatReply
  <2>2. CASE \E p \in Prompts : \/ PushMessage(p) \/ PersistToDb(p) \/ PersistFails(p)
                                \/ TrimCache(p) \/ ExpireCache(p) \/ PromptFails(p)
    BY <1>0, <2>2 DEF PushMessage, PersistToDb, PersistFails, TrimCache, ExpireCache, PromptFails,
                      NextMessage, FinishAdd
  <2>3. CASE (\E p \in Prompts : JobStep(p) \/ JobFails(p)) \/ KeyExpires \/ UNCHANGED vars
    BY <2>3 DEF JobStep, ReadAndDecide, Summarise, ReplacePrefix, TrimPrefix, PushSummary,
                ExpireSummary, JobFails, KeyExpires, promptVars, vars
  <2>4. CASE Crash
    BY <2>4 DEF Crash, InFlight
  <2> QED BY <2>1, <2>2, <2>3, <2>4 DEF Next, PromptStep, Finished
<1>3. \/ UNCHANGED <<lastDone, lastSeen>>
      \/ \E p \in Prompts : UNCHANGED lastSeen /\ lastDone' = {p} /\ pc'[p] = "done"
      \/ UNCHANGED lastDone /\ \A p \in Prompts : lastSeen'[p] \subseteq lastDone \cup lastSeen[p]
  <2>1. CASE \E p \in Prompts : BeginPrompt(p) \/ ChatReply(p) \/ PromptFails(p)
    BY <1>0, <2>1 DEF BeginPrompt, ChatReply, PromptFails
  <2>2. CASE \E p \in Prompts : PushMessage(p) \/ PersistToDb(p) \/ PersistFails(p) \/ ExpireCache(p)
    BY <1>0, <2>2 DEF PushMessage, PersistToDb, PersistFails, ExpireCache, NextMessage, FinishAdd
  <2>3. CASE (\E p \in Prompts : \/ LoadFromRedis(p) \/ LoadFromPostgres(p) \/ PopulateCache(p)
                                 \/ ExpireHydrated(p) \/ TrimCache(p) \/ JobStep(p) \/ JobFails(p))
             \/ KeyExpires \/ UNCHANGED vars
    BY <2>3 DEF LoadFromRedis, LoadFromPostgres, PopulateCache, ExpireHydrated, TrimCache, JobStep,
                ReadAndDecide, Summarise, ReplacePrefix, TrimPrefix, PushSummary,
                ExpireSummary, JobFails, KeyExpires, ghostVars, vars
  <2>4. CASE Crash
    BY <1>0, <2>4 DEF Crash
  <2> QED BY <2>1, <2>2, <2>3, <2>4 DEF Next, PromptStep, Finished
<1> QED BY <1>1, <1>2, <1>3 DEF SeenInv
-----------------------------------------------------------------------------
(* Prompts and jobs in turn.                                               *)

SerialInv == Serial => AloneInv /\ SummaryInv /\ StoresInv /\ CacheHoldsTurnsOnce

StepsInv == ArchiveInv /\ FoldInv /\ SeenInv /\ SerialInv

\* What the steps below start from.
InTurn == StepsInv /\ Serial /\ Serial'

LEMMA RoomyFacts ==
  ASSUME Roomy
  PROVE  /\ RedisEnabled /\ PostgresEnabled /\ CompactionEnabled
         /\ TurnTrigger \in Nat /\ KeptRaw \in Nat /\ KeptRaw >= 1 /\ TurnTrigger > 2 * KeptRaw
         /\ EffectiveCacheSize \in Nat /\ LoadLimit \in Nat
         /\ EffectiveCacheSize > TurnTrigger /\ LoadLimit >= EffectiveCacheSize
  BY ConfigAssumption, KeptRawType, CacheSizePositive DEF Roomy

LEMMA InTurnFacts ==
  ASSUME InTurn
  PROVE  /\ Roomy /\ faults = 0 /\ faults' = 0 /\ met = {} /\ met' = {}
         /\ ArchiveInv /\ TypeInv /\ AloneInv /\ SummaryInv /\ StoresInv /\ CacheHoldsTurnsOnce
         /\ TurnsFoldedOnce /\ PrefixIsThere
         /\ RowSet(rows) /\ redis \in Seq(Entry)
         /\ pc \in [Prompts -> PromptState] /\ job \in [Prompts -> JobState]
         /\ msg \in [Prompts -> {1, 2}] /\ history \in [Prompts -> Seq(Entry)]
         /\ \A r \in rows : r.id < nextId
         /\ nextId \in Nat
<1>1. Roomy /\ faults = 0 /\ faults' = 0 /\ met = {} /\ met' = {}
  BY DEF InTurn, Serial
<1>2. AloneInv /\ SummaryInv /\ StoresInv /\ CacheHoldsTurnsOnce
  BY DEF InTurn, StepsInv, SerialInv
<1>3. ArchiveInv /\ TypeInv /\ TurnsFoldedOnce /\ PrefixIsThere
  BY <1>1 DEF InTurn, StepsInv, FoldInv, ArchiveInv
<1> QED BY <1>1, <1>2, <1>3 DEF TypeInv, TypeOK, RowsInv, RowSet

\* One is under way: a prompt that moves on stays the only one ...
LEMMA PromptMoves ==
  ASSUME InTurn, NEW p \in Prompts, p \in InFlight, UNCHANGED job,
         \A q \in Prompts : q # p => pc'[q] = pc[q],
         pc'[p] \in PromptState \ {"new", "done", "failed"},
         PromptAt(p)'
  PROVE  AloneInv' /\ StoresInv'
<1>1. AloneInv /\ job \in [Prompts -> JobState] /\ pc \in [Prompts -> PromptState]
  BY InTurnFacts
<1>2. job[p] = "none" /\ \A q \in Busy : q = p
  BY <1>1 DEF AloneInv, Busy, InFlight
<1>3. \A q \in Busy' : q = p
  BY <1>1, <1>2 DEF Busy, InFlight, Compacting
<1>4. p \in Busy'
  BY DEF Busy, InFlight
<1>5. JobAt(p)'
  BY <1>2 DEF JobAt
<1>6. AloneInv'
  BY <1>1, <1>2, <1>3 DEF AloneInv
<1> QED BY <1>3, <1>4, <1>5, <1>6 DEF StoresInv

\* ... and so does a job, until it ends.
LEMMA JobMoves ==
  ASSUME InTurn, NEW p \in Prompts, p \in Compacting, UNCHANGED pc,
         \A q \in Prompts : q # p => job'[q] = job[q],
         job'[p] \in JobState \ {"none"},
         job'[p] # "done" => JobAt(p)',
         job'[p] = "done" => AtRest'
  PROVE  AloneInv' /\ StoresInv'
<1>1. AloneInv /\ job \in [Prompts -> JobState] /\ pc \in [Prompts -> PromptState]
  BY InTurnFacts
<1>2. pc[p] = "done" /\ \A q \in Busy : q = p
  BY <1>1 DEF AloneInv, Busy, Compacting
<1>3. \A q \in Busy' : q = p
  BY <1>1, <1>2 DEF Busy, InFlight, Compacting
<1>4. p \in Busy' => job'[p] # "done"
  BY <1>2 DEF Busy, InFlight, Compacting
<1>5. Busy' = {} => job'[p] = "done"
  BY DEF Busy, Compacting
<1>6. PromptAt(p)'
  BY <1>2 DEF PromptAt, BeforeSaving, Saving
<1>7. AloneInv'
  BY <1>1, <1>2, <1>3 DEF AloneInv
<1> QED BY <1>3, <1>4, <1>5, <1>6, <1>7 DEF StoresInv

\* A step that touches neither store leaves what is said of them.
LEMMA StoresUntouched ==
  ASSUME InTurn, UNCHANGED <<redis, rows>>
  PROVE  SummaryInv' /\ CacheHoldsTurnsOnce'
<1>1. SummaryInv /\ CacheHoldsTurnsOnce
  BY InTurnFacts
<1> QED BY <1>1 DEF SummaryInv, CacheHoldsTurnsOnce

LEMMA BeginPromptInTurn ==
  ASSUME InTurn, NEW p \in Prompts, BeginPrompt(p)
  PROVE  AloneInv' /\ StoresInv' /\ SummaryInv' /\ CacheHoldsTurnsOnce'
<1>1. /\ Roomy /\ met' = {} /\ AloneInv /\ StoresInv
      /\ pc \in [Prompts -> PromptState] /\ job \in [Prompts -> JobState]
  BY InTurnFacts
<1>2. Quiet
  BY <1>1 DEF BeginPrompt
<1>3. Busy = {} /\ AtRest
  BY <1>1, <1>2 DEF Busy, Quiet, StoresInv
<1>4. UNCHANGED <<redis, rows, job>> /\ pc' = [pc EXCEPT ![p] = "range"] /\ pc[p] = "new"
  BY <1>1, RoomyFacts DEF BeginPrompt, Goto, cacheVars, tableVars, jobVars
<1>5. PromptAt(p)'
  BY <1>1, <1>3, <1>4 DEF AtRest, PromptAt, BeforeSaving, Saving, Size
<1>6. Busy' = {p}
  BY <1>1, <1>3, <1>4 DEF Busy, InFlight, Compacting
<1>7. job[p] = "none"
  BY <1>1, <1>4 DEF AloneInv
<1>8. JobAt(p)'
  BY <1>4, <1>7 DEF JobAt
<1>9. AloneInv'
  BY <1>1, <1>4, <1>6, <1>7 DEF AloneInv
<1>10. StoresInv'
  BY <1>5, <1>6, <1>8 DEF StoresInv
<1> QED BY <1>4, <1>9, <1>10, StoresUntouched

LEMMA LoadFromRedisInTurn ==
  ASSUME InTurn, NEW p \in Prompts, LoadFromRedis(p)
  PROVE  AloneInv' /\ StoresInv' /\ SummaryInv' /\ CacheHoldsTurnsOnce'
<1>1. /\ Roomy /\ StoresInv /\ RowSet(rows) /\ redis \in Seq(Entry)
      /\ pc \in [Prompts -> PromptState] /\ history \in [Prompts -> Seq(Entry)]
  BY InTurnFacts
<1>2. pc[p] = "range" /\ p \in InFlight
  BY DEF LoadFromRedis, InFlight
<1>3. PromptAt(p)
  BY <1>1, <1>2 DEF StoresInv, Busy
<1>4. UNCHANGED <<redis, rows, job>>
  BY DEF LoadFromRedis, cacheVars, tableVars, jobVars
<1>5. Size < TurnTrigger /\ (redis = <<>> \/ InStep(redis, rows))
  BY <1>2, <1>3 DEF PromptAt, BeforeSaving
<1>6. CASE redis = <<>>
  <2>1. pc' = [pc EXCEPT ![p] = "select"]
    BY <1>1, <1>6, RoomyFacts DEF LoadFromRedis, Goto, AfterRedis
  <2>2. PromptAt(p)'
    BY <1>1, <1>4, <1>5, <1>6, <2>1 DEF PromptAt, BeforeSaving, Saving, Size
  <2>3. AloneInv' /\ StoresInv'
    BY <1>1, <1>2, <1>4, <2>1, <2>2, PromptMoves DEF PromptState
  <2> QED BY <1>4, <2>3, StoresUntouched
<1>7. CASE redis # <<>>
  <2>1. /\ pc' = [pc EXCEPT ![p] = "llm"]
        /\ history' = [history EXCEPT ![p] = SliceTail(redis, LoadLimit)]
    BY <1>7 DEF LoadFromRedis, Goto
  <2>2. InStep(redis, rows)
    BY <1>5, <1>7
  <2>3. Len(redis) = Size /\ Size \in Nat /\ Entries(redis) = Told(rows)
    BY <1>1, <2>2, InStepWhole DEF Size
  <2>4. Len(redis) <= LoadLimit /\ LoadLimit \in Nat
    BY <1>1, <1>5, <2>3, RoomyFacts
  <2>5. SliceTail(redis, LoadLimit) = redis
    BY <1>1, <2>4, ListCuts
  <2>6. history'[p] = redis
    BY <1>1, <2>1, <2>5
  <2>7. PromptAt(p)'
    BY <1>1, <1>4, <1>5, <2>1, <2>2, <2>3, <2>6 DEF PromptAt, BeforeSaving, Saving, Size
  <2>8. AloneInv' /\ StoresInv'
    BY <1>1, <1>2, <1>4, <2>1, <2>7, PromptMoves DEF PromptState
  <2> QED BY <1>4, <2>8, StoresUntouched
<1> QED BY <1>6, <1>7

LEMMA LoadFromPostgresInTurn ==
  ASSUME InTurn, NEW p \in Prompts, LoadFromPostgres(p)
  PROVE  AloneInv' /\ StoresInv' /\ SummaryInv' /\ CacheHoldsTurnsOnce'
<1>1. /\ Roomy /\ StoresInv /\ RowSet(rows)
      /\ pc \in [Prompts -> PromptState] /\ history \in [Prompts -> Seq(Entry)]
  BY InTurnFacts
<1>2. pc[p] = "select" /\ p \in InFlight
  BY DEF LoadFromPostgres, InFlight
<1>3. PromptAt(p)
  BY <1>1, <1>2 DEF StoresInv, Busy
<1>4. UNCHANGED <<redis, rows, job>>
  BY DEF LoadFromPostgres, cacheVars, tableVars, jobVars
<1>5. Size < TurnTrigger /\ redis = <<>>
  BY <1>2, <1>3 DEF PromptAt, BeforeSaving
<1>6. Listing(rows) \in Seq(Entry) /\ Len(Listing(rows)) = Size /\ Size \in Nat
  BY <1>1, ListingNames DEF Size
<1>7. Newest(rows, EffectiveCacheSize) = rows
  <2>1. EffectiveCacheSize \in Nat /\ EffectiveCacheSize >= Cardinality(rows)
    BY <1>1, <1>5, <1>6, RoomyFacts DEF Size
  <2> QED BY <1>1, <2>1, OldestAndNewestAll
<1>8. CASE Listing(rows) # <<>>
  <2>1. /\ pc' = [pc EXCEPT ![p] = "hydrate"]
        /\ history' = [history EXCEPT ![p] = Listing(rows)]
    BY <1>1, <1>7, <1>8, RoomyFacts DEF LoadFromPostgres, Goto
  <2>2. PromptAt(p)'
    BY <1>1, <1>4, <1>5, <2>1 DEF PromptAt, BeforeSaving, Saving, Size
  <2>3. AloneInv' /\ StoresInv'
    BY <1>1, <1>2, <1>4, <2>1, <2>2, PromptMoves DEF PromptState
  <2> QED BY <1>4, <2>3, StoresUntouched
<1>9. CASE Listing(rows) = <<>>
  <2>1. /\ pc' = [pc EXCEPT ![p] = "llm"]
        /\ history' = [history EXCEPT ![p] = SliceTail(<<>>, LoadLimit)]
    BY <1>1, <1>7, <1>9, RoomyFacts DEF LoadFromPostgres, Goto
  <2>2. <<>> \in Seq(Entry) /\ Len(<<>>) = 0
    BY EmptySeq
  <2>3. rows = {}
    BY <1>1, <1>6, <1>9, <2>2, FS_EmptySet DEF Size, RowSet
  <2>4. SliceTail(<<>>, LoadLimit) = <<>>
    BY <1>1, <2>2, RoomyFacts, ListCuts
  <2>5. Entries(history'[p]) = Told(rows)
    <3>1. history'[p] = <<>>
      BY <1>1, <2>1, <2>4
    <3>2. Entries(<<>>) = {} /\ Told({}) = {}
      BY DEF Entries, Told
    <3> QED BY <2>3, <3>1, <3>2
  <2>6. InStep(redis, rows)
    BY <1>5, <2>3, InStepEmpty
  <2>7. PromptAt(p)'
    BY <1>1, <1>4, <1>5, <2>1, <2>5, <2>6 DEF PromptAt, BeforeSaving, Saving, Size
  <2>8. AloneInv' /\ StoresInv'
    BY <1>1, <1>2, <1>4, <2>1, <2>7, PromptMoves DEF PromptState
  <2> QED BY <1>4, <2>8, StoresUntouched
<1> QED BY <1>8, <1>9

LEMMA PopulateCacheInTurn ==
  ASSUME InTurn, NEW p \in Prompts, PopulateCache(p)
  PROVE  AloneInv' /\ StoresInv' /\ SummaryInv' /\ CacheHoldsTurnsOnce'
<1>1. /\ StoresInv /\ SummaryInv /\ TurnsFoldedOnce /\ RowSet(rows)
      /\ pc \in [Prompts -> PromptState] /\ history \in [Prompts -> Seq(Entry)]
  BY InTurnFacts
<1>2. pc[p] = "hydrate" /\ p \in InFlight
  BY DEF PopulateCache, InFlight
<1>3. PromptAt(p)
  BY <1>1, <1>2 DEF StoresInv, Busy
<1>4. /\ UNCHANGED <<rows, job, history>> /\ pc' = [pc EXCEPT ![p] = "expireHydrated"]
      /\ redis' = redis \o history[p]
  BY DEF PopulateCache, WriteList, Goto, tableVars, jobVars
<1>5. Size < TurnTrigger /\ redis = <<>> /\ history[p] = Listing(rows)
  BY <1>2, <1>3 DEF PromptAt, BeforeSaving
<1>6. redis' = history[p]
  BY <1>1, <1>4, <1>5, ConcatEmptySeq
<1>7. /\ InStep(history[p], rows)
      /\ \A i, j \in DOMAIN history[p] :
           i # j => history[p][i].turns \cap history[p][j].turns = {}
  BY <1>1, <1>5, InStepListing DEF TurnsFoldedOnce
<1>8. PromptAt(p)'
  BY <1>1, <1>4, <1>5, <1>6, <1>7 DEF PromptAt, BeforeSaving, Saving, Size
<1>9. AloneInv' /\ StoresInv'
  BY <1>1, <1>2, <1>4, <1>8, PromptMoves DEF PromptState
<1>10. CacheHoldsTurnsOnce'
  BY <1>6, <1>7 DEF CacheHoldsTurnsOnce
<1>11. SummaryInv'
  BY <1>1, <1>4 DEF SummaryInv
<1> QED BY <1>9, <1>10, <1>11

LEMMA ExpireHydratedInTurn ==
  ASSUME InTurn, NEW p \in Prompts, ExpireHydrated(p)
  PROVE  AloneInv' /\ StoresInv' /\ SummaryInv' /\ CacheHoldsTurnsOnce'
<1>1. /\ Roomy /\ StoresInv /\ RowSet(rows) /\ redis \in Seq(Entry)
      /\ pc \in [Prompts -> PromptState] /\ history \in [Prompts -> Seq(Entry)]
  BY InTurnFacts
<1>2. pc[p] = "expireHydrated" /\ p \in InFlight
  BY DEF ExpireHydrated, InFlight
<1>3. PromptAt(p)
  BY <1>1, <1>2 DEF StoresInv, Busy
<1>4. /\ UNCHANGED <<redis, rows, job>> /\ pc' = [pc EXCEPT ![p] = "llm"]
      /\ history' = [history EXCEPT ![p] = SliceTail(history[p], LoadLimit)]
  BY DEF ExpireHydrated, ExpireCommand, Goto, tableVars, jobVars
<1>5. Size < TurnTrigger /\ history[p] = redis /\ InStep(redis, rows)
  BY <1>2, <1>3 DEF PromptAt, BeforeSaving
<1>6. Len(redis) = Size /\ Size \in Nat /\ Entries(redis) = Told(rows)
  BY <1>1, <1>5, InStepWhole DEF Size
<1>7. Len(redis) <= LoadLimit /\ LoadLimit \in Nat
  BY <1>1, <1>5, <1>6, RoomyFacts
<1>8. history'[p] = redis
  BY <1>1, <1>4, <1>5, <1>7, ListCuts
<1>9. PromptAt(p)'
  BY <1>1, <1>4, <1>5, <1>6, <1>8 DEF PromptAt, BeforeSaving, Saving, Size
<1>10. AloneInv' /\ StoresInv'
  BY <1>1, <1>2, <1>4, <1>9, PromptMoves DEF PromptState
<1> QED BY <1>4, <1>10, StoresUntouched

LEMMA ChatReplyInTurn ==
  ASSUME InTurn, NEW p \in Prompts, ChatReply(p)
  PROVE  AloneInv' /\ StoresInv' /\ SummaryInv' /\ CacheHoldsTurnsOnce'
<1>1. /\ Roomy /\ ArchiveInv /\ StoresInv /\ RowSet(rows) /\ pc \in [Prompts -> PromptState]
  BY InTurnFacts
<1>2. pc[p] = "llm" /\ p \in InFlight
  BY DEF ChatReply, InFlight
<1>3. PromptAt(p) /\ LedgerOf(p)
  BY <1>1, <1>2 DEF StoresInv, Busy, ArchiveInv, LedgerInv
<1>4. UNCHANGED <<redis, rows, job, msg>> /\ pc' = [pc EXCEPT ![p] = "push"]
  BY <1>1, RoomyFacts DEF ChatReply, Goto, FirstWrite, cacheVars, tableVars, jobVars
<1>5. Size < TurnTrigger /\ InStep(redis, rows) /\ msg[p] = 1
  BY <1>2, <1>3 DEF PromptAt, BeforeSaving, LedgerOf
<1>6. Size \in Nat /\ TurnTrigger \in Nat
  BY <1>1, RoomyFacts, FS_CardinalityType DEF Size, RowSet
<1>7. Size + 1 < TurnTrigger + msg[p]
  BY <1>5, <1>6
<1>8. PromptAt(p)'
  BY <1>1, <1>4, <1>5, <1>7 DEF PromptAt, BeforeSaving, Saving, Size
<1>9. AloneInv' /\ StoresInv'
  BY <1>1, <1>2, <1>4, <1>8, PromptMoves DEF PromptState
<1> QED BY <1>4, <1>9, StoresUntouched

\* The turn a prompt is saving is in neither store yet.
LEMMA SavingIsNew ==
  ASSUME InTurn, NEW p \in Prompts, pc[p] \in Saving
  PROVE  <<p, msg[p]>> \notin Covered(rows)
<1>1. msg[p] \in {1, 2} /\ LedgerOf(p)
  BY InTurnFacts DEF ArchiveInv, LedgerInv
<1>2. \A i \in {1, 2} : i >= msg[p] => <<p, i>> \notin Covered(rows)
  BY <1>1 DEF LedgerOf
<1>3. msg[p] >= msg[p]
  BY <1>1
<1> QED BY <1>1, <1>2, <1>3

LEMMA PushMessageInTurn ==
  ASSUME InTurn, NEW p \in Prompts, PushMessage(p)
  PROVE  AloneInv' /\ StoresInv' /\ SummaryInv' /\ CacheHoldsTurnsOnce'
<1> DEFINE e == RawEntry(p, msg[p])
<1>1. /\ Roomy /\ StoresInv /\ SummaryInv /\ CacheHoldsTurnsOnce /\ RowSet(rows)
      /\ redis \in Seq(Entry) /\ pc \in [Prompts -> PromptState] /\ msg \in [Prompts -> {1, 2}]
  BY InTurnFacts
<1>2. pc[p] = "push" /\ p \in InFlight
  BY DEF PushMessage, InFlight
<1>3. PromptAt(p)
  BY <1>1, <1>2 DEF StoresInv, Busy
<1>4. /\ UNCHANGED <<rows, job, msg>> /\ pc' = [pc EXCEPT ![p] = "insert"]
      /\ redis' = Append(redis, e)
  BY <1>1, RoomyFacts DEF PushMessage, WriteList, Goto, tableVars
<1>5. Size + 1 < TurnTrigger + msg[p] /\ InStep(redis, rows)
  BY <1>2, <1>3 DEF PromptAt, Saving
<1>6. e \in Entry /\ e.turns = {<<p, msg[p]>>}
  BY <1>1, EntryTypes DEF RawEntry
<1>7. PromptAt(p)'
  <2>1. \E q \in Seq(Entry) : InStep(q, rows') /\ redis' = Append(q, RawEntry(p, msg'[p]))
    BY <1>1, <1>4, <1>5
  <2> QED BY <1>1, <1>4, <1>5, <2>1 DEF PromptAt, BeforeSaving, Saving, Size
<1>8. AloneInv' /\ StoresInv'
  BY <1>1, <1>2, <1>4, <1>7, PromptMoves DEF PromptState
<1>9. CacheHoldsTurnsOnce'
  <2>1. <<p, msg[p]>> \notin Covered(Entries(redis))
    <3>1. <<p, msg[p]>> \notin Covered(rows)
      BY <1>2, SavingIsNew DEF Saving
    <3>2. Covered(Entries(redis)) = Covered(rows)
      BY <1>1, <1>5, InStepWhole
    <3> QED BY <3>1, <3>2
  <2>2. \A i \in DOMAIN redis : <<p, msg[p]>> \notin redis[i].turns
    <3>1. \A i \in DOMAIN redis : redis[i] \in Entries(redis)
      BY DEF Entries
    <3> QED BY <2>1, <3>1, CoveredElement
  <2> HIDE DEF e
  <2>3. /\ Len(redis) \in Nat /\ DOMAIN redis = 1..Len(redis)
        /\ \A i \in 1..Len(redis) : redis'[i] = redis[i]
        /\ redis'[Len(redis) + 1] = e /\ DOMAIN redis' = 1..(Len(redis) + 1)
    <3>1. /\ redis' \in Seq(Entry) /\ Len(redis') = Len(redis) + 1
          /\ \A i \in 1..Len(redis) : redis'[i] = redis[i]
          /\ redis'[Len(redis) + 1] = e
      BY <1>1, <1>4, <1>6, AppendProperties
    <3> QED BY <1>1, <3>1, LenProperties
  <2>4. ASSUME NEW i \in 1..(Len(redis) + 1), NEW j \in 1..(Len(redis) + 1), i # j
        PROVE  redis'[i].turns \cap redis'[j].turns = {}
    <3>1. CASE i \in 1..Len(redis) /\ j \in 1..Len(redis)
      <4>1. redis'[i] = redis[i] /\ redis'[j] = redis[j]
        BY <2>3, <3>1
      <4>2. redis[i].turns \cap redis[j].turns = {}
        BY <1>1, <2>3, <2>4, <3>1 DEF CacheHoldsTurnsOnce
      <4> QED BY <4>1, <4>2
    <3>2. CASE i = Len(redis) + 1
      <4>1. j \in 1..Len(redis)
        BY <2>3, <2>4, <3>2
      <4>2. redis'[j] = redis[j] /\ redis'[i] = e /\ <<p, msg[p]>> \notin redis[j].turns
        BY <2>2, <2>3, <3>2, <4>1
      <4> QED BY <1>6, <4>2
    <3>3. CASE j = Len(redis) + 1
      <4>1. i \in 1..Len(redis)
        BY <2>3, <2>4, <3>3
      <4>2. redis'[i] = redis[i] /\ redis'[j] = e /\ <<p, msg[p]>> \notin redis[i].turns
        BY <2>2, <2>3, <3>3, <4>1
      <4> QED BY <1>6, <4>2
    <3> QED BY <2>3, <3>1, <3>2, <3>3
  <2> QED BY <2>3, <2>4 DEF CacheHoldsTurnsOnce
<1>10. SummaryInv'
  BY <1>1, <1>4 DEF SummaryInv
<1> QED BY <1>8, <1>9, <1>10

LEMMA PersistInTurn ==
  ASSUME InTurn, NEW p \in Prompts, PersistToDb(p)
  PROVE  AloneInv' /\ StoresInv' /\ SummaryInv' /\ CacheHoldsTurnsOnce'
<1> DEFINE e == RawEntry(p, msg[p])
           x == RowOf(nextId, e)
<1>1. /\ Roomy /\ StoresInv /\ SummaryInv /\ CacheHoldsTurnsOnce /\ RowSet(rows)
      /\ pc \in [Prompts -> PromptState] /\ msg \in [Prompts -> {1, 2}]
      /\ nextId \in Nat /\ \A r \in rows : r.id < nextId
  BY InTurnFacts
<1>2. pc[p] = "insert" /\ p \in InFlight
  BY DEF PersistToDb, InFlight
<1>3. PromptAt(p)
  BY <1>1, <1>2 DEF StoresInv, Busy
<1>4. /\ rows' = rows \cup {x} /\ UNCHANGED <<redis, job>>
      /\ \/ msg[p] = 1 /\ msg' = [msg EXCEPT ![p] = 2] /\ pc' = [pc EXCEPT ![p] = "push"]
         \/ msg[p] = 2 /\ UNCHANGED msg /\ pc' = [pc EXCEPT ![p] = "trim"]
  BY <1>1, RoomyFacts DEF PersistToDb, NextMessage, FirstWrite, Goto, cacheVars
<1>5. Size + 1 < TurnTrigger + msg[p]
  BY <1>2, <1>3 DEF PromptAt, Saving
<1>6. PICK q \in Seq(Entry) : InStep(q, rows) /\ redis = Append(q, e)
  BY <1>2, <1>3 DEF PromptAt
<1>7. /\ e \in Entry /\ x \in Row /\ x.id = nextId
      /\ EntryOf(x) = e /\ ~ IsSummary(x)
  BY <1>1, EntryTypes DEF RowOf, EntryOf, RawEntry, IsSummary
<1> HIDE DEF x, e
<1>8. InStep(redis, rows \cup {x})
  <2>1. InStep(Append(q, EntryOf(x)), rows \cup {x})
    BY <1>1, <1>6, <1>7, InStepAppend
  <2> QED BY <1>6, <1>7, <2>1
<1>9. /\ Cardinality(rows \cup {x}) = Size + 1 /\ Size \in Nat /\ x \notin rows
      /\ \A r \in rows : Older(rows \cup {x}, r) = Older(rows, r)
  BY <1>1, <1>7, NewestJoins DEF Size
<1>10. InStep(redis', rows') /\ Size' = Size + 1
  <2>1. InStep(redis', rows')
    BY <1>4, <1>8, Zenon
  <2>2. Cardinality(rows') = Size + 1
    BY <1>4, <1>9, Zenon
  <2> QED BY <2>1, <2>2 DEF Size
<1>11. TurnTrigger \in Nat
  BY <1>1, RoomyFacts
<1>12. AloneInv' /\ StoresInv'
  <2>1. CASE msg[p] = 1
    <3>1. pc'[p] = "push" /\ msg'[p] = 2 /\ Size' + 1 < TurnTrigger + msg'[p]
      BY <1>1, <1>4, <1>5, <1>9, <1>10, <1>11, <2>1
    <3>2. PromptAt(p)'
      BY <1>10, <3>1 DEF PromptAt, BeforeSaving, Saving
    <3> QED BY <1>1, <1>2, <1>4, <2>1, <3>2, PromptMoves DEF PromptState
  <2>2. CASE msg[p] = 2
    <3>1. pc'[p] = "trim" /\ Size' < TurnTrigger + 2
      BY <1>1, <1>4, <1>5, <1>9, <1>10, <1>11, <2>2
    <3>2. PromptAt(p)'
      BY <1>10, <3>1 DEF PromptAt, BeforeSaving, Saving
    <3> QED BY <1>1, <1>2, <1>4, <2>2, <3>2, PromptMoves DEF PromptState
  <2> QED BY <1>1, <2>1, <2>2
<1>13. SummaryInv'
  <2>1. SUFFICES ASSUME NEW s \in rows', IsSummary(s)
                 PROVE  Cardinality(Older(rows', s)) \in 1..KeptRaw
    BY DEF SummaryInv
  <2>2. s \in rows
    BY <1>4, <1>7, <2>1
  <2>3. Older(rows \cup {x}, s) = Older(rows, s)
    BY <1>9, <2>2
  <2>4. Older(rows', s) = Older(rows, s)
    BY <1>4, <2>3, Zenon
  <2> QED BY <1>1, <2>1, <2>2, <2>4 DEF SummaryInv
<1>14. CacheHoldsTurnsOnce'
  BY <1>1, <1>4 DEF CacheHoldsTurnsOnce
<1> QED BY <1>12, <1>13, <1>14

LEMMA TrimCacheInTurn ==
  ASSUME InTurn, NEW p \in Prompts, TrimCache(p)
  PROVE  AloneInv' /\ StoresInv' /\ SummaryInv' /\ CacheHoldsTurnsOnce'
<1>1. /\ Roomy /\ StoresInv /\ RowSet(rows) /\ redis \in Seq(Entry)
      /\ pc \in [Prompts -> PromptState]
  BY InTurnFacts
<1>2. pc[p] = "trim" /\ p \in InFlight
  BY DEF TrimCache, InFlight
<1>3. PromptAt(p)
  BY <1>1, <1>2 DEF StoresInv, Busy
<1>4. Size < TurnTrigger + 2 /\ InStep(redis, rows)
  BY <1>2, <1>3 DEF PromptAt
<1>5. Len(redis) = Size /\ Size \in Nat
  BY <1>1, <1>4, InStepWhole DEF Size
<1>6. EffectiveCacheSize \in Nat /\ Len(redis) <= EffectiveCacheSize
  BY <1>1, <1>4, <1>5, RoomyFacts
<1>7. LTrim(redis, 0, EffectiveCacheSize - 1) = redis
  BY <1>1, <1>6, ListCuts
<1>8. UNCHANGED <<redis, rows, job>> /\ pc' = [pc EXCEPT ![p] = "expire"]
  BY <1>7 DEF TrimCache, WriteList, Goto, tableVars, jobVars
<1>9. PromptAt(p)'
  BY <1>1, <1>4, <1>8 DEF PromptAt, BeforeSaving, Saving, Size
<1>10. AloneInv' /\ StoresInv'
  BY <1>1, <1>2, <1>8, <1>9, PromptMoves DEF PromptState
<1> QED BY <1>8, <1>10, StoresUntouched

\* The prompt is done and hands over to its job.
LEMMA ExpireCacheInTurn ==
  ASSUME InTurn, NEW p \in Prompts, ExpireCache(p)
  PROVE  AloneInv' /\ StoresInv' /\ SummaryInv' /\ CacheHoldsTurnsOnce'
<1>1. /\ Roomy /\ AloneInv /\ StoresInv
      /\ pc \in [Prompts -> PromptState] /\ job \in [Prompts -> JobState]
  BY InTurnFacts
<1>2. pc[p] = "expire" /\ p \in InFlight
  BY DEF ExpireCache, InFlight
<1>3. PromptAt(p) /\ \A q \in Busy : q = p
  BY <1>1, <1>2 DEF StoresInv, Busy, AloneInv
<1>4. Size < TurnTrigger + 2 /\ InStep(redis, rows)
  BY <1>2, <1>3 DEF PromptAt
<1>5. /\ UNCHANGED <<redis, rows>>
      /\ pc' = [pc EXCEPT ![p] = "done"] /\ job' = [job EXCEPT ![p] = "read"]
  BY <1>1, RoomyFacts DEF ExpireCache, ExpireCommand, FinishAdd, Goto, JobGoto, tableVars
<1>6. Busy' = {p}
  BY <1>1, <1>3, <1>5 DEF Busy, InFlight, Compacting
<1>7. PromptAt(p)'
  BY <1>1, <1>5 DEF PromptAt, BeforeSaving, Saving
<1>8. JobAt(p)'
  BY <1>1, <1>4, <1>5 DEF JobAt, Size
<1>9. AloneInv'
  BY <1>1, <1>5, <1>6 DEF AloneInv
<1>10. StoresInv'
  BY <1>6, <1>7, <1>8 DEF StoresInv
<1> QED BY <1>5, <1>9, <1>10, StoresUntouched

\* The key expires between prompts.
LEMMA KeyExpiresInTurn ==
  ASSUME InTurn, KeyExpires
  PROVE  AloneInv' /\ StoresInv' /\ SummaryInv' /\ CacheHoldsTurnsOnce'
<1>1. /\ met' = {} /\ AloneInv /\ StoresInv /\ SummaryInv
  BY InTurnFacts
<1>2. Quiet
  BY <1>1 DEF KeyExpires
<1>3. redis' = <<>> /\ UNCHANGED <<rows, pc, job>>
  BY DEF KeyExpires, tableVars, promptVars, jobVars
<1>4. Busy = {} /\ Busy' = {}
  BY <1>2, <1>3 DEF Busy, Quiet, InFlight, Compacting
<1>5. AtRest
  BY <1>1, <1>4 DEF StoresInv
<1>6. AtRest'
  BY <1>3, <1>5 DEF AtRest, Size
<1>7. CacheHoldsTurnsOnce'
  BY <1>3 DEF CacheHoldsTurnsOnce
<1> QED BY <1>1, <1>3, <1>4, <1>6, <1>7 DEF AloneInv, StoresInv, SummaryInv

LEMMA TimesGrows ==
  ASSUME NEW a \in Nat, NEW b \in Nat, NEW c \in Nat, a <= b
  PROVE  a * c <= b * c /\ c * a = a * c /\ a * c \in Nat
  OBVIOUS

\* A table that triggers a compaction has rows to spare, and the compaction
\* keeps KeptRaw of them.
LEMMA TriggerLeavesRoom ==
  ASSUME Roomy, NEW S, RowSet(S), TurnTriggered(S) \/ TokenTriggered(S)
  PROVE  /\ Cardinality(S) \in Nat /\ Cardinality(S) > 2 * KeptRaw
         /\ PrefixCount(Cardinality(S)) = Cardinality(S) - KeptRaw
<1> DEFINE n == Cardinality(S)
           T == {r \in S : IsSummary(r)}
           a == Cardinality(S \ T)
           b == Cardinality(T)
           M == MaxOf(TurnTokens, SummaryTokens)
<1>1. /\ KeptRaw \in Nat /\ KeptRaw >= 1 /\ TurnTrigger > 2 * KeptRaw /\ TurnTrigger \in Nat
      /\ M \in Nat /\ TurnTokens <= M /\ SummaryTokens <= M /\ KeepRecentTurns \in Nat
      /\ TurnTokens \in Nat /\ SummaryTokens \in Nat /\ TokenTrigger \in Nat
  BY RoomyFacts, ConfigAssumption DEF MaxOf
<1>2. n \in Nat /\ a \in Nat /\ b \in Nat /\ a + b = n
  <2>1. IsFiniteSet(S) /\ IsFiniteSet(T) /\ IsFiniteSet(S \ T)
    BY FS_Subset DEF RowSet
  <2>2. T \subseteq S
    OBVIOUS
  <2> HIDE DEF T
  <2>3. Cardinality(S \ T) = Cardinality(S) - Cardinality(S \cap T) /\ S \cap T = T
    BY <2>1, <2>2, FS_Difference
  <2>4. Cardinality(S) \in Nat /\ Cardinality(S \ T) \in Nat /\ Cardinality(T) \in Nat
    BY <2>1, FS_CardinalityType
  <2>5. Cardinality(S \ T) = Cardinality(S) - Cardinality(T)
    BY <2>3
  <2> QED BY <2>4, <2>5
<1>3. TokenEstimate(S) = TurnTokens * a + SummaryTokens * b
  BY DEF TokenEstimate
<1>4. TokenTrigger > 2 * KeptRaw * M
  BY DEF Roomy
<1> HIDE DEF n, a, b, T, M
<1>5. n > 2 * KeptRaw
  <2>1. CASE TurnTriggered(S)
    <3>1. n >= TurnTrigger
      BY <2>1 DEF TurnTriggered, n
    <3> QED BY <1>1, <1>2, <3>1
  <2>2. CASE TokenTriggered(S)
    <3>1. TurnTokens * a + SummaryTokens * b >= TokenTrigger
      BY <1>3, <2>2 DEF TokenTriggered
    <3>2. /\ TurnTokens * a <= M * a /\ TurnTokens * a \in Nat
          /\ SummaryTokens * b <= M * b /\ SummaryTokens * b \in Nat
          /\ M * a \in Nat /\ M * b \in Nat
      BY <1>1, <1>2, TimesGrows
    <3>3. M * a + M * b = n * M /\ n * M \in Nat
      BY <1>1, <1>2
    <3>4. SUFFICES ASSUME n <= 2 * KeptRaw PROVE FALSE
      BY <1>1, <1>2
    <3>5. 2 * KeptRaw \in Nat
      BY <1>1
    <3>6. n * M <= 2 * KeptRaw * M /\ 2 * KeptRaw * M \in Nat
      BY <1>1, <1>2, <3>4, <3>5, TimesGrows
    <3> DEFINE u == TurnTokens * a
               v == SummaryTokens * b
               w == M * a
               x == M * b
               y == n * M
               z == 2 * KeptRaw * M
    <3>7. /\ u + v >= TokenTrigger /\ u <= w /\ v <= x /\ w + x = y /\ y <= z /\ TokenTrigger > z
          /\ u \in Nat /\ v \in Nat /\ w \in Nat /\ x \in Nat /\ y \in Nat /\ z \in Nat
      BY <1>4, <3>1, <3>2, <3>3, <3>6
    <3> HIDE DEF u, v, w, x, y, z
    <3> QED BY <1>1, <3>7
  <2> QED BY <2>1, <2>2
<1>6. PrefixCount(n) = n - KeptRaw
  <2>1. CASE KeepRecentTurns = 0
    <3>1. KeptRaw = 1 /\ MaxOf(1, n - KeepRecentTurns) = n
      BY <1>1, <1>2, <1>5, <2>1 DEF KeptRaw, MaxOf
    <3> QED BY <1>2, <3>1 DEF PrefixCount
  <2>2. CASE KeepRecentTurns # 0
    <3>1. KeptRaw = KeepRecentTurns
      BY <1>1, <2>2 DEF KeptRaw, MaxOf
    <3>2. MaxOf(1, n - KeepRecentTurns) = n - KeptRaw /\ n - KeptRaw < n /\ n - KeptRaw \in Nat
      BY <1>1, <1>2, <1>5, <3>1 DEF MaxOf
    <3> QED BY <1>2, <3>2 DEF PrefixCount
  <2> QED BY <2>1, <2>2
<1> QED BY <1>2, <1>5, <1>6 DEF n

LEMMA ReadAndDecideInTurn ==
  ASSUME InTurn, NEW p \in Prompts, ReadAndDecide(p)
  PROVE  AloneInv' /\ StoresInv' /\ SummaryInv' /\ CacheHoldsTurnsOnce'
<1> DEFINE S == PrefixToCompact(rows)
<1>1. /\ Roomy /\ StoresInv /\ SummaryInv /\ RowSet(rows) /\ prefix \in [Prompts -> SUBSET Row]
      /\ job \in [Prompts -> JobState]
  BY InTurnFacts DEF TypeInv, TypeOK
<1>2. job[p] = "read" /\ p \in Compacting
  BY DEF ReadAndDecide, Compacting
<1>3. JobAt(p)
  BY <1>1, <1>2 DEF StoresInv, Busy
<1>4. /\ UNCHANGED <<redis, rows, pc>>
      /\ \/ S = {} /\ job' = [job EXCEPT ![p] = "done"]
         \/ S # {} /\ job' = [job EXCEPT ![p] = "summarise"] /\ prefix' = [prefix EXCEPT ![p] = S]
  BY <1>1, RoomyFacts DEF ReadAndDecide, EndJob, JobGoto, cacheVars, tableVars, promptVars
<1>5. Size < TurnTrigger + 2 /\ InStep(redis, rows)
  BY <1>2, <1>3 DEF JobAt
<1>6. TurnTrigger \in Nat /\ Size \in Nat /\ KeptRaw \in Nat /\ KeptRaw >= 1
  BY <1>1, RoomyFacts, FS_CardinalityType DEF Size, RowSet
<1>7. ~ AlreadySummarised(rows)
  <2>1. ASSUME NEW r \in Oldest(rows, 1), IsSummary(r) PROVE FALSE
    <3>1. r \in rows /\ Cardinality(Older(rows, r)) < 1
      BY <2>1 DEF Oldest
    <3>2. Cardinality(Older(rows, r)) \in 1..KeptRaw
      BY <1>1, <2>1, <3>1 DEF SummaryInv
    <3> QED BY <1>6, <3>1, <3>2
  <2> QED BY <2>1 DEF AlreadySummarised
<1>8. ASSUME TurnTriggered(rows) \/ TokenTriggered(rows)
      PROVE  S = Oldest(rows, Size - KeptRaw) /\ S # {} /\ Size > 2 * KeptRaw
  <2>1. Size > 2 * KeptRaw /\ PrefixCount(Size) = Size - KeptRaw
    BY <1>1, <1>8, TriggerLeavesRoom DEF Size
  <2>2. S = Oldest(rows, Size - KeptRaw)
    BY <1>7, <1>8, <2>1 DEF PrefixToCompact, Size
  <2>3. Size - KeptRaw \in 0..Size /\ Size - KeptRaw # 0
    BY <1>6, <2>1
  <2>4. Cardinality(Oldest(rows, Size - KeptRaw)) # 0
    BY <1>1, <2>3, OldestCount DEF Size
  <2> QED BY <2>1, <2>2, <2>4, FS_EmptySet
<1>9. ~ (TurnTriggered(rows) \/ TokenTriggered(rows)) => S = {}
  BY DEF PrefixToCompact
<1> HIDE DEF S
<1>10. job'[p] \in {"summarise", "done"} /\ \A q \in Prompts : q # p => job'[q] = job[q]
  BY <1>1, <1>4
<1>11. ASSUME job'[p] = "done" PROVE AtRest'
  <2>1. ~ TurnTriggered(rows)
    BY <1>1, <1>4, <1>8, <1>11
  <2> QED BY <1>4, <1>5, <1>6, <2>1 DEF AtRest, TurnTriggered, Size
<1>12. ASSUME job'[p] # "done" PROVE JobAt(p)'
  <2>1. /\ S # {} /\ job'[p] = "summarise" /\ prefix'[p] = S
    BY <1>1, <1>4, <1>12
  <2>2. S = Oldest(rows, Size - KeptRaw) /\ Size > 2 * KeptRaw
    BY <1>8, <1>9, <2>1
  <2> QED BY <1>4, <1>5, <2>1, <2>2 DEF JobAt, Size
<1>13. AloneInv' /\ StoresInv'
  BY <1>2, <1>4, <1>10, <1>11, <1>12, JobMoves DEF JobState
<1> QED BY <1>4, <1>13, StoresUntouched

LEMMA SummariseInTurn ==
  ASSUME InTurn, NEW p \in Prompts, Summarise(p)
  PROVE  AloneInv' /\ StoresInv' /\ SummaryInv' /\ CacheHoldsTurnsOnce'
<1>1. StoresInv /\ job \in [Prompts -> JobState]
  BY InTurnFacts
<1>2. job[p] = "summarise" /\ p \in Compacting
  BY DEF Summarise, Compacting
<1>3. JobAt(p)
  BY <1>1, <1>2 DEF StoresInv, Busy
<1>4. UNCHANGED <<redis, rows, pc, prefix>> /\ job' = [job EXCEPT ![p] = "replace"]
  BY DEF Summarise, JobGoto, cacheVars, tableVars, promptVars
<1>5. JobAt(p)'
  BY <1>1, <1>2, <1>3, <1>4 DEF JobAt, Size
<1>6. AloneInv' /\ StoresInv'
  BY <1>1, <1>2, <1>4, <1>5, JobMoves DEF JobState
<1> QED BY <1>4, <1>6, StoresUntouched

\* The prefix goes and its summary comes, at the end of the table: every
\* earlier summary goes with the prefix, and what is behind the prefix in the
\* list is what is left in the table.
LEMMA ReplacePrefixInTurn ==
  ASSUME InTurn, NEW p \in Prompts, ReplacePrefix(p)
  PROVE  AloneInv' /\ StoresInv' /\ SummaryInv' /\ CacheHoldsTurnsOnce'
<1> DEFINE m == Size - KeptRaw
           S == Oldest(rows, m)
           R == rows \ S
           x == RowOf(nextId, SummaryOf(S))
<1>1. /\ Roomy /\ ArchiveInv /\ StoresInv /\ SummaryInv /\ CacheHoldsTurnsOnce /\ RowSet(rows)
      /\ PrefixIsThere /\ redis \in Seq(Entry) /\ job \in [Prompts -> JobState]
      /\ nextId \in Nat /\ \A r \in rows : r.id < nextId
  BY InTurnFacts
<1>2. job[p] = "replace" /\ p \in Compacting
  BY DEF ReplacePrefix, Compacting
<1>3. JobAt(p)
  BY <1>1, <1>2 DEF StoresInv, Busy
<1>4. InStep(redis, rows) /\ Size > 2 * KeptRaw /\ prefix[p] = S
  BY <1>2, <1>3 DEF JobAt
<1>5. Size \in Nat /\ KeptRaw \in Nat /\ KeptRaw >= 1
  BY <1>1, RoomyFacts, FS_CardinalityType DEF Size, RowSet
<1>6. m \in 0..Size /\ m > KeptRaw /\ m + KeptRaw = Size
  BY <1>4, <1>5
<1>7. S \in SUBSET rows /\ IsFiniteSet(S) /\ Cardinality(S) = m
  BY <1>1, <1>6, OldestCount DEF Size
<1>8. /\ UNCHANGED <<redis, pc, prefix>> /\ job' = [job EXCEPT ![p] = "trim"]
      /\ rows' = R \cup {x}
  <2>1. prefix[p] \subseteq rows
    BY <1>4, <1>7
  <2>2. rows' = (rows \ prefix[p]) \cup {RowOf(nextId, SummaryOf(prefix[p]))}
    BY <1>1, <2>1, ReplaceEffect
  <2>3. UNCHANGED <<redis, pc, prefix>> /\ job' = [job EXCEPT ![p] = "trim"]
    BY <1>1, RoomyFacts DEF ReplacePrefix, JobGoto, cacheVars, promptVars
  <2> HIDE DEF S
  <2>4. rows' = R \cup {x}
    BY <1>4, <2>2, Zenon DEF R, x
  <2> QED BY <2>3, <2>4
<1>9. x \in Row /\ x.id = nextId /\ EntryOf(x) = SummaryOf(S) /\ S \in SUBSET Row
  <2>1. S \in SUBSET Row
    BY <1>1, <1>7 DEF RowSet
  <2> HIDE DEF S
  <2> QED BY <1>1, <2>1, EntryTypes DEF RowOf, EntryOf, SummaryOf
<1>10. RowSet(R) /\ Cardinality(R) = KeptRaw /\ \A r \in R : r.id < x.id
  <2> HIDE DEF S, x, m
  <2>1. RowSet(R) /\ \A r \in R : r.id < x.id
    BY <1>1, <1>9, FS_Subset DEF RowSet
  <2>2. Cardinality(R) = Cardinality(rows) - Cardinality(rows \cap S) /\ rows \cap S = S
    BY <1>1, <1>7, FS_Difference DEF RowSet
  <2>3. Cardinality(R) = Size - m
    BY <1>7, <2>2 DEF Size
  <2> QED BY <1>5, <1>6, <2>1, <2>3
<1> HIDE DEF x, R, S, m
<1>11. /\ x \notin R /\ Cardinality(R \cup {x}) = KeptRaw + 1
       /\ Older(R \cup {x}, x) = R
  BY <1>9, <1>10, NewestJoins
<1>12. Size' = KeptRaw + 1
  <2>1. Cardinality(rows') = KeptRaw + 1
    BY <1>8, <1>11, Zenon
  <2> QED BY <2>1 DEF Size
<1>13. Replacing(p)'
  <2>1. x \in rows' /\ rows' \ {x} = R
    BY <1>8, <1>11
  <2>2. Len(redis) = m + KeptRaw
    BY <1>1, <1>4, <1>6, InStepWhole DEF Size
  <2>3. FirstOf(redis, m) = Told(S) /\ Behind(redis, m) = Told(R)
    BY <1>4, <1>6 DEF InStep, SplitAlike, Size, S, R
  <2>4. prefix'[p] = S /\ redis' = redis
    BY <1>4, <1>8
  <2>5. /\ EntryOf(x) = SummaryOf(prefix'[p])
        /\ Len(redis') = Cardinality(prefix'[p]) + KeptRaw
        /\ FirstOf(redis', Cardinality(prefix'[p])) = Told(prefix'[p])
        /\ Behind(redis', Cardinality(prefix'[p])) = Told(rows' \ {x})
    BY <1>7, <1>9, <2>1, <2>2, <2>3, <2>4, Zenon
  <2> QED BY <2>1, <2>5 DEF Replacing
<1>14. JobAt(p)'
  <2>1. job'[p] = "trim"
    BY <1>1, <1>8
  <2> QED BY <1>12, <1>13, <2>1 DEF JobAt
<1>15. AloneInv' /\ StoresInv'
  BY <1>1, <1>2, <1>8, <1>14, JobMoves DEF JobState
<1>16. SummaryInv'
  <2>1. ASSUME NEW s \in R PROVE ~ IsSummary(s)
    <3>1. s \in rows /\ ~ (Cardinality(Older(rows, s)) < m)
      BY <2>1 DEF R, S, Oldest
    <3>2. m \in Nat
      BY <1>5, <1>6
    <3>3. IsSummary(s) => Cardinality(Older(rows, s)) \in 1..KeptRaw
      BY <1>1, <3>1 DEF SummaryInv
    <3> QED BY <1>5, <1>6, <3>1, <3>2, <3>3
  <2>2. \A s \in rows' : IsSummary(s) => s = x
    BY <1>8, <2>1
  <2>3. Cardinality(Older(rows', x)) = KeptRaw
    BY <1>8, <1>10, <1>11, Zenon
  <2> QED BY <1>5, <2>2, <2>3 DEF SummaryInv
<1>17. CacheHoldsTurnsOnce'
  BY <1>1, <1>8 DEF CacheHoldsTurnsOnce
<1> QED BY <1>15, <1>16, <1>17

\* The trim takes from the list what the prefix told, and no more.
LEMMA TrimPrefixInTurn ==
  ASSUME InTurn, NEW p \in Prompts, TrimPrefix(p)
  PROVE  /\ AloneInv' /\ StoresInv' /\ SummaryInv' /\ CacheHoldsTurnsOnce'
         /\ Entries(redis) = Told(prefix[p]) \cup Entries(redis')
<1> DEFINE n == Cardinality(prefix[p])
<1>1. /\ StoresInv /\ SummaryInv /\ CacheHoldsTurnsOnce
      /\ redis \in Seq(Entry) /\ job \in [Prompts -> JobState]
      /\ n \in Nat /\ KeptRaw \in Nat
  BY InTurnFacts, KeptRawType, FS_CardinalityType DEF TypeInv, RowsInv
<1>2. job[p] = "trim" /\ p \in Compacting
  BY DEF TrimPrefix, Compacting
<1>3. JobAt(p)
  BY <1>1, <1>2 DEF StoresInv, Busy
<1>4. Size = KeptRaw + 1 /\ Replacing(p)
  BY <1>2, <1>3 DEF JobAt
<1>5. PICK s \in rows :
        /\ EntryOf(s) = SummaryOf(prefix[p])
        /\ Len(redis) = n + KeptRaw
        /\ FirstOf(redis, n) = Told(prefix[p])
        /\ Behind(redis, n) = Told(rows \ {s})
  BY <1>4 DEF Replacing
<1>6. /\ UNCHANGED <<rows, pc, prefix>> /\ job' = [job EXCEPT ![p] = "push"]
      /\ redis' = LTrim(redis, n, Len(redis) - 1)
  BY DEF TrimPrefix, JobGoto, WriteList, tableVars, promptVars
<1> HIDE DEF n
<1>7. n <= Len(redis) /\ Len(redis) \in Nat /\ Len(redis) - n = KeptRaw
  BY <1>1, <1>5
<1>8. /\ redis' \in Seq(Entry) /\ Len(redis') = KeptRaw
      /\ Entries(redis') = Behind(redis, n)
      /\ \A i \in 1..KeptRaw : redis'[i] = redis[n + i]
  BY <1>1, <1>6, <1>7, ListCuts
<1>9. Entries(redis) = FirstOf(redis, n) \cup Behind(redis, n)
  <2>1. n \in 0..Len(redis)
    BY <1>1, <1>7
  <2>2. \A i \in 1..Len(redis) : i \in 1..n \/ i \in (n + 1)..Len(redis)
    BY <1>1, <1>7
  <2>3. \A i \in 1..n : i \in 1..Len(redis)
    BY <1>1, <1>7
  <2>4. \A i \in (n + 1)..Len(redis) : i \in 1..Len(redis)
    BY <1>1, <1>7
  <2>5. DOMAIN redis = 1..Len(redis)
    BY <1>1, LenProperties
  <2> QED BY <2>2, <2>3, <2>4, <2>5 DEF Entries, FirstOf, Behind
<1>10. Replaced(p)'
  <2>1. /\ s \in rows' /\ EntryOf(s) = SummaryOf(prefix'[p])
        /\ Len(redis') = KeptRaw /\ Entries(redis') = Told(rows' \ {s})
    BY <1>5, <1>6, <1>8
  <2> QED BY <2>1 DEF Replaced
<1>11. JobAt(p)'
  <2>1. job'[p] = "push" /\ Size' = KeptRaw + 1
    BY <1>1, <1>4, <1>6 DEF Size
  <2> QED BY <1>10, <2>1 DEF JobAt
<1>12. AloneInv' /\ StoresInv'
  BY <1>1, <1>2, <1>6, <1>11, JobMoves DEF JobState
<1>13. CacheHoldsTurnsOnce'
  <2>1. SUFFICES ASSUME NEW i \in DOMAIN redis', NEW j \in DOMAIN redis', i # j
                 PROVE  redis'[i].turns \cap redis'[j].turns = {}
    BY DEF CacheHoldsTurnsOnce
  <2>2. i \in 1..KeptRaw /\ j \in 1..KeptRaw
    BY <1>8, LenProperties
  <2>3. n + i \in 1..Len(redis) /\ n + j \in 1..Len(redis) /\ n + i # n + j
    BY <1>1, <1>7, <2>1, <2>2
  <2>4. n + i \in DOMAIN redis /\ n + j \in DOMAIN redis
    BY <1>1, <2>3, LenProperties
  <2>5. redis[n + i].turns \cap redis[n + j].turns = {}
    BY <1>1, <2>3, <2>4 DEF CacheHoldsTurnsOnce
  <2> QED BY <1>8, <2>2, <2>5
<1>14. SummaryInv'
  BY <1>1, <1>6 DEF SummaryInv
<1> QED BY <1>5, <1>8, <1>9, <1>12, <1>13, <1>14

LEMMA PushSummaryInTurn ==
  ASSUME InTurn, NEW p \in Prompts, PushSummary(p)
  PROVE  AloneInv' /\ StoresInv' /\ SummaryInv' /\ CacheHoldsTurnsOnce'
<1> DEFINE e == SummaryOf(prefix[p])
<1>1. /\ StoresInv /\ SummaryInv /\ CacheHoldsTurnsOnce /\ TurnsFoldedOnce /\ RowSet(rows)
      /\ redis \in Seq(Entry) /\ job \in [Prompts -> JobState] /\ KeptRaw \in Nat
  BY InTurnFacts, KeptRawType
<1>2. job[p] = "push" /\ p \in Compacting
  BY DEF PushSummary, Compacting
<1>3. JobAt(p)
  BY <1>1, <1>2 DEF StoresInv, Busy
<1>4. Size = KeptRaw + 1 /\ Replaced(p)
  BY <1>2, <1>3 DEF JobAt
<1>5. PICK s \in rows :
        /\ EntryOf(s) = e /\ Len(redis) = KeptRaw /\ Entries(redis) = Told(rows \ {s})
  BY <1>4 DEF Replaced
<1>6. /\ UNCHANGED <<rows, pc, prefix>> /\ job' = [job EXCEPT ![p] = "expire"]
      /\ redis' = <<e>> \o redis
  BY DEF PushSummary, JobGoto, WriteList, tableVars, promptVars
<1>7. e \in Entry
  BY InTurnFacts, EntryTypes DEF TypeInv, TypeOK
<1> HIDE DEF e
<1>8. /\ redis' \in Seq(Entry) /\ Len(redis') = KeptRaw + 1
      /\ Entries(redis') = {e} \cup Entries(redis)
      /\ redis'[1] = e /\ \A i \in 1..KeptRaw : redis'[i + 1] = redis[i]
  BY <1>1, <1>5, <1>6, <1>7, ListHead
<1>9. Entries(redis') = Told(rows)
  <2>1. rows = {s} \cup (rows \ {s})
    OBVIOUS
  <2>2. Told({s} \cup (rows \ {s})) = {EntryOf(s)} \cup Told(rows \ {s})
    BY ToldUnion
  <2> QED BY <1>5, <1>8, <2>1, <2>2
<1>10. InStep(redis', rows) /\ Size' = KeptRaw + 1
  BY <1>1, <1>4, <1>6, <1>8, <1>9, InStepShort DEF Size
<1>11. JobAt(p)'
  BY <1>1, <1>6, <1>10 DEF JobAt
<1>12. AloneInv' /\ StoresInv'
  BY <1>1, <1>2, <1>6, <1>11, JobMoves DEF JobState
<1>13. CacheHoldsTurnsOnce'
  <2>1. ASSUME NEW i \in 1..KeptRaw
        PROVE  e.turns \cap redis[i].turns = {} /\ redis[i].turns \cap e.turns = {}
    <3>1. redis[i] \in Entries(redis)
      BY <1>1, <1>5, LenProperties DEF Entries
    <3>2. PICK r \in rows \ {s} : redis[i] = EntryOf(r)
      BY <1>5, <3>1 DEF Told
    <3>3. redis[i].turns = r.turns /\ e.turns = s.turns
      BY <1>5, <3>2 DEF EntryOf
    <3>4. r.turns \cap s.turns = {} /\ s.turns \cap r.turns = {}
      BY <1>1, <3>2 DEF TurnsFoldedOnce
    <3> QED BY <3>3, <3>4
  <2>2. SUFFICES ASSUME NEW i \in DOMAIN redis', NEW j \in DOMAIN redis', i # j
                 PROVE  redis'[i].turns \cap redis'[j].turns = {}
    BY DEF CacheHoldsTurnsOnce
  <2>3. i \in 1..(KeptRaw + 1) /\ j \in 1..(KeptRaw + 1)
    BY <1>8, LenProperties
  <2>4. \A k \in 1..(KeptRaw + 1) : k = 1 \/ (k - 1 \in 1..KeptRaw /\ redis'[k] = redis[k - 1])
    <3>1. \A k \in 1..(KeptRaw + 1) : k = 1 \/ (k - 1 \in 1..KeptRaw /\ (k - 1) + 1 = k)
      BY <1>1
    <3> QED BY <1>8, <3>1
  <2>5. CASE i = 1
    <3>1. j - 1 \in 1..KeptRaw /\ redis'[j] = redis[j - 1]
      BY <2>2, <2>3, <2>4, <2>5
    <3> QED BY <1>8, <2>1, <2>5, <3>1
  <2>6. CASE j = 1
    <3>1. i - 1 \in 1..KeptRaw /\ redis'[i] = redis[i - 1]
      BY <2>2, <2>3, <2>4, <2>6
    <3> QED BY <1>8, <2>1, <2>6, <3>1
  <2>7. CASE i # 1 /\ j # 1
    <3>1. /\ i - 1 \in 1..KeptRaw /\ redis'[i] = redis[i - 1]
          /\ j - 1 \in 1..KeptRaw /\ redis'[j] = redis[j - 1]
      BY <2>3, <2>4, <2>7
    <3>2. i - 1 # j - 1
      BY <1>1, <2>2, <2>3
    <3>3. i - 1 \in DOMAIN redis /\ j - 1 \in DOMAIN redis
      BY <1>1, <1>5, <3>1, LenProperties
    <3>4. redis[i - 1].turns \cap redis[j - 1].turns = {}
      BY <1>1, <3>2, <3>3 DEF CacheHoldsTurnsOnce
    <3> QED BY <3>1, <3>4
  <2> QED BY <2>5, <2>6, <2>7
<1>14. SummaryInv'
  BY <1>1, <1>6 DEF SummaryInv
<1> QED BY <1>12, <1>13, <1>14

LEMMA ExpireSummaryInTurn ==
  ASSUME InTurn, NEW p \in Prompts, ExpireSummary(p)
  PROVE  AloneInv' /\ StoresInv' /\ SummaryInv' /\ CacheHoldsTurnsOnce'
<1>1. Roomy /\ StoresInv /\ job \in [Prompts -> JobState]
  BY InTurnFacts
<1>2. job[p] = "expire" /\ p \in Compacting
  BY DEF ExpireSummary, Compacting
<1>3. JobAt(p)
  BY <1>1, <1>2 DEF StoresInv, Busy
<1>4. UNCHANGED <<redis, rows, pc>> /\ job' = [job EXCEPT ![p] = "done"]
  BY DEF ExpireSummary, ExpireCommand, EndJob, JobGoto, tableVars, promptVars
<1>5. Size = KeptRaw + 1 /\ InStep(redis, rows)
  BY <1>2, <1>3 DEF JobAt
<1>6. KeptRaw + 1 < TurnTrigger
  BY <1>1, RoomyFacts
<1>7. AtRest'
  BY <1>4, <1>5, <1>6 DEF AtRest, Size
<1>8. AloneInv' /\ StoresInv'
  BY <1>1, <1>2, <1>4, <1>7, JobMoves DEF JobState
<1> QED BY <1>4, <1>8, StoresUntouched

\* Every step of a serial history is one of the above.
LEMMA SerialStep == StepsInv /\ [Next]_vars => SerialInv'
<1> SUFFICES ASSUME StepsInv, [Next]_vars, Serial'
             PROVE  AloneInv' /\ StoresInv' /\ SummaryInv' /\ CacheHoldsTurnsOnce'
  BY DEF SerialInv
<1>1. TypeInv /\ faults \in Nat
  BY DEF StepsInv, ArchiveInv, TypeInv, TypeOK
<1>2. met' = {} /\ faults' = 0 /\ Roomy
  BY DEF Serial
<1>3. met = {} /\ faults = 0
  BY <1>1, <1>2, RecordGrows
<1>4. InTurn
  BY <1>2, <1>3 DEF InTurn, Serial
<1>5. ~ Fault
  BY <1>1, <1>2 DEF Fault
<1>6. ASSUME NEW p \in Prompts, PromptStep(p) \/ JobStep(p) \/ BeginPrompt(p)
      PROVE  AloneInv' /\ StoresInv' /\ SummaryInv' /\ CacheHoldsTurnsOnce'
  <2>1. CASE BeginPrompt(p)
    BY <1>4, <2>1, BeginPromptInTurn
  <2>2. CASE LoadFromRedis(p)
    BY <1>4, <2>2, LoadFromRedisInTurn
  <2>3. CASE LoadFromPostgres(p)
    BY <1>4, <2>3, LoadFromPostgresInTurn
  <2>4. CASE PopulateCache(p)
    BY <1>4, <2>4, PopulateCacheInTurn
  <2>5. CASE ExpireHydrated(p)
    BY <1>4, <2>5, ExpireHydratedInTurn
  <2>6. CASE ChatReply(p)
    BY <1>4, <2>6, ChatReplyInTurn
  <2>7. CASE PushMessage(p)
    BY <1>4, <2>7, PushMessageInTurn
  <2>8. CASE PersistToDb(p)
    BY <1>4, <2>8, PersistInTurn
  <2>9. CASE TrimCache(p)
    BY <1>4, <2>9, TrimCacheInTurn
  <2>10. CASE ExpireCache(p)
    BY <1>4, <2>10, ExpireCacheInTurn
  <2>11. CASE ReadAndDecide(p)
    BY <1>4, <2>11, ReadAndDecideInTurn
  <2>12. CASE Summarise(p)
    BY <1>4, <2>12, SummariseInTurn
  <2>13. CASE ReplacePrefix(p)
    BY <1>4, <2>13, ReplacePrefixInTurn
  <2>14. CASE TrimPrefix(p)
    BY <1>4, <2>14, TrimPrefixInTurn
  <2>15. CASE PushSummary(p)
    BY <1>4, <2>15, PushSummaryInTurn
  <2>16. CASE ExpireSummary(p)
    BY <1>4, <2>16, ExpireSummaryInTurn
  <2> QED
    BY <1>6, <2>1, <2>2, <2>3, <2>4, <2>5, <2>6, <2>7, <2>8, <2>9, <2>10, <2>11, <2>12,
       <2>13, <2>14, <2>15, <2>16 DEF PromptStep, JobStep
<1>7. CASE KeyExpires
  BY <1>4, <1>7, KeyExpiresInTurn
<1>8. CASE UNCHANGED vars
  <2>1. AloneInv /\ StoresInv /\ SummaryInv /\ CacheHoldsTurnsOnce
    BY <1>4, InTurnFacts
  <2>2. UNCHANGED <<redis, rows, pc, msg, history, job, prefix>>
    BY <1>8 DEF vars, cacheVars, tableVars, promptVars, jobVars
  <2>3. SummaryInv' /\ CacheHoldsTurnsOnce'
    BY <2>1, <2>2 DEF SummaryInv, CacheHoldsTurnsOnce
  <2>4. UNCHANGED <<InFlight, Compacting, Busy, Size>>
    BY <2>2 DEF InFlight, Compacting, Busy, Size
  <2>5. AloneInv'
    BY <2>1, <2>2, <2>4 DEF AloneInv
  <2>6. AtRest => AtRest'
    BY <2>2, <2>4 DEF AtRest
  <2>7. \A p \in Prompts : PromptAt(p) => PromptAt(p)'
    BY <2>2, <2>4 DEF PromptAt
  <2>8. \A p \in Prompts : JobAt(p) => JobAt(p)'
    BY <2>2, <2>4 DEF JobAt, Replacing, Replaced
  <2>9. Busy \subseteq Prompts
    BY DEF Busy, InFlight, Compacting
  <2>10. StoresInv'
    BY <2>1, <2>4, <2>6, <2>7, <2>8, <2>9 DEF StoresInv
  <2> QED BY <2>3, <2>5, <2>10
<1>9. ~ Crash /\ \A p \in Prompts : ~ PersistFails(p) /\ ~ PromptFails(p) /\ ~ JobFails(p)
  BY <1>5 DEF Crash, PersistFails, PromptFails, JobFails
<1> QED
  BY <1>6, <1>7, <1>8, <1>9 DEF Next, Finished

LEMMA StepsInvInit == Init => StepsInv
<1> SUFFICES ASSUME Init PROVE StepsInv
  OBVIOUS
<1>1. redis = <<>> /\ rows = {} /\ lastDone = {}
  BY DEF Init
<1>2. \A p \in Prompts : pc[p] = "new" /\ job[p] = "none" /\ lastSeen[p] = {}
  BY DEF Init
<1>3. Busy = {}
  BY <1>2 DEF Busy, InFlight, Compacting
<1>4. AtRest
  BY <1>1, FS_EmptySet, ConfigAssumption DEF AtRest, Size
<1>5. AloneInv /\ SummaryInv /\ StoresInv
  BY <1>1, <1>2, <1>3, <1>4 DEF AloneInv, SummaryInv, StoresInv
<1>6. CacheHoldsTurnsOnce
  BY <1>1 DEF CacheHoldsTurnsOnce
<1>7. SeenInv
  BY <1>1, <1>2 DEF SeenInv
<1> QED BY <1>5, <1>6, <1>7, ArchiveInvInit, FoldInvInit DEF StepsInv, SerialInv

LEMMA StepsInvariant == Spec => []StepsInv
<1>1. StepsInv /\ [Next]_vars => StepsInv'
  <2> SUFFICES ASSUME StepsInv, [Next]_vars PROVE StepsInv'
    OBVIOUS
  <2>1. ArchiveInv'
    BY TypeStep, StableStep, LedgerStep DEF StepsInv, ArchiveInv
  <2>2. FoldInv'
    BY FoldStep DEF StepsInv
  <2>3. SeenInv'
    BY SeenStep DEF StepsInv, ArchiveInv
  <2>4. SerialInv'
    BY SerialStep
  <2> QED BY <2>1, <2>2, <2>3, <2>4 DEF StepsInv
<1> QED BY <1>1, StepsInvInit, PTL DEF Spec

\* A turn is told once: not twice by the table, in any history in which no two
\* jobs ran at a time, whatever failed, crashed, expired or overlapped; and not
\* twice by the list when the prompts and their jobs took turns.
THEOREM TurnsAreToldOnce == Spec => []TurnsToldOnce
<1>1. StepsInv => TurnsToldOnce
  BY DEF StepsInv, FoldInv, SerialInv, TurnsToldOnce
<1> QED BY <1>1, StepsInvariant, PTL

\* Two stores that are written one command at a time agree whenever nobody is
\* writing, if prompts and jobs take turns, nothing fails and the cache has
\* room: however long the conversation, and however often it was compacted.
THEOREM StoresAgree == Spec => []SerialBackendsAgree
<1>1. StepsInv => SerialBackendsAgree
  <2> SUFFICES ASSUME StepsInv, Serial, Quiet, redis # <<>> PROVE Agree
    BY DEF SerialBackendsAgree, BackendsAgree
  <2>1. StoresInv /\ RowSet(rows) /\ redis \in Seq(Entry)
    BY DEF StepsInv, SerialInv, ArchiveInv, TypeInv, TypeOK, RowsInv, RowSet
  <2>2. Busy = {}
    BY DEF Busy, Quiet
  <2>3. InStep(redis, rows)
    BY <2>1, <2>2 DEF StoresInv, AtRest
  <2>4. Entries(redis) = Told(rows)
    BY <2>1, <2>3, InStepWhole
  <2> QED BY <2>4 DEF Agree, Told
<1> QED BY <1>1, StepsInvariant, PTL

\* A prompt in its turn hands the model a history with the exchange before it,
\* raw or folded, whichever store it was read from.
THEOREM LastExchangeIsSeen == Spec => []SerialSeesLastExchange
<1>1. StepsInv => SerialSeesLastExchange
  <2> SUFFICES ASSUME StepsInv, Serial, NEW p \in Prompts, pc[p] = "llm", NEW q \in lastSeen[p]
               PROVE  TurnsOf(q) \subseteq Covered(Entries(history[p])) \cup unsaved
    BY DEF SerialSeesLastExchange, PromptSeesLastExchange
  <2>1. StoresInv /\ PostgresEnabled /\ LedgerInv /\ SeenInv /\ lastSeen \in [Prompts -> SUBSET Prompts]
    BY RoomyFacts DEF StepsInv, SerialInv, ArchiveInv, TypeInv, TypeOK, Serial
  <2>2. PromptAt(p)
    BY <2>1 DEF StoresInv, Busy, InFlight
  <2>3. Covered(Entries(history[p])) = Covered(rows)
    BY <2>2, ToldUnion DEF PromptAt
  <2>4. q \in Prompts /\ pc[q] = "done"
    BY <2>1 DEF SeenInv
  <2>5. LedgerOf(q)
    BY <2>1, <2>4 DEF LedgerInv
  <2>6. TurnsOf(q) \subseteq Covered(rows) \cup unsaved
    BY <2>1, <2>4, <2>5 DEF LedgerOf, Saved
  <2> QED BY <2>3, <2>6
<1> QED BY <1>1, StepsInvariant, PTL

\* The count of a prefix of the table, used to trim the list, takes from it what
\* the job summarised: though the table has its older summary in another place
\* than the list.
THEOREM JobsTrimTheirPrefix == Spec => SerialTrimsOnlyThePrefix
<1>1. StepsInv /\ [Next]_vars => [Serial => TrimsOnlyThePrefix]_vars
  <2> SUFFICES ASSUME StepsInv, [Next]_vars, Serial, NEW p \in Prompts, job[p] = "trim", job'[p] = "push"
               PROVE  Covered(Entries(redis)) \ Covered(Entries(redis')) \subseteq Covered(prefix[p])
    BY DEF TrimsOnlyThePrefix
  <2>1. job \in [Prompts -> JobState]
    BY DEF StepsInv, ArchiveInv, TypeInv, TypeOK
  <2>2. TrimPrefix(p)
    <3> USE DEF Goto, JobGoto, EndJob
    <3>1. CASE \E q \in Prompts : JobStep(q)
      BY <2>1, <3>1 DEF JobStep, ReadAndDecide, Summarise, ReplacePrefix, TrimPrefix, PushSummary,
                        ExpireSummary
    <3>2. CASE \E q \in Prompts : JobFails(q)
      BY <2>1, <3>2 DEF JobFails
    <3>3. CASE \E q \in Prompts :
                 PushMessage(q) \/ PersistToDb(q) \/ PersistFails(q) \/ ExpireCache(q)
      BY <2>1, <3>3 DEF PushMessage, PersistToDb, PersistFails, ExpireCache, NextMessage, FinishAdd
    <3>4. CASE (\E q \in Prompts :
                  \/ BeginPrompt(q) \/ LoadFromRedis(q) \/ LoadFromPostgres(q) \/ PopulateCache(q)
                  \/ ExpireHydrated(q) \/ ChatReply(q) \/ TrimCache(q) \/ PromptFails(q))
               \/ KeyExpires \/ UNCHANGED vars
      BY <3>4 DEF BeginPrompt, LoadFromRedis, LoadFromPostgres, PopulateCache, ExpireHydrated,
                  ChatReply, TrimCache, PromptFails, KeyExpires, jobVars, vars
    <3>5. CASE Crash
      BY <3>5 DEF Crash, Compacting
    <3> QED BY <3>1, <3>2, <3>3, <3>4, <3>5 DEF Next, PromptStep, Finished
  <2>3. InTurn
    BY <2>2 DEF InTurn, Serial, TrimPrefix, ghostVars
  <2>4. Entries(redis) = Told(prefix[p]) \cup Entries(redis')
    BY <2>2, <2>3, TrimPrefixInTurn
  <2>5. Covered(Told(prefix[p])) = Covered(prefix[p])
    BY ToldUnion
  <2>6. \A S, T : Covered(S \cup T) = Covered(S) \cup Covered(T)
    BY DEF Covered
  <2> QED BY <2>4, <2>5, <2>6
<1> QED BY <1>1, StepsInvariant, PTL DEF Spec, SerialTrimsOnlyThePrefix
=============================================================================
