------------------------ MODULE MemoryServiceProofs ------------------------
(***************************************************************************)
(* Theorems about MemoryService, for any calls, providers, attempts and    *)
(* outages: its types, that no provider ever has two clients, and that     *)
(* memories stay until somebody who may removes them.  And about           *)
(* MemoryExtraction, for any answers of the model: that the scan finds the *)
(* last outermost array of any text, and that an answer that holds one     *)
(* array is remembered.                                                    *)
(***************************************************************************)
EXTENDS MemoryService, MemoryExtraction, FiniteSetTheorems, SequenceTheorems,
        WellFoundedInduction, TLAPS
-----------------------------------------------------------------------------
(* The inductive invariant. *)

\* The builder holds the lock, and what it builds is not there yet.
LockInv ==
  \A a \in Actors : at[a] = "build" => lock = a /\ ResolveProvider(a) \notin registry

\* Who uses a client has one.
HaveInv ==
  \A a \in Actors : at[a] \in {"have", "delete"} => ResolveProvider(a) \in registry

\* The last attempt of the warmup is its last.
WarmupInv == attempts = MaxAttempts => at[Warmup] = "ended"

ClientInv == TypeOK /\ LockInv /\ HaveInv /\ WarmupInv /\ OneClientPerProvider

\* A memory comes from a call that is over.
IdsInv ==
  /\ \A m \in memories : at[m.id] = "ended"
  /\ \A c \in Calls : \A m \in owed[c] : at[m.id] = "ended"

OwedInv ==
  \A c \in Calls : \A m \in owed[c] :
    /\ m.user = AskedUser(c) /\ AskedProvider(c) \in Providers
    /\ m.collection = Collection[AskedProvider(c)]

\* A wipe at work deletes memories of its user only, and has listed whatever is
\* left of those that its caller means.
PendingInv ==
  \A c \in Calls : at[c] = "delete" =>
    /\ input[c].op = "wipe"
    /\ \A m \in pending[c] : m.user = EffectiveUser(c) /\ m.collection = CollectionOf(c)
    /\ ~ input[c].byAgent => owed[c] \cap memories \subseteq pending[c]

KeepInv == IdsInv /\ OwedInv /\ PendingInv /\ MemoriesAreKept
-----------------------------------------------------------------------------
(* Small facts. *)

LEMMA Names ==
  /\ {"new", "lock", "build", "have", "delete", "embedding", "client", "sleep",
      "ended"} \subseteq Place
  /\ {"none", "ok", "400", "500", "503", "validation_error",
      "internal_error"} \subseteq Answer
  /\ Warmup \in Actors /\ Probe \in Actors /\ Warmup # Probe
  /\ Calls \subseteq Actors /\ Warmup \notin Calls /\ Probe \notin Calls
  /\ Nobody \notin Actors
BY ActorsAssumption DEF Place, Answer, Actors

LEMMA Errors ==
  ASSUME NEW c, NEW e
  PROVE  ErrorOf(c, e) \in Answer \ {"ok", "none"}
BY DEF ErrorOf, Answer

LEMMA Owners ==
  ASSUME TypeOK, NEW c \in Calls
  PROVE  /\ AskedUser(c) \in Users /\ EffectiveUser(c) \in Users
         /\ ResolveProvider(c) = IF Unread(c) THEN DefaultProvider ELSE AskedProvider(c)
<1>1. input[c].user \in Users \cup {Missing}
  BY DEF TypeOK, Input
<1> QED BY <1>1, ActorsAssumption DEF AskedUser, EffectiveUser, ResolveProvider

\* The memory that a call with a client adds.
LEMMA NewMemory ==
  ASSUME TypeOK, NEW c \in Calls, ResolveProvider(c) \in Providers
  PROVE  [id |-> c, user |-> EffectiveUser(c), collection |-> CollectionOf(c)] \in Memory
BY Owners DEF Memory, CollectionOf

LEMMA Moves ==
  ASSUME TypeOK, NEW a \in Actors, NEW p \in Place, Goto(a, p)
  PROVE  /\ at' \in [Actors -> Place] /\ at'[a] = p
         /\ \A b \in Actors : b # a => at'[b] = at[b]
BY DEF TypeOK, Goto

LEMMA Ends ==
  ASSUME TypeOK, NEW a \in Actors, NEW e \in Answer, End(a, e)
  PROVE  /\ at' \in [Actors -> Place] /\ at'[a] = "ended"
         /\ answer' \in [Actors -> Answer] /\ answer'[a] = e
         /\ \A b \in Actors : b # a => at'[b] = at[b] /\ answer'[b] = answer[b]
<1>1. Goto(a, "ended") /\ "ended" \in Place
  BY Names DEF End
<1> QED BY <1>1, Moves DEF End, TypeOK
-----------------------------------------------------------------------------
(* What looking for a client does to the caller. *)

\* Only a moves: to p, and not to an answer "ok" if it is a call.
Proceeds(a, p) ==
  /\ at' \in [Actors -> Place] /\ at'[a] = p
  /\ answer' \in [Actors -> Answer]
  /\ \A b \in Actors : b # a => at'[b] = at[b] /\ answer'[b] = answer[b]
  /\ a \in Calls /\ p = "ended" => answer'[a] # "ok"

LEMMA Having ==
  ASSUME TypeOK, NEW a \in Actors, Have(a)
  PROVE  /\ Proceeds(a, IF a = Probe THEN "ended" ELSE "have")
         /\ loop' \in Actors \cup {Nobody}
<1>1. loop' \in Actors \cup {Nobody}
  BY DEF Have, LoopAfter, TypeOK
<1>2. CASE a = Probe
  <2>1. (IF answer[a] = "none" THEN "ok" ELSE answer[a]) \in Answer
    BY Names DEF TypeOK
  <2> QED BY <1>1, <1>2, <2>1, Ends, Names DEF Have, Proceeds
<1>3. CASE a # Probe
  BY <1>1, <1>3, Moves, Names DEF Have, Proceeds, TypeOK
<1> QED BY <1>2, <1>3

LEMMA Looking ==
  ASSUME TypeOK, NEW a \in Actors, GetMemoryClient(a)
  PROVE  /\ loop' \in Actors \cup {Nobody} /\ UNCHANGED <<lock, registry, builds>>
         /\ \/ Proceeds(a, "lock")
            \/ /\ ResolveProvider(a) \in registry
               /\ Proceeds(a, IF a = Probe THEN "ended" ELSE "have")
<1>1. CASE ResolveProvider(a) \in registry /\ Have(a)
  BY <1>1, Having DEF GetMemoryClient
<1>2. CASE Goto(a, "lock") /\ loop' = LoopFor(a) /\ UNCHANGED answer
  BY <1>2, Moves, Names DEF GetMemoryClient, LoopFor, Proceeds, TypeOK
<1> QED BY <1>1, <1>2 DEF GetMemoryClient

LEMMA Failing ==
  ASSUME TypeOK, WarmupInv, AttemptFails, at[Warmup] # "ended"
  PROVE  /\ \E p \in {"ended", "sleep"} : Proceeds(Warmup, p)
         /\ UNCHANGED isReady /\ attempts' \in 0..MaxAttempts
         /\ attempts' = MaxAttempts => at'[Warmup] = "ended"
<1>1. attempts \in 0..MaxAttempts /\ attempts # MaxAttempts /\ MaxAttempts \in Nat
  BY BoundsAssumption DEF TypeOK, WarmupInv
<1>2. PICK p \in {"ended", "sleep"} :
        Goto(Warmup, p) /\ (attempts' = MaxAttempts => p = "ended")
  BY <1>1 DEF AttemptFails
<1> QED BY <1>1, <1>2, Moves, Names DEF AttemptFails, Proceeds, TypeOK

LEMMA Raising ==
  ASSUME TypeOK, WarmupInv, NEW a \in Actors, NEW e, Raise(a, e), at[a] # "ended"
  PROVE  /\ \E p \in {"ended", "sleep"} : Proceeds(a, p)
         /\ UNCHANGED isReady /\ attempts' \in 0..MaxAttempts
         /\ attempts' = MaxAttempts => at'[Warmup] = "ended"
<1>1. CASE a \in Calls
  <2>1. End(a, ErrorOf(a, e)) /\ UNCHANGED warmVars /\ a # Warmup
    BY <1>1, Names DEF Raise
  <2> QED BY <2>1, Ends, Errors, Names DEF Proceeds, warmVars, TypeOK, WarmupInv
<1>2. CASE a = Probe
  <2>1. End(a, "503") /\ UNCHANGED warmVars /\ a # Warmup
    BY <1>2, Names DEF Raise
  <2> QED BY <1>2, <2>1, Ends, Names DEF Proceeds, warmVars, TypeOK, WarmupInv
<1>3. CASE a \notin Calls /\ a # Probe
  <2>1. AttemptFails /\ a = Warmup
    BY <1>3 DEF Raise, Actors
  <2> QED BY <2>1, Failing
<1> QED BY <1>1, <1>2, <1>3
-----------------------------------------------------------------------------
(* Clients. *)

LEMMA SameInput ==
  ASSUME UNCHANGED input
  PROVE  \A c : /\ ResolveProvider(c)' = ResolveProvider(c)
                /\ CollectionOf(c)' = CollectionOf(c)
                /\ EffectiveUser(c)' = EffectiveUser(c)
                /\ AskedUser(c)' = AskedUser(c)
                /\ AskedProvider(c)' = AskedProvider(c)
BY DEF ResolveProvider, CollectionOf, EffectiveUser, AskedUser, AskedProvider, Unread

\* One actor at a time builds, and nobody loses the client it has.
LEMMA Exclusion ==
  ASSUME ClientInv, UNCHANGED input, NEW a \in Actors, NEW p \in Place, Proceeds(a, p),
         registry \subseteq registry',
         UNCHANGED <<lock, registry>> \/ lock \in {Nobody, a},
         p = "build" => lock' = a /\ ResolveProvider(a) \notin registry',
         p \in {"have", "delete"} => ResolveProvider(a) \in registry'
  PROVE  LockInv' /\ HaveInv'
<1> USE SameInput
<1>1. HaveInv'
  BY DEF ClientInv, HaveInv, Proceeds
<1>2. ASSUME NEW b \in Actors, at'[b] = "build"
      PROVE  lock' = b /\ ResolveProvider(b) \notin registry'
  <2>1. CASE b = a
    BY <1>2, <2>1 DEF Proceeds
  <2>2. CASE b # a
    <3>1. at[b] = "build" /\ lock = b /\ lock \notin {Nobody, a}
      BY <1>2, <2>2, Names DEF ClientInv, LockInv, Proceeds
    <3> QED BY <3>1 DEF ClientInv, LockInv
  <2> QED BY <2>1, <2>2
<1> QED BY <1>1, <1>2 DEF LockInv

LEMMA ClientInit == Init => ClientInv
<1> SUFFICES ASSUME Init
             PROVE  ClientInv
  OBVIOUS
<1>1. TypeOK
  <2>1. input \in [Calls -> Input] /\ attempts \in 0..MaxAttempts /\ outages \in 0..MaxOutages
    BY InputsAssumption, BoundsAssumption DEF Init
  <2>2. isReady \in BOOLEAN /\ up \in BOOLEAN /\ keyWorks \in BOOLEAN
    BY Zenon DEF Init
  <2> QED BY <2>1, <2>2, Names DEF Init, TypeOK
<1>2. LockInv /\ HaveInv /\ WarmupInv
  BY BoundsAssumption, Names DEF Init, LockInv, HaveInv, WarmupInv
<1>3. OneClientPerProvider
  BY DEF Init, OneClientPerProvider
<1> QED BY <1>1, <1>2, <1>3 DEF ClientInv

LEMMA ClientInvStep == ClientInv /\ [Next]_vars => ClientInv'
<1> SUFFICES ASSUME ClientInv, [Next]_vars
             PROVE  ClientInv'
  OBVIOUS
<1>0. TypeOK
  BY DEF ClientInv
<1> USE Names DEF clientVars, storeVars, warmVars, worldVars
<1>1. ASSUME NEW a \in Actors, Lock(a)
      PROVE  ClientInv'
  <2>1. PICK p \in {"have", "ended", "build"} :
          /\ Proceeds(a, p) /\ loop' \in Actors \cup {Nobody}
          /\ lock' \in {lock, a}
          /\ p = "build" => lock' = a /\ ResolveProvider(a) \notin registry
          /\ p = "have" => ResolveProvider(a) \in registry
    <3>1. CASE ResolveProvider(a) \in registry /\ Have(a) /\ UNCHANGED lock
      BY <1>0, <3>1, Having
    <3>2. CASE /\ ResolveProvider(a) \notin registry /\ Goto(a, "build") /\ lock' = a
               /\ UNCHANGED <<answer, loop>>
      BY <1>0, <3>2, Moves DEF Proceeds, TypeOK
    <3> QED BY <1>1, <3>1, <3>2 DEF Lock
  <2>2. LockInv' /\ HaveInv'
    BY <1>1, <2>1, Exclusion DEF Lock
  <2>3. TypeOK'
    BY <1>0, <1>1, <2>1 DEF Lock, Proceeds, TypeOK
  <2>4. at[Warmup] = "ended" => at'[Warmup] = "ended"
    BY <1>1, <2>1 DEF Lock, Proceeds
  <2> QED BY <1>1, <2>2, <2>3, <2>4
          DEF Lock, ClientInv, WarmupInv, OneClientPerProvider
<1>2. ASSUME NEW a \in Actors, Build(a)
      PROVE  ClientInv'
  <2>1. at[a] = "build" /\ lock = a /\ lock' = Nobody /\ ResolveProvider(a) \notin registry
    BY <1>2 DEF Build, ClientInv, LockInv
  <2>2. CASE /\ ResolveProvider(a) \in WithKey
             /\ registry' = registry \cup {ResolveProvider(a)}
             /\ builds' = [builds EXCEPT ![ResolveProvider(a)] = @ + 1]
             /\ Have(a) /\ UNCHANGED warmVars
    <3>1. Proceeds(a, IF a = Probe THEN "ended" ELSE "have") /\ loop' \in Actors \cup {Nobody}
      BY <1>0, <2>2, Having
    <3>2. LockInv' /\ HaveInv'
      <4>1. registry \subseteq registry' /\ ResolveProvider(a) \in registry'
        BY <2>2
      <4> QED BY <1>2, <2>1, <3>1, <4>1, Exclusion DEF Build
    <3>3. OneClientPerProvider'
      BY <1>0, <2>1, <2>2 DEF ClientInv, OneClientPerProvider, TypeOK
    <3>4. TypeOK'
      BY <1>0, <1>2, <2>1, <2>2, <3>1, ProvidersAssumption DEF Build, Proceeds, TypeOK
    <3>5. WarmupInv'
      BY <2>1, <2>2, <3>1 DEF ClientInv, WarmupInv, Proceeds
    <3> QED BY <3>2, <3>3, <3>4, <3>5 DEF ClientInv
  <2>3. ASSUME NEW e, Raise(a, e), loop' = LoopAfter(a), UNCHANGED <<registry, builds>>
        PROVE  ClientInv'
    <3>1. PICK p \in {"ended", "sleep"} : Proceeds(a, p)
      BY <1>0, <2>1, <2>3, Raising DEF ClientInv
    <3>2. /\ UNCHANGED isReady /\ attempts' \in 0..MaxAttempts
          /\ attempts' = MaxAttempts => at'[Warmup] = "ended"
      BY <1>0, <2>1, <2>3, Raising DEF ClientInv
    <3>3. LockInv' /\ HaveInv'
      BY <1>2, <2>1, <2>3, <3>1, Exclusion DEF Build
    <3>4. TypeOK'
      BY <1>0, <1>2, <2>1, <2>3, <3>1, <3>2 DEF Build, Proceeds, LoopAfter, TypeOK
    <3> QED BY <2>3, <3>2, <3>3, <3>4 DEF ClientInv, WarmupInv, OneClientPerProvider
  <2> QED BY <1>2, <2>2, <2>3 DEF Build
<1>3. ASSUME NEW c \in Calls, Receive(c)
      PROVE  ClientInv'
  <2>1. PICK p \in {"ended", "lock", "have"} :
          /\ Proceeds(c, p) /\ loop' \in Actors \cup {Nobody}
          /\ UNCHANGED <<lock, registry, builds>>
          /\ p = "have" => ResolveProvider(c) \in registry
    <3>1. CASE End(c, ErrorOf(c, "ValueError")) /\ UNCHANGED clientVars
      BY <1>0, <3>1, Ends, Errors DEF Proceeds, TypeOK
    <3>2. CASE GetMemoryClient(c)
      BY <1>0, <3>2, Looking
    <3> QED BY <1>3, <3>1, <3>2 DEF Receive
  <2>2. owed' \in [Calls -> SUBSET Memory]
    BY <1>0, <1>3 DEF Receive, Owed, TypeOK
  <2>3. LockInv' /\ HaveInv'
    BY <1>3, <2>1, Exclusion DEF Receive
  <2>4. TypeOK'
    BY <1>0, <1>3, <2>1, <2>2 DEF Receive, Proceeds, TypeOK
  <2> QED BY <1>3, <2>1, <2>3, <2>4
          DEF Receive, Proceeds, ClientInv, WarmupInv, OneClientPerProvider
<1>4. ASSUME NEW c \in Calls,
             Search(c) \/ Add(c) \/ Delete(c) \/ ListMemories(c) \/ DeleteNext(c)
      PROVE  ClientInv'
  <2>1. at[c] \in {"have", "delete"} /\ UNCHANGED <<input, clientVars, owed, warmVars, worldVars>>
    BY <1>4 DEF Search, Add, Delete, ListMemories, DeleteNext
  <2>2. /\ at' \in [Actors -> Place] /\ answer' \in [Actors -> Answer]
        /\ at'[c] \in {"have", "delete", "ended"}
        /\ \A b \in Actors : b # c => at'[b] = at[b]
    BY <1>0, <1>4, <2>1, Moves, Ends, Errors
    DEF Search, Add, Delete, ListMemories, DeleteNext, TypeOK
  <2>3. ResolveProvider(c) \in Providers
    BY <2>1 DEF ClientInv, HaveInv, TypeOK
  <2>4. memories' \subseteq Memory
    BY <1>0, <1>4, <2>3, NewMemory DEF Search, Add, Delete, ListMemories, DeleteNext, TypeOK
  <2>5. pending' \in [Calls -> SUBSET Memory]
    BY <1>0, <1>4 DEF Search, Add, Delete, ListMemories, DeleteNext, OwnedIn, TypeOK
  <2>6. LockInv' /\ HaveInv'
    BY <2>1, <2>2, SameInput DEF ClientInv, LockInv, HaveInv
  <2>7. TypeOK'
    BY <1>0, <2>1, <2>2, <2>4, <2>5 DEF TypeOK
  <2> QED BY <2>1, <2>2, <2>6, <2>7 DEF ClientInv, WarmupInv, OneClientPerProvider
<1>5. CASE WarmupClient
  <2>1. PICK p \in {"lock", "have"} :
          /\ Proceeds(Warmup, p) /\ loop' \in Actors \cup {Nobody}
          /\ UNCHANGED <<lock, registry, builds>>
          /\ p = "have" => ResolveProvider(Warmup) \in registry
    BY <1>0, <1>5, Looking DEF WarmupClient
  <2>2. LockInv' /\ HaveInv'
    BY <1>5, <2>1, Exclusion DEF WarmupClient
  <2>3. TypeOK'
    BY <1>0, <1>5, <2>1 DEF WarmupClient, Proceeds, TypeOK
  <2>4. WarmupInv'
    BY <1>5 DEF WarmupClient, ClientInv, WarmupInv
  <2> QED BY <2>1, <2>2, <2>3, <2>4 DEF ClientInv, OneClientPerProvider
<1>6. CASE WarmupSearch
  <2>1. PICK p \in {"ended", "sleep"} :
          /\ Proceeds(Warmup, p) /\ isReady' \in BOOLEAN /\ attempts' \in 0..MaxAttempts
          /\ attempts' = MaxAttempts => at'[Warmup] = "ended"
    <3>1. CASE isReady' = TRUE /\ End(Warmup, "ok") /\ UNCHANGED attempts
      BY <1>0, <3>1, Ends DEF Proceeds, TypeOK
    <3>2. CASE AttemptFails
      <4>1. at[Warmup] # "ended"
        BY <1>6 DEF WarmupSearch
      <4> QED BY <1>0, <3>2, <4>1, Failing DEF ClientInv, TypeOK
    <3> QED BY <1>6, <3>1, <3>2 DEF WarmupSearch
  <2>2. LockInv' /\ HaveInv'
    BY <1>6, <2>1, Exclusion DEF WarmupSearch
  <2>3. TypeOK'
    BY <1>0, <1>6, <2>1 DEF WarmupSearch, Proceeds, TypeOK
  <2> QED BY <1>6, <2>1, <2>2, <2>3
          DEF WarmupSearch, ClientInv, WarmupInv, OneClientPerProvider
<1>7. CASE ProbeStep
  <2>1. PICK p \in {"embedding", "client", "lock", "ended"} :
          /\ Proceeds(Probe, p) /\ loop' \in Actors \cup {Nobody}
          /\ UNCHANGED <<lock, registry, builds>>
    <3>1. CASE ProbeQdrant \/ ProbeEmbeddingApi
      BY <1>0, <3>1, Moves DEF ProbeQdrant, ProbeEmbeddingApi, Goto, Proceeds, TypeOK
    <3>2. CASE ProbeMem0Client
      BY <1>0, <3>2, Looking DEF ProbeMem0Client
    <3> QED BY <1>7, <3>1, <3>2 DEF ProbeStep
  <2>2. UNCHANGED <<input, storeVars, warmVars, worldVars>>
    BY <1>7 DEF ProbeStep, ProbeQdrant, ProbeEmbeddingApi, ProbeMem0Client
  <2>3. LockInv' /\ HaveInv'
    BY <2>1, <2>2, Exclusion
  <2>4. TypeOK'
    BY <1>0, <2>1, <2>2 DEF Proceeds, TypeOK
  <2> QED BY <2>1, <2>2, <2>3, <2>4
          DEF Proceeds, ClientInv, WarmupInv, OneClientPerProvider
<1>8. CASE QdrantGoes \/ QdrantComes \/ KeyRevoked \/ UNCHANGED vars
  <2>1. UNCHANGED <<input, at, answer, clientVars, storeVars, warmVars>>
    BY <1>8 DEF QdrantGoes, QdrantComes, KeyRevoked, vars
  <2>2. up' \in BOOLEAN /\ keyWorks' \in BOOLEAN /\ outages' \in 0..MaxOutages
    <3>1. CASE QdrantGoes
      <4>1. outages' \in 0..MaxOutages
        BY <1>0, <3>1, BoundsAssumption DEF QdrantGoes, TypeOK
      <4>2. up' \in BOOLEAN /\ keyWorks' \in BOOLEAN
        BY <1>0, <3>1, Zenon DEF QdrantGoes, TypeOK
      <4> QED BY <4>1, <4>2
    <3>2. CASE QdrantComes \/ KeyRevoked \/ UNCHANGED vars
      BY <1>0, <3>2 DEF QdrantComes, KeyRevoked, vars, TypeOK
    <3> QED BY <1>8, <3>1, <3>2
  <2>3. LockInv' /\ HaveInv'
    BY <2>1, SameInput DEF ClientInv, LockInv, HaveInv
  <2> QED BY <1>0, <2>1, <2>2, <2>3 DEF TypeOK, ClientInv, WarmupInv, OneClientPerProvider
<1> QED
  BY <1>1, <1>2, <1>3, <1>4, <1>5, <1>6, <1>7, <1>8
  DEF Next, ClientStep, CallStep, WarmupStep

\* Every reachable state has the declared types; the warmup does not try more
\* often than it may.
THEOREM MemoryTypeCorrect == Spec => []TypeOK
<1>1. ClientInv => TypeOK
  BY DEF ClientInv
<1> QED BY <1>1, ClientInit, ClientInvStep, PTL DEF Spec

\* However many first calls race, a provider gets one client
\* (get_memory_client).
THEOREM ClientsAreMadeOnce == Spec => []OneClientPerProvider
<1>1. ClientInv => OneClientPerProvider
  BY DEF ClientInv
<1> QED BY <1>1, ClientInit, ClientInvStep, PTL DEF Spec
-----------------------------------------------------------------------------
(* Memories. *)

\* What every step keeps: calls do not begin again, and an answer stands.
Goes ==
  /\ UNCHANGED input
  /\ \A c \in Calls : at[c] # "new" => at'[c] # "new"
  /\ \A c \in Calls : at[c] = "ended" => at'[c] = "ended" /\ answer'[c] = answer[c]

\* A step in which no call comes to an end of its work: the store stays, only a
\* call that begins looks at it.
Quiet ==
  /\ Goes /\ UNCHANGED <<memories, pending>>
  /\ \A c \in Calls : at'[c] # at[c] =>
       at'[c] # "delete" /\ ~ (at'[c] = "ended" /\ answer'[c] = "ok")
  /\ \A c \in Calls :
       owed'[c] = owed[c] \/ (at[c] = "new" /\ owed'[c] \in {Owed(c), {}})

LEMMA Standing ==
  ASSUME Goes, NEW d \in Calls, NEW m, MayRemove(d, m)
  PROVE  MayRemove(d, m)'
BY SameInput DEF Goes, MayRemove

\* A call that makes a move as a client is quiet.
LEMMA QuietMove ==
  ASSUME TypeOK, NEW a \in Actors, NEW p \in Place \ {"new", "delete"}, Proceeds(a, p),
         at[a] # "ended", UNCHANGED <<input, memories, pending>>,
         \/ UNCHANGED owed
         \/ at[a] = "new" /\ \E o \in {Owed(a), {}} : owed' = [owed EXCEPT ![a] = o]
  PROVE  Quiet
<1>1. Goes
  BY Names DEF Proceeds, Goes
<1>2. \A c \in Calls :
        owed'[c] = owed[c] \/ (at[c] = "new" /\ owed'[c] \in {Owed(c), {}})
  BY DEF TypeOK
<1> QED BY <1>1, <1>2, Names DEF Quiet, Proceeds

LEMMA QuietKeeps == ASSUME ClientInv, KeepInv, Quiet, TypeOK'
                    PROVE  KeepInv'
<1> USE SameInput DEF Quiet, Goes, KeepInv
<1>0. \A m \in memories : m.id \in Calls
  BY DEF ClientInv, TypeOK, Memory
<1>1. \A c \in Calls : \A m \in owed[c] : m.id \in Calls
  BY DEF ClientInv, TypeOK, Memory
<1>2. IdsInv'
  BY <1>0, <1>1 DEF IdsInv, Owed
<1>3. OwedInv'
  BY DEF OwedInv, Owed
<1>4. PendingInv'
  BY DEF PendingInv
<1>5. ASSUME NEW c \in Calls, Answered(c)'
      PROVE  Answered(c) /\ owed'[c] = owed[c]
  BY <1>5 DEF Answered
<1>6. MemoriesAreKept'
  <2>1. ASSUME NEW c \in Calls, (input[c].op = "insert" /\ Answered(c))'
        PROVE  (LET m == [id |-> c, user |-> EffectiveUser(c), collection |-> CollectionOf(c)]
                IN  m \in memories \/ \E d \in Calls : MayRemove(d, m))'
    BY <1>5, <2>1, Standing DEF MemoriesAreKept
  <2>2. ASSUME NEW c \in Calls, (input[c].op = "wipe" /\ ~ input[c].byAgent /\ Answered(c))'
        PROVE  (owed[c] \cap memories = {})'
    BY <1>5, <2>2 DEF MemoriesAreKept
  <2> QED BY <2>1, <2>2 DEF MemoriesAreKept
<1> QED BY <1>2, <1>3, <1>4, <1>6

Added(c) == [id |-> c, user |-> EffectiveUser(c), collection |-> CollectionOf(c)]

\* A call at work in the store adds what it was given and removes what it may.
LEMMA WorkKeeps ==
  ASSUME ClientInv, KeepInv, NEW c \in Calls,
         at[c] \in {"have", "delete"}, at'[c] # "new", UNCHANGED <<input, owed>>,
         \A d \in Calls : d # c => /\ at'[d] = at[d] /\ answer'[d] = answer[d]
                                 /\ pending'[d] = pending[d],
         \A m \in memories' : m \in memories \/ (m.id = c /\ at'[c] = "ended"),
         \A m \in memories \ memories' : MayRemove(c, m),
         at'[c] = "delete" =>
           /\ input[c].op = "wipe"
           /\ \A m \in pending'[c] : m.user = EffectiveUser(c) /\ m.collection = CollectionOf(c)
           /\ ~ input[c].byAgent => owed[c] \cap memories' \subseteq pending'[c],
         Answered(c)' =>
           /\ input[c].op = "insert" => Added(c) \in memories'
           /\ input[c].op = "wipe" /\ ~ input[c].byAgent => owed[c] \cap memories' = {}
  PROVE  KeepInv'
<1> USE SameInput
<1>0. Goes
  BY DEF Goes
<1>1. /\ \A m \in memories : m.id \in Calls
      /\ \A d \in Calls : \A m \in owed[d] : m.id \in Calls /\ m.id # c
  BY DEF ClientInv, TypeOK, Memory, KeepInv, IdsInv
<1>2. IdsInv'
  BY <1>1 DEF KeepInv, IdsInv
<1>3. OwedInv'
  BY DEF KeepInv, OwedInv
<1>4. \A d \in Calls : owed[d] \cap memories' \subseteq owed[d] \cap memories
  BY <1>1
<1>5. PendingInv'
  BY <1>4 DEF KeepInv, PendingInv
<1>6. ASSUME NEW d \in Calls, (input[d].op = "insert" /\ Answered(d))'
      PROVE  (Added(d) \in memories \/ \E e \in Calls : MayRemove(e, Added(d)))'
  <2>1. Added(d)' = Added(d)
    BY DEF Added
  <2>2. CASE d = c
    BY <1>6, <2>1, <2>2
  <2>3. CASE d # c
    <3>1. input[d].op = "insert" /\ Answered(d)
      BY <1>6, <2>3 DEF Answered
    <3>2. Added(d) \in memories \/ \E e \in Calls : MayRemove(e, Added(d))
      BY <3>1 DEF KeepInv, MemoriesAreKept, Added
    <3>3. Added(d) \in memories' \/ \E e \in Calls : MayRemove(e, Added(d))
      BY <3>2
    <3>4. ASSUME NEW e \in Calls, MayRemove(e, Added(d))
          PROVE  MayRemove(e, Added(d))'
      BY <1>0, <2>1, <3>4 DEF Goes, MayRemove
    <3> QED BY <2>1, <3>3, <3>4
  <2> QED BY <2>2, <2>3
<1>7. ASSUME NEW d \in Calls, (input[d].op = "wipe" /\ ~ input[d].byAgent /\ Answered(d))'
      PROVE  (owed[d] \cap memories = {})'
  <2>1. CASE d = c
    BY <1>7, <2>1
  <2>2. CASE d # c
    <3>1. input[d].op = "wipe" /\ ~ input[d].byAgent /\ Answered(d)
      BY <1>7, <2>2 DEF Answered
    <3> QED BY <1>4, <3>1 DEF KeepInv, MemoriesAreKept
  <2> QED BY <2>1, <2>2
<1>8. MemoriesAreKept'
  BY <1>6, <1>7 DEF MemoriesAreKept, Added
<1> QED BY <1>2, <1>3, <1>5, <1>8 DEF KeepInv

LEMMA KeepInit == Init => KeepInv
BY Names DEF Init, KeepInv, IdsInv, OwedInv, PendingInv, MemoriesAreKept, Answered

LEMMA KeepStep == ClientInv /\ KeepInv /\ [Next]_vars => KeepInv'
<1> SUFFICES ASSUME ClientInv, KeepInv, [Next]_vars
             PROVE  KeepInv'
  OBVIOUS
<1>0. TypeOK /\ TypeOK' /\ WarmupInv
  BY ClientInvStep DEF ClientInv
<1> USE Names DEF clientVars, storeVars, warmVars, worldVars
<1>1. ASSUME NEW a \in Actors, Lock(a)
      PROVE  Quiet
  <2>1. \E p \in {"have", "ended", "build"} : Proceeds(a, p)
    <3>1. CASE Have(a)
      BY <1>0, <3>1, Having
    <3>2. CASE Goto(a, "build") /\ UNCHANGED answer
      BY <1>0, <3>2, Moves DEF Proceeds, TypeOK
    <3> QED BY <1>1, <3>1, <3>2 DEF Lock
  <2>2. at[a] # "ended" /\ UNCHANGED <<input, memories, pending, owed>>
    BY <1>1 DEF Lock
  <2> QED BY <1>0, <2>1, <2>2, QuietMove
<1>2. ASSUME NEW a \in Actors, Build(a)
      PROVE  Quiet
  <2>1. at[a] # "ended" /\ UNCHANGED <<input, memories, pending, owed>>
    BY <1>2 DEF Build
  <2>2. Have(a) \/ \E e \in {"ValueError", "Unreachable"} : Raise(a, e)
    BY <1>2 DEF Build
  <2>3. \E p \in {"have", "ended", "sleep"} : Proceeds(a, p)
    BY <1>0, <2>1, <2>2, Having, Raising
  <2> QED BY <1>0, <2>1, <2>3, QuietMove
<1>3. ASSUME NEW c \in Calls, Receive(c)
      PROVE  Quiet
  <2>1. \E p \in {"ended", "lock", "have"} : Proceeds(c, p)
    <3>1. CASE End(c, ErrorOf(c, "ValueError"))
      BY <1>0, <3>1, Ends, Errors DEF Proceeds
    <3>2. CASE GetMemoryClient(c)
      BY <1>0, <3>2, Looking
    <3> QED BY <1>3, <3>1, <3>2 DEF Receive
  <2>2. /\ at[c] = "new" /\ UNCHANGED <<input, memories, pending>>
        /\ UNCHANGED owed \/ \E o \in {Owed(c), {}} : owed' = [owed EXCEPT ![c] = o]
    BY <1>3 DEF Receive
  <2> QED BY <1>0, <2>1, <2>2, QuietMove
<1>4. ASSUME WarmupStep \/ ProbeStep
      PROVE  Quiet
  <2>1. \E a \in {Warmup, Probe} :
          \E p \in {"lock", "have", "ended", "sleep", "embedding", "client"} :
            Proceeds(a, p) /\ at[a] # "ended"
    <3>1. CASE WarmupClient \/ ProbeMem0Client
      BY <1>0, <3>1, Looking DEF WarmupClient, ProbeMem0Client
    <3>2. CASE WarmupSearch
      BY <1>0, <3>2, Ends, Failing DEF WarmupSearch, Proceeds
    <3>3. CASE ProbeQdrant \/ ProbeEmbeddingApi
      BY <1>0, <3>3, Moves DEF ProbeQdrant, ProbeEmbeddingApi, Goto, Proceeds, TypeOK
    <3> QED BY <1>4, <3>1, <3>2, <3>3 DEF WarmupStep, ProbeStep
  <2>2. UNCHANGED <<input, storeVars>>
    BY <1>4 DEF WarmupStep, WarmupClient, WarmupSearch, ProbeStep, ProbeQdrant,
                ProbeEmbeddingApi, ProbeMem0Client
  <2> QED BY <1>0, <2>1, <2>2, QuietMove
<1>5. ASSUME QdrantGoes \/ QdrantComes \/ KeyRevoked \/ UNCHANGED vars
      PROVE  Quiet
  BY <1>5 DEF QdrantGoes, QdrantComes, KeyRevoked, vars, Quiet, Goes
<1>6. ASSUME NEW c \in Calls, Search(c)
      PROVE  KeepInv'
  <2>1. at[c] = "have" /\ input[c].op = "search" /\ UNCHANGED <<input, storeVars>>
    BY <1>6 DEF Search
  <2>2. /\ at'[c] = "ended"
        /\ \A d \in Calls : d # c => at'[d] = at[d] /\ answer'[d] = answer[d]
    BY <1>0, <1>6, Ends, Errors DEF Search
  <2> QED BY <2>1, <2>2, WorkKeeps
<1>7. ASSUME NEW c \in Calls, Add(c)
      PROVE  KeepInv'
  <2>1. /\ at[c] = "have" /\ input[c].op = "insert"
        /\ UNCHANGED <<input, pending, owed>>
    BY <1>7 DEF Add
  <2>2. /\ at'[c] = "ended"
        /\ \A d \in Calls : d # c => at'[d] = at[d] /\ answer'[d] = answer[d]
    BY <1>0, <1>7, Ends, Errors DEF Add
  <2>3. \/ UNCHANGED memories /\ answer'[c] # "ok"
        \/ memories' = memories \cup {Added(c)}
    BY <1>0, <1>7, Ends, Errors DEF Add, Added
  <2>4. Added(c).id = c
    BY DEF Added
  <2>5. Answered(c)' => Added(c) \in memories'
    BY <2>3 DEF Answered
  <2> QED BY <2>1, <2>2, <2>3, <2>4, <2>5, WorkKeeps
<1>8. ASSUME NEW c \in Calls, Delete(c)
      PROVE  KeepInv'
  <2>1. at[c] = "have" /\ input[c].op = "delete" /\ UNCHANGED <<input, pending, owed>>
    BY <1>8 DEF Delete
  <2>2. /\ at'[c] = "ended"
        /\ \A d \in Calls : d # c => at'[d] = at[d] /\ answer'[d] = answer[d]
    BY <1>0, <1>8, Ends, Errors DEF Delete
  <2>3. /\ memories' \subseteq memories
        /\ \A m \in memories \ memories' :
             m.id = input[c].target /\ m.collection = CollectionOf(c)
    BY <1>8 DEF Delete
  <2>4. \A m \in memories \ memories' : MayRemove(c, m)
    BY <2>1, <2>3 DEF MayRemove
  <2> QED BY <2>1, <2>2, <2>3, <2>4, WorkKeeps
<1>9. ASSUME NEW c \in Calls, ListMemories(c)
      PROVE  KeepInv'
  <2>1. at[c] = "have" /\ input[c].op = "wipe" /\ UNCHANGED <<input, memories, owed>>
    BY <1>9 DEF ListMemories
  <2>2. CASE /\ pending' = [pending EXCEPT ![c] = OwnedIn(c, EffectiveUser(c))]
             /\ Goto(c, "delete") /\ UNCHANGED answer
    <3>1. at'[c] = "delete" /\ \A d \in Calls : d # c => at'[d] = at[d]
      BY <1>0, <2>2, Moves
    <3>2. /\ pending'[c] = OwnedIn(c, EffectiveUser(c))
          /\ \A d \in Calls : d # c => pending'[d] = pending[d]
      BY <1>0, <2>2 DEF TypeOK
    <3>3. ~ input[c].byAgent => owed[c] \cap memories \subseteq pending'[c]
      BY <1>0, <2>1, <3>2, Owners
      DEF KeepInv, OwedInv, OwnedIn, Unread, EffectiveUser, CollectionOf, ResolveProvider
    <3>4. ~ Answered(c)'
      BY <3>1 DEF Answered
    <3> QED BY <2>1, <2>2, <3>1, <3>2, <3>3, <3>4, WorkKeeps DEF OwnedIn
  <2>3. CASE End(c, ErrorOf(c, "Unreachable")) /\ UNCHANGED pending
    <3>1. /\ at'[c] = "ended" /\ answer'[c] # "ok"
          /\ \A d \in Calls : d # c => at'[d] = at[d] /\ answer'[d] = answer[d]
      BY <1>0, <2>3, Ends, Errors
    <3> QED BY <2>1, <2>3, <3>1, WorkKeeps DEF Answered
  <2> QED BY <1>9, <2>2, <2>3 DEF ListMemories
<1>10. ASSUME NEW c \in Calls, DeleteNext(c)
       PROVE  KeepInv'
  <2>1. /\ at[c] = "delete" /\ UNCHANGED <<input, owed>>
        /\ input[c].op = "wipe"
        /\ \A m \in pending[c] : m.user = EffectiveUser(c) /\ m.collection = CollectionOf(c)
        /\ ~ input[c].byAgent => owed[c] \cap memories \subseteq pending[c]
    BY <1>10 DEF DeleteNext, KeepInv, PendingInv
  <2>2. CASE pending[c] = {} /\ End(c, "ok") /\ UNCHANGED <<memories, pending>>
    <3>1. /\ at'[c] = "ended"
          /\ \A d \in Calls : d # c => at'[d] = at[d] /\ answer'[d] = answer[d]
      BY <1>0, <2>2, Ends
    <3> QED BY <2>1, <2>2, <3>1, WorkKeeps
  <2>3. ASSUME NEW m \in pending[c], memories' = memories \ {m},
               pending' = [pending EXCEPT ![c] = @ \ {m}], UNCHANGED <<at, answer>>
        PROVE  KeepInv'
    <3>1. /\ pending'[c] = pending[c] \ {m}
          /\ \A d \in Calls : d # c => pending'[d] = pending[d]
      BY <1>0, <2>3 DEF TypeOK
    <3>2. MayRemove(c, m)
      BY <2>1 DEF MayRemove
    <3>3. ~ Answered(c)'
      BY <2>1, <2>3 DEF Answered
    <3>4. \A n \in memories \ memories' : MayRemove(c, n)
      BY <2>3, <3>2
    <3>5. ~ input[c].byAgent => owed[c] \cap memories' \subseteq pending'[c]
      BY <2>1, <2>3, <3>1
    <3>6. memories' \subseteq memories /\ pending'[c] \subseteq pending[c]
      BY <2>3, <3>1
    <3>7. at'[c] = "delete" /\ UNCHANGED <<at, answer>>
      BY <2>1, <2>3
    <3> QED BY <2>1, <3>1, <3>3, <3>4, <3>5, <3>6, <3>7, WorkKeeps
  <2>4. CASE End(c, ErrorOf(c, "NotFound")) /\ UNCHANGED <<memories, pending>>
    <3>1. /\ at'[c] = "ended" /\ answer'[c] # "ok"
          /\ \A d \in Calls : d # c => at'[d] = at[d] /\ answer'[d] = answer[d]
      BY <1>0, <2>4, Ends, Errors
    <3> QED BY <2>1, <2>4, <3>1, WorkKeeps DEF Answered
  <2>5. \/ pending[c] = {} /\ End(c, "ok") /\ UNCHANGED <<memories, pending>>
        \/ \E m \in pending[c] :
             /\ memories' = memories \ {m}
             /\ pending' = [pending EXCEPT ![c] = @ \ {m}]
             /\ UNCHANGED <<at, answer>>
        \/ End(c, ErrorOf(c, "NotFound")) /\ UNCHANGED <<memories, pending>>
    BY <1>10 DEF DeleteNext
  <2> QED BY <2>2, <2>3, <2>4, <2>5
<1> QED
  BY <1>0, <1>1, <1>2, <1>3, <1>4, <1>5, <1>6, <1>7, <1>8, <1>9, <1>10, QuietKeeps
  DEF Next, ClientStep, CallStep

\* A memory whose insertion was acknowledged stays until a call that may remove
\* it does, and an answered wipe has removed all that its caller means (add,
\* delete, wipe_user).
THEOREM AcknowledgedMemoriesAreKept == Spec => []MemoriesAreKept
<1>1. Init => ClientInv /\ KeepInv
  BY ClientInit, KeepInit
<1>2. ClientInv /\ KeepInv /\ [Next]_vars => (ClientInv /\ KeepInv)'
  BY ClientInvStep, KeepStep
<1>3. KeepInv => MemoriesAreKept
  BY DEF KeepInv
<1> QED BY <1>1, <1>2, <1>3, PTL DEF Spec

-----------------------------------------------------------------------------
(* Induction, said of sets instead of predicates.                          *)

LEMMA LeastOf ==
  ASSUME NEW S, S \subseteq Nat, S # {}
  PROVE  \E x \in S : \A y \in S : x <= y
<1> DEFINE R == {ss \in Nat \X Nat : ss[1] < ss[2]}
<1>1. IsWellFoundedOn(R, Nat)
  BY NatLessThanWellFounded DEF OpToRel
<1>2. \E x \in S : \A y \in S : ~ (<<y, x>> \in R)
  <2> HIDE DEF R
  <2> QED BY <1>1, WFMin, Zenon
<1>3. PICK x \in S : \A y \in S : ~ (<<y, x>> \in R)
  BY <1>2
<1>4. ASSUME NEW y \in S
      PROVE  x <= y
  <2>1. x \in Nat /\ y \in Nat
    OBVIOUS
  <2>2. ~ (y < x)
    BY <2>1, <1>3
  <2> QED BY <2>1, <2>2
<1> QED BY <1>4

LEMMA UpTo ==
  ASSUME NEW N \in Nat, NEW S, 0 \in S, \A n \in 1 .. N : n - 1 \in S => n \in S
  PROVE  \A n \in 0 .. N : n \in S
<1> DEFINE T == 0 .. N \ S
<1> SUFFICES ASSUME T # {} PROVE FALSE
  OBVIOUS
<1>1. T \subseteq Nat
  OBVIOUS
<1>2. PICK x \in T : \A y \in T : x <= y
  <2> HIDE DEF T
  <2> QED BY <1>1, LeastOf
<1>3. x \in 1 .. N
  BY <1>2
<1>4. x - 1 \in S
  BY <1>2, <1>3
<1> QED BY <1>2, <1>3, <1>4

\* A function that is given by its first value and a step exists.
Follows(f, N, base, step) ==
  f[0] = base /\ \A n \in 1 .. N : f[n] = step[<<f[n - 1], n>>]

LEMMA Recursion ==
  ASSUME NEW N \in Nat, NEW S, NEW base \in S, NEW step \in [S \X (1 .. N) -> S]
  PROVE  \E f \in [0 .. N -> S] : Follows(f, N, base, step)
<1> USE DEF Follows
<1> DEFINE Good(f, m) == f[0] = base /\ \A n \in 1 .. m : f[n] = step[<<f[n - 1], n>>]
           Q == {m \in 0 .. N : \E f \in [0 .. m -> S] : Good(f, m)}
<1>1. 0 \in Q
  <2> DEFINE g == [n \in 0 .. 0 |-> base]
  <2>1. g \in [0 .. 0 -> S] /\ Good(g, 0)
    OBVIOUS
  <2> HIDE DEF g
  <2>2. \E f \in [0 .. 0 -> S] : Good(f, 0)
    BY <2>1
  <2> QED BY <2>2
<1>2. ASSUME NEW m \in 1 .. N, m - 1 \in Q
      PROVE  m \in Q
  <2>1. PICK f \in [0 .. m - 1 -> S] : Good(f, m - 1)
    BY <1>2
  <2> DEFINE g == [n \in 0 .. m |-> IF n = m THEN step[<<f[m - 1], m>>] ELSE f[n]]
  <2>2. m - 1 \in 0 .. m - 1 /\ f[m - 1] \in S
    BY <2>1
  <2>3. step[<<f[m - 1], m>>] \in S
    BY <2>2
  <2>4. g \in [0 .. m -> S] /\ g[0] = base
    BY <2>1, <2>3
  <2>5. ASSUME NEW n \in 1 .. m
        PROVE  g[n] = step[<<g[n - 1], n>>]
    <3>0. n - 1 \in 0 .. m - 1 /\ n - 1 \in 0 .. m /\ n \in 0 .. m
      OBVIOUS
    <3>1. g[n - 1] = f[n - 1]
      BY <3>0
    <3>2. CASE n = m
      BY <3>1, <3>2, <3>0
    <3>3. CASE n # m
      <4>1. n \in 1 .. m - 1
        BY <3>3
      <4>2. g[n] = f[n]
        BY <3>3, <3>0
      <4>3. f[n] = step[<<f[n - 1], n>>]
        BY <4>1, <2>1
      <4> QED BY <4>2, <4>3, <3>1
    <3> QED BY <3>2, <3>3
  <2>6. Good(g, m)
    BY <2>4, <2>5
  <2> HIDE DEF g
  <2>7. \E h \in [0 .. m -> S] : Good(h, m)
    BY <2>4, <2>6
  <2> QED BY <2>7
<1>3. \A m \in 0 .. N : m \in Q
  <2> HIDE DEF Q
  <2> QED BY <1>1, <1>2, UpTo
<1> QED BY <1>3
-----------------------------------------------------------------------------
(* The reader. *)

ReadState ==
  [at : {"start", "first", "value", "string", "escape", "after", "end", "error"},
   cur : Seq(Symbol), list : Seq(Seq(Symbol))]

LEMMA ReadTokenType ==
  ASSUME NEW r \in ReadState, NEW c \in Symbol
  PROVE  ReadToken(r, c) \in ReadState
<1>1. /\ <<>> \in Seq(Symbol)
      /\ Append(r.cur, c) \in Seq(Symbol)
      /\ Append(r.list, r.cur) \in Seq(Seq(Symbol))
  BY EmptySeq, AppendProperties DEF ReadState
<1>2. CASE r.at \in {"end", "error"}
  BY <1>2 DEF ReadToken
<1>3. CASE r.at = "string"
  BY <1>1, <1>3 DEF ReadState, ReadToken, Quote, Escape
<1>4. CASE r.at \in {"start", "first", "value", "after", "escape"}
  BY <1>1, <1>4 DEF ReadState, ReadToken
<1> QED BY <1>2, <1>3, <1>4 DEF ReadState

LEMMA ReadStartType == ReadStart \in ReadState
BY EmptySeq DEF ReadState, ReadStart

LEMMA ReadingSteps ==
  ASSUME NEW t \in Seq(Symbol)
  PROVE  /\ Reading(t) \in [0 .. Len(t) -> ReadState]
         /\ Reading(t)[0] = ReadStart
         /\ \A n \in 1 .. Len(t) : Reading(t)[n] = ReadToken(Reading(t)[n - 1], t[n])
<1> DEFINE N == Len(t)
           P(f) == f = [n \in 0 .. N |-> IF n = 0 THEN ReadStart ELSE ReadToken(f[n - 1], t[n])]
           step == [x \in ReadState \X (1 .. N) |-> ReadToken(x[1], t[x[2]])]
<1>1. N \in Nat /\ \A n \in 1 .. N : t[n] \in Symbol
  BY LenProperties, ElementOfSeq
<1> HIDE DEF N
<1>2. step \in [ReadState \X (1 .. N) -> ReadState]
  BY <1>1, ReadTokenType
<1>3. \E f \in [0 .. N -> ReadState] : Follows(f, N, ReadStart, step)
  <2> HIDE DEF step
  <2> QED BY <1>1, <1>2, ReadStartType, Recursion
<1>4. PICK f \in [0 .. N -> ReadState] :
        f[0] = ReadStart /\ \A n \in 1 .. N : f[n] = step[<<f[n - 1], n>>]
  BY <1>3 DEF Follows
<1>5. ASSUME NEW n \in 1 .. N
      PROVE  n - 1 \in 0 .. N /\ f[n] = ReadToken(f[n - 1], t[n])
  <2>1. n - 1 \in 0 .. N /\ n \in 0 .. N
    BY <1>1
  <2>2. <<f[n - 1], n>> \in ReadState \X (1 .. N)
    BY <2>1
  <2>3. step[<<f[n - 1], n>>] = ReadToken(f[n - 1], t[n])
    BY <2>2
  <2> QED BY <1>4, <2>1, <2>3
<1>6. P(f)
  BY <1>4, <1>5
<1>7. P(Reading(t))
  <2>1. Reading(t) = CHOOSE g : P(g)
    BY DEF Reading, N
  <2> HIDE DEF P
  <2> QED BY <1>6, <2>1
<1>8. /\ Reading(t)[0] = ReadStart
      /\ \A n \in 1 .. N : Reading(t)[n] = ReadToken(Reading(t)[n - 1], t[n])
  <2> DEFINE after == Reading(t)
             g == [n \in 0 .. N |-> IF n = 0 THEN ReadStart ELSE ReadToken(after[n - 1], t[n])]
  <2>1. after = g
    BY <1>7
  <2>2. g[0] = ReadStart /\ \A n \in 1 .. N : g[n] = ReadToken(after[n - 1], t[n])
    BY <1>1
  <2> HIDE DEF after, g
  <2>3. after[0] = ReadStart /\ \A n \in 1 .. N : after[n] = ReadToken(after[n - 1], t[n])
    BY <2>1, <2>2
  <2> QED BY <2>3 DEF after
<1>9. \A n \in 0 .. N : n \in {m \in 0 .. N : Reading(t)[m] \in ReadState}
  <2> DEFINE S == {m \in 0 .. N : Reading(t)[m] \in ReadState}
  <2>1. 0 \in S
    BY <1>1, <1>8, ReadStartType
  <2>2. ASSUME NEW n \in 1 .. N, n - 1 \in S
        PROVE  n \in S
    <3>1. Reading(t)[n - 1] \in ReadState /\ t[n] \in Symbol
      BY <2>2, <1>1
    <3>2. ReadToken(Reading(t)[n - 1], t[n]) \in ReadState
      BY <3>1, ReadTokenType
    <3> QED BY <3>2, <1>8
  <2> HIDE DEF S
  <2>3. \A n \in 0 .. N : n \in S
    BY <1>1, <2>1, <2>2, UpTo
  <2> QED BY <2>3 DEF S
<1>10. Reading(t) \in [0 .. N -> ReadState]
  <2>1. Reading(t) = [n \in 0 .. N |-> Reading(t)[n]]
    BY <1>7
  <2> QED BY <2>1, <1>9
<1> QED BY <1>8, <1>10 DEF N
-----------------------------------------------------------------------------
(* The scan. *)

Ranges == {<<>>} \union (Nat \X Nat)
ScanState ==
  [depth : Nat, start : Nat, lastClosed : Ranges,
   inString : BOOLEAN, escaped : BOOLEAN]

LEMMA ConsumeType ==
  ASSUME NEW s \in ScanState, NEW c \in Symbol, NEW i \in Nat
  PROVE  Consume(s, c, i) \in ScanState
<1>1. Bracket(s, c, i) \in ScanState
  <2> DEFINE begin == IF s.depth = 0 THEN i ELSE s.start
  <2>1. CASE c = "["
    <3>1. Bracket(s, c, i) = [[s EXCEPT !.depth = @ + 1] EXCEPT !.start = begin]
      BY <2>1 DEF Bracket
    <3>2. begin \in Nat
      BY DEF ScanState
    <3>3. [s EXCEPT !.depth = @ + 1] \in ScanState
      BY DEF ScanState
    <3> HIDE DEF begin
    <3> QED BY <3>1, <3>2, <3>3 DEF ScanState
  <2>2. CASE c = "]" /\ s.depth = 1
    <3> DEFINE range == <<s.start, i>>
    <3>1. range \in Ranges
      BY DEF ScanState, Ranges
    <3>2. Bracket(s, c, i) = [[s EXCEPT !.depth = 0] EXCEPT !.lastClosed = range]
      BY <2>2 DEF Bracket
    <3>3. [s EXCEPT !.depth = 0] \in ScanState
      BY DEF ScanState
    <3> HIDE DEF range
    <3> QED BY <3>1, <3>2, <3>3 DEF ScanState
  <2>3. CASE c = "]" /\ s.depth > 1
    BY <2>3 DEF ScanState, Bracket
  <2>4. CASE c # "[" /\ (c = "]" => s.depth = 0)
    BY <2>4 DEF ScanState, Bracket
  <2> QED BY <2>1, <2>2, <2>3, <2>4 DEF ScanState
<1>2. /\ [s EXCEPT !.escaped = FALSE] \in ScanState
      /\ [s EXCEPT !.escaped = TRUE] \in ScanState
      /\ [s EXCEPT !.inString = ~ @] \in ScanState
  BY DEF ScanState
<1> QED BY <1>1, <1>2 DEF Consume, ScanState

LEMMA BracketOpens ==
  ASSUME NEW s \in ScanState, NEW i \in Nat
  PROVE  /\ Bracket(s, "[", i).depth = s.depth + 1
         /\ Bracket(s, "[", i).start = IF s.depth = 0 THEN i ELSE s.start
         /\ Bracket(s, "[", i).lastClosed = s.lastClosed
         /\ Bracket(s, "[", i).inString = s.inString
         /\ Bracket(s, "[", i).escaped = s.escaped
<1> DEFINE begin == IF s.depth = 0 THEN i ELSE s.start
           deeper == [s EXCEPT !.depth = @ + 1]
<1>1. Bracket(s, "[", i) = [deeper EXCEPT !.start = begin]
  BY DEF Bracket
<1>2. /\ deeper \in ScanState /\ deeper.depth = s.depth + 1
      /\ deeper.lastClosed = s.lastClosed /\ deeper.inString = s.inString
      /\ deeper.escaped = s.escaped
  BY DEF ScanState
<1> HIDE DEF deeper
<1> QED BY <1>1, <1>2 DEF ScanState

LEMMA BracketCloses ==
  ASSUME NEW s \in ScanState, NEW i \in Nat, s.depth = 1
  PROVE  /\ Bracket(s, "]", i).depth = 0
         /\ Bracket(s, "]", i).start = s.start
         /\ Bracket(s, "]", i).lastClosed = <<s.start, i>>
         /\ Bracket(s, "]", i).inString = s.inString
         /\ Bracket(s, "]", i).escaped = s.escaped
<1> DEFINE flat == [s EXCEPT !.depth = 0]
           range == <<s.start, i>>
<1>1. Bracket(s, "]", i) = [flat EXCEPT !.lastClosed = range]
  BY DEF Bracket
<1>2. /\ flat \in ScanState /\ flat.depth = 0 /\ flat.start = s.start
      /\ flat.inString = s.inString /\ flat.escaped = s.escaped
  BY DEF ScanState
<1> HIDE DEF flat, range
<1>3. /\ Bracket(s, "]", i).depth = 0
      /\ Bracket(s, "]", i).start = s.start
      /\ Bracket(s, "]", i).lastClosed = range
      /\ Bracket(s, "]", i).inString = s.inString
      /\ Bracket(s, "]", i).escaped = s.escaped
  BY <1>1, <1>2 DEF ScanState
<1> QED BY <1>3 DEF range

LEMMA ScanStartType == ScanStart \in ScanState
BY DEF ScanStart, ScanState, Ranges

LEMMA ScanSteps ==
  ASSUME NEW t \in Seq(Symbol)
  PROVE  /\ Scan(t) \in [0 .. Len(t) -> ScanState]
         /\ Scan(t)[0] = ScanStart
         /\ \A n \in 1 .. Len(t) : Scan(t)[n] = Consume(Scan(t)[n - 1], t[n], n)
<1> DEFINE N == Len(t)
           P(f) == f = [n \in 0 .. N |-> IF n = 0 THEN ScanStart ELSE Consume(f[n - 1], t[n], n)]
           step == [x \in ScanState \X (1 .. N) |-> Consume(x[1], t[x[2]], x[2])]
<1>1. N \in Nat /\ \A n \in 1 .. N : t[n] \in Symbol
  BY LenProperties, ElementOfSeq
<1>a. ScanStart \in ScanState
  BY DEF ScanStart, ScanState, Ranges
<1> HIDE DEF N
<1>2. step \in [ScanState \X (1 .. N) -> ScanState]
  BY <1>1, ConsumeType
<1>3. \E f \in [0 .. N -> ScanState] : Follows(f, N, ScanStart, step)
  <2> HIDE DEF step
  <2> QED BY <1>1, <1>2, <1>a, Recursion
<1>4. PICK f \in [0 .. N -> ScanState] :
        f[0] = ScanStart /\ \A n \in 1 .. N : f[n] = step[<<f[n - 1], n>>]
  BY <1>3 DEF Follows
<1>5. ASSUME NEW n \in 1 .. N
      PROVE  n - 1 \in 0 .. N /\ f[n] = Consume(f[n - 1], t[n], n)
  <2>1. n - 1 \in 0 .. N /\ n \in 0 .. N
    BY <1>1
  <2>2. <<f[n - 1], n>> \in ScanState \X (1 .. N)
    BY <2>1
  <2>3. step[<<f[n - 1], n>>] = Consume(f[n - 1], t[n], n)
    BY <2>2
  <2> QED BY <1>4, <2>1, <2>3
<1>6. P(f)
  BY <1>4, <1>5
<1>7. P(Scan(t))
  <2>1. Scan(t) = CHOOSE g : P(g)
    BY DEF Scan, N
  <2> HIDE DEF P
  <2> QED BY <1>6, <2>1
<1>8. /\ Scan(t)[0] = ScanStart
      /\ \A n \in 1 .. N : Scan(t)[n] = Consume(Scan(t)[n - 1], t[n], n)
  <2> DEFINE after == Scan(t)
             g == [n \in 0 .. N |-> IF n = 0 THEN ScanStart ELSE Consume(after[n - 1], t[n], n)]
  <2>1. after = g
    BY <1>7
  <2>2. g[0] = ScanStart /\ \A n \in 1 .. N : g[n] = Consume(after[n - 1], t[n], n)
    BY <1>1
  <2> HIDE DEF after, g
  <2>3. after[0] = ScanStart /\ \A n \in 1 .. N : after[n] = Consume(after[n - 1], t[n], n)
    BY <2>1, <2>2
  <2> QED BY <2>3 DEF after
<1>9. \A n \in 0 .. N : n \in {m \in 0 .. N : Scan(t)[m] \in ScanState}
  <2> DEFINE S == {m \in 0 .. N : Scan(t)[m] \in ScanState}
  <2>1. 0 \in S
    BY <1>1, <1>8, <1>a
  <2>2. ASSUME NEW n \in 1 .. N, n - 1 \in S
        PROVE  n \in S
    <3>1. Scan(t)[n - 1] \in ScanState /\ t[n] \in Symbol /\ n \in Nat
      BY <2>2, <1>1
    <3>2. Consume(Scan(t)[n - 1], t[n], n) \in ScanState
      BY <3>1, ConsumeType
    <3> QED BY <3>2, <1>8
  <2> HIDE DEF S
  <2>3. \A n \in 0 .. N : n \in S
    BY <1>1, <2>1, <2>2, UpTo
  <2> QED BY <2>3 DEF S
<1>10. Scan(t) \in [0 .. N -> ScanState]
  <2>1. Scan(t) = [n \in 0 .. N |-> Scan(t)[n]]
    BY <1>7
  <2> QED BY <2>1, <1>9
<1> QED BY <1>8, <1>10 DEF N
-----------------------------------------------------------------------------
(* Texts without "```json". *)

LEMMA UnfencedSteps ==
  ASSUME NEW t \in Seq(Symbol)
  PROVE  /\ Unfenced(t) \in [0 .. Len(t) -> Seq(Symbol)]
         /\ Unfenced(t)[0] = <<>>
         /\ \A n \in 1 .. Len(t) :
              Unfenced(t)[n] = IF t[n] = FenceJson THEN Unfenced(t)[n - 1]
                               ELSE Append(Unfenced(t)[n - 1], t[n])
<1> DEFINE N == Len(t)
           More(x, n) == x \o (IF t[n] = FenceJson THEN <<>> ELSE <<t[n]>>)
           P(f) == f = [n \in 0 .. N |-> IF n = 0 THEN <<>> ELSE More(f[n - 1], n)]
           step == [x \in Seq(Symbol) \X (1 .. N) |-> More(x[1], x[2])]
<1>1. N \in Nat /\ \A n \in 1 .. N : t[n] \in Symbol
  BY LenProperties, ElementOfSeq
<1>a. <<>> \in Seq(Symbol)
  BY EmptySeq
<1> HIDE DEF N
<1>b. ASSUME NEW x \in Seq(Symbol), NEW n \in 1 .. N
      PROVE  /\ More(x, n) \in Seq(Symbol)
             /\ More(x, n) = IF t[n] = FenceJson THEN x ELSE Append(x, t[n])
  <2>1. <<t[n]>> \in Seq(Symbol)
    BY <1>1
  <2>2. x \o <<>> = x
    BY ConcatEmptySeq
  <2>3. x \o <<t[n]>> = Append(x, t[n])
    BY <1>1, AppendIsConcat
  <2>4. Append(x, t[n]) \in Seq(Symbol)
    BY <1>1, AppendProperties
  <2>5. CASE t[n] = FenceJson
    BY <2>2, <2>5
  <2>6. CASE t[n] # FenceJson
    BY <2>3, <2>4, <2>6
  <2> QED BY <2>5, <2>6
<1>2. step \in [Seq(Symbol) \X (1 .. N) -> Seq(Symbol)]
  <2> HIDE DEF More
  <2> QED BY <1>b
<1>3. \E f \in [0 .. N -> Seq(Symbol)] : Follows(f, N, <<>>, step)
  <2> HIDE DEF step
  <2> QED BY <1>1, <1>2, <1>a, Recursion
<1>4. PICK f \in [0 .. N -> Seq(Symbol)] :
        f[0] = <<>> /\ \A n \in 1 .. N : f[n] = step[<<f[n - 1], n>>]
  BY <1>3 DEF Follows
<1>5. ASSUME NEW n \in 1 .. N
      PROVE  n - 1 \in 0 .. N /\ f[n] = More(f[n - 1], n)
  <2>1. n - 1 \in 0 .. N /\ n \in 0 .. N
    BY <1>1
  <2>2. <<f[n - 1], n>> \in Seq(Symbol) \X (1 .. N)
    BY <2>1
  <2>3. step[<<f[n - 1], n>>] = More(f[n - 1], n)
    BY <2>2
  <2> QED BY <1>4, <2>1, <2>3
<1>6. P(f)
  <2> DEFINE g == [n \in 0 .. N |-> IF n = 0 THEN <<>> ELSE More(f[n - 1], n)]
  <2> HIDE DEF More
  <2>1. ASSUME NEW n \in 0 .. N
        PROVE  f[n] = g[n]
    <3>1. CASE n = 0
      BY <3>1, <1>4
    <3>2. CASE n # 0
      <4>1. n \in 1 .. N
        BY <3>2, <1>1
      <4>2. f[n] = More(f[n - 1], n)
        BY <4>1, <1>5
      <4> QED BY <3>2, <4>2
    <3> QED BY <3>1, <3>2
  <2>2. DOMAIN g = 0 .. N /\ g = [n \in 0 .. N |-> g[n]]
    OBVIOUS
  <2>3. f = [n \in 0 .. N |-> f[n]]
    OBVIOUS
  <2> HIDE DEF g
  <2>4. f = g
    BY <2>1, <2>2, <2>3
  <2> QED BY <2>4 DEF g
<1>7. P(Unfenced(t))
  <2>1. Unfenced(t) = CHOOSE g : P(g)
    BY DEF Unfenced, N
  <2> HIDE DEF P
  <2> QED BY <1>6, <2>1
<1> HIDE DEF More
<1>8. /\ Unfenced(t)[0] = <<>>
      /\ \A n \in 1 .. N : Unfenced(t)[n] = More(Unfenced(t)[n - 1], n)
  <2> DEFINE after == Unfenced(t)
             g == [n \in 0 .. N |-> IF n = 0 THEN <<>> ELSE More(after[n - 1], n)]
  <2>1. after = g
    BY <1>7
  <2>2. g[0] = <<>> /\ \A n \in 1 .. N : g[n] = More(after[n - 1], n)
    BY <1>1
  <2> HIDE DEF after, g
  <2>3. after[0] = <<>> /\ \A n \in 1 .. N : after[n] = More(after[n - 1], n)
    BY <2>1, <2>2
  <2> QED BY <2>3 DEF after
<1>9. \A n \in 0 .. N : n \in {m \in 0 .. N : Unfenced(t)[m] \in Seq(Symbol)}
  <2> DEFINE S == {m \in 0 .. N : Unfenced(t)[m] \in Seq(Symbol)}
  <2>1. 0 \in S
    <3>1. 0 \in 0 .. N
      BY <1>1
    <3> QED BY <3>1, <1>8, <1>a, Zenon
  <2>2. ASSUME NEW n \in 1 .. N, n - 1 \in S
        PROVE  n \in S
    BY <2>2, <1>b, <1>8
  <2> HIDE DEF S
  <2>3. \A n \in 0 .. N : n \in S
    BY <1>1, <2>1, <2>2, UpTo
  <2> QED BY <2>3 DEF S
<1>10. Unfenced(t) \in [0 .. N -> Seq(Symbol)]
  <2>1. Unfenced(t) = [n \in 0 .. N |-> Unfenced(t)[n]]
    BY <1>7
  <2> QED BY <2>1, <1>9
<1>11. ASSUME NEW n \in 1 .. N
       PROVE  Unfenced(t)[n] = IF t[n] = FenceJson THEN Unfenced(t)[n - 1]
                               ELSE Append(Unfenced(t)[n - 1], t[n])
  <2>1. Unfenced(t)[n - 1] \in Seq(Symbol)
    BY <1>1, <1>10
  <2> QED BY <2>1, <1>8, <1>b
<1> QED BY <1>8, <1>10, <1>11 DEF N
-----------------------------------------------------------------------------
(* Reading. *)

LEMMA ReadAlike ==
  ASSUME NEW a \in Seq(Symbol), NEW b \in Seq(Symbol), NEW m \in Nat,
         m <= Len(a), m <= Len(b), \A k \in 1 .. m : a[k] = b[k]
  PROVE  \A n \in 0 .. m : Reading(a)[n] = Reading(b)[n]
<1> DEFINE S == {n \in 0 .. m : Reading(a)[n] = Reading(b)[n]}
<1>1. Len(a) \in Nat /\ Len(b) \in Nat
  BY LenProperties
<1>2. 0 \in S
  BY ReadingSteps
<1>3. ASSUME NEW n \in 1 .. m, n - 1 \in S
      PROVE  n \in S
  <2>1. n \in 1 .. Len(a) /\ n \in 1 .. Len(b)
    BY <1>1
  <2>2. /\ Reading(a)[n] = ReadToken(Reading(a)[n - 1], a[n])
        /\ Reading(b)[n] = ReadToken(Reading(b)[n - 1], b[n])
    BY <2>1, ReadingSteps
  <2> QED BY <1>3, <2>2
<1>4. \A n \in 0 .. m : n \in S
  <2> HIDE DEF S
  <2> QED BY <1>2, <1>3, UpTo
<1> QED BY <1>4

\* A reader that has its value, or none, looks at nothing more.
LEMMA ReadStays ==
  ASSUME NEW t \in Seq(Symbol), NEW n \in 0 .. Len(t),
         Reading(t)[n].at \in {"end", "error"}
  PROVE  \A m \in n .. Len(t) : Reading(t)[m] = Reading(t)[n]
<1> DEFINE S == {m \in 0 .. Len(t) : m >= n => Reading(t)[m] = Reading(t)[n]}
<1>1. Len(t) \in Nat
  BY LenProperties
<1>2. 0 \in S
  BY <1>1
<1>3. ASSUME NEW m \in 1 .. Len(t), m - 1 \in S
      PROVE  m \in S
  <2>1. CASE m <= n
    BY <2>1
  <2>2. CASE m > n
    <3>1. Reading(t)[m - 1] = Reading(t)[n]
      BY <2>2, <1>3
    <3>2. Reading(t)[m] = ReadToken(Reading(t)[m - 1], t[m])
      BY ReadingSteps
    <3>3. ReadToken(Reading(t)[n], t[m]) = Reading(t)[n]
      BY DEF ReadToken
    <3> QED BY <3>1, <3>2, <3>3
  <2> QED BY <2>1, <2>2
<1>4. \A m \in 0 .. Len(t) : m \in S
  <2> HIDE DEF S
  <2> QED BY <1>1, <1>2, <1>3, UpTo
<1> QED BY <1>4
-----------------------------------------------------------------------------
(* An array of strings: no part before its last bracket is one, so the     *)
(* reader is inside of it all the way.                                     *)

Inside == {"first", "value", "string", "escape", "after"}

AnArray(a) ==
  /\ Len(a) > 1 /\ a[1] = "[" /\ a[Len(a)] = "]"
  /\ Readable(a) /\ ~ Readable(SubSeq(a, 1, Len(a) - 1))
  /\ \A k \in 1 .. Len(a) : a[k] # FenceJson

LEMMA ArrayInside ==
  ASSUME NEW a \in Seq(Symbol), AnArray(a)
  PROVE  \A n \in 1 .. Len(a) - 1 : Reading(a)[n].at \in Inside
<1> DEFINE L == Len(a)
           b == SubSeq(a, 1, L - 1)
<1>1. L \in Nat /\ L > 1 /\ Reading(a) \in [0 .. L -> ReadState]
  BY LenProperties, ReadingSteps DEF AnArray
<1>2. b \in Seq(Symbol) /\ Len(b) = L - 1 /\ \A k \in 1 .. L - 1 : b[k] = a[k]
  BY <1>1, SubSeqProperties
<1>3. Reading(b)[L - 1] = Reading(a)[L - 1]
  <2>1. L - 1 \in Nat /\ L - 1 <= Len(a) /\ L - 1 \in 0 .. L - 1
    BY <1>1
  <2> HIDE DEF b, L
  <2> QED BY <1>2, <2>1, ReadAlike
<1>4. Reading(a)[L - 1].at # "end" /\ Reading(a)[L].at = "end"
  BY <1>2, <1>3 DEF AnArray, Readable, ReadValue
<1> SUFFICES ASSUME NEW n \in 1 .. L - 1
             PROVE  Reading(a)[n].at \in Inside
  OBVIOUS
<1>5. n \in 0 .. L /\ L - 1 \in n .. L /\ L \in n .. L /\ n \in 1 .. L /\ n - 1 \in 0 .. L
  BY <1>1
<1>6. Reading(a)[n].at \notin {"end", "error"}
  <2> SUFFICES ASSUME Reading(a)[n].at \in {"end", "error"}
               PROVE  FALSE
    OBVIOUS
  <2>1. Reading(a)[L - 1] = Reading(a)[n] /\ Reading(a)[L] = Reading(a)[n]
    BY <1>5, ReadStays
  <2> QED BY <2>1, <1>4
<1>7. Reading(a)[n].at # "start"
  <2>1. Reading(a)[n] = ReadToken(Reading(a)[n - 1], a[n])
    BY <1>5, ReadingSteps
  <2>2. Reading(a)[n - 1] \in ReadState
    BY <1>1, <1>5
  <2>3. ASSUME NEW r \in ReadState, NEW c
        PROVE  ReadToken(r, c).at # "start"
    BY DEF ReadToken, ReadState
  <2> QED BY <2>1, <2>2, <2>3
<1>8. Reading(a)[n] \in ReadState
  BY <1>1, <1>5
<1> QED BY <1>6, <1>7, <1>8 DEF ReadState, Inside

\* Reader and scan see the same strings and escapes.
InStep(r, s) ==
  /\ r.at \in Inside
  /\ s.depth = 1
  /\ s.inString <=> r.at \in {"string", "escape"}
  /\ s.escaped <=> r.at = "escape"

LEMMA ConsumeOther ==
  ASSUME NEW s \in ScanState, NEW c, c \notin Marks, ~ s.escaped, NEW i
  PROVE  Consume(s, c, i) = s
BY DEF ScanState, Marks, Consume, Bracket

LEMMA ConsumeInArray ==
  ASSUME NEW r \in ReadState, NEW s \in ScanState, NEW c \in Symbol, NEW i \in Nat,
         InStep(r, s), ReadToken(r, c).at # "error"
  PROVE  /\ ReadToken(r, c).at = "end" =>
              /\ Consume(s, c, i).depth = 0 /\ Consume(s, c, i).lastClosed = <<s.start, i>>
              /\ ~ Consume(s, c, i).inString /\ ~ Consume(s, c, i).escaped
         /\ ReadToken(r, c).at # "end" =>
              /\ InStep(ReadToken(r, c), Consume(s, c, i))
              /\ Consume(s, c, i).start = s.start
              /\ Consume(s, c, i).lastClosed = s.lastClosed
<1> USE DEF Quote, Escape
<1>0. /\ s.depth \in Nat /\ s.start \in Nat
      /\ s.inString \in BOOLEAN /\ s.escaped \in BOOLEAN
  BY DEF ScanState
<1>1. CASE r.at = "string"
  <2>1. ~ s.escaped /\ s.inString
    BY <1>1 DEF InStep
  <2>2. CASE c = Quote
    <3>1. ReadToken(r, c).at = "after"
      BY <1>1, <2>2 DEF ReadToken
    <3>2. Consume(s, c, i) = [s EXCEPT !.inString = ~ @]
      BY <2>1, <2>2 DEF Consume
    <3> QED BY <2>1, <3>1, <3>2 DEF InStep, Inside, ScanState
  <2>3. CASE c = Escape
    <3>1. ReadToken(r, c).at = "escape"
      BY <1>1, <2>3 DEF ReadToken, ReadState
    <3>2. Consume(s, c, i) = [s EXCEPT !.escaped = TRUE]
      BY <2>1, <2>3 DEF Consume
    <3> QED BY <2>1, <3>1, <3>2 DEF InStep, Inside, ScanState
  <2>4. CASE c \notin {Quote, Escape}
    <3>1. ReadToken(r, c).at = "string"
      BY <1>1, <2>4 DEF ReadToken, ReadState
    <3>2. Consume(s, c, i) = s
      BY <2>1, <2>4 DEF Consume
    <3> QED BY <2>1, <3>1, <3>2 DEF InStep, Inside
  <2> QED BY <2>2, <2>3, <2>4
<1>2. CASE r.at = "escape"
  BY <1>2 DEF ReadState, ScanState, ReadToken, Consume, InStep, Inside, Quote, Escape
<1>3. CASE r.at \in {"first", "value"} /\ c = Quote
  BY <1>3 DEF ReadState, ScanState, ReadToken, Consume, InStep, Inside, Quote, Escape
<1>4. CASE r.at = "after" /\ c = ","
  <2>1. ReadToken(r, c).at = "value"
    BY <1>4 DEF ReadToken, ReadState
  <2>2. Consume(s, c, i) = s
    BY <1>4 DEF Consume, Bracket, InStep
  <2> QED BY <1>4, <2>1, <2>2 DEF InStep, Inside
<1>5. CASE r.at \in {"first", "after"} /\ c = "]"
  <2>1. ReadToken(r, c).at = "end"
    BY <1>5 DEF ReadState, ReadToken, Quote, Escape
  <2>2. Consume(s, c, i) = Bracket(s, c, i)
    BY <1>5 DEF Consume, InStep, Inside, Quote, Escape
  <2>3. Bracket(s, c, i) = [s EXCEPT !.depth = 0, !.lastClosed = <<s.start, i>>]
    BY <1>5 DEF Bracket, InStep
  <2>4. ~ s.escaped /\ ~ s.inString
    BY <1>5 DEF InStep
  <2> QED BY <2>1, <2>2, <2>3, <2>4 DEF ScanState
<1> QED BY <1>1, <1>2, <1>3, <1>4, <1>5 DEF InStep, Inside, ReadToken, ReadState
-----------------------------------------------------------------------------
(* A text that holds an array behind its first p symbols, and neither      *)
(* brackets nor quotes nor escapes around it.                              *)

Holds(t, a, p) ==
  /\ p + Len(a) <= Len(t)
  /\ \A k \in 1 .. Len(a) : t[p + k] = a[k]
  /\ \A k \in 1 .. Len(t) : k <= p \/ k > p + Len(a) => t[k] \notin Marks

LEMMA ScanOfHolder ==
  ASSUME NEW t \in Seq(Symbol), NEW a \in Seq(Symbol), NEW p \in Nat,
         AnArray(a), Holds(t, a, p)
  PROVE  FindLastBalancedJsonArray(t) = <<p + 1, p + Len(a)>>
<1> DEFINE N == Len(t)
           L == Len(a)
           sc == Scan(t)
           rd == Reading(a)
           Good(n) ==
             /\ n <= p => sc[n] = ScanStart
             /\ n > p /\ n < p + L => /\ InStep(rd[n - p], sc[n])
                                      /\ sc[n].start = p + 1 /\ sc[n].lastClosed = <<>>
             /\ n >= p + L => /\ ~ sc[n].inString /\ ~ sc[n].escaped
                              /\ sc[n].lastClosed = <<p + 1, p + L>>
           S == {n \in 0 .. N : Good(n)}
<1>1. N \in Nat /\ L \in Nat /\ L > 1 /\ p + L <= N
  BY LenProperties DEF AnArray, Holds
<1>2. /\ sc \in [0 .. N -> ScanState] /\ sc[0] = ScanStart
      /\ \A n \in 1 .. N : sc[n] = Consume(sc[n - 1], t[n], n)
  BY ScanSteps
<1>3. /\ rd \in [0 .. L -> ReadState] /\ rd[0] = ReadStart
      /\ \A n \in 1 .. L : rd[n] = ReadToken(rd[n - 1], a[n])
      /\ \A n \in 1 .. L - 1 : rd[n].at \in Inside
      /\ rd[L].at = "end"
  BY ReadingSteps, ArrayInside DEF AnArray, Readable, ReadValue
<1>4. /\ \A n \in 1 .. N : t[n] \in Symbol
      /\ \A n \in 1 .. L : a[n] \in Symbol /\ t[p + n] = a[n]
      /\ \A n \in 1 .. N : n <= p \/ n > p + L => t[n] \notin Marks
      /\ a[1] = "["
  BY ElementOfSeq DEF Holds, AnArray
<1> HIDE DEF N, L, sc, rd
<1>5. 0 \in S
  BY <1>1, <1>2
<1>6. ASSUME NEW n \in 1 .. N, n - 1 \in S
      PROVE  n \in S
  <2>1. n - 1 \in 0 .. N /\ sc[n - 1] \in ScanState /\ sc[n] = Consume(sc[n - 1], t[n], n)
    BY <1>1, <1>2
  <2>2. Good(n - 1)
    BY <1>6
  <2>3. CASE n <= p
    <3>1. sc[n - 1] = ScanStart /\ ~ ScanStart.escaped /\ t[n] \notin Marks
      BY <2>2, <2>3, <1>4 DEF ScanStart
    <3>2. sc[n] = ScanStart
      BY <2>1, <3>1, ConsumeOther
    <3> QED BY <1>1, <2>3, <3>2
  <2>4. CASE n = p + 1
    <3>1. sc[n - 1] = ScanStart
      BY <2>2, <2>4
    <3>2. rd[1] = ReadToken(ReadStart, "[")
      BY <1>1, <1>3, <1>4
    <3>3. rd[1].at = "first"
      BY <3>2 DEF ReadToken, ReadStart, Quote, Escape
    <3>4. t[n] = "["
      BY <1>1, <1>4, <2>4
    <3>5. sc[n] = Bracket(ScanStart, "[", n)
      BY <2>1, <3>1, <3>4 DEF Consume, ScanStart, Quote, Escape
    <3>6. /\ sc[n].depth = 1 /\ sc[n].start = n /\ sc[n].lastClosed = <<>>
          /\ ~ sc[n].inString /\ ~ sc[n].escaped
      BY <3>5, ScanStartType, BracketOpens DEF ScanStart
    <3>7. n - p = 1
      BY <2>4
    <3>8. InStep(rd[1], sc[n])
      BY <3>3, <3>6 DEF InStep, Inside
    <3>9. Good(n)
      BY <1>1, <2>4, <3>6, <3>7, <3>8
    <3> QED BY <1>1, <3>9
  <2>5. CASE n > p + 1 /\ n <= p + L
    <3> DEFINE k == n - p
    <3>1. k \in 2 .. L /\ k \in 1 .. L /\ k - 1 \in 1 .. L - 1 /\ n = p + k /\ n - 1 - p = k - 1
      BY <2>5, <1>1
    <3>2. t[n] = a[k] /\ a[k] \in Symbol /\ rd[k] = ReadToken(rd[k - 1], a[k])
      BY <3>1, <1>3, <1>4
    <3>3. /\ InStep(rd[k - 1], sc[n - 1])
          /\ sc[n - 1].start = p + 1 /\ sc[n - 1].lastClosed = <<>>
      <4>1. n - 1 > p /\ n - 1 < p + L /\ n - 1 - p = k - 1
        BY <2>5, <3>1, <1>1
      <4> HIDE DEF k
      <4> QED BY <2>2, <4>1
    <3>4. rd[k - 1] \in ReadState /\ rd[k].at # "error" /\ (rd[k].at = "end" <=> k = L)
      <4>1. k - 1 \in 0 .. L
        BY <3>1, <1>1
      <4>2. CASE k = L
        BY <4>1, <4>2, <1>3
      <4>3. CASE k # L
        <5>1. k \in 1 .. L - 1
          BY <3>1, <4>3, <1>1
        <5> QED BY <4>1, <4>3, <5>1, <1>3 DEF Inside
      <4> QED BY <4>2, <4>3
    <3>5. sc[n] = Consume(sc[n - 1], a[k], n)
      BY <2>1, <3>2
    <3> HIDE DEF k
    <3>6. CASE k = L
      <4>1. /\ ~ sc[n].inString /\ ~ sc[n].escaped
            /\ sc[n].lastClosed = <<sc[n - 1].start, n>>
        BY <3>2, <3>3, <3>4, <3>5, <3>6, <2>1, ConsumeInArray
      <4>2. n = p + L /\ n \in 0 .. N
        BY <3>1, <3>6, <1>1
      <4>3. ~ (n <= p) /\ ~ (n < p + L)
        BY <4>2, <1>1
      <4>4. sc[n].lastClosed = <<p + 1, p + L>>
        BY <4>1, <4>2, <3>3
      <4>5. Good(n)
        BY <4>1, <4>3, <4>4
      <4> QED BY <4>2, <4>5
    <3>7. CASE k # L
      <4>1. k < L /\ n - p = k
        BY <3>1, <3>7, <1>1
      <4> QED BY <4>1, <3>1, <3>2, <3>3, <3>4, <3>5, <3>7, <2>1, ConsumeInArray, <1>1
    <3> QED BY <3>6, <3>7
  <2>6. CASE n > p + L
    <3>1. ~ sc[n - 1].escaped /\ t[n] \notin Marks
      BY <2>2, <2>6, <1>4, <1>1
    <3>2. sc[n] = sc[n - 1]
      BY <2>1, <3>1, ConsumeOther
    <3> QED BY <1>1, <2>2, <2>6, <3>2
  <2> QED BY <2>3, <2>4, <2>5, <2>6, <1>1
<1>7. \A n \in 0 .. N : n \in S
  <2> HIDE DEF S
  <2> QED BY <1>1, <1>5, <1>6, UpTo
<1>8. sc[N].lastClosed = <<p + 1, p + L>>
  BY <1>1, <1>7
<1> QED BY <1>8 DEF FindLastBalancedJsonArray, N, L, sc

\* If such a text can be read as it is, the array stands at its head.
LEMMA ReadingOfHolder ==
  ASSUME NEW t \in Seq(Symbol), NEW a \in Seq(Symbol), NEW p \in Nat,
         AnArray(a), Holds(t, a, p), Readable(t)
  PROVE  ReadValue(t) = ReadValue(a)
<1>1. Len(t) \in Nat /\ Len(a) \in Nat /\ Len(a) > 1 /\ p + Len(a) <= Len(t)
  BY LenProperties DEF AnArray, Holds
<1>2. p = 0
  <2> SUFFICES ASSUME p # 0
               PROVE  FALSE
    OBVIOUS
  <2>1. 1 \in 1 .. Len(t) /\ t[1] # "["
    BY <1>1 DEF Holds, Marks
  <2>2. Reading(t)[1] = ReadToken(ReadStart, t[1])
    BY <2>1, ReadingSteps
  <2>3. Reading(t)[1].at = "error"
    BY <2>1, <2>2 DEF ReadToken, ReadStart, Quote, Escape
  <2>4. Reading(t)[Len(t)] = Reading(t)[1]
    BY <1>1, <2>3, ReadStays
  <2> QED BY <2>3, <2>4 DEF Readable, ReadValue
<1>3. Reading(t)[Len(a)] = Reading(a)[Len(a)]
  <2>1. \A k \in 1 .. Len(a) : a[k] = t[k]
    BY <1>2 DEF Holds
  <2> QED BY <1>1, <1>2, <2>1, ReadAlike
<1>4. Reading(t)[Len(a)].at = "end"
  BY <1>3 DEF AnArray, Readable, ReadValue
<1>5. Reading(t)[Len(t)] = Reading(t)[Len(a)]
  BY <1>1, <1>2, <1>4, ReadStays
<1> QED BY <1>3, <1>5 DEF ReadValue
-----------------------------------------------------------------------------
(* Cleaning keeps the array. *)

LEMMA Appending ==
  ASSUME NEW S, NEW q \in Seq(S), NEW e \in S
  PROVE  /\ Append(q, e) \in Seq(S) /\ Len(q) \in Nat
         /\ Len(Append(q, e)) = Len(q) + 1
         /\ \A k \in 1 .. Len(q) : Append(q, e)[k] = q[k]
         /\ Append(q, e)[Len(q) + 1] = e
BY LenProperties, AppendProperties

LEMMA CleanedHolds ==
  ASSUME NEW t \in Seq(Symbol), NEW i \in DOMAIN t, NEW j \in DOMAIN t,
         ArrayInProse(t, i, j)
  PROVE  LET a == SubSeq(t, i, j)
             c == RemoveMarkdownCodeBlocks(t)
         IN  /\ a \in Seq(Symbol) /\ AnArray(a) /\ c \in Seq(Symbol)
             /\ \E p \in Nat : Holds(c, a, p)
<1> DEFINE N == Len(t)
           a == SubSeq(t, i, j)
           L == Len(a)
           c == RemoveMarkdownCodeBlocks(t)
           U == Unfenced(t)
           M == U[i - 1]
<1>1. N \in Nat /\ DOMAIN t = 1 .. N /\ i \in 1 .. N /\ j \in 1 .. N
  BY LenProperties
<1>2. /\ t[i] = "[" /\ t[j] = "]"
      /\ \A k \in 1 .. N : k < i \/ k > j => t[k] \notin Marks
      /\ \A k \in i .. j : t[k] # FenceJson
      /\ Readable(a) /\ ~ Readable(SubSeq(t, i, j - 1))
  BY <1>1 DEF ArrayInProse, IsArray
<1>3. i < j
  <2> SUFFICES ASSUME i > j
               PROVE  FALSE
    BY <1>1, <1>2
  <2>1. a = <<>>
    BY <1>1 DEF SubSeq
  <2>2. Reading(<<>>)[0] = ReadStart /\ Len(<<>>) = 0
    BY EmptySeq, ReadingSteps
  <2> QED BY <2>1, <2>2, <1>2 DEF Readable, ReadValue, ReadStart
<1>4. a \in Seq(Symbol) /\ L = j - i + 1 /\ \A k \in 1 .. L : a[k] = t[i + k - 1]
  BY <1>1, <1>3, SubSeqProperties
<1>5. SubSeq(a, 1, L - 1) = SubSeq(t, i, j - 1)
  BY <1>1, <1>3, <1>4, SubSeqProperties
<1>6. AnArray(a)
  <2>1. L > 1 /\ 1 \in 1 .. L /\ L \in 1 .. L /\ L \in Nat
    BY <1>1, <1>3, <1>4
  <2>2. a[1] = "[" /\ a[L] = "]"
    BY <2>1, <1>1, <1>2, <1>3, <1>4
  <2>3. \A k \in 1 .. L : i + k - 1 \in i .. j
    BY <1>1, <1>3, <1>4
  <2>4. \A k \in 1 .. L : a[k] # FenceJson
    BY <2>3, <1>2, <1>4
  <2>5. Readable(a) /\ ~ Readable(SubSeq(a, 1, L - 1))
    BY <1>2, <1>5
  <2> QED BY <2>1, <2>2, <2>4, <2>5 DEF AnArray
<1>7. /\ U \in [0 .. N -> Seq(Symbol)] /\ U[0] = <<>>
      /\ \A n \in 1 .. N : U[n] = IF t[n] = FenceJson THEN U[n - 1] ELSE Append(U[n - 1], t[n])
      /\ \A n \in 1 .. N : t[n] \in Symbol
  BY UnfencedSteps, ElementOfSeq
<1> HIDE DEF N, a, L, c, U
<1>8. \E p \in Nat : Holds(t, a, p)
  <2>1. i - 1 \in Nat /\ i - 1 + L <= N
    BY <1>1, <1>3, <1>4
  <2>2. Holds(t, a, i - 1)
    <3>1. \A k \in 1 .. L : t[i - 1 + k] = a[k]
      <4> SUFFICES ASSUME NEW k \in 1 .. L
                   PROVE  t[i - 1 + k] = a[k]
        OBVIOUS
      <4>1. i - 1 + k = i + k - 1
        BY <1>1, <1>3, <1>4
      <4> QED BY <4>1, <1>4
    <3>2. ASSUME NEW k \in 1 .. N, k <= i - 1 \/ k > i - 1 + L
          PROVE  t[k] \notin Marks
      <4>1. k < i \/ k > j
        BY <3>2, <1>1, <1>3, <1>4
      <4> QED BY <4>1, <1>2
    <3> QED BY <2>1, <3>1, <3>2 DEF Holds, N, L
  <2> QED BY <2>1, <2>2
<1>9. U[N] \in Seq(Symbol) /\ \E p \in Nat : Holds(U[N], a, p)
  <2>1. ASSUME NEW n \in 0 .. N
        PROVE  U[n] \in Seq(Symbol) /\ Len(U[n]) \in Nat
    BY <1>7, LenProperties
  <2>2. \A n \in 0 .. i - 1 : n \in {m \in 0 .. i - 1 : \A k \in 1 .. Len(U[m]) : U[m][k] \notin Marks}
    <3> DEFINE S == {m \in 0 .. i - 1 : \A k \in 1 .. Len(U[m]) : U[m][k] \notin Marks}
    <3>1. 0 \in S
      BY <1>1, <1>7
    <3>2. ASSUME NEW n \in 1 .. i - 1, n - 1 \in S
          PROVE  n \in S
      <4>1. n \in 1 .. N /\ n - 1 \in 0 .. N /\ t[n] \notin Marks
        BY <1>1, <1>2
      <4>2. CASE t[n] = FenceJson
        <5>1. U[n] = U[n - 1]
          BY <4>1, <4>2, <1>7
        <5> QED BY <5>1, <3>2
      <4>3. CASE t[n] # FenceJson
        <5>1. U[n] = Append(U[n - 1], t[n])
          BY <4>1, <4>3, <1>7
        <5>2. /\ Len(U[n]) = Len(U[n - 1]) + 1
              /\ \A k \in 1 .. Len(U[n - 1]) : U[n][k] = U[n - 1][k]
              /\ U[n][Len(U[n - 1]) + 1] = t[n]
          BY <5>1, <4>1, <2>1, <1>7, Appending
        <5>3. ASSUME NEW k \in 1 .. Len(U[n])
              PROVE  U[n][k] \notin Marks
          <6>1. Len(U[n - 1]) \in Nat /\ Len(U[n]) \in Nat
            BY <4>1, <2>1, <5>2
          <6>2. CASE k = Len(U[n - 1]) + 1
            BY <6>2, <5>2, <4>1
          <6>3. CASE k # Len(U[n - 1]) + 1
            <7>1. k \in 1 .. Len(U[n - 1])
              BY <6>1, <6>3, <5>2
            <7> QED BY <7>1, <5>2, <3>2
          <6> QED BY <6>2, <6>3
        <5> QED BY <5>3
      <4> QED BY <4>2, <4>3
    <3>3. i - 1 \in Nat
      BY <1>1
    <3> HIDE DEF S
    <3>4. \A n \in 0 .. i - 1 : n \in S
      BY <3>1, <3>2, <3>3, UpTo
    <3> QED BY <3>4 DEF S
  <2> DEFINE p == Len(M)
             Part(x, m) == /\ p + m <= Len(x)
                           /\ \A k \in 1 .. m : x[p + k] = a[k]
                           /\ \A k \in 1 .. Len(x) : k <= p \/ k > p + m => x[k] \notin Marks
  <2>3. M \in Seq(Symbol) /\ p \in Nat /\ Part(M, 0)
    BY <2>1, <2>2, <1>1
  <2>4. \A m \in 0 .. L : m \in {h \in 0 .. L : Part(U[i - 1 + h], h) /\ Len(U[i - 1 + h]) = p + h}
    <3> DEFINE S == {h \in 0 .. L : Part(U[i - 1 + h], h) /\ Len(U[i - 1 + h]) = p + h}
    <3>1. 0 \in S
      <4>1. i - 1 + 0 = i - 1 /\ 0 \in 0 .. L
        BY <1>1, <1>3, <1>4
      <4> QED BY <4>1, <2>3
    <3>2. ASSUME NEW m \in 1 .. L, m - 1 \in S
          PROVE  m \in S
      <4> DEFINE n == i - 1 + m
      <4>0. /\ n \in 1 .. N /\ n - 1 \in 0 .. N /\ n - 1 = i - 1 + (m - 1)
            /\ n \in i .. j /\ n = i + m - 1
        BY <1>1, <1>3, <1>4
      <4>1. /\ n \in 1 .. N /\ n - 1 \in 0 .. N /\ n - 1 = i - 1 + (m - 1) /\ t[n] = a[m]
            /\ n \in i .. j
        BY <4>0, <1>4
      <4>2. U[n] = Append(U[n - 1], t[n])
        BY <4>1, <1>2, <1>7
      <4>3. Part(U[n - 1], m - 1) /\ Len(U[n - 1]) = p + (m - 1)
        BY <3>2, <4>1
      <4>4. /\ Len(U[n]) = p + m
            /\ \A k \in 1 .. p + (m - 1) : U[n][k] = U[n - 1][k]
            /\ U[n][p + m] = a[m]
        <5>1. U[n - 1] \in Seq(Symbol) /\ t[n] \in Symbol
          BY <4>1, <2>1, <1>7
        <5>2. /\ Len(U[n]) = Len(U[n - 1]) + 1
              /\ \A k \in 1 .. Len(U[n - 1]) : U[n][k] = U[n - 1][k]
              /\ U[n][Len(U[n - 1]) + 1] = t[n]
          BY <5>1, <4>2, Appending
        <5>3. p + (m - 1) + 1 = p + m
          BY <2>3
        <5> QED BY <5>2, <5>3, <4>1, <4>3
      <4> HIDE DEF n
      <4>5. Part(U[n], m)
        <5>1. ASSUME NEW k \in 1 .. m
              PROVE  U[n][p + k] = a[k]
          <6>1. CASE k = m
            BY <6>1, <4>4
          <6>2. CASE k # m
            <7>1. k \in 1 .. m - 1 /\ p + k \in 1 .. p + (m - 1)
              BY <6>2, <2>3
            <7> QED BY <7>1, <4>3, <4>4
          <6> QED BY <6>1, <6>2
        <5>2. ASSUME NEW k \in 1 .. Len(U[n]), k <= p \/ k > p + m
              PROVE  U[n][k] \notin Marks
          <6>1. k \in 1 .. p + (m - 1) /\ k <= p /\ k \in 1 .. Len(U[n - 1])
            BY <5>2, <4>3, <4>4, <2>3
          <6> QED BY <6>1, <4>3, <4>4
        <5> QED BY <5>1, <5>2, <4>4, <2>3
      <4> QED BY <4>4, <4>5 DEF n
    <3>3. L \in Nat
      BY <1>4, <1>1, <1>3
    <3> HIDE DEF S
    <3>4. \A m \in 0 .. L : m \in S
      BY <3>1, <3>2, <3>3, UpTo
    <3> QED BY <3>4 DEF S
  <2>5. \A m \in 0 .. N - j : m \in {h \in 0 .. N - j : Part(U[j + h], L)}
    <3> DEFINE S == {h \in 0 .. N - j : Part(U[j + h], L)}
    <3>1. 0 \in S
      <4>1. i - 1 + L = j + 0 /\ 0 \in 0 .. N - j /\ L \in 0 .. L
        BY <1>1, <1>3, <1>4
      <4> QED BY <4>1, <2>4
    <3>2. ASSUME NEW m \in 1 .. N - j, m - 1 \in S
          PROVE  m \in S
      <4> DEFINE n == j + m
      <4>1. n \in 1 .. N /\ n - 1 \in 0 .. N /\ n - 1 = j + (m - 1) /\ t[n] \notin Marks
        BY <1>1, <1>2
      <4>2. Part(U[n - 1], L)
        BY <3>2, <4>1
      <4> HIDE DEF n
      <4>3. CASE t[n] = FenceJson
        <5>1. U[n] = U[n - 1]
          BY <4>1, <4>3, <1>7
        <5> QED BY <5>1, <4>2 DEF n
      <4>4. CASE t[n] # FenceJson
        <5>1. U[n] = Append(U[n - 1], t[n])
          BY <4>1, <4>4, <1>7
        <5>2. /\ Len(U[n]) = Len(U[n - 1]) + 1
              /\ \A k \in 1 .. Len(U[n - 1]) : U[n][k] = U[n - 1][k]
              /\ U[n][Len(U[n - 1]) + 1] = t[n]
          BY <5>1, <4>1, <2>1, <1>7, Appending
        <5>3. L \in Nat /\ Len(U[n - 1]) \in Nat
          BY <1>1, <1>3, <1>4, <2>1, <4>1
        <5>4. ASSUME NEW k \in 1 .. L
              PROVE  U[n][p + k] = a[k]
          <6>1. p + k \in 1 .. Len(U[n - 1])
            BY <5>3, <4>2, <2>3
          <6> QED BY <6>1, <5>2, <4>2
        <5>5. ASSUME NEW k \in 1 .. Len(U[n]), k <= p \/ k > p + L
              PROVE  U[n][k] \notin Marks
          <6>1. CASE k = Len(U[n - 1]) + 1
            BY <6>1, <5>2, <4>1
          <6>2. CASE k # Len(U[n - 1]) + 1
            <7>1. k \in 1 .. Len(U[n - 1])
              BY <6>2, <5>2, <5>3
            <7> QED BY <7>1, <5>2, <5>5, <4>2
          <6> QED BY <6>1, <6>2
        <5>6. Part(U[n], L)
          BY <5>2, <5>3, <5>4, <5>5, <4>2, <2>3
        <5> QED BY <5>6 DEF n
      <4> QED BY <4>3, <4>4
    <3>3. N - j \in Nat
      BY <1>1
    <3> HIDE DEF S
    <3>4. \A m \in 0 .. N - j : m \in S
      BY <3>1, <3>2, <3>3, UpTo
    <3> QED BY <3>4 DEF S
  <2>6. Part(U[N], L)
    <3>1. N - j \in 0 .. N - j /\ j + (N - j) = N
      BY <1>1
    <3> QED BY <3>1, <2>5
  <2>7. Holds(U[N], a, p)
    BY <2>6 DEF Holds, L
  <2> QED BY <2>1, <2>3, <2>7, <1>1
<1> DEFINE opened == IF t # <<>> /\ Head(t) = FenceJson THEN U[N] ELSE t
<1>10. opened \in Seq(Symbol) /\ \E p \in Nat : Holds(opened, a, p)
  BY <1>8, <1>9
<1>11. c = IF opened # <<>> /\ Last(opened) = Fence THEN Front(opened) ELSE opened
  BY DEF RemoveMarkdownCodeBlocks, c, U, N
<1> HIDE DEF opened
<1>12. CASE opened # <<>> /\ Last(opened) = Fence
  <2> DEFINE O == Len(opened)
  <2>1. O \in Nat /\ O > 0
    BY <1>10, <1>12, LenProperties, EmptySeq
  <2>2. c \in Seq(Symbol) /\ Len(c) = O - 1 /\ \A k \in 1 .. O - 1 : c[k] = opened[k]
    <3>1. c = SubSeq(opened, 1, O - 1)
      BY <1>11, <1>12 DEF Front
    <3>2. \A k \in 1 .. O - 1 : opened[k] \in Symbol /\ 1 + k - 1 = k
      BY <1>10, <2>1, ElementOfSeq
    <3>3. 1 \in Nat /\ O - 1 \in Nat /\ (1 <= O - 1 => 1 \in 1 .. O /\ O - 1 \in 1 .. O)
      BY <2>1
    <3>4. SubSeq(opened, 1, O - 1) = [k \in 1 .. O - 1 |-> opened[k]]
      BY <2>1 DEF SubSeq
    <3> HIDE DEF O
    <3> QED BY <3>1, <3>2, <3>3, <3>4, <2>1, LenProperties
  <2>3. PICK p \in Nat : Holds(opened, a, p)
    BY <1>10
  <2>4. opened[O] = Fence
    BY <1>12 DEF Last
  <2>5. L \in Nat /\ L > 1 /\ a[L] = "]"
    BY <1>1, <1>3, <1>4, <1>6 DEF AnArray, L
  <2>6. p + L # O
    BY <2>3, <2>4, <2>5 DEF Holds, L, Fence
  <2>7. Holds(c, a, p)
    <3>1. p + L <= O - 1
      BY <2>1, <2>3, <2>5, <2>6 DEF Holds, L
    <3>2. ASSUME NEW k \in 1 .. L
          PROVE  c[p + k] = a[k]
      <4>1. p + k \in 1 .. O - 1
        BY <3>1, <2>1, <2>5
      <4> HIDE DEF O
      <4> QED BY <4>1, <2>2, <2>3 DEF Holds, L
    <3>3. ASSUME NEW k \in 1 .. O - 1, k <= p \/ k > p + L
          PROVE  c[k] \notin Marks
      <4>1. k \in 1 .. O
        BY <2>1
      <4> QED BY <3>3, <4>1, <2>2, <2>3 DEF Holds, L
    <3> HIDE DEF O
    <3> QED BY <3>1, <3>2, <3>3, <2>2 DEF Holds, L
  <2> QED BY <2>2, <2>7, <1>4, <1>6 DEF a, c
<1>13. CASE ~ (opened # <<>> /\ Last(opened) = Fence)
  BY <1>10, <1>11, <1>13, <1>4, <1>6 DEF a, c
<1> QED BY <1>12, <1>13
-----------------------------------------------------------------------------
LEMMA FactsOfAnswer ==
  ASSUME NEW t \in Seq(Symbol), NEW i \in DOMAIN t, NEW j \in DOMAIN t,
         ArrayInProse(t, i, j)
  PROVE  ExtractFactsFromJson(t) = ReadValue(SubSeq(t, i, j)).list
<1> DEFINE a == SubSeq(t, i, j)
           c == RemoveMarkdownCodeBlocks(t)
<1>1. a \in Seq(Symbol) /\ AnArray(a) /\ c \in Seq(Symbol) /\ \E p \in Nat : Holds(c, a, p)
  BY CleanedHolds
<1>2. PICK p \in Nat : Holds(c, a, p)
  BY <1>1
<1>3. ExtractFactsFromJson(t) = IF Readable(c) THEN ReadValue(c).list ELSE EmbeddedFacts(c)
  BY DEF ExtractFactsFromJson
<1> HIDE DEF a, c
<1>4. CASE Readable(c)
  BY <1>1, <1>2, <1>3, <1>4, ReadingOfHolder DEF a
<1>5. CASE ~ Readable(c)
  <2> DEFINE range == FindLastBalancedJsonArray(c)
  <2>1. range = <<p + 1, p + Len(a)>>
    BY <1>1, <1>2, ScanOfHolder
  <2>2. range # <<>> /\ range[1] = p + 1 /\ range[2] = p + Len(a)
    BY <2>1
  <2>3. Len(a) \in Nat /\ Len(c) \in Nat /\ Len(a) > 1 /\ p + Len(a) <= Len(c)
    BY <1>1, <1>2, LenProperties DEF AnArray, Holds
  <2>4. SubSeq(c, p + 1, p + Len(a)) = a
    BY <1>1, <1>2, <2>3, SubSeqProperties DEF Holds
  <2>5. Cut(c, range) = a
    BY <2>2, <2>4 DEF Cut
  <2>6. EmbeddedFacts(c) = ReadValue(a).list
    BY <1>1, <2>2, <2>5 DEF EmbeddedFacts, AnArray
  <2> QED BY <1>3, <1>5, <2>6 DEF a
<1> QED BY <1>4, <1>5

-----------------------------------------------------------------------------
(* The running state of the scan, and the positions it is about: whether   *)
(* the next symbol is escaped or quoted.                                   *)

LEMMA Parity ==
  ASSUME NEW S, IsFiniteSet(S), NEW x, x \notin S
  PROVE  Cardinality(S \union {x}) % 2 = 0 <=> ~ (Cardinality(S) % 2 = 0)
<1>1. Cardinality(S) \in Nat /\ Cardinality(S \union {x}) = Cardinality(S) + 1
  BY FS_CardinalityType, FS_AddElement
<1> QED BY <1>1

Run(t, k) == {j \in 1 .. k - 1 : \A h \in j .. k - 1 : t[h] = Escape}
Quotes(t, k) == {j \in 1 .. k - 1 : t[j] = Quote /\ Bare(t, j)}

LEMMA BareSteps ==
  ASSUME NEW t \in Seq(Symbol)
  PROVE  /\ Bare(t, 1)
         /\ \A n \in 1 .. Len(t) : Bare(t, n + 1) <=> t[n] # Escape \/ ~ Bare(t, n)
<1>1. \A k : Bare(t, k) <=> Cardinality(Run(t, k)) % 2 = 0
  BY DEF Bare, Run
<1>2. Bare(t, 1)
  <2>1. Run(t, 1) = {}
    BY DEF Run
  <2>2. Cardinality(Run(t, 1)) = 0
    BY <2>1, FS_EmptySet
  <2>3. 0 % 2 = 0
    OBVIOUS
  <2> QED BY <1>1, <2>2, <2>3
<1>3. ASSUME NEW n \in 1 .. Len(t)
      PROVE  Bare(t, n + 1) <=> t[n] # Escape \/ ~ Bare(t, n)
  <2>0. n \in Nat /\ n + 1 - 1 = n
    BY LenProperties
  <2>1. CASE t[n] = Escape
    <3>1. Run(t, n + 1) = Run(t, n) \union {n}
      BY <2>0, <2>1 DEF Run
    <3>2. n \notin Run(t, n) /\ Run(t, n) \subseteq 1 .. n
      BY <2>0 DEF Run
    <3>a. IsFiniteSet(1 .. n)
      BY <2>0, FS_Interval
    <3>3. IsFiniteSet(Run(t, n))
      BY <3>2, <3>a, FS_Subset, Zenon
    <3> QED BY <1>1, <2>1, <3>1, <3>2, <3>3, Parity
  <2>2. CASE t[n] # Escape
    <3>1. Run(t, n + 1) = {}
      BY <2>0, <2>2 DEF Run
    <3> QED BY <1>1, <2>2, <3>1, FS_EmptySet
  <2> QED BY <2>1, <2>2
<1> QED BY <1>2, <1>3

LEMMA OutsideSteps ==
  ASSUME NEW t \in Seq(Symbol)
  PROVE  /\ Outside(t, 1)
         /\ \A n \in 1 .. Len(t) :
              Outside(t, n + 1) <=> (Outside(t, n) <=> ~ (t[n] = Quote /\ Bare(t, n)))
<1>1. \A k : Outside(t, k) <=> Cardinality(Quotes(t, k)) % 2 = 0
  BY DEF Outside, Quotes
<1>2. Outside(t, 1)
  <2>1. Quotes(t, 1) = {}
    BY DEF Quotes
  <2>2. Cardinality(Quotes(t, 1)) = 0
    BY <2>1, FS_EmptySet
  <2>3. 0 % 2 = 0
    OBVIOUS
  <2> QED BY <1>1, <2>2, <2>3
<1>3. ASSUME NEW n \in 1 .. Len(t)
      PROVE  Outside(t, n + 1) <=> (Outside(t, n) <=> ~ (t[n] = Quote /\ Bare(t, n)))
  <2>0. n \in Nat /\ n + 1 - 1 = n
    BY LenProperties
  <2>1. CASE t[n] = Quote /\ Bare(t, n)
    <3>1. Quotes(t, n + 1) = Quotes(t, n) \union {n}
      BY <2>0, <2>1 DEF Quotes
    <3>2. n \notin Quotes(t, n) /\ Quotes(t, n) \subseteq 1 .. n
      BY <2>0 DEF Quotes
    <3>a. IsFiniteSet(1 .. n)
      BY <2>0, FS_Interval
    <3>3. IsFiniteSet(Quotes(t, n))
      BY <3>2, <3>a, FS_Subset, Zenon
    <3> QED BY <1>1, <2>1, <3>1, <3>2, <3>3, Parity
  <2>2. CASE ~ (t[n] = Quote /\ Bare(t, n))
    <3>1. Quotes(t, n + 1) = Quotes(t, n)
      BY <2>0, <2>2 DEF Quotes
    <3> QED BY <1>1, <2>2, <3>1
  <2> QED BY <2>1, <2>2
<1> QED BY <1>2, <1>3

LEMMA ScanKnows ==
  ASSUME NEW t \in Seq(Symbol)
  PROVE  \A n \in 0 .. Len(t) : /\ Scan(t)[n].escaped <=> ~ Bare(t, n + 1)
                                /\ Scan(t)[n].inString <=> ~ Outside(t, n + 1)
<1> DEFINE sc == Scan(t)
           Good(n) == /\ sc[n].escaped <=> ~ Bare(t, n + 1)
                      /\ sc[n].inString <=> ~ Outside(t, n + 1)
           S == {n \in 0 .. Len(t) : Good(n)}
<1>1. /\ Len(t) \in Nat /\ sc \in [0 .. Len(t) -> ScanState] /\ sc[0] = ScanStart
      /\ \A n \in 1 .. Len(t) : sc[n] = Consume(sc[n - 1], t[n], n)
  BY LenProperties, ScanSteps
<1> HIDE DEF sc
<1>2. 0 \in S
  BY <1>1, BareSteps, OutsideSteps DEF ScanStart
<1>3. ASSUME NEW n \in 1 .. Len(t), n - 1 \in S
      PROVE  n \in S
  <2>1. n - 1 + 1 = n /\ n \in Nat /\ n - 1 \in 0 .. Len(t) /\ n \in 0 .. Len(t)
    BY <1>1
  <2> DEFINE s == sc[n - 1]
  <2>2. s \in ScanState /\ sc[n] = Consume(s, t[n], n)
    BY <1>1, <2>1
  <2>3. (s.escaped <=> ~ Bare(t, n)) /\ (s.inString <=> ~ Outside(t, n))
    BY <1>3, <2>1
  <2>4. /\ Bare(t, n + 1) <=> t[n] # Escape \/ ~ Bare(t, n)
        /\ Outside(t, n + 1) <=> (Outside(t, n) <=> ~ (t[n] = Quote /\ Bare(t, n)))
    BY BareSteps, OutsideSteps
  <2> HIDE DEF s
  <2>5. CASE s.escaped
    <3>1. sc[n] = [s EXCEPT !.escaped = FALSE]
      BY <2>2, <2>5 DEF Consume
    <3>2. ~ sc[n].escaped /\ (sc[n].inString <=> s.inString)
      BY <3>1, <2>2 DEF ScanState
    <3> QED BY <3>2, <2>1, <2>3, <2>4, <2>5
  <2>6. CASE ~ s.escaped /\ t[n] = Escape
    <3>1. sc[n] = [s EXCEPT !.escaped = TRUE]
      BY <2>2, <2>6 DEF Consume, Quote, Escape
    <3>2. sc[n].escaped /\ (sc[n].inString <=> s.inString)
      BY <3>1, <2>2 DEF ScanState
    <3> QED BY <3>2, <2>1, <2>3, <2>4, <2>6 DEF Quote, Escape
  <2>7. CASE ~ s.escaped /\ t[n] = Quote
    <3>1. sc[n] = [s EXCEPT !.inString = ~ @]
      BY <2>2, <2>7 DEF Consume, Quote, Escape
    <3>2. ~ sc[n].escaped /\ (sc[n].inString <=> ~ s.inString)
      BY <3>1, <2>2, <2>7 DEF ScanState
    <3> QED BY <3>2, <2>1, <2>3, <2>4, <2>7 DEF Quote, Escape
  <2>8. CASE ~ s.escaped /\ t[n] \notin {Escape, Quote}
    <3>1. sc[n] = IF s.inString THEN s ELSE Bracket(s, t[n], n)
      BY <2>2, <2>8 DEF Consume
    <3>2. (sc[n].escaped <=> s.escaped) /\ (sc[n].inString <=> s.inString)
      <4>1. CASE t[n] = "["
        BY <4>1, <3>1, <2>1, <2>2, BracketOpens
      <4>2. CASE t[n] = "]" /\ s.depth = 1
        BY <4>2, <3>1, <2>1, <2>2, BracketCloses
      <4>3. CASE t[n] # "[" /\ ~ (t[n] = "]" /\ s.depth = 1)
        BY <4>3, <3>1, <2>2 DEF Bracket, ScanState
      <4> QED BY <4>1, <4>2, <4>3
    <3> QED BY <3>2, <2>1, <2>3, <2>4, <2>8
  <2> QED BY <2>5, <2>6, <2>7, <2>8
<1>4. \A n \in 0 .. Len(t) : n \in S
  <2> HIDE DEF S
  <2> QED BY <1>1, <1>2, <1>3, UpTo
<1> QED BY <1>4 DEF sc

\* What a step does to the brackets.
LEMMA ScanMoves ==
  ASSUME NEW t \in Seq(Symbol), NEW n \in 1 .. Len(t)
  PROVE  LET s    == Scan(t)[n - 1]
             then == Scan(t)[n]
         IN  /\ n \in Places(t, "[") =>
                  /\ then.depth = s.depth + 1
                  /\ then.start = IF s.depth = 0 THEN n ELSE s.start
                  /\ then.lastClosed = s.lastClosed
             /\ n \in Places(t, "]") =>
                  /\ s.depth = 0 => then.depth = 0 /\ then.lastClosed = s.lastClosed
                  /\ s.depth = 1 => then.depth = 0 /\ then.lastClosed = <<s.start, n>>
                  /\ s.depth > 1 => /\ then.depth = s.depth - 1 /\ then.start = s.start
                                    /\ then.lastClosed = s.lastClosed
             /\ n \notin Places(t, "[") \union Places(t, "]") =>
                  /\ then.depth = s.depth /\ then.start = s.start
                  /\ then.lastClosed = s.lastClosed
<1> DEFINE s == Scan(t)[n - 1]
           then == Scan(t)[n]
<1>1. n \in Nat /\ n - 1 \in 0 .. Len(t) /\ n - 1 + 1 = n /\ DOMAIN t = 1 .. Len(t)
  BY LenProperties
<1>2. s \in ScanState /\ then = Consume(s, t[n], n)
  BY <1>1, ScanSteps
<1>3. (s.escaped <=> ~ Bare(t, n)) /\ (s.inString <=> ~ Outside(t, n))
  BY <1>1, ScanKnows
<1> HIDE DEF s, then
<1>4. \A c : n \in Places(t, c) <=> t[n] = c /\ ~ s.escaped /\ ~ s.inString
  BY <1>1, <1>3 DEF Places
<1>5. ASSUME n \in Places(t, "[")
      PROVE  /\ then.depth = s.depth + 1
             /\ then.start = IF s.depth = 0 THEN n ELSE s.start
             /\ then.lastClosed = s.lastClosed
  <2>1. then = Bracket(s, "[", n)
    <3>1. t[n] = "[" /\ ~ s.escaped /\ ~ s.inString
      BY <1>4, <1>5
    <3> QED BY <3>1, <1>2 DEF Consume, Quote, Escape
  <2> QED BY <2>1, <1>1, <1>2, BracketOpens
<1>6. ASSUME n \in Places(t, "]")
      PROVE  /\ s.depth = 0 => then.depth = 0 /\ then.lastClosed = s.lastClosed
             /\ s.depth = 1 => then.depth = 0 /\ then.lastClosed = <<s.start, n>>
             /\ s.depth > 1 => /\ then.depth = s.depth - 1 /\ then.start = s.start
                               /\ then.lastClosed = s.lastClosed
  <2>1. then = Bracket(s, "]", n)
    <3>1. t[n] = "]" /\ ~ s.escaped /\ ~ s.inString
      BY <1>4, <1>6
    <3> QED BY <3>1, <1>2 DEF Consume, Quote, Escape
  <2>2. CASE s.depth = 1
    BY <2>1, <2>2, <1>1, <1>2, BracketCloses
  <2>3. CASE s.depth # 1
    BY <2>1, <2>3, <1>2 DEF Bracket, ScanState
  <2> QED BY <2>2, <2>3
<1>7. ASSUME n \notin Places(t, "[") \union Places(t, "]")
      PROVE  /\ then.depth = s.depth /\ then.start = s.start
             /\ then.lastClosed = s.lastClosed
  <2>1. CASE s.escaped \/ s.inString \/ t[n] \in {Escape, Quote}
    BY <2>1, <1>2 DEF Consume, ScanState
  <2>2. CASE ~ s.escaped /\ ~ s.inString /\ t[n] \notin {"[", "]", Escape, Quote}
    <3>1. then = s
      BY <2>2, <1>2 DEF Consume, Bracket
    <3> QED BY <3>1
  <2> QED BY <2>1, <2>2, <1>4, <1>7
<1> QED BY <1>5, <1>6, <1>7 DEF s, then

-----------------------------------------------------------------------------
(* Arrays by the level of the brackets before a position.                  *)

Level(t, n) ==
  Cardinality(Places(t, "[") \cap 1 .. n) - Cardinality(Places(t, "]") \cap 1 .. n)

Arrays(t) ==
  {r \in Places(t, "[") \X Places(t, "]") :
     /\ r[1] < r[2]
     /\ Level(t, r[2]) = Level(t, r[1] - 1)
     /\ \A k \in r[1] .. r[2] - 1 : Level(t, k) > Level(t, r[1] - 1)}

\* Every bracket opened before place m has been closed before it.
ClosedBefore(t, m) ==
  \A h \in Places(t, "[") : h < m => \E a \in Arrays(t) : a[1] = h /\ a[2] < m

LEMMA CountFrom ==
  ASSUME NEW P, NEW i \in Nat \ {0}, NEW k \in Nat, i <= k + 1
  PROVE  /\ Cardinality(P \cap 1 .. k) \in Nat
         /\ Cardinality(P \cap 1 .. i - 1) \in Nat
         /\ Cardinality(P \cap i .. k) =
              Cardinality(P \cap 1 .. k) - Cardinality(P \cap 1 .. i - 1)
<1> DEFINE A == P \cap 1 .. i - 1
           B == P \cap i .. k
<1>1. IsFiniteSet(A) /\ IsFiniteSet(B)
  <2>1. IsFiniteSet(1 .. i - 1) /\ IsFiniteSet(i .. k)
    BY FS_Interval
  <2>2. A \in SUBSET (1 .. i - 1) /\ B \in SUBSET (i .. k)
    OBVIOUS
  <2> QED BY <2>1, <2>2, FS_Subset
<1>2. P \cap 1 .. k = A \union B /\ A \cap B = {}
  OBVIOUS
<1> HIDE DEF A, B
<1>3. Cardinality(A \union B) = Cardinality(A) + Cardinality(B) - Cardinality(A \cap B)
  BY <1>1, FS_Union
<1>4. Cardinality(A \cap B) = 0
  BY <1>2, FS_EmptySet
<1>5. Cardinality(A) \in Nat /\ Cardinality(B) \in Nat
  BY <1>1, FS_CardinalityType
<1>6. Cardinality(P \cap 1 .. k) = Cardinality(A) + Cardinality(B)
  BY <1>2, <1>3, <1>4, <1>5
<1> QED BY <1>5, <1>6 DEF A, B

LEMMA PlacesApart ==
  ASSUME NEW t \in Seq(Symbol)
  PROVE  /\ Places(t, "[") \subseteq 1 .. Len(t) /\ Places(t, "]") \subseteq 1 .. Len(t)
         /\ Len(t) \in Nat
         /\ Places(t, "[") \cap Places(t, "]") = {}
BY LenProperties DEF Places

LEMMA LevelSteps ==
  ASSUME NEW t \in Seq(Symbol)
  PROVE  /\ \A n \in 0 .. Len(t) : Level(t, n) \in Int
         /\ \A n \in 1 .. Len(t) :
              /\ n \in Places(t, "[") => Level(t, n) = Level(t, n - 1) + 1
              /\ n \in Places(t, "]") => Level(t, n) = Level(t, n - 1) - 1
              /\ n \notin Places(t, "[") \union Places(t, "]") =>
                   Level(t, n) = Level(t, n - 1)
<1>0. Len(t) \in Nat
  BY PlacesApart
<1>1. ASSUME NEW n \in 0 .. Len(t)
      PROVE  Level(t, n) \in Int
  <2>1. 1 \in Nat \ {0} /\ n \in Nat /\ 1 <= n + 1
    BY <1>0
  <2>2. /\ Cardinality(Places(t, "[") \cap 1 .. n) \in Nat
        /\ Cardinality(Places(t, "]") \cap 1 .. n) \in Nat
    BY <2>1, CountFrom
  <2> QED BY <2>2 DEF Level
<1>2. ASSUME NEW n \in 1 .. Len(t)
      PROVE  /\ n \in Places(t, "[") => Level(t, n) = Level(t, n - 1) + 1
             /\ n \in Places(t, "]") => Level(t, n) = Level(t, n - 1) - 1
             /\ n \notin Places(t, "[") \union Places(t, "]") =>
                  Level(t, n) = Level(t, n - 1)
  <2>1. n \in Nat \ {0} /\ n \in Nat /\ n <= n + 1
    BY <1>0
  <2>2. ASSUME NEW P
        PROVE  /\ Cardinality(P \cap 1 .. n) \in Nat /\ Cardinality(P \cap 1 .. n - 1) \in Nat
               /\ n \in P => Cardinality(P \cap 1 .. n) = Cardinality(P \cap 1 .. n - 1) + 1
               /\ n \notin P => Cardinality(P \cap 1 .. n) = Cardinality(P \cap 1 .. n - 1)
    <3>1. /\ Cardinality(P \cap 1 .. n) \in Nat /\ Cardinality(P \cap 1 .. n - 1) \in Nat
          /\ Cardinality(P \cap n .. n) =
               Cardinality(P \cap 1 .. n) - Cardinality(P \cap 1 .. n - 1)
      BY <2>1, CountFrom
    <3>2. n \in P => P \cap n .. n = {n}
      BY <2>1
    <3>3. n \notin P => P \cap n .. n = {}
      BY <2>1
    <3>4. Cardinality({n}) = 1 /\ Cardinality({}) = 0
      BY FS_Singleton, FS_EmptySet
    <3>5. CASE n \in P
      <4>1. Cardinality(P \cap n .. n) = 1
        BY <3>2, <3>4, <3>5
      <4> QED BY <3>1, <3>5, <4>1
    <3>6. CASE n \notin P
      <4>1. Cardinality(P \cap n .. n) = 0
        BY <3>3, <3>4, <3>6
      <4> QED BY <3>1, <3>6, <4>1
    <3> QED BY <3>5, <3>6
  <2>3. ~ (n \in Places(t, "[") /\ n \in Places(t, "]"))
    BY PlacesApart
  <2> QED BY <2>2, <2>3 DEF Level
<1> QED BY <1>1, <1>2

LEMMA ExcessIsLevel ==
  ASSUME NEW t \in Seq(Symbol)
  PROVE  TopLevelArrays(t) = {r \in Arrays(t) : ClosedBefore(t, r[1])}
<1> DEFINE O == Places(t, "[")
           C == Places(t, "]")
           Excess(i, k) == Cardinality(O \cap i .. k) - Cardinality(C \cap i .. k)
           array(r) == /\ r[1] < r[2] /\ Excess(r[1], r[2]) = 0
                       /\ \A k \in r[1] .. r[2] - 1 : Excess(r[1], k) > 0
           arrays == {r \in O \X C : array(r)}
<1>1. ASSUME NEW i \in 1 .. Len(t), NEW k \in 0 .. Len(t), i <= k + 1
      PROVE  Excess(i, k) = Level(t, k) - Level(t, i - 1)
  <2>1. i \in Nat \ {0} /\ k \in Nat
    BY PlacesApart
  <2>2. ASSUME NEW P
        PROVE  /\ Cardinality(P \cap 1 .. k) \in Nat
               /\ Cardinality(P \cap 1 .. i - 1) \in Nat
               /\ Cardinality(P \cap i .. k) =
                    Cardinality(P \cap 1 .. k) - Cardinality(P \cap 1 .. i - 1)
    BY <1>1, <2>1, CountFrom
  <2>3. Level(t, k) = Cardinality(O \cap 1 .. k) - Cardinality(C \cap 1 .. k)
    BY DEF Level
  <2>4. Level(t, i - 1) = Cardinality(O \cap 1 .. i - 1) - Cardinality(C \cap 1 .. i - 1)
    BY DEF Level
  <2>5. Excess(i, k) = Cardinality(O \cap i .. k) - Cardinality(C \cap i .. k)
    OBVIOUS
  <2> HIDE DEF O, C, Excess
  <2>6. /\ Cardinality(O \cap 1 .. k) \in Nat /\ Cardinality(O \cap 1 .. i - 1) \in Nat
        /\ Cardinality(O \cap i .. k) =
             Cardinality(O \cap 1 .. k) - Cardinality(O \cap 1 .. i - 1)
    BY <2>2
  <2>7. /\ Cardinality(C \cap 1 .. k) \in Nat /\ Cardinality(C \cap 1 .. i - 1) \in Nat
        /\ Cardinality(C \cap i .. k) =
             Cardinality(C \cap 1 .. k) - Cardinality(C \cap 1 .. i - 1)
    BY <2>2
  <2> QED BY <2>3, <2>4, <2>5, <2>6, <2>7
<1> HIDE DEF Excess
<1>2. O \subseteq 1 .. Len(t) /\ C \subseteq 1 .. Len(t) /\ Len(t) \in Nat
  BY PlacesApart
<1>3. ASSUME NEW r \in O \X C
      PROVE  array(r) <=> r \in Arrays(t)
  <2>1. r[1] \in O /\ r[2] \in C /\ r[1] \in 1 .. Len(t) /\ r[2] \in 1 .. Len(t)
    BY <1>2
  <2>2. CASE ~ (r[1] < r[2])
    BY <2>2 DEF Arrays
  <2>3. CASE r[1] < r[2]
    <3>1. /\ r[1] - 1 \in 0 .. Len(t) /\ r[2] \in 0 .. Len(t) /\ r[1] <= r[2] + 1
          /\ \A k \in r[1] .. r[2] - 1 : k \in 0 .. Len(t) /\ r[1] <= k + 1
      BY <1>2, <2>1, <2>3
    <3>2. Excess(r[1], r[2]) = Level(t, r[2]) - Level(t, r[1] - 1)
      BY <1>1, <2>1, <3>1
    <3>3. \A k \in r[1] .. r[2] - 1 : Excess(r[1], k) = Level(t, k) - Level(t, r[1] - 1)
      BY <1>1, <2>1, <3>1
    <3>4. /\ Level(t, r[2]) \in Int /\ Level(t, r[1] - 1) \in Int
          /\ \A k \in r[1] .. r[2] - 1 : Level(t, k) \in Int
      BY <3>1, LevelSteps
    <3>5. Excess(r[1], r[2]) = 0 <=> Level(t, r[2]) = Level(t, r[1] - 1)
      BY <3>2, <3>4
    <3>6. \A k \in r[1] .. r[2] - 1 :
            Excess(r[1], k) > 0 <=> Level(t, k) > Level(t, r[1] - 1)
      BY <3>3, <3>4
    <3> QED BY <2>3, <3>5, <3>6 DEF Arrays
  <2> QED BY <2>2, <2>3
<1>4. arrays = Arrays(t)
  <2> HIDE DEF array, O, C
  <2>1. Arrays(t) \subseteq O \X C
    BY DEF Arrays, O, C
  <2> QED BY <1>3, <2>1
<1>5. TopLevelArrays(t) =
        {r \in arrays : \A h \in O : h < r[1] => \E a \in arrays : a[1] = h /\ a[2] < r[1]}
  BY DEF TopLevelArrays, Excess
<1> HIDE DEF arrays
<1> QED BY <1>4, <1>5 DEF ClosedBefore

LEMMA ArrayFacts ==
  ASSUME NEW t \in Seq(Symbol), NEW r \in Arrays(t)
  PROVE  /\ r[1] \in Places(t, "[") /\ r[2] \in Places(t, "]")
         /\ r[1] \in 1 .. Len(t) /\ r[2] \in 1 .. Len(t) /\ r[1] < r[2]
         /\ r = <<r[1], r[2]>>
         /\ Level(t, r[2]) = Level(t, r[1] - 1)
         /\ \A k \in r[1] .. r[2] - 1 : Level(t, k) > Level(t, r[1] - 1)
BY PlacesApart DEF Arrays

\* Two arrays that open at one place are one.
LEMMA ArrayEndsOnce ==
  ASSUME NEW t \in Seq(Symbol), NEW a \in Arrays(t), NEW r \in Arrays(t), a[1] = r[1]
  PROVE  a[2] = r[2]
<1>1. ASSUME NEW x \in Arrays(t), NEW y \in Arrays(t), x[1] = y[1], x[2] < y[2]
      PROVE  FALSE
  <2>1. x[2] \in y[1] .. y[2] - 1
    BY <1>1, ArrayFacts
  <2>2. Level(t, x[2]) > Level(t, y[1] - 1) /\ Level(t, x[2]) = Level(t, y[1] - 1)
    BY <1>1, <2>1, ArrayFacts
  <2>3. x[2] \in 0 .. Len(t)
    BY ArrayFacts, PlacesApart
  <2> QED BY <2>2, <2>3, LevelSteps
<1>2. a[2] \in 1 .. Len(t) /\ r[2] \in 1 .. Len(t)
  BY ArrayFacts
<1> QED BY <1>1, <1>2

\* A bracket under whose level the text has come down again is closed.
LEMMA ArrayFrom ==
  ASSUME NEW t \in Seq(Symbol), NEW h \in Places(t, "["), NEW n \in 1 .. Len(t),
         h <= n, Level(t, n) <= Level(t, h - 1)
  PROVE  \E a \in Arrays(t) : a[1] = h /\ a[2] <= n
<1> DEFINE Down == {k \in h .. n : Level(t, k) <= Level(t, h - 1)}
<1>1. h \in 1 .. Len(t) /\ Len(t) \in Nat /\ h - 1 \in 0 .. Len(t)
  BY PlacesApart
<1>2. Down \subseteq Nat /\ n \in Down
  BY <1>1
<1>3. PICK k \in Down : \A x \in Down : k <= x
  <2> HIDE DEF Down
  <2> QED BY <1>2, LeastOf
<1>4. k \in h .. n /\ Level(t, k) <= Level(t, h - 1)
  OBVIOUS
<1>5. Level(t, h) = Level(t, h - 1) + 1 /\ Level(t, h - 1) \in Int
  BY <1>1, LevelSteps
<1>6. k > h
  BY <1>1, <1>4, <1>5
<1>7. /\ k \in 1 .. Len(t) /\ k - 1 \in h .. n /\ k - 1 \in 0 .. Len(t)
      /\ Level(t, k) \in Int /\ Level(t, k - 1) \in Int
  <2>1. k \in 1 .. Len(t) /\ k - 1 \in h .. n /\ k - 1 \in 0 .. Len(t) /\ k \in 0 .. Len(t)
    BY <1>1, <1>4, <1>6
  <2> QED BY <2>1, LevelSteps
<1>8. ASSUME NEW x \in h .. k - 1
      PROVE  Level(t, x) > Level(t, h - 1)
  <2>1. x \in h .. n /\ x \in 0 .. Len(t) /\ ~ (k <= x)
    BY <1>1, <1>4, <1>7
  <2>2. ~ (Level(t, x) <= Level(t, h - 1))
    BY <2>1, <1>3
  <2>3. Level(t, x) \in Int
    BY <2>1, LevelSteps
  <2> QED BY <2>2, <2>3, <1>5
<1>9. Level(t, k - 1) > Level(t, h - 1)
  BY <1>7, <1>8, <1>4, <1>1
<1>10. k \in Places(t, "]") /\ Level(t, k) = Level(t, h - 1)
  BY <1>4, <1>5, <1>7, <1>9, LevelSteps
<1>11. <<h, k>> \in Arrays(t)
  BY <1>6, <1>8, <1>10 DEF Arrays
<1> QED BY <1>4, <1>11

-----------------------------------------------------------------------------
(* What the running state says of the first n symbols.                     *)

OpenAt(t, n) ==
  LET s == Scan(t)[n]
  IN  IF s.depth = 0 THEN ClosedBefore(t, n + 1)
      ELSE /\ s.start \in Places(t, "[") /\ s.start <= n
           /\ Level(t, n) = Level(t, s.start - 1) + s.depth
           /\ \A k \in s.start .. n : Level(t, k) > Level(t, s.start - 1)
           /\ ClosedBefore(t, s.start)

Top(t) == {r \in Arrays(t) : ClosedBefore(t, r[1])}

LastAt(t, n) ==
  LET found == Scan(t)[n].lastClosed
  IN  IF found = <<>> THEN \A r \in Top(t) : r[2] > n
      ELSE found \in Top(t) /\ \A r \in Top(t) : r[2] <= n => r[1] <= found[1]

\* An array that opens inside an open bracket is not one of the outermost.
LEMMA NotInside ==
  ASSUME NEW t \in Seq(Symbol), NEW n \in 0 .. Len(t), NEW h \in Places(t, "["),
         \A k \in h .. n : Level(t, k) > Level(t, h - 1),
         NEW r \in Top(t), h < r[1], r[1] <= n + 1
  PROVE  FALSE
<1>1. r \in Arrays(t) /\ ClosedBefore(t, r[1])
  BY DEF Top
<1>2. PICK a \in Arrays(t) : a[1] = h /\ a[2] < r[1]
  BY <1>1 DEF ClosedBefore
<1>3. /\ a[2] \in h .. n /\ a[2] \in 0 .. Len(t) /\ h - 1 \in 0 .. Len(t)
      /\ Level(t, a[2]) = Level(t, h - 1)
  BY <1>1, <1>2, ArrayFacts, PlacesApart
<1>4. Level(t, a[2]) > Level(t, h - 1) /\ Level(t, h - 1) \in Int
  BY <1>3, LevelSteps
<1> QED BY <1>3, <1>4

\* The outermost array that ends at a closing bracket is the open one.
LEMMA OpenOnesEnd ==
  ASSUME NEW t \in Seq(Symbol), NEW n \in 1 .. Len(t), NEW h \in Places(t, "["), h < n,
         \A k \in h .. n - 1 : Level(t, k) > Level(t, h - 1),
         ClosedBefore(t, h),
         NEW r \in Top(t), r[2] = n
  PROVE  r[1] = h
<1>1. r \in Arrays(t) /\ r[1] \in Places(t, "[") /\ r[1] \in 1 .. Len(t) /\ r[1] < n
  BY ArrayFacts DEF Top
<1>2. h \in 1 .. Len(t) /\ Len(t) \in Nat
  BY PlacesApart
<1>3. ~ (r[1] < h)
  <2> SUFFICES ASSUME r[1] < h PROVE FALSE
    OBVIOUS
  <2>1. PICK a \in Arrays(t) : a[1] = r[1] /\ a[2] < h
    BY <1>1 DEF ClosedBefore
  <2>2. a[2] = n
    BY <2>1, <1>1, ArrayEndsOnce
  <2> QED BY <2>1, <2>2, <1>2
<1>4. ~ (h < r[1])
  <2> SUFFICES ASSUME h < r[1] PROVE FALSE
    OBVIOUS
  <2>1. n - 1 \in 0 .. Len(t) /\ r[1] <= n - 1 + 1
    BY <1>1, <1>2
  <2> QED BY <2>1, NotInside
<1> QED BY <1>1, <1>2, <1>3, <1>4

LEMMA ScanOpens ==
  ASSUME NEW t \in Seq(Symbol), NEW n \in 1 .. Len(t), n \in Places(t, "["),
         OpenAt(t, n - 1), LastAt(t, n - 1)
  PROVE  OpenAt(t, n) /\ LastAt(t, n)
<1> DEFINE s == Scan(t)[n - 1]
           then == Scan(t)[n]
<1>1. /\ then.depth = s.depth + 1
      /\ then.start = IF s.depth = 0 THEN n ELSE s.start
      /\ then.lastClosed = s.lastClosed
  BY ScanMoves
<1>2. n - 1 \in 0 .. Len(t) /\ n \in 0 .. Len(t) /\ n - 1 + 1 = n /\ s.depth \in Nat
  <2>1. n - 1 \in 0 .. Len(t) /\ n \in 0 .. Len(t) /\ n - 1 + 1 = n
    BY PlacesApart
  <2>2. s \in ScanState
    BY <2>1, ScanSteps
  <2> QED BY <2>1, <2>2 DEF ScanState
<1>3. Level(t, n) = Level(t, n - 1) + 1 /\ Level(t, n - 1) \in Int
  BY <1>2, LevelSteps
<1>4. OpenAt(t, n)
  <2>1. CASE s.depth = 0
    <3>1. ClosedBefore(t, n)
      BY <1>2, <2>1 DEF OpenAt
    <3>2. \A k \in n .. n : Level(t, k) > Level(t, n - 1)
      BY <1>2, <1>3
    <3>3. then.depth = 1 /\ then.start = n /\ n <= n
      BY <1>1, <1>2, <2>1
    <3> QED BY <3>1, <3>2, <3>3, <1>3 DEF OpenAt
  <2>2. CASE s.depth # 0
    <3> DEFINE h == s.start
    <3>1. /\ h \in Places(t, "[") /\ h <= n - 1
          /\ Level(t, n - 1) = Level(t, h - 1) + s.depth
          /\ \A k \in h .. n - 1 : Level(t, k) > Level(t, h - 1)
          /\ ClosedBefore(t, h)
      BY <2>2 DEF OpenAt
    <3>2. then.start = h /\ then.depth = s.depth + 1 /\ then.depth # 0
      BY <1>1, <1>2, <2>2
    <3>3. h \in Nat /\ h - 1 \in 0 .. Len(t) /\ h <= n
      BY <1>2, <3>1, PlacesApart
    <3>4. Level(t, h - 1) \in Int
      BY <3>3, LevelSteps
    <3> HIDE DEF s, then, h
    <3>5. Level(t, n) = Level(t, h - 1) + then.depth
      BY <1>2, <1>3, <3>1, <3>2, <3>4
    <3>6. ASSUME NEW k \in h .. n
          PROVE  Level(t, k) > Level(t, h - 1)
      <4>1. CASE k = n
        BY <4>1, <3>5, <3>2, <3>4, <1>2, <2>2
      <4>2. CASE k # n
        BY <4>2, <3>1, <3>3, <1>2
      <4> QED BY <4>1, <4>2
    <3> QED BY <3>1, <3>2, <3>3, <3>5, <3>6 DEF OpenAt, then
  <2> QED BY <2>1, <2>2
<1>5. \A r \in Top(t) : r[2] # n /\ r[2] \in Nat
  BY ArrayFacts, PlacesApart DEF Top
<1>6. LastAt(t, n)
  BY <1>1, <1>2, <1>5 DEF LastAt
<1> QED BY <1>4, <1>6

LEMMA ScanPasses ==
  ASSUME NEW t \in Seq(Symbol), NEW n \in 1 .. Len(t),
         n \notin Places(t, "[") \union Places(t, "]"),
         OpenAt(t, n - 1), LastAt(t, n - 1)
  PROVE  OpenAt(t, n) /\ LastAt(t, n)
<1> DEFINE s == Scan(t)[n - 1]
           then == Scan(t)[n]
<1>1. then.depth = s.depth /\ then.start = s.start /\ then.lastClosed = s.lastClosed
  BY ScanMoves
<1>2. n - 1 \in 0 .. Len(t) /\ n \in 0 .. Len(t) /\ n - 1 + 1 = n /\ s.depth \in Nat
  <2>1. n - 1 \in 0 .. Len(t) /\ n \in 0 .. Len(t) /\ n - 1 + 1 = n
    BY PlacesApart
  <2>2. s \in ScanState
    BY <2>1, ScanSteps
  <2> QED BY <2>1, <2>2 DEF ScanState
<1>3. Level(t, n) = Level(t, n - 1) /\ Level(t, n - 1) \in Int
  BY <1>2, LevelSteps
<1>4. OpenAt(t, n)
  <2>1. CASE s.depth = 0
    <3>1. ClosedBefore(t, n)
      BY <1>2, <2>1 DEF OpenAt
    <3>2. ClosedBefore(t, n + 1)
      <4> SUFFICES ASSUME NEW h \in Places(t, "["), h < n + 1
                   PROVE  \E a \in Arrays(t) : a[1] = h /\ a[2] < n + 1
        BY DEF ClosedBefore
      <4>1. h < n
        BY <1>2, PlacesApart
      <4>2. PICK a \in Arrays(t) : a[1] = h /\ a[2] < n
        BY <3>1, <4>1 DEF ClosedBefore
      <4>3. a[2] < n + 1
        BY <4>2, <1>2, ArrayFacts
      <4> QED BY <4>2, <4>3
    <3> QED BY <3>2, <1>1, <2>1 DEF OpenAt
  <2>2. CASE s.depth # 0
    <3> DEFINE h == s.start
    <3>1. /\ h \in Places(t, "[") /\ h <= n - 1
          /\ Level(t, n - 1) = Level(t, h - 1) + s.depth
          /\ \A k \in h .. n - 1 : Level(t, k) > Level(t, h - 1)
          /\ ClosedBefore(t, h)
      BY <2>2 DEF OpenAt
    <3>3. h \in Nat /\ h <= n /\ n - 1 \in h .. n - 1
      BY <1>2, <3>1, PlacesApart
    <3>2. then.start = h /\ then.depth = s.depth /\ then.depth # 0
      BY <1>1, <2>2
    <3> HIDE DEF s, then, h
    <3>6. ASSUME NEW k \in h .. n
          PROVE  Level(t, k) > Level(t, h - 1)
      <4>1. CASE k = n
        BY <4>1, <3>1, <3>3, <1>3
      <4>2. CASE k # n
        BY <4>2, <3>1, <3>3, <1>2
      <4> QED BY <4>1, <4>2
    <3> QED BY <3>1, <3>2, <3>3, <3>6, <1>3 DEF OpenAt, then
  <2> QED BY <2>1, <2>2
<1>5. \A r \in Top(t) : r[2] # n /\ r[2] \in Nat
  BY ArrayFacts, PlacesApart DEF Top
<1>6. LastAt(t, n)
  BY <1>1, <1>2, <1>5 DEF LastAt
<1> QED BY <1>4, <1>6

LEMMA ScanCloses ==
  ASSUME NEW t \in Seq(Symbol), NEW n \in 1 .. Len(t), n \in Places(t, "]"),
         OpenAt(t, n - 1), LastAt(t, n - 1)
  PROVE  OpenAt(t, n) /\ LastAt(t, n)
<1> DEFINE s == Scan(t)[n - 1]
           then == Scan(t)[n]
           h == s.start
<1>1. /\ s.depth = 0 => then.depth = 0 /\ then.lastClosed = s.lastClosed
      /\ s.depth = 1 => then.depth = 0 /\ then.lastClosed = <<h, n>>
      /\ s.depth > 1 => /\ then.depth = s.depth - 1 /\ then.start = h
                        /\ then.lastClosed = s.lastClosed
  BY ScanMoves
<1>2. n - 1 \in 0 .. Len(t) /\ n \in 0 .. Len(t) /\ n - 1 + 1 = n /\ s.depth \in Nat
  <2>1. n - 1 \in 0 .. Len(t) /\ n \in 0 .. Len(t) /\ n - 1 + 1 = n
    BY PlacesApart
  <2>2. s \in ScanState
    BY <2>1, ScanSteps
  <2> QED BY <2>1, <2>2 DEF ScanState
<1>3. Level(t, n) = Level(t, n - 1) - 1 /\ Level(t, n - 1) \in Int
  BY <1>2, LevelSteps
<1>4. n \notin Places(t, "[") /\ \A r \in Top(t) : r[2] \in Nat /\ r \in Arrays(t)
  BY ArrayFacts, PlacesApart DEF Top
<1>5. CASE s.depth = 0
  <2>1. ClosedBefore(t, n)
    BY <1>2, <1>5 DEF OpenAt
  <2>2. ClosedBefore(t, n + 1)
    <3> SUFFICES ASSUME NEW k \in Places(t, "["), k < n + 1
                 PROVE  \E a \in Arrays(t) : a[1] = k /\ a[2] < n + 1
      BY DEF ClosedBefore
    <3>1. k < n
      BY <1>2, <1>4, PlacesApart
    <3>2. PICK a \in Arrays(t) : a[1] = k /\ a[2] < n
      BY <2>1, <3>1 DEF ClosedBefore
    <3>3. a[2] < n + 1
      BY <3>2, <1>2, ArrayFacts
    <3> QED BY <3>2, <3>3
  <2>3. OpenAt(t, n)
    BY <1>1, <1>5, <2>2 DEF OpenAt
  <2>4. ASSUME NEW r \in Top(t)
        PROVE  r[2] # n
    <3> SUFFICES ASSUME r[2] = n PROVE FALSE
      OBVIOUS
    <3>1. r[1] \in Places(t, "[") /\ r[1] < n
      BY <1>4, ArrayFacts
    <3>2. PICK a \in Arrays(t) : a[1] = r[1] /\ a[2] < n
      BY <2>1, <3>1 DEF ClosedBefore
    <3>3. a[2] = n
      BY <3>2, <1>4, ArrayEndsOnce
    <3> QED BY <3>2, <3>3, <1>2
  <2>5. LastAt(t, n)
    BY <1>1, <1>2, <1>4, <1>5, <2>4 DEF LastAt
  <2> QED BY <2>3, <2>5
<1>6. ASSUME s.depth # 0
      PROVE  /\ h \in Places(t, "[") /\ h < n /\ h \in Nat
             /\ Level(t, n - 1) = Level(t, h - 1) + s.depth
             /\ \A k \in h .. n - 1 : Level(t, k) > Level(t, h - 1)
             /\ ClosedBefore(t, h)
             /\ Level(t, h - 1) \in Int
             /\ Level(t, n) = Level(t, h - 1) + s.depth - 1
  <2>1. /\ h \in Places(t, "[") /\ h <= n - 1
        /\ Level(t, n - 1) = Level(t, h - 1) + s.depth
        /\ \A k \in h .. n - 1 : Level(t, k) > Level(t, h - 1)
        /\ ClosedBefore(t, h)
    BY <1>6 DEF OpenAt
  <2>2. h \in Nat /\ h - 1 \in 0 .. Len(t) /\ h < n
    BY <1>2, <2>1, PlacesApart
  <2>3. Level(t, h - 1) \in Int
    BY <2>2, LevelSteps
  <2> HIDE DEF s, then, h
  <2> QED BY <2>1, <2>2, <2>3, <1>2, <1>3
<1>7. CASE s.depth = 1
  <2>0. /\ h \in Places(t, "[") /\ h < n /\ h \in Nat
        /\ \A k \in h .. n - 1 : Level(t, k) > Level(t, h - 1)
        /\ ClosedBefore(t, h) /\ Level(t, h - 1) \in Int
        /\ Level(t, n) = Level(t, h - 1)
    BY <1>6, <1>7
  <2> HIDE DEF s, then, h
  <2> DEFINE found == <<h, n>>
  <2>1. found \in Arrays(t)
    BY <2>0 DEF Arrays
  <2>2. found \in Top(t)
    BY <2>0, <2>1 DEF Top
  <2>3. ClosedBefore(t, n + 1)
    <3> SUFFICES ASSUME NEW k \in Places(t, "["), k < n + 1
                 PROVE  \E a \in Arrays(t) : a[1] = k /\ a[2] < n + 1
      BY DEF ClosedBefore
    <3>1. k < n /\ k \in 1 .. Len(t)
      BY <1>2, <1>4, PlacesApart
    <3>2. CASE k < h
      <4>1. PICK a \in Arrays(t) : a[1] = k /\ a[2] < h
        BY <2>0, <3>2 DEF ClosedBefore
      <4>2. a[2] < n + 1
        BY <4>1, <2>0, <1>2, ArrayFacts
      <4> QED BY <4>1, <4>2
    <3>3. CASE k = h
      <4>1. found[1] = k /\ found[2] < n + 1
        BY <3>3, <1>2
      <4> QED BY <4>1, <2>1
    <3>4. CASE k > h
      <4>1. k - 1 \in h .. n - 1 /\ k - 1 \in 0 .. Len(t)
        BY <2>0, <3>1, <3>4, <1>2
      <4>2. Level(t, n) <= Level(t, k - 1)
        BY <4>1, <2>0, LevelSteps
      <4>3. PICK a \in Arrays(t) : a[1] = k /\ a[2] <= n
        BY <4>2, <3>1, ArrayFrom
      <4>4. a[2] < n + 1
        BY <4>3, <1>2, ArrayFacts
      <4> QED BY <4>3, <4>4
    <3> QED BY <3>1, <3>2, <3>3, <3>4, <2>0
  <2>4. then.depth = 0 /\ then.lastClosed = found
    BY <1>1, <1>7
  <2>5. OpenAt(t, n)
    BY <2>3, <2>4 DEF OpenAt, then
  <2>6. ASSUME NEW r \in Top(t), r[2] <= n
        PROVE  r[1] <= h
    <3>1. r[1] \in 1 .. Len(t) /\ r[1] < n /\ r[1] <= n - 1 + 1
      BY <1>2, <1>4, <2>6, ArrayFacts
    <3>2. ~ (h < r[1])
      BY <1>2, <2>0, <3>1, NotInside
    <3> QED BY <2>0, <3>1, <3>2
  <2>7. found # <<>> /\ found[1] = h
    OBVIOUS
  <2> HIDE DEF found
  <2>8. LastAt(t, n)
    BY <2>2, <2>4, <2>6, <2>7 DEF LastAt, then
  <2> QED BY <2>5, <2>8
<1>8. CASE s.depth > 1
  <2>0. /\ h \in Places(t, "[") /\ h < n /\ h \in Nat
        /\ \A k \in h .. n - 1 : Level(t, k) > Level(t, h - 1)
        /\ ClosedBefore(t, h) /\ Level(t, h - 1) \in Int
        /\ Level(t, n) = Level(t, h - 1) + (s.depth - 1)
    BY <1>2, <1>6, <1>8
  <2>1. then.depth = s.depth - 1 /\ then.start = h /\ then.depth # 0
    BY <1>1, <1>2, <1>8
  <2>2. ASSUME NEW k \in h .. n
        PROVE  Level(t, k) > Level(t, h - 1)
    <3> HIDE DEF s, then, h
    <3>1. CASE k = n
      BY <3>1, <2>0, <1>2, <1>8
    <3>2. CASE k # n
      BY <3>2, <2>0, <1>2
    <3> QED BY <3>1, <3>2
  <2>3. OpenAt(t, n)
    <3> HIDE DEF s, then, h
    <3>1. h <= n
      BY <2>0
    <3> QED BY <2>0, <2>1, <2>2, <3>1 DEF OpenAt, then
  <2>4. ASSUME NEW r \in Top(t)
        PROVE  r[2] # n
    <3> SUFFICES ASSUME r[2] = n PROVE FALSE
      OBVIOUS
    <3> HIDE DEF s, then, h
    <3>1. r[1] = h
      BY <2>0, OpenOnesEnd
    <3>2. Level(t, n) = Level(t, h - 1)
      BY <3>1, <1>4, ArrayFacts
    <3> QED BY <3>2, <2>0, <1>2, <1>8
  <2>5. LastAt(t, n)
    BY <1>1, <1>2, <1>4, <1>8, <2>4 DEF LastAt
  <2> QED BY <2>3, <2>5
<1> QED BY <1>2, <1>5, <1>7, <1>8

LEMMA ScanInvariant ==
  ASSUME NEW t \in Seq(Symbol)
  PROVE  \A n \in 0 .. Len(t) : OpenAt(t, n) /\ LastAt(t, n)
<1> DEFINE S == {n \in 0 .. Len(t) : OpenAt(t, n) /\ LastAt(t, n)}
<1>1. Len(t) \in Nat
  BY PlacesApart
<1>2. 0 \in S
  <2>1. Scan(t)[0].depth = 0 /\ Scan(t)[0].lastClosed = <<>>
    BY ScanSteps DEF ScanStart
  <2>2. ClosedBefore(t, 0 + 1)
    BY PlacesApart DEF ClosedBefore
  <2>3. \A r \in Top(t) : r[2] > 0
    BY ArrayFacts DEF Top
  <2> QED BY <1>1, <2>1, <2>2, <2>3 DEF OpenAt, LastAt
<1>3. ASSUME NEW n \in 1 .. Len(t), n - 1 \in S
      PROVE  n \in S
  <2>1. OpenAt(t, n) /\ LastAt(t, n)
    BY <1>3, ScanOpens, ScanCloses, ScanPasses
  <2> QED BY <1>1, <2>1
<1>4. \A n \in 0 .. Len(t) : n \in S
  <2> HIDE DEF S
  <2> QED BY <1>1, <1>2, <1>3, UpTo
<1> QED BY <1>4

LEMMA LastTopLevelArray ==
  ASSUME NEW t \in Seq(Symbol)
  PROVE  LET arrays == TopLevelArrays(t)
             found  == FindLastBalancedJsonArray(t)
         IN  IF arrays = {} THEN found = <<>>
             ELSE found \in arrays /\ \A r \in arrays : r[1] <= found[1]
<1> DEFINE found == FindLastBalancedJsonArray(t)
<1>1. Len(t) \in Nat /\ Len(t) \in 0 .. Len(t)
  BY PlacesApart
<1>2. LastAt(t, Len(t))
  BY <1>1, ScanInvariant
<1>3. TopLevelArrays(t) = Top(t)
  BY ExcessIsLevel DEF Top
<1>4. found = Scan(t)[Len(t)].lastClosed
  BY DEF FindLastBalancedJsonArray
<1>5. \A r \in Top(t) : r[2] <= Len(t) /\ ~ (r[2] > Len(t))
  BY <1>1, ArrayFacts DEF Top
<1> HIDE DEF found
<1>6. IF found = <<>> THEN \A r \in Top(t) : r[2] > Len(t)
      ELSE found \in Top(t) /\ \A r \in Top(t) : r[2] <= Len(t) => r[1] <= found[1]
  BY <1>2, <1>4 DEF LastAt
<1>7. ASSUME Top(t) # {}
      PROVE  found # <<>>
  BY <1>5, <1>6, <1>7
<1>8. IF Top(t) = {} THEN found = <<>>
      ELSE found \in Top(t) /\ \A r \in Top(t) : r[1] <= found[1]
  BY <1>5, <1>6, <1>7
<1> QED BY <1>3, <1>8 DEF found

LEMMA FoundInText ==
  ASSUME NEW t \in Seq(Symbol), FindLastBalancedJsonArray(t) # <<>>
  PROVE  /\ FindLastBalancedJsonArray(t)[1] \in 1 .. Len(t)
         /\ FindLastBalancedJsonArray(t)[2] \in 1 .. Len(t)
<1>1. FindLastBalancedJsonArray(t) \in TopLevelArrays(t)
  BY LastTopLevelArray
<1> QED BY <1>1, ExcessIsLevel, ArrayFacts

-----------------------------------------------------------------------------
(* Types of what the extraction computes. *)

LEMMA ReadValueType ==
  ASSUME NEW t \in Seq(Symbol)
  PROVE  ReadValue(t).list \in Seq(Seq(Symbol))
<1>1. Len(t) \in 0 .. Len(t)
  BY LenProperties
<1>2. ReadValue(t) \in ReadState
  BY <1>1, ReadingSteps DEF ReadValue
<1> QED BY <1>2 DEF ReadState

LEMMA CleanedType ==
  ASSUME NEW t \in Seq(Symbol)
  PROVE  RemoveMarkdownCodeBlocks(t) \in Seq(Symbol)
<1> DEFINE opened == IF t # <<>> /\ Head(t) = FenceJson THEN Unfenced(t)[Len(t)] ELSE t
<1>1. Len(t) \in 0 .. Len(t)
  BY LenProperties
<1>2. opened \in Seq(Symbol)
  BY <1>1, UnfencedSteps
<1>3. RemoveMarkdownCodeBlocks(t) =
        IF opened # <<>> /\ Last(opened) = Fence THEN Front(opened) ELSE opened
  BY DEF RemoveMarkdownCodeBlocks
<1> HIDE DEF opened
<1>4. Len(opened) - 1 \in Int /\ \A k \in 1 .. Len(opened) - 1 : opened[k] \in Symbol
  BY <1>2, LenProperties, ElementOfSeq
<1>5. SubSeq(opened, 1, Len(opened) - 1) \in Seq(Symbol)
  BY <1>4, SubSeqProperties
<1> QED BY <1>2, <1>3, <1>5 DEF Front

LEMMA FactsType ==
  ASSUME NEW t \in Seq(Symbol)
  PROVE  ExtractFactsFromJson(t) \in Seq(Seq(Symbol))
<1> DEFINE c == RemoveMarkdownCodeBlocks(t)
           range == FindLastBalancedJsonArray(c)
<1>1. c \in Seq(Symbol)
  BY CleanedType
<1>2. ExtractFactsFromJson(t) = IF Readable(c) THEN ReadValue(c).list ELSE EmbeddedFacts(c)
  BY DEF ExtractFactsFromJson
<1>3. EmbeddedFacts(c) =
        IF range # <<>> /\ Readable(Cut(c, range)) THEN ReadValue(Cut(c, range)).list ELSE <<>>
  BY DEF EmbeddedFacts
<1> HIDE DEF c
<1>4. ASSUME range # <<>>
      PROVE  Cut(c, range) \in Seq(Symbol)
  <2>1. range[1] \in 1 .. Len(c) /\ range[2] \in 1 .. Len(c) /\ Len(c) \in Nat
    BY <1>1, <1>4, FoundInText, LenProperties
  <2>2. \A k \in range[1] .. range[2] : c[k] \in Symbol
    BY <1>1, <2>1, ElementOfSeq
  <2> QED BY <2>1, <2>2, SubSeqProperties DEF Cut
<1> HIDE DEF range
<1>5. <<>> \in Seq(Seq(Symbol))
  BY EmptySeq
<1> QED BY <1>1, <1>2, <1>3, <1>4, <1>5, ReadValueType

LEMMA GreatestOf ==
  ASSUME NEW N \in Nat, NEW S, S \subseteq 1 .. N, S # {}
  PROVE  Max(S) \in S /\ \A y \in S : Max(S) >= y
<1> DEFINE D == {d \in 0 .. N : N - d \in S}
<1>1. D \subseteq Nat /\ D # {}
  <2>1. PICK x : x \in S
    OBVIOUS
  <2>2. N - x \in D
    BY <2>1
  <2> QED BY <2>2
<1>2. PICK d \in D : \A e \in D : d <= e
  <2> HIDE DEF D
  <2> QED BY <1>1, LeastOf
<1>3. N - d \in S /\ \A y \in S : N - d >= y
  <2>1. ASSUME NEW y \in S
        PROVE  N - d >= y
    <3>1. N - y \in D
      OBVIOUS
    <3>2. d <= N - y
      BY <1>2, <3>1
    <3> QED BY <3>2
  <2> QED BY <2>1
<1>4. \E x \in S : \A y \in S : x >= y
  BY <1>3
<1> QED BY <1>4 DEF Max

LEMMA SaidType ==
  ASSUME NEW texts \in Seq(Seq(Symbol))
  PROVE  ResolveContent(texts) \in Seq(Symbol)
<1> DEFINE said == {i \in DOMAIN texts : texts[i] # <<>>}
<1>1. Len(texts) \in Nat /\ said \subseteq 1 .. Len(texts)
  BY LenProperties
<1>2. ResolveContent(texts) = IF said = {} THEN <<>> ELSE texts[Max(said)]
  BY DEF ResolveContent
<1> HIDE DEF said
<1>3. CASE said = {}
  BY <1>2, <1>3, EmptySeq
<1>4. CASE said # {}
  <2>1. Max(said) \in 1 .. Len(texts)
    BY <1>1, <1>4, GreatestOf
  <2> QED BY <1>2, <1>4, <2>1, ElementOfSeq
<1> QED BY <1>3, <1>4

-----------------------------------------------------------------------------
(* The thread that extracts.                                               *)

ExtractionInv ==
  /\ ExtractionTypeOK
  /\ ok \in Nat /\ failed \in Nat
  /\ pc \in {"insert", "done"} => facts = ExtractFactsFromJson(Said)
  /\ pc = "done" => next = Len(facts) + 1
  /\ enabled => Cardinality(stored) = ok

LEMMA ExtractionStarts == ExtractionInit => ExtractionInv
<1> SUFFICES ASSUME ExtractionInit
             PROVE  ExtractionInv
  OBVIOUS
<1>1. generations \in Seq(Seq(Symbol)) /\ facts \in Seq(Seq(Symbol)) /\ Len(facts) = 0
  BY ResponsesAssumption, EmptySeq DEF ExtractionInit
<1>2. Cardinality(stored) = 0
  BY FS_EmptySet DEF ExtractionInit
<1> QED BY <1>1, <1>2 DEF ExtractionInit, ExtractionInv, ExtractionTypeOK

LEMMA ExtractionSteps == ExtractionInv /\ [ExtractionNext]_extraction => ExtractionInv'
<1> SUFFICES ASSUME ExtractionInv, [ExtractionNext]_extraction
             PROVE  ExtractionInv'
  OBVIOUS
<1> USE DEF ExtractionInv, ExtractionTypeOK
<1>1. Len(facts) \in Nat /\ Said \in Seq(Symbol)
  BY LenProperties, SaidType DEF Said
<1>2. IsFiniteSet(stored)
  <2>1. IsFiniteSet(1 .. next - 1)
    BY <1>1, FS_Interval
  <2> QED BY <2>1, FS_Subset
<1>3. CASE ModelAnswers
  <2>1. facts = <<>> /\ Len(facts) = 0 /\ next = 1
    BY <1>1, <1>3, EmptySeq DEF ModelAnswers
  <2>2. facts' = ExtractFactsFromJson(Said) /\ Said' = Said
    BY <1>3 DEF ModelAnswers, Said
  <2>3. facts' \in Seq(Seq(Symbol)) /\ Len(facts') \in Nat
    BY <1>1, <2>2, FactsType, LenProperties
  <2> QED BY <1>3, <2>1, <2>2, <2>3 DEF ModelAnswers
<1>4. CASE CacheRefused
  BY <1>4 DEF CacheRefused
<1>5. CASE CallFails
  BY <1>5 DEF CallFails
<1>6. CASE InsertMemory
  <2>1. Said' = Said /\ facts' = facts /\ pc' = pc /\ enabled' = enabled
    BY <1>6 DEF InsertMemory, Said
  <2>2. /\ next' = next + 1 /\ next' \in 1 .. Len(facts) + 1
        /\ ok' = ok + 1 /\ failed' = failed
    BY <1>1, <1>6 DEF InsertMemory
  <2>3. stored' \subseteq 1 .. next' - 1 /\ (enabled => stored' = stored \union {next})
    BY <1>1, <1>6 DEF InsertMemory
  <2>4. next \notin stored
    BY <1>1
  <2>5. enabled' => Cardinality(stored') = ok'
    <3>1. Cardinality(stored \union {next}) = Cardinality(stored) + 1
      BY <1>2, <2>4, FS_AddElement
    <3> QED BY <2>1, <2>2, <2>3, <3>1
  <2>6. ok' \in Nat /\ failed' \in Nat /\ ok' + failed' = next' - 1
    BY <2>2, <1>1
  <2>7. pc = "insert" /\ UNCHANGED <<cacheAware, generations>>
    BY <1>6 DEF InsertMemory
  <2> QED BY <2>1, <2>2, <2>3, <2>5, <2>6, <2>7
<1>7. CASE InsertFails
  <2>1. Said' = Said /\ facts' = facts /\ enabled' = enabled /\ stored' = stored
    BY <1>7 DEF InsertFails, InsertRaises, Said
  <2>2. /\ next' = next + 1 /\ next' \in 1 .. Len(facts) + 1
        /\ ok' = ok /\ failed' = failed + 1
    BY <1>1, <1>7 DEF InsertFails, InsertRaises
  <2>3. stored' \subseteq 1 .. next' - 1
    BY <1>1, <2>1, <2>2
  <2>4. ok' \in Nat /\ failed' \in Nat /\ ok' + failed' = next' - 1
    BY <2>2, <1>1
  <2>5. pc = "insert" /\ pc' = "insert" /\ UNCHANGED <<cacheAware, generations>>
    BY <1>7 DEF InsertFails, InsertRaises
  <2> QED BY <2>1, <2>2, <2>3, <2>4, <2>5
<1>8. CASE Tally
  BY <1>1, <1>8 DEF Tally, Said
<1>9. CASE UNCHANGED extraction
  BY <1>9 DEF extraction, Said
<1> QED BY <1>3, <1>4, <1>5, <1>6, <1>7, <1>8, <1>9 DEF ExtractionNext

(* An extraction's facts are texts, its place among them and its tally     *)
(* agree, and nothing is stored that was not gone through, whatever the    *)
(* model answers (insertFactsWithTally).                                   *)
THEOREM ExtractionTypes == ExtractionSpec => []ExtractionTypeOK
<1>1. ExtractionInv => ExtractionTypeOK
  BY DEF ExtractionInv
<1> QED BY <1>1, ExtractionStarts, ExtractionSteps, PTL DEF ExtractionSpec

(* The one pass over the characters of any text returns the last of the    *)
(* outermost arrays (findLastBalancedJsonArray).                           *)
THEOREM ExtractionFinds == ExtractionSpec => []ScanFindsLastTopLevelArray
<1>1. ExtractionInv => ScanFindsLastTopLevelArray
  <2> SUFFICES ASSUME ExtractionInv
               PROVE  ScanFindsLastTopLevelArray
    OBVIOUS
  <2>1. Cleaned \in Seq(Symbol)
    BY SaidType, CleanedType DEF Cleaned, Said, ExtractionInv, ExtractionTypeOK
  <2> QED BY <2>1, LastTopLevelArray DEF ScanFindsLastTopLevelArray
<1> QED BY <1>1, ExtractionStarts, ExtractionSteps, PTL DEF ExtractionSpec

(* An answer that holds one array among words is remembered whole: each of *)
(* its facts was sent, and only those AscendMemory refused are missing.    *)
THEOREM ExtractionRemembers == ExtractionSpec => []AnswerIsRemembered
<1>1. ExtractionInv => AnswerIsRemembered
  <2> SUFFICES ASSUME ExtractionInv, pc = "done",
                      NEW i \in DOMAIN Said, NEW j \in DOMAIN Said,
                      ArrayInProse(Said, i, j)
               PROVE  /\ facts = ReadValue(SubSeq(Said, i, j)).list
                      /\ ok + failed = Len(facts)
                      /\ enabled => Cardinality(stored) = Len(facts) - failed
    BY DEF AnswerIsRemembered
  <2>1. Said \in Seq(Symbol)
    BY SaidType DEF Said, ExtractionInv, ExtractionTypeOK
  <2>2. facts = ReadValue(SubSeq(Said, i, j)).list
    BY <2>1, FactsOfAnswer DEF ExtractionInv
  <2>3. Len(facts) \in Nat /\ ok + failed = Len(facts)
    BY LenProperties DEF ExtractionInv, ExtractionTypeOK
  <2>4. enabled => Cardinality(stored) = Len(facts) - failed
    BY <2>3 DEF ExtractionInv
  <2> QED BY <2>2, <2>3, <2>4
<1> QED BY <1>1, ExtractionStarts, ExtractionSteps, PTL DEF ExtractionSpec
=============================================================================
