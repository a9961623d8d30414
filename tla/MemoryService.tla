---------------------------- MODULE MemoryService ----------------------------
(***************************************************************************)
(* AscendMemory: the registry of one mem0 client per embedding provider,   *)
(* the REST endpoints and MCP tools that use it, its warmup and its        *)
(* readiness probe, over the collections of Qdrant.                        *)
(*                                                                         *)
(* Endpoints, warmup and probe run on the event loop and look up, lock and *)
(* build a client there, blocking it; MCP tools do so on threads of their  *)
(* own.  What a client then does is a call to Qdrant from a thread, except *)
(* for the warmup's search, which blocks the loop as well.                 *)
(***************************************************************************)
EXTENDS Naturals, FiniteSets

CONSTANTS
  Calls,           \* every call ever made
  Scenarios,       \* what the calls may ask between them
  Users, DefaultUser,
  Providers,       \* the keys of PROVIDER_CONFIGS
  DefaultProvider, \* MEM0_DEFAULT_PROVIDER
  Collection,      \* the collection of each provider
  WithKey,         \* the providers whose API key is configured
  Warmup, Probe,   \* the warmup task and a call of /ready
  Nobody,          \* the lock or the loop when it is free
  Missing,         \* a parameter that the caller left out
  MaxAttempts,     \* WARMUP_MAX_ATTEMPTS
  MaxOutages       \* bound: times that Qdrant goes away

Input ==
  [surface : {"rest", "mcp"},
   op : {"search", "insert", "delete", "wipe"},
   body : {"fine", "empty", "absent"},   \* text, query or id
   user : Users \cup {Missing},
   provider : Providers \cup {Missing, "unknown"},
   target : Calls,                       \* delete: whose memory
   byAgent : BOOLEAN]                    \* sent by SemanticMemoryClient

ASSUME InputsAssumption == Scenarios \subseteq [Calls -> Input]
ASSUME ProvidersAssumption ==
  /\ DefaultProvider \in Providers /\ WithKey \subseteq Providers
  /\ DOMAIN Collection = Providers
ASSUME ActorsAssumption ==
  /\ DefaultUser \in Users /\ Missing \notin Users \cup Providers
  /\ Warmup # Probe /\ {Warmup, Probe, Nobody} \cap Calls = {}
  /\ Nobody \notin {Warmup, Probe}
ASSUME BoundsAssumption == MaxAttempts \in Nat \ {0} /\ MaxOutages \in Nat

Actors == Calls \cup {Warmup, Probe}

VARIABLES
  input,     \* what each call asks
  at,        \* where each actor is
  answer,    \* what it was answered
  loop,      \* who blocks the event loop
  lock,      \* who holds _client_lock
  registry,  \* _client_instances: the providers that have a client
  builds,    \* history: the clients built for each provider
  memories,  \* what the collections hold
  pending,   \* wipe: the memories listed and not deleted yet
  owed,      \* history: what a wipe found of its user when it was called
  isReady,   \* main.is_ready
  attempts,  \* failed attempts of the warmup
  up,        \* Qdrant answers
  outages,
  keyWorks   \* the upstream accepts the default provider's key

clientVars == <<loop, lock, registry, builds>>
storeVars == <<memories, pending, owed>>
warmVars == <<isReady, attempts>>
worldVars == <<up, outages, keyWorks>>
vars == <<input, at, answer, clientVars, storeVars, warmVars, worldVars>>
-----------------------------------------------------------------------------
Place == {"new", "lock", "build", "have", "delete", "embedding", "client",
          "sleep", "ended"}
Answer == {"none", "ok", "400", "500", "503", "validation_error", "internal_error"}
Memory == [id : Calls, user : Users, collection : {Collection[p] : p \in Providers}]

TypeOK ==
  /\ input \in [Calls -> Input]
  /\ at \in [Actors -> Place]
  /\ answer \in [Actors -> Answer]
  /\ loop \in Actors \cup {Nobody} /\ lock \in Actors \cup {Nobody}
  /\ registry \subseteq Providers
  /\ builds \in [Providers -> Nat]
  /\ memories \subseteq Memory
  /\ pending \in [Calls -> SUBSET Memory] /\ owed \in [Calls -> SUBSET Memory]
  /\ isReady \in BOOLEAN /\ up \in BOOLEAN /\ keyWorks \in BOOLEAN
  /\ attempts \in 0..MaxAttempts /\ outages \in 0..MaxOutages

Init ==
  /\ input \in Scenarios
  /\ at = [a \in Actors |-> "new"]
  /\ answer = [a \in Actors |-> "none"]
  /\ loop = Nobody /\ lock = Nobody
  /\ registry = {} /\ builds = [p \in Providers |-> 0]
  /\ memories = {}
  /\ pending = [c \in Calls |-> {}] /\ owed = [c \in Calls |-> {}]
  /\ isReady = FALSE /\ attempts = 0
  /\ up = TRUE /\ outages = 0 /\ keyWorks = TRUE
-----------------------------------------------------------------------------
Goto(a, p) == at' = [at EXCEPT ![a] = p]

\* The thread of an MCP tool is its own; everybody else is on the loop.
OnLoop(a) == a \in {Warmup, Probe} \/ input[a].surface = "rest"
LoopFor(a) == IF OnLoop(a) THEN a ELSE loop
LoopAfter(a) == IF loop = a THEN Nobody ELSE loop

\* The agent sends the user and the provider of a wipe in a body that the
\* endpoint does not read.
Unread(c) == input[c].byAgent /\ input[c].op = "wipe"

\* A user or a provider left out is the default one.
AskedUser(c) == IF input[c].user = Missing THEN DefaultUser ELSE input[c].user
AskedProvider(c) == IF input[c].provider = Missing THEN DefaultProvider ELSE input[c].provider

EffectiveUser(c) == IF Unread(c) THEN DefaultUser ELSE AskedUser(c)
ResolveProvider(a) ==
  IF a \in Calls /\ ~ Unread(a) THEN AskedProvider(a) ELSE DefaultProvider

CollectionOf(c) ==
  IF ResolveProvider(c) \in Providers THEN Collection[ResolveProvider(c)] ELSE Missing

\* Value errors are the caller's, the others are not.
ErrorOf(c, e) ==
  CASE input[c].surface = "rest" /\ e = "ValueError" -> "400"
    [] input[c].surface = "rest" /\ e # "ValueError" -> "500"
    [] input[c].surface = "mcp" /\ e = "ValueError" -> "validation_error"
    [] OTHER -> "internal_error"

End(a, e) == Goto(a, "ended") /\ answer' = [answer EXCEPT ![a] = e]

\* An attempt of the warmup is over.
AttemptFails ==
  /\ attempts' = attempts + 1
  /\ Goto(Warmup, IF attempts' >= MaxAttempts THEN "ended" ELSE "sleep")
  /\ UNCHANGED <<answer, isReady>>

\* A caller is told that there is no client.
Raise(a, e) ==
  CASE a \in Calls -> End(a, ErrorOf(a, e)) /\ UNCHANGED warmVars
    [] a = Probe -> End(Probe, "503") /\ UNCHANGED warmVars
    [] OTHER -> AttemptFails

\* A caller has its client.  The probe wants no more; the warmup searches
\* before it lets go of the loop.
Have(a) ==
  /\ IF a = Probe
       THEN End(a, IF answer[a] = "none" THEN "ok" ELSE answer[a])
       ELSE Goto(a, "have") /\ UNCHANGED answer
  /\ loop' = IF a = Warmup THEN Warmup ELSE LoopAfter(a)

\* get_memory_client without the lock.
GetMemoryClient(a) ==
  /\ \/ ResolveProvider(a) \in registry /\ Have(a)
     \/ /\ ResolveProvider(a) \notin registry
        /\ Goto(a, "lock") /\ loop' = LoopFor(a)
        /\ UNCHANGED answer
  /\ UNCHANGED <<lock, registry, builds>>
-----------------------------------------------------------------------------
\* What an endpoint or a tool refuses before it looks for a client.  An empty
\* text passes the endpoint and is refused by the client.
Refused(c) ==
  \/ ResolveProvider(c) = "unknown"
  \/ input[c].body = "absent" /\ input[c].op # "wipe"
  \/ input[c].body = "empty" /\ input[c].op # "wipe"
       /\ ~ (input[c].surface = "rest" /\ input[c].op = "insert")

OwnedIn(c, user) ==
  {m \in memories : m.user = user /\ m.collection = CollectionOf(c)}

\* What the caller of a wipe means.
Owed(c) ==
  {m \in memories : /\ m.user = AskedUser(c)
                    /\ AskedProvider(c) \in Providers
                    /\ m.collection = Collection[AskedProvider(c)]}

Receive(c) ==
  /\ at[c] = "new" /\ loop = Nobody
  /\ \/ /\ Refused(c) /\ End(c, ErrorOf(c, "ValueError"))
        /\ UNCHANGED <<clientVars, owed>>
     \/ /\ ~ Refused(c) /\ GetMemoryClient(c)
        /\ owed' = [owed EXCEPT ![c] = IF input[c].op = "wipe" THEN Owed(c) ELSE {}]
  /\ UNCHANGED <<input, memories, pending, warmVars, worldVars>>

\* Mutant: no second look under the lock.
LockUnseen(a) ==
  /\ at[a] = "lock" /\ lock = Nobody
  /\ Goto(a, "build") /\ lock' = a
  /\ UNCHANGED <<input, answer, loop, registry, builds, storeVars, warmVars, worldVars>>

\* Under the lock: the client is there after all, or it is built.
Lock(a) ==
  /\ at[a] = "lock" /\ lock = Nobody
  /\ \/ ResolveProvider(a) \in registry /\ Have(a) /\ UNCHANGED lock
     \/ /\ ResolveProvider(a) \notin registry
        /\ Goto(a, "build") /\ lock' = a
        /\ UNCHANGED <<answer, loop>>
  /\ UNCHANGED <<input, registry, builds, storeVars, warmVars, worldVars>>

\* Mutant: whoever fails to build a client keeps the lock.
BuildKeepsLock(a) ==
  LET p == ResolveProvider(a)
      built == p \in WithKey /\ up
  IN
  /\ at[a] = "build"
  /\ IF built
       THEN /\ lock' = Nobody /\ registry' = registry \cup {p}
            /\ builds' = [builds EXCEPT ![p] = @ + 1]
            /\ Have(a) /\ UNCHANGED warmVars
       ELSE /\ Raise(a, "ValueError") /\ loop' = LoopAfter(a)
            /\ UNCHANGED <<lock, registry, builds>>
  /\ UNCHANGED <<input, storeVars, worldVars>>

\* AscendMemoryClient(provider): the key has to be there, the collection is
\* looked up or made in Qdrant.
Build(a) ==
  LET p == ResolveProvider(a) IN
  /\ at[a] = "build"
  /\ lock' = Nobody
  /\ \/ /\ p \in WithKey /\ up
        /\ registry' = registry \cup {p}
        /\ builds' = [builds EXCEPT ![p] = @ + 1]
        /\ Have(a) /\ UNCHANGED warmVars
     \/ /\ p \notin WithKey /\ Raise(a, "ValueError")
        /\ loop' = LoopAfter(a) /\ UNCHANGED <<registry, builds>>
     \/ /\ p \in WithKey /\ ~ up /\ Raise(a, "Unreachable")
        /\ loop' = LoopAfter(a) /\ UNCHANGED <<registry, builds>>
  /\ UNCHANGED <<input, storeVars, worldVars>>
-----------------------------------------------------------------------------
(* What a call does with its client, in a thread.                           *)

Embeds(c) == up /\ (keyWorks \/ ResolveProvider(c) # DefaultProvider)

Search(c) ==
  /\ at[c] = "have" /\ input[c].op = "search"
  /\ End(c, IF Embeds(c) THEN "ok" ELSE ErrorOf(c, "Unreachable"))
  /\ UNCHANGED <<input, clientVars, storeVars, warmVars, worldVars>>

Add(c) ==
  /\ at[c] = "have" /\ input[c].op = "insert"
  /\ \/ /\ input[c].body = "empty" /\ End(c, ErrorOf(c, "ValueError"))
        /\ UNCHANGED memories
     \/ /\ input[c].body = "fine" /\ ~ Embeds(c)
        /\ End(c, ErrorOf(c, "Unreachable")) /\ UNCHANGED memories
     \/ /\ input[c].body = "fine" /\ Embeds(c) /\ End(c, "ok")
        /\ memories' = memories \cup
             {[id |-> c, user |-> EffectiveUser(c),
               collection |-> CollectionOf(c)]}
  /\ UNCHANGED <<input, clientVars, pending, owed, warmVars, worldVars>>

\* One memory, looked up by id in the provider's collection.
Delete(c) ==
  LET found == {m \in memories : /\ m.id = input[c].target
                                 /\ m.collection = CollectionOf(c)} IN
  /\ at[c] = "have" /\ input[c].op = "delete"
  /\ IF up /\ found # {}
       THEN memories' = memories \ found /\ End(c, "ok")
       ELSE End(c, ErrorOf(c, "NotFound")) /\ UNCHANGED memories
  /\ UNCHANGED <<input, clientVars, pending, owed, warmVars, worldVars>>

\* Mutant: the wipe does not ask whose the memories are.
ListAnybodys(c) ==
  /\ at[c] = "have" /\ input[c].op = "wipe" /\ up
  /\ pending' = [pending EXCEPT ![c] =
                   {m \in memories : m.collection = CollectionOf(c)}]
  /\ Goto(c, "delete")
  /\ UNCHANGED <<input, answer, clientVars, memories, owed, warmVars, worldVars>>

\* delete_all: the user's memories in the collection are listed ...
ListMemories(c) ==
  /\ at[c] = "have" /\ input[c].op = "wipe"
  /\ IF up
       THEN pending' = [pending EXCEPT ![c] = OwnedIn(c, EffectiveUser(c))] /\ Goto(c, "delete")
              /\ UNCHANGED answer
       ELSE End(c, ErrorOf(c, "Unreachable")) /\ UNCHANGED pending
  /\ UNCHANGED <<input, clientVars, memories, owed, warmVars, worldVars>>

\* ... and deleted one by one; one that is gone already raises.
DeleteNext(c) ==
  /\ at[c] = "delete"
  /\ \/ pending[c] = {} /\ End(c, "ok") /\ UNCHANGED <<memories, pending>>
     \/ \E m \in pending[c] :
          /\ m \in memories /\ up
          /\ memories' = memories \ {m}
          /\ pending' = [pending EXCEPT ![c] = @ \ {m}]
          /\ UNCHANGED <<at, answer>>
     \/ /\ pending[c] # {} /\ (~ up \/ ~ pending[c] \subseteq memories)
        /\ End(c, ErrorOf(c, "NotFound")) /\ UNCHANGED <<memories, pending>>
  /\ UNCHANGED <<input, clientVars, owed, warmVars, worldVars>>
-----------------------------------------------------------------------------
\* warmup_client: the first attempt, and the one after each sleep.
WarmupClient ==
  /\ at[Warmup] \in {"new", "sleep"} /\ loop = Nobody
  /\ GetMemoryClient(Warmup)
  /\ UNCHANGED <<input, storeVars, warmVars, worldVars>>

\* The search on the loop, which the result sets free.
WarmupSearch ==
  /\ at[Warmup] = "have"
  /\ loop' = Nobody
  /\ \/ /\ up /\ keyWorks /\ isReady' = TRUE
        /\ End(Warmup, "ok") /\ UNCHANGED attempts
     \/ ~ (up /\ keyWorks) /\ AttemptFails
  /\ UNCHANGED <<input, lock, registry, builds, storeVars, worldVars>>

\* ready(): Qdrant first, then the provider's /models, which answers below 500
\* whatever the key is worth, then the client.
ProbeQdrant ==
  /\ at[Probe] = "new" /\ loop = Nobody
  /\ answer' = [answer EXCEPT ![Probe] = IF up THEN "none" ELSE "503"]
  /\ Goto(Probe, "embedding")
  /\ UNCHANGED <<input, clientVars, storeVars, warmVars, worldVars>>

ProbeEmbeddingApi ==
  /\ at[Probe] = "embedding" /\ loop = Nobody
  /\ \/ UNCHANGED answer
     \/ answer' = [answer EXCEPT ![Probe] = "503"]
  /\ Goto(Probe, "client")
  /\ UNCHANGED <<input, clientVars, storeVars, warmVars, worldVars>>

ProbeMem0Client ==
  /\ at[Probe] = "client" /\ loop = Nobody
  /\ GetMemoryClient(Probe)
  /\ UNCHANGED <<input, storeVars, warmVars, worldVars>>
-----------------------------------------------------------------------------
QdrantGoes ==
  /\ up /\ outages < MaxOutages
  /\ up' = FALSE /\ outages' = outages + 1
  /\ UNCHANGED <<input, at, answer, clientVars, storeVars, warmVars, keyWorks>>

QdrantComes ==
  /\ ~ up /\ up' = TRUE
  /\ UNCHANGED <<input, at, answer, clientVars, storeVars, warmVars, outages, keyWorks>>

\* The key configured for the default provider is revoked upstream.
KeyRevoked ==
  /\ keyWorks /\ keyWorks' = FALSE
  /\ UNCHANGED <<input, at, answer, clientVars, storeVars, warmVars, up, outages>>

ClientStep(a) == Lock(a) \/ Build(a)
CallStep(c) ==
  Receive(c) \/ Search(c) \/ Add(c) \/ Delete(c) \/ ListMemories(c) \/ DeleteNext(c)
WarmupStep == WarmupClient \/ WarmupSearch
ProbeStep == ProbeQdrant \/ ProbeEmbeddingApi \/ ProbeMem0Client

Next ==
  \/ \E a \in Actors : ClientStep(a)
  \/ \E c \in Calls : CallStep(c)
  \/ WarmupStep
  \/ ProbeStep
  \/ QdrantGoes \/ QdrantComes \/ KeyRevoked

Spec == Init /\ [][Next]_vars

\* Threads run, calls upstream end (answered or not), sleeps end, and the loop
\* and the lock take whoever has waited long enough.
FairSpec ==
  /\ Spec
  /\ \A a \in Actors : WF_vars(ClientStep(a))
  /\ \A c \in Calls : WF_vars(CallStep(c))
  /\ WF_vars(WarmupStep) /\ WF_vars(ProbeStep)
-----------------------------------------------------------------------------
\* However many first calls, warmup and probe race, from the loop and from
\* threads, no provider ever gets a second client (get_memory_client).
OneClientPerProvider ==
  \A p \in Providers : builds[p] = IF p \in registry THEN 1 ELSE 0

Answered(c) == at[c] = "ended" /\ answer[c] = "ok"
\* c asked, at some time, to remove a memory of that id, user and collection.
MayRemove(c, m) ==
  /\ at[c] # "new" /\ CollectionOf(c) = m.collection
  /\ \/ input[c].op = "wipe" /\ EffectiveUser(c) = m.user
     \/ input[c].op = "delete" /\ input[c].target = m.id

\* A memory whose insertion was acknowledged stays until a call that names it,
\* or its user, for its collection removes it; and a wipe that is answered has
\* removed everything its user had there when it was called, whatever was
\* inserted or deleted meanwhile (wipe_user, delete, add).
MemoriesAreKept ==
  /\ \A c \in Calls : input[c].op = "insert" /\ Answered(c) =>
       LET m == [id |-> c, user |-> EffectiveUser(c),
                 collection |-> CollectionOf(c)]
       IN  m \in memories \/ \E d \in Calls : MayRemove(d, m)
  /\ \A c \in Calls : input[c].op = "wipe" /\ ~ input[c].byAgent /\ Answered(c) =>
       owed[c] \cap memories = {}

\* Every call is answered and the warmup and the probe end, although they queue
\* for one lock, some of them holding the event loop, and although whoever
\* holds the lock may fail to build a client (get_memory_client, warmup_client).
EveryCallEnds ==
  \A a \in Actors : at[a] # "new" ~> at[a] = "ended"

\* _probe_mem0_client "surfaces missing-API-key failures live on every /ready
\* call so a key rotation breakage doesn't require a restart to detect": a
\* probe that begins after the key was revoked does not answer 200.
ReadyNoticesRevokedKey ==
  [](~ keyWorks /\ at[Probe] = "new" =>
       [](at[Probe] = "ended" => answer[Probe] = "503"))

\* SemanticMemoryClient.wipeUserMemory says its body matches the contract: when
\* a wipe that the agent asks for succeeds, what its user had in the provider's
\* collection when it was asked for is gone.
AgentWipeReachesUser ==
  \A c \in Calls : input[c].op = "wipe" /\ input[c].byAgent /\ Answered(c) =>
    owed[c] \cap memories = {}
=============================================================================
