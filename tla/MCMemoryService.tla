--------------------------- MODULE MCMemoryService ---------------------------
(* Values for TLC: two providers that share a collection and one without a *)
(* key, and three calls that between them go every way a call can go.      *)
EXTENDS MemoryService, TLC

CONSTANTS c1, c2, c3, u, v

Ask(surface, op, user, provider) ==
  [surface |-> surface, op |-> op, body |-> "fine", user |-> user,
   provider |-> provider, target |-> c1, byAgent |-> FALSE]

MCCalls == {c1, c2, c3}
MCUsers == {u, v}
MCProviders == {"lmstudio", "gemini", "openai"}
MCCollection ==
  [p \in MCProviders |-> IF p = "openai" THEN "ascend_memory_1536" ELSE "ascend_memory_768"]

Insert(surface, user, provider) == Ask(surface, "insert", user, provider)
Wipe(surface, user, provider) == Ask(surface, "wipe", user, provider)
AgentWipe(user) == [Wipe("rest", user, "lmstudio") EXCEPT !.byAgent = TRUE]
Empty(surface) == [Insert(surface, u, "lmstudio") EXCEPT !.body = "empty"]
Together(a, b, c) == c1 :> a @@ c2 :> b @@ c3 :> c

MCScenarios ==
  {Together(Insert("rest", v, "lmstudio"), Insert("mcp", u, Missing), Wipe("mcp", v, "gemini")),
   Together(Insert("mcp", Missing, "gemini"), Ask("rest", "delete", u, "gemini"),
            Wipe("rest", Missing, "lmstudio")),
   Together(Insert("rest", u, "openai"), Insert("mcp", v, "lmstudio"), AgentWipe(v)),
   Together(Empty("rest"), Ask("mcp", "search", u, "gemini"), Ask("mcp", "search", u, "unknown"))}
=============================================================================
