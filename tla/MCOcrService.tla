---------------------------- MODULE MCOcrService ----------------------------
(* Values for TLC: three requests that between them go every way a request *)
(* can go and ask for three languages.                                     *)
EXTENDS OcrService

CONSTANTS r1, r2, r3

Rest(content, lang) ==
  [surface |-> "rest", source |-> "upload", content |-> content, lang |-> lang]
Mcp(source, content, lang) ==
  [surface |-> "mcp", source |-> source, content |-> content, lang |-> lang]

MCRequests == {r1, r2, r3}
MCInputs ==
  (r1 :> {Rest("good", "en"), Mcp("public", "good", "pl"), Mcp("bad_uri", "good", "en")})
  @@ (r2 :> {Rest("good", "pl"), Mcp("allowed", "too_large", "en"),
             Mcp("jailed", "unknown_type", "en"), Mcp("missing", "good", "en")})
  @@ (r3 :> {Rest("unreadable", "pl"), Rest("good", "de"), Mcp("private", "good", "en"),
             Mcp("jailed", "good", "unsupported")})
=============================================================================
