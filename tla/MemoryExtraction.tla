--------------------------- MODULE MemoryExtraction ---------------------------
(***************************************************************************)
(* The extraction of semantic memories in AscendAgent                      *)
(* (SemanticMemoryExtractor.java, insertMemory of SemanticMemoryClient).   *)
(*                                                                         *)
(* A prompt starts a virtual thread that asks a model for the facts in it, *)
(* once more without the prompt cache when the provider refused the cache, *)
(* finds a JSON array in whatever the model said, and sends each fact to   *)
(* AscendMemory.  Whatever fails is logged and nobody is told, so what is  *)
(* not found or not sent is forgotten for good.                            *)
(*                                                                         *)
(* A text is a sequence of symbols: the ones the code looks for, and any   *)
(* others as words.  Blanks are left out, so trim() has nothing to do.     *)
(***************************************************************************)
EXTENDS Integers, Sequences, SequencesExt, FiniteSets

CONSTANTS
  Symbol,       \* what texts are made of
  Responses     \* what the model may answer: the texts of its generations

VARIABLES
  pc,            \* where the thread is
  cacheAware,    \* the provider's strategy knows errors of its cache
  enabled,       \* app.semantic-memory.enabled
  generations,   \* what the model answers if it does: the texts of its generations
  facts,         \* what was read from it
  next,          \* the fact to insert next
  ok, failed,    \* the tally
  stored         \* places of the facts AscendMemory took

extraction == <<pc, cacheAware, enabled, generations, facts, next, ok, failed, stored>>

Quote     == "\""
Escape    == "\\"
FenceJson == "fence:json"
Fence     == "fence"
Marks     == {"[", "]", Quote, Escape}

ASSUME ResponsesAssumption ==
  /\ Marks \union {",", FenceJson, Fence} \subseteq Symbol
  /\ Responses \subseteq Seq(Seq(Symbol))

-----------------------------------------------------------------------------
(* ObjectMapper.readValue(text, List<String>): an array of strings at the  *)
(* head of the text; what follows it is not looked at.                     *)

ReadToken(r, c) ==
  CASE r.at \in {"end", "error"}                        -> r
    [] r.at = "string" /\ c = Quote ->
         [at |-> "after", cur |-> <<>>, list |-> Append(r.list, r.cur)]
    [] r.at = "string" /\ c = Escape                    -> [r EXCEPT !.at = "escape"]
    [] r.at = "string" /\ c \notin {Quote, Escape}      -> [r EXCEPT !.cur = Append(@, c)]
    [] r.at = "escape" /\ c \in {Quote, Escape}         ->
         [r EXCEPT !.at = "string", !.cur = Append(@, c)]
    [] r.at = "start" /\ c = "["                        -> [r EXCEPT !.at = "first"]
    [] r.at \in {"first", "value"} /\ c = Quote         -> [r EXCEPT !.at = "string"]
    [] r.at = "after" /\ c = ","                        -> [r EXCEPT !.at = "value"]
    [] r.at \in {"first", "after"} /\ c = "]"           -> [r EXCEPT !.at = "end"]
    [] OTHER                                            -> [r EXCEPT !.at = "error"]

ReadStart == [at |-> "start", cur |-> <<>>, list |-> <<>>]

\* Where the reader is after so many symbols.
Reading(text) ==
  LET after[n \in 0 .. Len(text)] ==
        IF n = 0 THEN ReadStart ELSE ReadToken(after[n - 1], text[n])
  IN  after

ReadValue(text) == Reading(text)[Len(text)]

Readable(text) == ReadValue(text).at = "end"

-----------------------------------------------------------------------------
(* removeMarkdownCodeBlocks *)

\* What is left of the first n symbols without "```json".
Unfenced(text) ==
  LET left[n \in 0 .. Len(text)] ==
        IF n = 0 THEN <<>>
        ELSE left[n - 1] \o (IF text[n] = FenceJson THEN <<>> ELSE <<text[n]>>)
  IN  left

RemoveMarkdownCodeBlocks(text) ==
  LET opened == IF text # <<>> /\ Head(text) = FenceJson
                THEN Unfenced(text)[Len(text)]
                ELSE text
  IN  IF opened # <<>> /\ Last(opened) = Fence THEN Front(opened) ELSE opened

(* BracketScanState; a range is <<first, last>>, <<>> when there is none. *)

ScanStart == [depth |-> 0, start |-> 0, lastClosed |-> <<>>,
              inString |-> FALSE, escaped |-> FALSE]

Bracket(s, c, i) ==
  CASE c = "["                 -> [s EXCEPT !.depth = @ + 1,
                                            !.start = IF s.depth = 0 THEN i ELSE @]
    [] c = "]" /\ s.depth = 1  -> [s EXCEPT !.depth = 0, !.lastClosed = <<s.start, i>>]
    [] c = "]" /\ s.depth > 1  -> [s EXCEPT !.depth = @ - 1]
    [] OTHER                   -> s

(* Mutant: a backslash in the prose escapes nothing. *)
ConsumeEscapeInString(s, c, i) ==
  CASE s.escaped                   -> [s EXCEPT !.escaped = FALSE]
    [] ~s.escaped /\ c = Escape    -> [s EXCEPT !.escaped = s.inString]
    [] ~s.escaped /\ c = Quote     -> [s EXCEPT !.inString = ~@]
    [] OTHER                       -> IF s.inString THEN s ELSE Bracket(s, c, i)

Consume(s, c, i) ==
  CASE s.escaped                   -> [s EXCEPT !.escaped = FALSE]
    [] ~s.escaped /\ c = Escape    -> [s EXCEPT !.escaped = TRUE]
    [] ~s.escaped /\ c = Quote     -> [s EXCEPT !.inString = ~@]
    [] OTHER                       -> IF s.inString THEN s ELSE Bracket(s, c, i)

Scan(text) ==
  LET after[n \in 0 .. Len(text)] ==
        IF n = 0 THEN ScanStart ELSE Consume(after[n - 1], text[n], n)
  IN  after

FindLastBalancedJsonArray(text) == Scan(text)[Len(text)].lastClosed

Cut(text, range) == SubSeq(text, range[1], range[2])

(* extractEmbeddedJsonArray, parseJsonArray, extractFactsFromJson *)
EmbeddedFacts(text) ==
  LET range == FindLastBalancedJsonArray(text)
  IN  IF range # <<>> /\ Readable(Cut(text, range))
      THEN ReadValue(Cut(text, range)).list
      ELSE <<>>

ExtractFactsFromJson(text) ==
  LET cleaned == RemoveMarkdownCodeBlocks(text)
  IN  IF Readable(cleaned) THEN ReadValue(cleaned).list ELSE EmbeddedFacts(cleaned)

(* ChatResponseContentResolver.resolveContent: the last generation that    *)
(* says anything.                                                          *)
ResolveContent(texts) ==
  LET said == {i \in DOMAIN texts : texts[i] # <<>>}
  IN  IF said = {} THEN <<>> ELSE texts[Max(said)]

-----------------------------------------------------------------------------
(* Types, and the tally: one count for each fact gone through.             *)
ExtractionTypeOK ==
  /\ pc \in {"call", "retry", "insert", "done", "failed"}
  /\ cacheAware \in BOOLEAN /\ enabled \in BOOLEAN
  /\ generations \in Seq(Seq(Symbol)) /\ facts \in Seq(Seq(Symbol))
  /\ next \in 1 .. Len(facts) + 1
  /\ ok + failed = next - 1
  /\ stored \subseteq 1 .. next - 1
  /\ pc \in {"call", "retry"} => facts = <<>>

ExtractionInit ==
  /\ pc = "call"
  /\ cacheAware \in BOOLEAN
  /\ enabled \in BOOLEAN
  /\ generations \in Responses
  /\ facts = <<>>
  /\ next = 1
  /\ ok = 0 /\ failed = 0
  /\ stored = {}

(* The model answers, from either call; the response is read to the end.   *)
ModelAnswers ==
  /\ pc \in {"call", "retry"}
  /\ facts' = ExtractFactsFromJson(ResolveContent(generations))
  /\ pc' = "insert"
  /\ UNCHANGED <<cacheAware, enabled, generations, next, ok, failed, stored>>

(* The provider refused the cache: one more call, with plain options.      *)
CacheRefused ==
  /\ pc = "call"
  /\ cacheAware
  /\ pc' = "retry"
  /\ UNCHANGED <<cacheAware, enabled, generations, facts, next, ok, failed, stored>>

(* Any other error, or any error of the second call; processExtraction     *)
(* logs it.                                                                *)
CallFails ==
  /\ pc \in {"call", "retry"}
  /\ pc' = "failed"
  /\ UNCHANGED <<cacheAware, enabled, generations, facts, next, ok, failed, stored>>

(* insertMemory sends a fact, or returns at once when memory is off.       *)
InsertMemory ==
  /\ pc = "insert"
  /\ next <= Len(facts)
  /\ stored' = IF enabled THEN stored \union {next} ELSE stored
  /\ ok' = ok + 1
  /\ next' = next + 1
  /\ UNCHANGED <<pc, cacheAware, enabled, generations, facts, failed>>

InsertRaises(place, step) ==
  /\ pc = "insert"
  /\ next <= Len(facts)
  /\ enabled
  /\ failed' = failed + 1
  /\ next' = place
  /\ pc' = step
  /\ UNCHANGED <<cacheAware, enabled, generations, facts, ok, stored>>

(* Mutant: the first fact that failed ends the loop.                       *)
InsertFailsAndEnds == InsertRaises(next + 1, "done")

InsertFails == InsertRaises(next + 1, "insert")

Tally ==
  /\ pc = "insert"
  /\ next > Len(facts)
  /\ pc' = "done"
  /\ UNCHANGED <<cacheAware, enabled, generations, facts, next, ok, failed, stored>>

ExtractionNext ==
  \/ ModelAnswers \/ CacheRefused \/ CallFails
  \/ InsertMemory \/ InsertFails \/ Tally

ExtractionSpec == ExtractionInit /\ [][ExtractionNext]_extraction

-----------------------------------------------------------------------------
(* What the scan promises, said of positions instead of a running state.   *)

Bare(t, k) ==
  Cardinality({j \in 1 .. k - 1 : \A h \in j .. k - 1 : t[h] = Escape}) % 2 = 0
Outside(t, k) ==
  Cardinality({j \in 1 .. k - 1 : t[j] = Quote /\ Bare(t, j)}) % 2 = 0
Places(t, c) == {k \in DOMAIN t : t[k] = c /\ Bare(t, k) /\ Outside(t, k)}

TopLevelArrays(t) ==
  LET opens   == Places(t, "[")
      closes  == Places(t, "]")
      Excess(i, k) == Cardinality(opens \cap i .. k) - Cardinality(closes \cap i .. k)
      arrays  == {r \in opens \X closes :
                    /\ r[1] < r[2]
                    /\ Excess(r[1], r[2]) = 0
                    /\ \A k \in r[1] .. r[2] - 1 : Excess(r[1], k) > 0}
  IN  {r \in arrays : \A h \in opens : h < r[1] =>
                        \E a \in arrays : a[1] = h /\ a[2] < r[1]}

Said == ResolveContent(generations)
Cleaned == RemoveMarkdownCodeBlocks(Said)

(* The one pass over the characters returns the last of the ranges of      *)
(* brackets that stand outside strings and outside each other, whatever    *)
(* quotes, escapes and strays surround it (findLastBalancedJsonArray).     *)
ScanFindsLastTopLevelArray ==
  pc = "insert" /\ next = 1 =>
    LET arrays == TopLevelArrays(Cleaned)
        found  == FindLastBalancedJsonArray(Cleaned)
    IN  IF arrays = {} THEN found = <<>>
        ELSE found \in arrays /\ \A r \in arrays : r[1] <= found[1]

(* Places i to j of a text hold one array of strings, fenced or not, and   *)
(* the rest of the text has no brackets, quotes or escapes.                *)
IsArray(t, i, j) ==
  Readable(SubSeq(t, i, j)) /\ ~Readable(SubSeq(t, i, j - 1))
ArrayInProse(t, i, j) ==
  /\ t[i] = "[" /\ t[j] = "]"
  /\ \A k \in DOMAIN t \ (i .. j) : t[k] \notin Marks
  /\ IsArray(t, i, j)
  /\ \A k \in i .. j : t[k] # FenceJson

(* An answer that holds one array, in prose, in fences or after a thinking *)
(* model's other generations, is remembered whole: every fact of it is     *)
(* sent once, and only those AscendMemory refused are missing, whether the *)
(* cache was refused before or other inserts failed (executeExtractionFlow,*)
(* insertFactsWithTally).                                                  *)
AnswerIsRemembered ==
  pc = "done" =>
    \A i, j \in DOMAIN Said :
      ArrayInProse(Said, i, j) =>
        /\ facts = ReadValue(SubSeq(Said, i, j)).list
        /\ ok + failed = Len(facts)
        /\ enabled => Cardinality(stored) = Len(facts) - failed

(* The comment over extractEmbeddedJsonArray (lines 163-169): when the     *)
(* response is not pure JSON, "we scan from the end of the string for the  *)
(* last balanced [...] substring (string-aware, depth-counted) and try to  *)
(* parse it".  Before the array only words and stray brackets stand here,  *)
(* after it only words.                                                    *)
LastArrayIsFound ==
  pc = "insert" /\ ~Readable(Cleaned) =>
    \A i, j \in DOMAIN Cleaned :
      /\ IsArray(Cleaned, i, j)
      /\ \A k \in 1 .. i - 1 : Cleaned[k] \notin {Quote, Escape}
      /\ \A k \in j + 1 .. Len(Cleaned) : Cleaned[k] \notin Marks
      => facts = ReadValue(SubSeq(Cleaned, i, j)).list

=============================================================================
