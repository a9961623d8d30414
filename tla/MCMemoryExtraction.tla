-------------------------- MODULE MCMemoryExtraction --------------------------
(* Answers put together from pieces of prose, JSON and Markdown.           *)
EXTENDS MemoryExtraction

Strays == {<<"[">>, <<"]">>, <<Quote>>, <<Escape>>}
OneFact == <<"[", Quote, "likes", Quote, "]">>
\* ["said \"hi\"", "has [x"]: an escaped quote and a bracket in a string
TwoFacts == <<"[", Quote, "said", Escape, Quote, "hi", Escape, Quote, Quote, ",",
              Quote, "has", "[", "x", Quote, "]">>
Nested == <<"[">> \o OneFact \o <<"]">>

MCSymbol ==
  Marks \union {",", FenceJson, Fence, "hm", "likes", "said", "hi", "has", "x"}

Pieces == Strays \union
  {<<>>, <<"hm">>, <<FenceJson>>, <<Fence>>, <<"[", "]">>, OneFact, TwoFacts, Nested}

MCTexts ==
  {p \o q \o r : p, q, r \in Pieces}
  \union {p \o q \o r \o s : p, q, r, s \in Strays \union {OneFact}}

MCResponses ==
  {<<>>} \union {<<t>> : t \in MCTexts} \union {<<OneFact, t>> : t \in MCTexts}

===============================================================================
