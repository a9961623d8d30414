--------------------------- MODULE MCDocumentRouter ---------------------------
(* PDFs of any kinds of pages, and one file for each other service.        *)
EXTENDS DocumentRouter

Text == [length |-> Threshold, textReadable |-> TRUE, sliceable |-> TRUE, blank |-> FALSE]
PageKinds ==
  {Text,
   [Text EXCEPT !.length = Threshold - 1],
   [Text EXCEPT !.textReadable = FALSE],
   [Text EXCEPT !.length = 0, !.blank = TRUE],
   [Text EXCEPT !.sliceable = FALSE]}

MCFiles ==
  {[extension |-> "pdf", pages |-> s] :
      s \in UNION {[1 .. n -> PageKinds] : n \in 0 .. 2}
           \union {<<Text>> \o s : s \in [1 .. 3 -> PageKinds]}}
  \union {[extension |-> e, pages |-> <<k>>] :
            e \in {"md", "docx", "png", "eml", "exe"}, k \in PageKinds}

===============================================================================
