--------------------------- MODULE MCIngestPipeline ---------------------------
(* One object for each flow, and one that no flow takes.                   *)
EXTENDS IngestPipeline

MCKeys == {"note.md", "documents/plan.pdf", "other.bin"}
MCFolder == [k \in MCKeys |-> CASE k = "note.md"            -> "markdown"
                                [] k = "documents/plan.pdf" -> "unstructured"
                                [] OTHER                    -> "none"]

===============================================================================
