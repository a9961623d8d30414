----------------------------- MODULE MCIngestion ----------------------------
(* Ingestion for TLC: how many chunks a content splits into.                *)
EXTENDS Ingestion, TLC

CONSTANTS Blank  \* a content without text
MCChunkCount == [c \in Contents |-> IF c = Blank THEN 0 ELSE 2]
=============================================================================
