---------------------------- MODULE ChatArchive ----------------------------
(***************************************************************************)
(* What the chat history promises to keep, whatever compaction does to the *)
(* rows: the turns a conversation has archived, each archived once and     *)
(* none ever dropped.  ChatMemory implements it with the turns its rows    *)
(* carry, raw or folded into a summary.                                    *)
(***************************************************************************)
CONSTANT Turn
VARIABLE kept

ArchiveInit == kept = {}

Archive(t) ==
  /\ t \notin kept
  /\ kept' = kept \cup {t}

ArchiveNext == \E t \in Turn : Archive(t)

ArchiveSpec == ArchiveInit /\ [][ArchiveNext]_kept
=============================================================================
