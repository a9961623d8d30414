--------------------------- MODULE MCTranscription ---------------------------
(* Values for TLC: two jobs, of a file and of a project, local and remote. *)
EXTENDS Transcription, TLC

CONSTANTS j1, j2

MCJobs == {j1, j2}

Job(via, provider, project) == [via |-> via, provider |-> provider, project |-> project]

MCScenarios ==
  {j1 :> a @@ j2 :> b :
     <<a, b>> \in
       {<<Job("stream", "local", FALSE), Job("stream", "local", TRUE)>>,
        <<Job("stream", "openai", TRUE), Job("mcp", "local", FALSE)>>,
        <<Job("rest", "local", TRUE), Job("stream", "huggingface", FALSE)>>,
        <<Job("mcp", "huggingface", TRUE), Job("rest", "openai", FALSE)>>}}
=============================================================================
