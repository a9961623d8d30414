----------------------------- MODULE MCWebReader -----------------------------
(* Values for TLC: two requests for one domain. *)
EXTENDS WebReader, TLC

CONSTANTS r1, r2

MCReads == {r1, r2}

Read(surface, kind) ==
  [surface |-> surface, kind |-> kind, heavy |-> FALSE, loginUrl |-> FALSE, safe |-> TRUE]
Plain == Read("rest", "text")
Heavy == [Read("mcp", "links") EXCEPT !.heavy = TRUE]
Login == [Read("rest", "text") EXCEPT !.loginUrl = TRUE]
Unsafe == [Read("mcp", "text") EXCEPT !.safe = FALSE]
Blank == [Read("mcp", "search") EXCEPT !.safe = FALSE]

\* The content, also with the script of a captcha in it; logins that the detector
\* knows, that are too long for it and that have another title; blocks with and
\* without a text, and one that only the status tells.
P(shows, size, titled, signed, refused) ==
  [shows |-> shows, size |-> size, titled |-> titled, signed |-> signed, refused |-> refused]
MCPages ==
  {P("content", "long", FALSE, FALSE, FALSE), P("content", "short", FALSE, TRUE, FALSE),
   P("loading", "short", FALSE, FALSE, FALSE),
   P("login", "short", TRUE, FALSE, FALSE), P("login", "long", TRUE, FALSE, FALSE),
   P("login", "short", FALSE, FALSE, FALSE),
   P("blocked", "short", FALSE, TRUE, TRUE), P("blocked", "empty", FALSE, FALSE, TRUE),
   P("blocked", "short", FALSE, FALSE, TRUE)}

MCScenarios ==
  {r1 :> a @@ r2 :> b :
     <<a, b>> \in {<<Plain, Login>>, <<Unsafe, Heavy>>, <<Blank, Read("rest", "search")>>}}
=============================================================================
