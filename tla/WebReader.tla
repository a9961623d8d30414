------------------------------ MODULE WebReader ------------------------------
(***************************************************************************)
(* Reading a page in AscendWebSearch: the tiers of WebReader tried in      *)
(* order, their detection of login and challenge walls, the human session  *)
(* that noVNC opens for a wall, the monitor that copies its cookies, and   *)
(* the session store of the page's domain.                                 *)
(*                                                                         *)
(* All of it runs on one event loop; one action lies between two awaits.   *)
(* What the site serves changes at any time.  What a page shows and what   *)
(* the detector can tell of it are apart: a wall may be unrecognised, and  *)
(* a page that is none may be taken for one.                               *)
(***************************************************************************)
EXTENDS Naturals, Sequences, SequencesExt

CONSTANTS
  Reads,      \* the requests ever made, all for pages of one domain
  Scenarios,  \* what they may ask between them
  Pages,      \* the forms in which the site serves its pages
  MaxPolls,   \* NOVNC_TIMEOUT_SECONDS over the time between two polls
  MaxFaults   \* bound: calls of Redis that fail

\* safe: the URL is one the service may fetch; loginUrl: it looks like a
\* redirect to a login.
Ask == [surface : {"rest", "mcp"}, kind : {"text", "links", "search"},
        heavy : BOOLEAN, loginUrl : BOOLEAN, safe : BOOLEAN]

Wall == {"login", "blocked"}

\* shows: what a person would see; size: long is over 50000 characters; titled:
\* one of its titles has a login pattern; signed: it has a signature or phrase
\* of the WAF dictionary; refused: its status is 403, 429 or 503.
Page == [shows : {"none", "loading", "content"} \cup Wall,
         size : {"empty", "short", "long"}, titled : BOOLEAN, signed : BOOLEAN,
         refused : BOOLEAN]
NoPage == [shows |-> "none", size |-> "empty", titled |-> FALSE, signed |-> FALSE,
           refused |-> FALSE]

ASSUME ScenariosAssumption == Scenarios \subseteq [Reads -> Ask]
ASSUME PagesAssumption == Pages \subseteq Page
ASSUME BoundsAssumption == MaxPolls \in Nat \ {0} /\ MaxFaults \in Nat

VARIABLES
  ask,       \* what each request asks
  at,        \* the tier each read is in
  left,      \* the tiers it has not tried
  mode,      \* the tier last tried, whose name a success carries
  answer,    \* what it was answered
  page,      \* the page whose text it was answered with
  session,   \* the session its tier has read from the store
  summoned,  \* history: the human sessions a read has asked for
  monitor,   \* where the monitor of a read's human session is
  polls,     \* the polls it has made
  moved,     \* the open browsers that are at another URL than the one opened, which
             \* does not look like a redirect to a login
  solved,    \* those whose challenge was solved
  grabbed,   \* the cookies the monitor last took from its browser
  redis, memory,  \* the two session stores of the domain
  site,      \* what the site asks of a visitor without a session
  faults

readVars == <<ask, at, left, mode, answer, page, session, summoned>>
monitorVars == <<monitor, polls, moved, solved, grabbed>>
storeVars == <<redis, memory, faults>>
vars == <<readVars, monitorVars, storeVars, site>>
-----------------------------------------------------------------------------
Curl == {"beautifulsoup", "trafilatura"}
Tier == Curl \cup {"flaresolverr", "playwright", "crawlee", "novnc"}
Session == {"none", "unsolved", "solved"}
Place == Tier \cup {"new", "between", "fetch", "rendered", "ended"}
Answer == {"none", "success", "human", "budget_exhausted", "all_tiers_failed",
           "refused", "results", "unavailable"}
Watching == {"none", "opening", "poll", "save", "check", "sleep", "closed"}

TypeOK ==
  /\ ask \in [Reads -> Ask]
  /\ at \in [Reads -> Place]
  /\ left \in [Reads -> Seq(Tier)]
  /\ mode \in [Reads -> Tier \cup {"none"}]
  /\ answer \in [Reads -> Answer]
  /\ page \in [Reads -> Page]
  /\ session \in [Reads -> Session]
  /\ summoned \in [Reads -> Nat]
  /\ monitor \in [Reads -> Watching]
  /\ polls \in [Reads -> 0..MaxPolls]
  /\ moved \subseteq Reads
  /\ solved \subseteq Reads
  /\ grabbed \in [Reads -> Session]
  /\ redis \in Session /\ memory \in Session
  /\ site \in {"open"} \cup Wall
  /\ faults \in 0..MaxFaults

Init ==
  /\ ask \in Scenarios
  /\ at = [r \in Reads |-> "new"]
  /\ left = [r \in Reads |-> <<>>] /\ mode = [r \in Reads |-> "none"]
  /\ answer = [r \in Reads |-> "none"] /\ page = [r \in Reads |-> NoPage]
  /\ session = [r \in Reads |-> "none"]
  /\ summoned = [r \in Reads |-> 0]
  /\ monitor = [r \in Reads |-> "none"] /\ polls = [r \in Reads |-> 0]
  /\ moved = {} /\ solved = {} /\ grabbed = [r \in Reads |-> "none"]
  /\ redis = "none" /\ memory = "none" /\ faults = 0
  /\ site \in {"open"} \cup Wall
-----------------------------------------------------------------------------
Goto(r, p) ==
  /\ at' = [at EXCEPT ![r] = p]
  /\ mode' = IF p \in Tier THEN [mode EXCEPT ![r] = p] ELSE mode
End(r, a) ==
  /\ Goto(r, "ended") /\ answer' = [answer EXCEPT ![r] = a]
  /\ left' = [left EXCEPT ![r] = <<>>]

\* _select_strategies
SelectStrategies(a) ==
  IF a.loginUrl THEN <<"novnc">>
  ELSE IF a.heavy THEN <<"playwright", "crawlee", "novnc">>
  ELSE <<"beautifulsoup", "trafilatura", "flaresolverr", "playwright", "crawlee", "novnc">>

\* The endpoints' own checks, then the list of tiers.
ReadUrl(r) ==
  /\ at[r] = "new" /\ ask[r].kind # "search"
  /\ \/ /\ ask[r].safe /\ Goto(r, "between") /\ UNCHANGED answer
        /\ left' = [left EXCEPT ![r] = SelectStrategies(ask[r])]
     \/ ~ ask[r].safe /\ End(r, "refused")
  /\ UNCHANGED <<ask, page, session, summoned, monitorVars, storeVars, site>>

\* A blank or long query is refused, a failing SearXNG is a 503.
Search(r) ==
  /\ at[r] = "new" /\ ask[r].kind = "search"
  /\ \/ ~ ask[r].safe /\ End(r, "refused")
     \/ ask[r].safe /\ \E a \in {"results", "unavailable"} : End(r, a)
  /\ UNCHANGED <<ask, page, session, summoned, monitorVars, storeVars, site>>

\* _budget_exceeded: some time after the first tier, and never of noVNC.
MayExceedBudget(r) ==
  left[r] # SelectStrategies(ask[r]) /\ Head(left[r]) # "novnc"

\* The loop of read and read_with_links.
NextTier(r) ==
  /\ at[r] = "between"
  /\ \/ left[r] = <<>> /\ End(r, "all_tiers_failed")
     \/ left[r] # <<>> /\ MayExceedBudget(r) /\ End(r, "budget_exhausted")
     \/ /\ left[r] # <<>>
        /\ Goto(r, Head(left[r])) /\ left' = [left EXCEPT ![r] = Tail(@)]
        /\ UNCHANGED answer
  /\ UNCHANGED <<ask, page, session, summoned, monitorVars, storeVars, site>>

\* A tier that found nothing, failed, or whose text the validator refuses.
GiveUp(r) == Goto(r, "between") /\ UNCHANGED <<left, answer, page>>

\* A challenge leaves the other tiers out.
Escalate(r) == Goto(r, "novnc") /\ UNCHANGED <<left, answer, page>>

\* The validator takes or refuses any text that is not empty.
Deliver(r, p) ==
  \/ GiveUp(r)
  \/ p.size # "empty" /\ End(r, "success") /\ page' = [page EXCEPT ![r] = p]

\* What the detector tells of a page: no long one is anything, and without a
\* text only the status speaks.
IsLoginRequired(p) == p.size = "short" /\ p.titled
IsBlocked(refused, p) ==
  \/ p.size = "empty" /\ refused
  \/ p.size = "short" /\ p.signed
Recognised(refused, p) == IsLoginRequired(p) \/ IsBlocked(refused, p)

\* A tier that looks at its page once.
Inspect(r, refused, p) ==
  \/ Recognised(refused, p) /\ Escalate(r)
  \/ ~ Recognised(refused, p) /\ Deliver(r, p)

\* What the site may answer a visitor with that session: what it asks of all, in
\* one of its forms; the content, if it takes the session; nothing, after a
\* transport error.
Forms(shows) == {p \in Pages : p.shows = shows}
Serves(s) ==
  {NoPage} \cup Forms(IF site = "open" THEN "content" ELSE site)
           \cup (IF s = "solved" THEN Forms("content") ELSE {})
-----------------------------------------------------------------------------
(* The tiers.                                                               *)

Fault == faults < MaxFaults /\ faults' = faults + 1

\* get_session_data: Redis, and the process's memory when Redis has nothing.
GetSessionData(r) ==
  /\ at[r] \in Curl
  /\ \/ /\ session' = [session EXCEPT ![r] = IF redis # "none" THEN redis ELSE memory]
        /\ UNCHANGED faults
     \/ Fault /\ session' = [session EXCEPT ![r] = memory]
  /\ Goto(r, "fetch")
  /\ UNCHANGED <<ask, left, answer, page, summoned, monitorVars, redis, memory, site>>

\* fetch_with_curl_cffi: a refusal that is no challenge is an error of transport.
FetchWithCurl(r) ==
  /\ at[r] = "fetch"
  /\ \E p \in Serves(session[r]) :
       \/ (Recognised(p.refused, p) \/ ~ p.refused) /\ Inspect(r, p.refused, p)
       \/ p.refused /\ ~ Recognised(p.refused, p) /\ GiveUp(r)
  /\ session' = [session EXCEPT ![r] = "none"]
  /\ UNCHANGED <<ask, summoned, monitorVars, storeVars, site>>

\* save_session_data
SaveSessionData(s) ==
  \/ redis' = s /\ UNCHANGED <<memory, faults>>
  \/ Fault /\ memory' = s /\ UNCHANGED redis

\* FlareSolverr may get behind a block, to the content or to a login; a clearance
\* among its cookies is stored before the page is looked at.
FlareSolverr(r) ==
  /\ at[r] = "flaresolverr"
  /\ \E p \in Serves("none") \cup
             (IF site = "blocked" THEN Forms("content") \cup Forms("login") ELSE {}) :
       /\ Inspect(r, FALSE, p)
       /\ \/ UNCHANGED storeVars
          \/ /\ p # NoPage
             /\ SaveSessionData(IF p.shows = "content" THEN "solved" ELSE "unsolved")
  /\ UNCHANGED <<ask, session, summoned, monitorVars, site>>

\* A page in Playwright's browser; one that is still loading is none of the others.
Rendering == (Serves("none") \cup Forms("loading")) \ {p \in Page : p.size = "empty"}

\* Playwright looks while the page loads, until the network is idle ...
PlaywrightPoll(r) ==
  /\ at[r] = "playwright"
  /\ \/ GiveUp(r)
     \/ \E p \in Rendering :
          \/ Recognised(FALSE, p) /\ Escalate(r)
          \/ /\ ~ Recognised(FALSE, p) /\ Goto(r, "rendered")
             /\ UNCHANGED <<left, answer, page>>
  /\ UNCHANGED <<ask, session, summoned, monitorVars, storeVars, site>>

\* Mutant: no second look after the page has settled.
PlaywrightUnseen(r) ==
  /\ at[r] = "rendered"
  /\ \E p \in Rendering : Deliver(r, p)
  /\ UNCHANGED <<ask, session, summoned, monitorVars, storeVars, site>>

\* ... and once more when it has settled, for a login wall only.
PlaywrightLate(r) ==
  /\ at[r] = "rendered"
  /\ \/ GiveUp(r)
     \/ \E p \in Rendering :
          \/ IsLoginRequired(p) /\ Escalate(r)
          \/ ~ IsLoginRequired(p) /\ Deliver(r, p)
  /\ UNCHANGED <<ask, session, summoned, monitorVars, storeVars, site>>

Crawlee(r) ==
  /\ at[r] = "crawlee"
  /\ \E p \in Serves("none") : Inspect(r, FALSE, p)
  /\ UNCHANGED <<ask, session, summoned, monitorVars, storeVars, site>>

\* Mutant: the request for a human is taken for the tier's failure.
SummonAndGoOn(r) ==
  /\ at[r] = "novnc"
  /\ monitor' = [monitor EXCEPT ![r] = "opening"]
  /\ summoned' = [summoned EXCEPT ![r] = @ + 1]
  /\ GiveUp(r)
  /\ UNCHANGED <<ask, session, polls, moved, solved, grabbed, storeVars, site>>

\* NoVNCStrategy.get_html: the public URL, a monitor, and always a 428.
SummonHuman(r) ==
  /\ at[r] = "novnc"
  /\ monitor' = [monitor EXCEPT ![r] = "opening"]
  /\ summoned' = [summoned EXCEPT ![r] = @ + 1]
  /\ End(r, "human")
  /\ UNCHANGED <<ask, page, session, polls, moved, solved, grabbed, storeVars, site>>
-----------------------------------------------------------------------------
(* _monitor_for_cookies                                                     *)

Watch(r, m) == monitor' = [monitor EXCEPT ![r] = m]

\* The monitor is over, and with it its browser and all it knew.
Close(r) ==
  /\ Watch(r, "closed") /\ moved' = moved \ {r} /\ solved' = solved \ {r}
  /\ polls' = [polls EXCEPT ![r] = 0] /\ grabbed' = [grabbed EXCEPT ![r] = "none"]

\* The browser opens on the page, or where the site sends it, or the monitor
\* fails and is over.
OpenBrowser(r) ==
  /\ monitor[r] = "opening"
  /\ \/ /\ Watch(r, "poll") /\ moved' \in {moved, moved \cup {r}}
        /\ UNCHANGED <<polls, solved, grabbed>>
     \/ Close(r)
  /\ UNCHANGED <<readVars, storeVars, site>>

\* context.cookies() and the page's user agent, or a transient error.
Grab(r) ==
  \/ /\ grabbed' = [grabbed EXCEPT ![r] = IF r \in solved THEN "solved" ELSE "unsolved"]
     /\ Watch(r, "save")
  \/ Watch(r, "sleep") /\ UNCHANGED grabbed

\* Mutant: nothing ends the polling of an unsolved session.
PollForEver(r) ==
  /\ monitor[r] = "poll" /\ Grab(r)
  /\ UNCHANGED <<readVars, polls, moved, solved, storeVars, site>>

\* The loop, while there is time.
Poll(r) ==
  /\ monitor[r] = "poll"
  /\ \/ polls[r] = MaxPolls /\ Close(r)
     \/ /\ polls[r] < MaxPolls /\ polls' = [polls EXCEPT ![r] = @ + 1]
        /\ Grab(r) /\ UNCHANGED <<moved, solved>>
  /\ UNCHANGED <<readVars, storeVars, site>>

Save(r) ==
  /\ monitor[r] = "save"
  /\ SaveSessionData(grabbed[r])
  /\ Watch(r, "check")
  /\ UNCHANGED <<readVars, polls, moved, solved, grabbed, site>>

\* The monitor stops early when its browser has left the page, solved or not.
Check(r) ==
  /\ monitor[r] = "check"
  /\ \/ r \in moved /\ Close(r)
     \/ r \notin moved /\ Watch(r, "sleep") /\ UNCHANGED <<polls, moved, solved, grabbed>>
  /\ UNCHANGED <<readVars, storeVars, site>>

Sleep(r) ==
  /\ monitor[r] = "sleep"
  /\ Watch(r, "poll")
  /\ grabbed' = [grabbed EXCEPT ![r] = "none"]
  /\ UNCHANGED <<readVars, polls, moved, solved, storeVars, site>>

Open(r) == monitor[r] \in {"poll", "save", "check", "sleep"}

HumanSolves(r) ==
  /\ Open(r) /\ r \notin solved
  /\ solved' = solved \cup {r}
  /\ UNCHANGED <<readVars, monitor, polls, moved, grabbed, storeVars, site>>

\* The human or the site sends the browser away or back, whatever was solved.
Navigate(r) ==
  /\ Open(r)
  /\ moved' = IF r \in moved THEN moved \ {r} ELSE moved \cup {r}
  /\ UNCHANGED <<readVars, monitor, polls, solved, grabbed, storeVars, site>>
-----------------------------------------------------------------------------
KeyExpires ==
  /\ redis # "none" /\ redis' = "none"
  /\ UNCHANGED <<readVars, monitorVars, memory, faults, site>>

\* The site puts a wall up, takes it down or changes it.
SiteChanges ==
  /\ site' \in ({"open"} \cup Wall) \ {site}
  /\ UNCHANGED <<readVars, monitorVars, storeVars>>

ReadStep(r) ==
  \/ ReadUrl(r) \/ Search(r) \/ NextTier(r)
  \/ GetSessionData(r) \/ FetchWithCurl(r) \/ FlareSolverr(r)
  \/ PlaywrightPoll(r) \/ PlaywrightLate(r) \/ Crawlee(r) \/ SummonHuman(r)
MonitorStep(r) == OpenBrowser(r) \/ Poll(r) \/ Save(r) \/ Check(r) \/ Sleep(r)

Next ==
  \/ \E r \in Reads : ReadStep(r) \/ MonitorStep(r) \/ HumanSolves(r) \/ Navigate(r)
  \/ KeyExpires
  \/ SiteChanges

Spec == Init /\ [][Next]_vars

\* Every fetch has a timeout and every sleep ends; nobody has to solve
\* anything.
FairSpec ==
  Spec /\ \A r \in Reads : WF_vars(ReadStep(r)) /\ WF_vars(MonitorStep(r))
-----------------------------------------------------------------------------
\* However a read comes to noVNC, from the end of its list or from a wall met
\* by any tier, it opens one human session and is answered with it at once;
\* and since noVNC always asks for a human, a read that fails without one has
\* run out of its budget (_execute_strategy, read, NoVNCStrategy.get_html).
HumanIsAskedOnce ==
  \A r \in Reads :
    /\ summoned[r] = IF answer[r] = "human" THEN 1 ELSE 0
    /\ answer[r] # "all_tiers_failed"

\* Whenever a wall comes up, between two looks at a page that loads too, and
\* whatever session was sent: no page is delivered that the detector knows for a
\* login wall, and one that it knows for a block only by Playwright, whose last
\* look asks for a login alone (get_html of the strategies, "mode" of the answer).
RecognisedWallsAreKeptBack ==
  \A r \in Reads :
    /\ ~ IsLoginRequired(page[r])
    /\ IsBlocked(FALSE, page[r]) => mode[r] = "playwright"

\* Every request is answered and every human session is closed in the end,
\* solved or not (read, _monitor_for_cookies).
ReadsAndMonitorsEnd ==
  \A r \in Reads :
    /\ <>(at[r] = "ended")
    /\ monitor[r] # "none" ~> monitor[r] = "closed"

\* "escalates CAPTCHAs / login walls to a remote browser" (SKILL.md of the
\* scraper): no text is that of a login wall.
NoLoginWallDelivered == \A r \in Reads : page[r].shows # "login"

\* "Early exit once the user has navigated away from the login/challenge page"
\* (_monitor_for_cookies): a monitor that stops before its time has seen its
\* challenge solved.
StopsEarly(r) == monitor[r] = "check" /\ monitor'[r] = "closed"
StopsEarlyOnlyWhenSolved == [][\A r \in Reads : StopsEarly(r) => r \in solved]_vars

\* "When they finish, the service captures the resulting cookies / clearance
\* tokens" (SKILL.md of the scraper): a monitor that stops early although the
\* challenge is solved has taken its solved session.
SolvedSessionIsTaken ==
  [][\A r \in Reads : StopsEarly(r) /\ r \in solved => grabbed[r] = "solved"]_vars
=============================================================================
