--------------------------- MODULE WebReaderProofs ---------------------------
(***************************************************************************)
(* Theorems about WebReader, for any number of reads, polls and failures:  *)
(* its types, that a read asks for a human at most once and not in vain,   *)
(* and that no page is delivered that the detector knows for a wall.       *)
(***************************************************************************)
EXTENDS WebReader, TLAPS
-----------------------------------------------------------------------------
(* The inductive invariant. *)

\* Where noVNC is still to come.
Before == (Tier \ {"novnc"}) \cup {"between", "fetch", "rendered"}

EndsWithNoVnc(s) == Len(s) > 0 /\ s[Len(s)] = "novnc"

\* The list of tiers is not exhausted before noVNC was tried.
TiersInv == \A r \in Reads : at[r] \in Before => EndsWithNoVnc(left[r])

\* Only a read that is over has been answered.
AnswerInv == \A r \in Reads : answer[r] # "none" => at[r] = "ended"

\* Only Playwright renders.
ModeInv == \A r \in Reads : at[r] \in {"playwright", "rendered"} => mode[r] = "playwright"

\* Nothing is delivered before the end.
PageInv == \A r \in Reads : at[r] # "ended" => page[r] = NoPage

ReadInv ==
  /\ TypeOK /\ TiersInv /\ AnswerInv /\ ModeInv /\ PageInv
  /\ HumanIsAskedOnce /\ RecognisedWallsAreKeptBack
-----------------------------------------------------------------------------
(* Tiers. *)

LEMMA Tiers ==
  ASSUME NEW a \in Ask
  PROVE  SelectStrategies(a) \in Seq(Tier) /\ EndsWithNoVnc(SelectStrategies(a))
<1> DEFINE s1 == <<"novnc">>
           s3 == <<"playwright", "crawlee", "novnc">>
           s6 == <<"beautifulsoup", "trafilatura", "flaresolverr", "playwright", "crawlee", "novnc">>
<1>1. s1 \in Seq(Tier) /\ EndsWithNoVnc(s1)
  BY DEF EndsWithNoVnc, Tier, Curl
<1>2. s3 \in Seq(Tier) /\ EndsWithNoVnc(s3)
  BY DEF EndsWithNoVnc, Tier, Curl
<1>3. s6 \in Seq(Tier) /\ EndsWithNoVnc(s6)
  BY DEF EndsWithNoVnc, Tier, Curl
<1>4. \/ SelectStrategies(a) = s1
      \/ SelectStrategies(a) = s3
      \/ SelectStrategies(a) = s6
  BY DEF SelectStrategies
<1> QED BY ONLY <1>1, <1>2, <1>3, <1>4, Zenon DEF EndsWithNoVnc

\* The next tier is noVNC, or leaves noVNC for later.
LEMMA TakeTier ==
  ASSUME NEW s \in Seq(Tier), s # <<>>
  PROVE  /\ Head(s) \in Tier /\ Tail(s) \in Seq(Tier)
         /\ EndsWithNoVnc(s) /\ Head(s) # "novnc" => EndsWithNoVnc(Tail(s))
<1>1. Head(s) \in Tier /\ Tail(s) \in Seq(Tier)
  OBVIOUS
<1>2. ASSUME EndsWithNoVnc(s), Head(s) # "novnc"
      PROVE  EndsWithNoVnc(Tail(s))
  <2>1. Len(s) > 1 /\ s[1] = Head(s)
    BY <1>2 DEF EndsWithNoVnc
  <2>2. Len(Tail(s)) = Len(s) - 1 /\ Tail(s)[Len(s) - 1] = s[Len(s)]
    BY <2>1
  <2> QED BY <1>2, <2>1, <2>2 DEF EndsWithNoVnc
<1> QED BY <1>1, <1>2
-----------------------------------------------------------------------------
(* Types. *)

\* One read moves to a place, is answered, or its monitor goes on.
LEMMA Moves ==
  ASSUME TypeOK, NEW r \in Reads, NEW p \in Place, Goto(r, p)
  PROVE  /\ at' \in [Reads -> Place] /\ at'[r] = p
         /\ mode' \in [Reads -> Tier \cup {"none"}]
         /\ IF p \in Tier THEN mode'[r] = p ELSE mode' = mode
         /\ \A q \in Reads : q # r => at'[q] = at[q] /\ mode'[q] = mode[q]
BY DEF TypeOK, Goto

LEMMA Ends ==
  ASSUME TypeOK, NEW r \in Reads, NEW a \in Answer, End(r, a)
  PROVE  /\ at' \in [Reads -> Place] /\ at'[r] = "ended" /\ mode' = mode
         /\ answer' \in [Reads -> Answer] /\ answer' = [answer EXCEPT ![r] = a]
         /\ left' \in [Reads -> Seq(Tier)]
         /\ \A q \in Reads : q # r => /\ at'[q] = at[q] /\ left'[q] = left[q]
                                     /\ answer'[q] = answer[q]
<1>1. Goto(r, "ended") /\ "ended" \in Place /\ "ended" \notin Tier
  BY DEF End, Place, Tier, Curl
<1>2. at' \in [Reads -> Place] /\ at'[r] = "ended" /\ mode' = mode
      /\ \A q \in Reads : q # r => at'[q] = at[q]
  BY <1>1, Moves
<1>3. left' \in [Reads -> Seq(Tier)] /\ \A q \in Reads : q # r => left'[q] = left[q]
  BY DEF End, TypeOK
<1> QED BY <1>2, <1>3 DEF End, TypeOK

LEMMA Watches ==
  ASSUME TypeOK, NEW r \in Reads, NEW m \in Watching, Watch(r, m)
  PROVE  monitor' \in [Reads -> Watching]
BY DEF TypeOK, Watch

LEMMA PlaceNames ==
  /\ {"novnc", "new", "between", "fetch", "rendered", "ended"} \subseteq Place
  /\ {"none", "success", "human", "budget_exhausted", "all_tiers_failed",
      "refused", "results", "unavailable"} \subseteq Answer
  /\ {"opening", "poll", "save", "check", "sleep", "closed"} \subseteq Watching
  /\ Tier \subseteq Place
BY DEF Place, Tier, Answer, Watching

\* What a tier may do with the page it has.
LEMMA Outcomes ==
  ASSUME NEW r \in Reads, NEW p, NEW refused,
         GiveUp(r) \/ Escalate(r) \/ Deliver(r, p) \/ Inspect(r, refused, p)
  PROVE  \/ /\ \E q \in {"between", "novnc"} : Goto(r, q)
            /\ UNCHANGED <<left, answer, page>>
         \/ End(r, "success") /\ page' = [page EXCEPT ![r] = p]
BY DEF GiveUp, Escalate, Deliver, Inspect

LEMMA ServedPages == NoPage \in Page /\ Rendering \subseteq Page
                     /\ \A s : Serves(s) \subseteq Page /\ \A w : Forms(w) \subseteq Page
<1>1. NoPage \in Page
  BY DEF NoPage, Page
<1>2. \A w : Forms(w) \subseteq Page
  BY PagesAssumption DEF Forms
<1> QED BY <1>1, <1>2 DEF Serves, Rendering

LEMMA TypeInit == Init => TypeOK
BY BoundsAssumption, ScenariosAssumption, PlaceNames, ServedPages DEF Init, TypeOK, Session, Watching

LEMMA StoreType ==
  ASSUME TypeOK, NEW s \in Session, SaveSessionData(s) \/ UNCHANGED storeVars
  PROVE  redis' \in Session /\ memory' \in Session /\ faults' \in 0..MaxFaults
<1>1. CASE SaveSessionData(s)
  BY <1>1, BoundsAssumption DEF TypeOK, SaveSessionData, Fault
<1>2. CASE UNCHANGED storeVars
  BY <1>2 DEF TypeOK, storeVars
<1> QED BY <1>1, <1>2

\* The places, answers and pages that a tier leaves behind.
LEMMA OutcomeType ==
  ASSUME TypeOK, NEW r \in Reads, NEW p \in Page, NEW refused,
         GiveUp(r) \/ Escalate(r) \/ Deliver(r, p) \/ Inspect(r, refused, p)
  PROVE  /\ at' \in [Reads -> Place] /\ mode' \in [Reads -> Tier \cup {"none"}]
         /\ left' \in [Reads -> Seq(Tier)] /\ answer' \in [Reads -> Answer]
         /\ page' \in [Reads -> Page]
<1>1. CASE (\E q \in {"between", "novnc"} : Goto(r, q)) /\ UNCHANGED <<left, answer, page>>
  BY <1>1, PlaceNames, Moves DEF TypeOK
<1>2. CASE End(r, "success") /\ page' = [page EXCEPT ![r] = p]
  BY <1>2, PlaceNames, Ends DEF TypeOK
<1> QED BY <1>1, <1>2, Outcomes

LEMMA CloseType ==
  ASSUME TypeOK, NEW r \in Reads, Close(r)
  PROVE  /\ monitor' \in [Reads -> Watching] /\ grabbed' \in [Reads -> Session]
         /\ polls' \in [Reads -> 0..MaxPolls] /\ moved' \subseteq Reads /\ solved' \subseteq Reads
<1>1. monitor' \in [Reads -> Watching]
  BY PlaceNames, Watches DEF Close
<1>2. 0 \in 0..MaxPolls /\ "none" \in Session
  BY BoundsAssumption DEF Session
<1> QED BY <1>1, <1>2 DEF Close, TypeOK

LEMMA TypeStep == TypeOK /\ [Next]_vars => TypeOK'
<1> SUFFICES ASSUME TypeOK, [Next]_vars
             PROVE  TypeOK'
  OBVIOUS
<1> USE PlaceNames DEF readVars, monitorVars, storeVars
<1>1. ASSUME NEW r \in Reads, ReadUrl(r)
      PROVE  TypeOK'
  <2>1. SelectStrategies(ask[r]) \in Seq(Tier)
    BY Tiers DEF TypeOK
  <2>2. CASE End(r, "refused")
    BY <1>1, <2>2, Ends DEF ReadUrl, TypeOK
  <2>3. CASE /\ Goto(r, "between") /\ UNCHANGED answer
             /\ left' = [left EXCEPT ![r] = SelectStrategies(ask[r])]
    BY <1>1, <2>1, <2>3, Moves DEF ReadUrl, TypeOK
  <2> QED BY <1>1, <2>2, <2>3 DEF ReadUrl
<1>2. ASSUME NEW r \in Reads, Search(r)
      PROVE  TypeOK'
  BY <1>2, Ends DEF Search, TypeOK
<1>3. ASSUME NEW r \in Reads, NextTier(r)
      PROVE  TypeOK'
  <2>1. left[r] # <<>> => Head(left[r]) \in Tier /\ Tail(left[r]) \in Seq(Tier)
    BY TakeTier DEF TypeOK
  <2>2. CASE End(r, "all_tiers_failed") \/ End(r, "budget_exhausted")
    BY <1>3, <2>2, Ends DEF NextTier, TypeOK
  <2>3. CASE /\ left[r] # <<>> /\ Goto(r, Head(left[r]))
             /\ left' = [left EXCEPT ![r] = Tail(@)] /\ UNCHANGED answer
    BY <1>3, <2>1, <2>3, Moves DEF NextTier, TypeOK
  <2> QED BY <1>3, <2>2, <2>3 DEF NextTier
<1>4. ASSUME NEW r \in Reads, GetSessionData(r)
      PROVE  TypeOK'
  <2>1. at' \in [Reads -> Place] /\ mode' \in [Reads -> Tier \cup {"none"}]
    BY <1>4, Moves DEF GetSessionData
  <2>2. faults' \in 0..MaxFaults
    BY <1>4, BoundsAssumption DEF GetSessionData, Fault, TypeOK
  <2>3. session' \in [Reads -> Session]
    BY <1>4 DEF GetSessionData, TypeOK
  <2> QED BY <1>4, <2>1, <2>2, <2>3 DEF GetSessionData, TypeOK
<1>5. ASSUME NEW r \in Reads,
             FetchWithCurl(r) \/ PlaywrightLate(r) \/ Crawlee(r) \/ PlaywrightPoll(r)
      PROVE  TypeOK'
  <2>1. UNCHANGED <<ask, summoned, monitorVars, storeVars, site>>
    BY <1>5 DEF FetchWithCurl, PlaywrightLate, Crawlee, PlaywrightPoll
  <2>2. session' \in [Reads -> Session]
    BY <1>5 DEF FetchWithCurl, PlaywrightLate, Crawlee, PlaywrightPoll, TypeOK, Session
  <2>3. \/ \E p \in Page, refused \in BOOLEAN :
             GiveUp(r) \/ Escalate(r) \/ Deliver(r, p) \/ Inspect(r, refused, p)
        \/ Goto(r, "rendered") /\ UNCHANGED <<left, answer, page>>
    <3>1. CASE FetchWithCurl(r)
      <4>1. PICK p \in Serves(session[r]) : GiveUp(r) \/ Inspect(r, p.refused, p)
        BY <3>1 DEF FetchWithCurl
      <4>2. p \in Page /\ p.refused \in BOOLEAN
        BY ServedPages DEF Page
      <4> QED BY <4>1, <4>2
    <3>2. CASE Crawlee(r)
      BY <3>2, ServedPages DEF Crawlee
    <3>3. CASE PlaywrightPoll(r)
      BY <3>3, ServedPages DEF PlaywrightPoll
    <3>4. CASE PlaywrightLate(r)
      BY <3>4, ServedPages DEF PlaywrightLate
    <3> QED BY <1>5, <3>1, <3>2, <3>3, <3>4
  <2>4. /\ at' \in [Reads -> Place] /\ mode' \in [Reads -> Tier \cup {"none"}]
        /\ left' \in [Reads -> Seq(Tier)] /\ answer' \in [Reads -> Answer]
        /\ page' \in [Reads -> Page]
    <3>1. CASE Goto(r, "rendered") /\ UNCHANGED <<left, answer, page>>
      BY <3>1, Moves DEF TypeOK
    <3> QED BY <2>3, <3>1, OutcomeType
  <2> QED BY <2>1, <2>2, <2>4 DEF TypeOK
<1>6. ASSUME NEW r \in Reads, FlareSolverr(r)
      PROVE  TypeOK'
  <2>1. UNCHANGED <<ask, session, summoned, monitorVars, site>>
    BY <1>6 DEF FlareSolverr
  <2>2. redis' \in Session /\ memory' \in Session /\ faults' \in 0..MaxFaults
    BY <1>6, StoreType DEF FlareSolverr, Session
  <2>3. \E p \in Page : Inspect(r, FALSE, p)
    BY <1>6, ServedPages DEF FlareSolverr
  <2>4. /\ at' \in [Reads -> Place] /\ mode' \in [Reads -> Tier \cup {"none"}]
        /\ left' \in [Reads -> Seq(Tier)] /\ answer' \in [Reads -> Answer]
        /\ page' \in [Reads -> Page]
    BY <2>3, OutcomeType
  <2> QED BY <2>1, <2>2, <2>4 DEF TypeOK
<1>7. ASSUME NEW r \in Reads, SummonHuman(r)
      PROVE  TypeOK'
  <2>1. monitor' \in [Reads -> Watching] /\ summoned' \in [Reads -> Nat]
    BY <1>7 DEF SummonHuman, TypeOK
  <2> QED BY <1>7, <2>1, Ends DEF SummonHuman, TypeOK
<1>8. ASSUME NEW r \in Reads, OpenBrowser(r) \/ Check(r) \/ Sleep(r)
      PROVE  TypeOK'
  <2>1. UNCHANGED <<readVars, storeVars, site>>
    BY <1>8 DEF OpenBrowser, Check, Sleep
  <2>2. CASE Close(r)
    BY <2>1, <2>2, CloseType DEF TypeOK
  <2>3. CASE ~ Close(r)
    <3>1. \E m \in Watching : Watch(r, m)
      BY <1>8, <2>3 DEF OpenBrowser, Check, Sleep
    <3>2. monitor' \in [Reads -> Watching]
      BY <3>1, Watches
    <3>3. moved' \subseteq Reads /\ solved' \subseteq Reads
      BY <1>8, <2>3 DEF OpenBrowser, Check, Sleep, TypeOK
    <3>4. polls' \in [Reads -> 0..MaxPolls] /\ grabbed' \in [Reads -> Session]
      BY <1>8, <2>3 DEF OpenBrowser, Check, Sleep, TypeOK, Session
    <3> QED BY <2>1, <3>2, <3>3, <3>4 DEF TypeOK
  <2> QED BY <2>2, <2>3
<1>9. ASSUME NEW r \in Reads, Poll(r)
      PROVE  TypeOK'
  <2>1. UNCHANGED <<readVars, storeVars, site>>
    BY <1>9 DEF Poll
  <2>2. CASE Close(r)
    BY <2>1, <2>2, CloseType DEF TypeOK
  <2>3. CASE ~ Close(r)
    <3>1. monitor' \in [Reads -> Watching]
      BY <1>9, <2>3, Watches DEF Poll, Grab
    <3>2. grabbed' \in [Reads -> Session]
      BY <1>9, <2>3 DEF Poll, Grab, TypeOK, Session
    <3>3. polls[r] \in 0..MaxPolls /\ (polls[r] < MaxPolls => polls[r] + 1 \in 0..MaxPolls)
      BY BoundsAssumption DEF TypeOK
    <3>4. polls' \in [Reads -> 0..MaxPolls] /\ UNCHANGED <<moved, solved>>
      BY <1>9, <2>3, <3>3 DEF Poll, TypeOK
    <3> QED BY <2>1, <3>1, <3>2, <3>4 DEF TypeOK
  <2> QED BY <2>2, <2>3
<1>10. ASSUME NEW r \in Reads, Save(r)
       PROVE  TypeOK'
  <2>1. redis' \in Session /\ memory' \in Session /\ faults' \in 0..MaxFaults
    BY <1>10, StoreType DEF Save, TypeOK
  <2>2. monitor' \in [Reads -> Watching]
    BY <1>10, Watches DEF Save
  <2> QED BY <1>10, <2>1, <2>2 DEF Save, TypeOK
<1>11. CASE KeyExpires \/ SiteChanges \/ \E r \in Reads : HumanSolves(r) \/ Navigate(r)
  BY <1>11 DEF KeyExpires, SiteChanges, HumanSolves, Navigate, TypeOK, Session
<1>12. CASE UNCHANGED vars
  BY <1>12 DEF vars, TypeOK
<1> QED
  BY <1>1, <1>2, <1>3, <1>4, <1>5, <1>6, <1>7, <1>8, <1>9, <1>10, <1>11, <1>12
  DEF Next, ReadStep, MonitorStep

\* Every reachable state has the declared types.
THEOREM WebTypeCorrect == Spec => []TypeOK
<1> QED BY TypeInit, TypeStep, PTL DEF Spec
-----------------------------------------------------------------------------
(* Humans and walls. *)

\* A page that mode m may deliver.
MayDeliver(m, p) ==
  ~ IsLoginRequired(p) /\ (IsBlocked(FALSE, p) => m = "playwright")

LEMMA NothingMayBeDelivered == \A m : MayDeliver(m, NoPage)
BY DEF MayDeliver, IsLoginRequired, IsBlocked, NoPage

\* What a step that is none of NextTier, ReadUrl and SummonHuman does to a read.
Advances(r) ==
  \/ /\ at[r] \in Before
     /\ at'[r] \in Before \cup {"novnc"} /\ UNCHANGED <<left, answer, page>>
     /\ at'[r] \in {"playwright", "rendered"} => at[r] = "playwright" /\ mode' = mode
  \/ /\ at[r] \in Before \cup {"new"} /\ at'[r] = "ended" /\ mode' = mode
     /\ \E a \in Answer \ {"none", "human", "all_tiers_failed"} :
          answer' = [answer EXCEPT ![r] = a]
     /\ \/ UNCHANGED page
        \/ \E p \in Page : MayDeliver(mode[r], p) /\ page' = [page EXCEPT ![r] = p]

\* A tier that gives up, asks for a human or delivers what it may deliver.
LEMMA Tried ==
  ASSUME TypeOK, NEW r \in Reads, at[r] \in Before, NEW p \in Page,
         GiveUp(r) \/ Escalate(r) \/ (Deliver(r, p) /\ MayDeliver(mode[r], p))
  PROVE  Advances(r)
<1>1. CASE GiveUp(r) \/ Escalate(r)
  <2>1. PICK q \in {"between", "novnc"} : Goto(r, q) /\ UNCHANGED <<left, answer, page>>
    BY <1>1 DEF GiveUp, Escalate
  <2>2. at'[r] = q
    BY <2>1, Moves, PlaceNames
  <2> QED BY <2>1, <2>2 DEF Advances, Before
<1>2. CASE End(r, "success") /\ page' = [page EXCEPT ![r] = p] /\ MayDeliver(mode[r], p)
  <2>1. "success" \in Answer \ {"none", "human", "all_tiers_failed"}
    BY PlaceNames
  <2>2. at'[r] = "ended" /\ mode' = mode /\ answer' = [answer EXCEPT ![r] = "success"]
    BY <1>2, <2>1, Ends
  <2> QED BY <1>2, <2>1, <2>2 DEF Advances
<1> QED BY <1>1, <1>2 DEF Deliver

\* A page that is not recognised may be delivered by any tier.
LEMMA Inspected ==
  ASSUME TypeOK, NEW r \in Reads, at[r] \in Before, NEW p \in Page, NEW refused \in BOOLEAN,
         Inspect(r, refused, p)
  PROVE  Advances(r)
<1>1. ~ Recognised(refused, p) => MayDeliver(mode[r], p)
  BY DEF Recognised, IsBlocked, MayDeliver
<1> QED BY <1>1, Tried DEF Inspect

\* Every step of one read leaves the other reads alone.
LEMMA OthersStay ==
  ASSUME TypeOK, NEW r \in Reads,
         \/ \E p \in Place : Goto(r, p) /\ UNCHANGED left
         \/ \E a \in Answer : End(r, a)
  PROVE  \A q \in Reads : q # r => at'[q] = at[q] /\ mode'[q] = mode[q] /\ left'[q] = left[q]
BY Moves, Ends

LEMMA Advancing ==
  ASSUME TypeOK, ModeInv, NEW r \in Reads,
         \/ Search(r) \/ GetSessionData(r) \/ FetchWithCurl(r) \/ FlareSolverr(r)
         \/ PlaywrightPoll(r) \/ PlaywrightLate(r) \/ Crawlee(r)
  PROVE  /\ Advances(r)
         /\ \A q \in Reads :
              q # r => at'[q] = at[q] /\ mode'[q] = mode[q] /\ left'[q] = left[q]
         /\ UNCHANGED summoned
<1> USE PlaceNames
<1>1. CASE Search(r)
  <2>1. PICK a \in {"refused", "results", "unavailable"} : End(r, a) /\ UNCHANGED page
    BY <1>1 DEF Search
  <2>2. a \in Answer \ {"none", "human", "all_tiers_failed"}
    BY <2>1
  <2>3. at'[r] = "ended" /\ mode' = mode /\ answer' = [answer EXCEPT ![r] = a]
    BY <2>1, <2>2, Ends
  <2>4. Advances(r)
    BY <1>1, <2>1, <2>2, <2>3 DEF Search, Advances
  <2> QED BY <1>1, <2>1, <2>2, <2>4, OthersStay DEF Search
<1>2. CASE GetSessionData(r)
  <2>1. Goto(r, "fetch") /\ UNCHANGED <<left, answer, page, summoned>> /\ at[r] \in Before
    BY <1>2 DEF GetSessionData, Before, Tier, Curl
  <2>2. at'[r] = "fetch"
    BY <2>1, Moves
  <2> QED BY <2>1, <2>2, OthersStay DEF Advances, Before
<1>3. CASE FetchWithCurl(r) \/ Crawlee(r) \/ FlareSolverr(r)
  <2>1. at[r] \in Before /\ UNCHANGED summoned
    BY <1>3 DEF FetchWithCurl, Crawlee, FlareSolverr, Before, Tier
  <2>2. \E p \in Page, refused \in BOOLEAN : GiveUp(r) \/ Inspect(r, refused, p)
    <3>1. CASE FetchWithCurl(r)
      <4>1. PICK p \in Serves(session[r]) : GiveUp(r) \/ Inspect(r, p.refused, p)
        BY <3>1 DEF FetchWithCurl
      <4>2. p \in Page /\ p.refused \in BOOLEAN
        BY ServedPages DEF Page
      <4> QED BY <4>1, <4>2
    <3> QED BY <1>3, <3>1, ServedPages DEF Crawlee, FlareSolverr
  <2>3. PICK p \in Page, refused \in BOOLEAN : GiveUp(r) \/ Inspect(r, refused, p)
    BY <2>2
  <2>4. Advances(r)
    BY <2>1, <2>3, Tried, Inspected
  <2>5. \/ \E q \in Place : Goto(r, q) /\ UNCHANGED left
        \/ \E a \in Answer : End(r, a)
    BY <2>3, Outcomes
  <2> QED BY <2>1, <2>4, <2>5, OthersStay
<1>4. CASE PlaywrightPoll(r)
  <2>1. at[r] = "playwright" /\ at[r] \in Before /\ UNCHANGED summoned
    BY <1>4 DEF PlaywrightPoll, Before, Tier
  <2>2. CASE Goto(r, "rendered") /\ UNCHANGED <<left, answer, page>>
    <3>1. at'[r] = "rendered" /\ mode' = mode
      BY <2>2, Moves DEF Tier, Curl
    <3> QED BY <2>1, <2>2, <3>1, OthersStay DEF Advances, Before
  <2>3. CASE GiveUp(r) \/ Escalate(r)
    <3>1. Advances(r)
      BY <2>1, <2>3, Tried, ServedPages
    <3> QED BY <2>1, <2>3, <3>1, OthersStay DEF GiveUp, Escalate
  <2> QED BY <1>4, <2>2, <2>3 DEF PlaywrightPoll
<1>5. CASE PlaywrightLate(r)
  <2>1. /\ at[r] = "rendered" /\ at[r] \in Before /\ UNCHANGED summoned
        /\ mode[r] = "playwright"
    BY <1>5 DEF PlaywrightLate, Before, ModeInv
  <2>2. PICK p \in Page : \/ GiveUp(r) \/ Escalate(r)
                          \/ Deliver(r, p) /\ MayDeliver(mode[r], p)
    BY <1>5, <2>1, ServedPages DEF PlaywrightLate, MayDeliver
  <2>3. Advances(r)
    BY <2>1, <2>2, Tried
  <2>4. \/ \E q \in Place : Goto(r, q) /\ UNCHANGED left
        \/ \E a \in Answer : End(r, a)
    BY <2>2, Outcomes
  <2> QED BY <2>1, <2>3, <2>4, OthersStay
<1> QED BY <1>1, <1>2, <1>3, <1>4, <1>5

LEMMA ReadInit == Init => ReadInv
<1> SUFFICES ASSUME Init
             PROVE  ReadInv
  OBVIOUS
<1>1. TypeOK
  BY TypeInit
<1>2. TiersInv /\ AnswerInv /\ ModeInv /\ PageInv /\ HumanIsAskedOnce
  BY DEF Init, TiersInv, AnswerInv, ModeInv, PageInv, HumanIsAskedOnce, Before, Tier, Curl
<1>3. RecognisedWallsAreKeptBack
  BY NothingMayBeDelivered DEF Init, RecognisedWallsAreKeptBack, MayDeliver
<1> QED BY <1>1, <1>2, <1>3 DEF ReadInv

LEMMA ReadInvStep == ReadInv /\ [Next]_vars => ReadInv'
<1> SUFFICES ASSUME ReadInv, [Next]_vars
             PROVE  ReadInv'
  OBVIOUS
<1>0. TypeOK /\ TypeOK'
  BY TypeStep DEF ReadInv
<1> USE PlaceNames
<1>1. ASSUME NEW r \in Reads, Advances(r), UNCHANGED summoned,
             \A q \in Reads :
               q # r => at'[q] = at[q] /\ mode'[q] = mode[q] /\ left'[q] = left[q]
      PROVE  ReadInv'
  <2>1. at[r] \in Before \cup {"new"} /\ answer[r] = "none"
    BY <1>1 DEF ReadInv, AnswerInv, Advances, Before, Tier, Curl
  <2>2. TiersInv'
    BY <1>0, <1>1 DEF ReadInv, TiersInv, Advances, Before, Tier, Curl
  <2>3. \A q \in Reads : q # r => answer'[q] = answer[q] /\ page'[q] = page[q]
    BY <1>0, <1>1 DEF Advances, TypeOK
  <2>4. answer'[r] # "none" => at'[r] = "ended"
    BY <1>1, <2>1 DEF Advances
  <2>5. AnswerInv' /\ ModeInv'
    BY <1>1, <2>3, <2>4 DEF ReadInv, AnswerInv, ModeInv, Advances
  <2>6. HumanIsAskedOnce'
    <3>1. answer'[r] \notin {"human", "all_tiers_failed"}
      BY <1>0, <1>1, <2>1 DEF Advances, TypeOK
    <3> QED BY <1>1, <2>1, <2>3, <3>1 DEF ReadInv, HumanIsAskedOnce
  <2>7. PageInv'
    BY <1>1, <2>1, <2>3 DEF ReadInv, PageInv, Advances, Before, Tier, Curl
  <2>8. MayDeliver(mode'[r], page'[r])
    <3>1. CASE at'[r] = "ended"
      <4>1. MayDeliver(mode[r], page[r])
        BY DEF ReadInv, RecognisedWallsAreKeptBack, MayDeliver
      <4>2. /\ mode' = mode
            /\ \/ UNCHANGED page
               \/ \E p \in Page : MayDeliver(mode[r], p) /\ page' = [page EXCEPT ![r] = p]
        BY <1>1, <3>1 DEF Advances, Before, Tier, Curl
      <4> QED BY <1>0, <4>1, <4>2 DEF TypeOK
    <3>2. CASE at'[r] # "ended"
      BY <2>7, <3>2, NothingMayBeDelivered DEF PageInv
    <3> QED BY <3>1, <3>2
  <2>9. RecognisedWallsAreKeptBack'
    BY <1>1, <2>3, <2>8 DEF ReadInv, RecognisedWallsAreKeptBack, MayDeliver
  <2> QED BY <1>0, <2>2, <2>5, <2>6, <2>7, <2>9 DEF ReadInv
\* A step of a read that delivers nothing and is over, or only goes on.
<1>A. ASSUME NEW r \in Reads, page[r] = NoPage, UNCHANGED page,
             \A q \in Reads : q # r => at'[q] = at[q] /\ mode'[q] = mode[q]
      PROVE  PageInv' /\ RecognisedWallsAreKeptBack'
  BY <1>A, NothingMayBeDelivered
  DEF ReadInv, PageInv, RecognisedWallsAreKeptBack, MayDeliver
<1>2. ASSUME NEW r \in Reads, ReadUrl(r)
      PROVE  ReadInv'
  <2>1. at[r] = "new" /\ page[r] = NoPage /\ UNCHANGED <<page, summoned>>
    BY <1>2 DEF ReadUrl, ReadInv, PageInv
  <2>2. answer[r] = "none"
    BY <2>1 DEF ReadInv, AnswerInv
  <2>3. CASE End(r, "refused")
    <3>1. /\ at'[r] = "ended" /\ mode' = mode /\ answer' = [answer EXCEPT ![r] = "refused"]
          /\ \A q \in Reads : q # r => at'[q] = at[q] /\ left'[q] = left[q] /\ answer'[q] = answer[q]
      BY <1>0, <2>3, Ends
    <3>2. TiersInv' /\ AnswerInv' /\ ModeInv'
      BY <3>1 DEF ReadInv, TiersInv, AnswerInv, ModeInv, Before, Tier, Curl
    <3>3. HumanIsAskedOnce'
      BY <1>0, <2>1, <2>2, <3>1 DEF ReadInv, HumanIsAskedOnce, TypeOK
    <3> QED BY <1>0, <1>A, <2>1, <3>1, <3>2, <3>3 DEF ReadInv
  <2>4. CASE /\ Goto(r, "between") /\ UNCHANGED answer
             /\ left' = [left EXCEPT ![r] = SelectStrategies(ask[r])]
    <3>1. EndsWithNoVnc(SelectStrategies(ask[r]))
      BY <1>0, Tiers DEF TypeOK
    <3>2. at'[r] = "between" /\ left'[r] = SelectStrategies(ask[r])
          /\ \A q \in Reads : q # r => at'[q] = at[q] /\ mode'[q] = mode[q] /\ left'[q] = left[q]
      BY <1>0, <2>4, Moves DEF TypeOK
    <3>3. TiersInv' /\ AnswerInv' /\ ModeInv'
      BY <2>2, <2>4, <3>1, <3>2 DEF ReadInv, TiersInv, AnswerInv, ModeInv
    <3>4. HumanIsAskedOnce'
      BY <2>1, <2>4 DEF ReadInv, HumanIsAskedOnce
    <3> QED BY <1>0, <1>A, <2>1, <3>2, <3>3, <3>4 DEF ReadInv
  <2> QED BY <1>2, <2>3, <2>4 DEF ReadUrl
<1>3. ASSUME NEW r \in Reads, NextTier(r)
      PROVE  ReadInv'
  <2>1. at[r] = "between" /\ EndsWithNoVnc(left[r]) /\ left[r] \in Seq(Tier)
    BY <1>0, <1>3 DEF NextTier, ReadInv, TiersInv, Before, TypeOK
  <2>2. left[r] # <<>> /\ page[r] = NoPage /\ answer[r] = "none" /\ UNCHANGED <<page, summoned>>
    BY <1>3, <2>1 DEF EndsWithNoVnc, NextTier, ReadInv, PageInv, AnswerInv
  <2>3. CASE End(r, "budget_exhausted")
    <3>1. /\ at'[r] = "ended" /\ mode' = mode
          /\ answer' = [answer EXCEPT ![r] = "budget_exhausted"]
          /\ \A q \in Reads : q # r => at'[q] = at[q] /\ left'[q] = left[q] /\ answer'[q] = answer[q]
      BY <1>0, <2>3, Ends
    <3>2. TiersInv' /\ AnswerInv' /\ ModeInv'
      BY <3>1 DEF ReadInv, TiersInv, AnswerInv, ModeInv, Before, Tier, Curl
    <3>3. HumanIsAskedOnce'
      BY <1>0, <2>2, <3>1 DEF ReadInv, HumanIsAskedOnce, TypeOK
    <3> QED BY <1>0, <1>A, <2>2, <3>1, <3>2, <3>3 DEF ReadInv
  <2>4. CASE /\ Goto(r, Head(left[r])) /\ left' = [left EXCEPT ![r] = Tail(@)]
             /\ UNCHANGED answer
    <3>1. Head(left[r]) \in Tier /\ (Head(left[r]) # "novnc" => EndsWithNoVnc(Tail(left[r])))
      BY <2>1, <2>2, TakeTier
    <3>2. at'[r] = Head(left[r]) /\ mode'[r] = Head(left[r]) /\ left'[r] = Tail(left[r])
          /\ \A q \in Reads : q # r => at'[q] = at[q] /\ mode'[q] = mode[q] /\ left'[q] = left[q]
      BY <1>0, <2>4, <3>1, Moves DEF TypeOK
    <3>3. TiersInv'
      BY <3>1, <3>2 DEF ReadInv, TiersInv, Before
    <3>4. ModeInv'
      BY <3>1, <3>2 DEF ReadInv, ModeInv, Tier, Curl
    <3>5. AnswerInv' /\ HumanIsAskedOnce'
      BY <2>2, <2>4, <3>2 DEF ReadInv, AnswerInv, HumanIsAskedOnce
    <3> QED BY <1>0, <1>A, <2>2, <3>2, <3>3, <3>4, <3>5 DEF ReadInv
  <2> QED BY <1>3, <2>2, <2>3, <2>4 DEF NextTier
<1>4. ASSUME NEW r \in Reads, SummonHuman(r)
      PROVE  ReadInv'
  <2>1. /\ at[r] = "novnc" /\ page[r] = NoPage /\ answer[r] = "none" /\ UNCHANGED page
        /\ End(r, "human") /\ summoned' = [summoned EXCEPT ![r] = @ + 1]
    BY <1>4 DEF SummonHuman, ReadInv, PageInv, AnswerInv
  <2>2. /\ at'[r] = "ended" /\ mode' = mode /\ answer' = [answer EXCEPT ![r] = "human"]
        /\ \A q \in Reads : q # r => at'[q] = at[q] /\ left'[q] = left[q] /\ answer'[q] = answer[q]
    BY <1>0, <2>1, Ends
  <2>3. TiersInv' /\ AnswerInv' /\ ModeInv'
    BY <2>2 DEF ReadInv, TiersInv, AnswerInv, ModeInv, Before, Tier, Curl
  <2>4. HumanIsAskedOnce'
    BY <1>0, <2>1, <2>2 DEF ReadInv, HumanIsAskedOnce, TypeOK
  <2> QED BY <1>0, <1>A, <2>1, <2>2, <2>3, <2>4 DEF ReadInv
<1>5. CASE UNCHANGED readVars
  BY <1>0, <1>5
  DEF readVars, ReadInv, TiersInv, AnswerInv, ModeInv, PageInv, HumanIsAskedOnce,
      RecognisedWallsAreKeptBack
<1>6. ASSUME NEW r \in Reads, MonitorStep(r) \/ HumanSolves(r) \/ Navigate(r)
      PROVE  UNCHANGED readVars
  BY <1>6 DEF MonitorStep, OpenBrowser, Poll, Save, Check, Sleep, HumanSolves, Navigate
<1>7. CASE KeyExpires \/ SiteChanges \/ UNCHANGED vars
  BY <1>5, <1>7 DEF KeyExpires, SiteChanges, vars
<1>8. ASSUME NEW r \in Reads, ReadStep(r)
      PROVE  ReadInv'
  <2>1. CASE ReadUrl(r) \/ NextTier(r) \/ SummonHuman(r)
    BY <1>2, <1>3, <1>4, <2>1
  <2>2. CASE ~ (ReadUrl(r) \/ NextTier(r) \/ SummonHuman(r))
    BY <1>0, <1>1, <1>8, <2>2, Advancing DEF ReadStep, ReadInv
  <2> QED BY <2>1, <2>2
<1> QED BY <1>5, <1>6, <1>7, <1>8 DEF Next

\* However a read comes to noVNC it opens one human session and is answered with
\* it at once, and it never fails without having asked unless its budget ran
\* out (read, _execute_strategy).
THEOREM HumansAreAskedOnce == Spec => []HumanIsAskedOnce
<1>1. ReadInv => HumanIsAskedOnce
  BY DEF ReadInv
<1> QED BY <1>1, ReadInit, ReadInvStep, PTL DEF Spec

\* No page is delivered that the detector knows for a login wall, and one that it
\* knows for a block only by Playwright, whatever comes up between its two looks
\* (get_html of the strategies).
THEOREM RecognisedWallsStayBack == Spec => []RecognisedWallsAreKeptBack
<1>1. ReadInv => RecognisedWallsAreKeptBack
  BY DEF ReadInv
<1> QED BY <1>1, ReadInit, ReadInvStep, PTL DEF Spec
=============================================================================
