-------------------------- MODULE BrowserPoolProofs --------------------------
(***************************************************************************)
(* Theorems about BrowserPool, for any number of reads and crashes: its    *)
(* types, that the pool is one driver with one browser launched by one     *)
(* task, and what a relaunch and a shutdown may do.                        *)
(***************************************************************************)
EXTENDS BrowserPool, TLAPS
-----------------------------------------------------------------------------
(* The inductive invariant. *)

\* Whoever launches or closes holds the lock, and only the lifespan closes.
LockInv ==
  /\ \A a \in Actors : at[a] \in Launching \cup Closing => lock = a
  /\ \A r \in Reads : at[r] \notin Closing

\* Numbers are given out in order, so a new driver is none of the old ones.
NumberInv ==
  /\ driver <= started
  /\ drivers \cup connected \subseteq 1..started

\* The pool's browser is that of its driver, and while it is launched there is
\* none yet.
LaunchInv ==
  /\ driver \in connected => held = driver \/ at[Lifespan] = "unwinding"
  /\ \A a \in Actors :
       /\ at[a] \in Launching => driver \notin connected
       /\ at[a] = "starting" => driver = None
       /\ at[a] = "launching" => driver # None

PoolInv == TypeOK /\ LockInv /\ NumberInv /\ LaunchInv /\ OneDriver
-----------------------------------------------------------------------------
(* Types. *)

\* One actor moves to a place.
LEMMA Moves ==
  ASSUME TypeOK, NEW a \in Actors, NEW p \in Place, Goto(a, p)
  PROVE  /\ at' \in [Actors -> Place]
         /\ at'[a] = p
         /\ \A b \in Actors : b # a => at'[b] = at[b]
BY DEF TypeOK, Goto

\* The check under the lock keeps the types.
LEMMA CheckOrLaunchType ==
  ASSUME TypeOK, NEW a \in Actors, CheckOrLaunch(a)
  PROVE  /\ lock' \in Actors \cup {Nobody}
         /\ at' \in [Actors -> Place]
         /\ browser' \in [Reads -> Nat]
<1>1. CASE Usable /\ GiveBrowser(a, held) /\ lock' = Nobody
  BY <1>1 DEF TypeOK, GiveBrowser, Goto, Place, Actors
<1>2. CASE ~ Usable /\ Goto(a, IF driver # None THEN "stopping" ELSE "starting")
           /\ lock' = a /\ UNCHANGED browser
  BY <1>2 DEF TypeOK, Goto, Place, Launching
<1> QED BY <1>1, <1>2 DEF CheckOrLaunch

LEMMA CheckAndCloseType ==
  ASSUME TypeOK, CheckAndClose
  PROVE  lock' \in Actors \cup {Nobody} /\ at' \in [Actors -> Place]
BY DEF TypeOK, CheckAndClose, Goto, Place, Closing, Actors

LEMMA DriverStopType ==
  ASSUME TypeOK, DriverStops \/ DriverStopRaises
  PROVE  /\ drivers' \subseteq drivers
         /\ connected' \subseteq connected
         /\ orphans' \subseteq Nat
BY DEF TypeOK, DriverStops, DriverStopRaises

LEMMA TypeInit == Init => TypeOK
BY ActorsAssumption DEF Init, TypeOK, Actors, Place, None

LEMMA TypeStep == TypeOK /\ [Next]_vars => TypeOK'
<1> SUFFICES ASSUME TypeOK, [Next]_vars
             PROVE  TypeOK'
  OBVIOUS
<1> USE DEF poolVars, processVars, lockVars, readVars
<1>1. Lifespan \in Actors /\ Reads \subseteq Actors
  BY DEF Actors
<1>2. CASE Start
  BY <1>1, <1>2, CheckOrLaunchType DEF Start, TypeOK
<1>3. CASE Stop
  <2>1. CASE LockAvailable /\ CheckAndClose /\ UNCHANGED waiters
    BY <1>3, <2>1, CheckAndCloseType DEF Stop, TypeOK
  <2>2. CASE /\ waiters' = Append(waiters, Lifespan)
             /\ Goto(Lifespan, "quitting")
             /\ UNCHANGED lock
    BY <1>1, <1>3, <2>2 DEF Stop, TypeOK, Goto, Place
  <2> QED BY <1>3, <2>1, <2>2 DEF Stop
<1>4. ASSUME NEW a \in Actors, Acquire(a)
      PROVE  TypeOK'
  <2>1. waiters' \in Seq(Actors)
    BY <1>4 DEF Acquire, TypeOK
  <2> QED BY <1>4, <2>1, CheckOrLaunchType, CheckAndCloseType DEF Acquire, TypeOK
<1>5. ASSUME NEW a \in Actors, StopDriver(a)
      PROVE  TypeOK'
  BY <1>5, DriverStopType DEF StopDriver, TypeOK, Goto, Place, Launching, None
<1>6. ASSUME NEW a \in Actors, StartDriver(a)
      PROVE  TypeOK'
  BY <1>6 DEF StartDriver, TypeOK, Goto, Place, Launching
<1>7. ASSUME NEW a \in Actors, LaunchBrowser(a)
      PROVE  TypeOK'
  BY <1>7 DEF LaunchBrowser, GiveBrowser, Release, TypeOK, Goto, Place, Actors
<1>8. ASSUME NEW a \in Actors, LaunchFails(a)
      PROVE  TypeOK'
  BY <1>8 DEF LaunchFails, Release, TypeOK, Goto, Place, Ended
<1>9. ASSUME NEW r \in Reads, GetBrowser(r)
      PROVE  TypeOK'
  BY <1>1, <1>9 DEF GetBrowser, GiveBrowser, TypeOK, Goto, Place
<1>10. ASSUME NEW r \in Reads, GetBrowserLocked(r)
       PROVE  TypeOK'
  <2>1. CASE CheckOrLaunch(r) /\ UNCHANGED waiters
    BY <1>1, <1>10, <2>1, CheckOrLaunchType DEF GetBrowserLocked, TypeOK
  <2>2. CASE /\ waiters' = Append(waiters, r)
             /\ Goto(r, "waiting")
             /\ UNCHANGED <<lock, browser>>
    BY <1>1, <1>10, <2>2 DEF GetBrowserLocked, TypeOK, Goto, Place
  <2> QED BY <1>10, <2>1, <2>2 DEF GetBrowserLocked
<1>11. ASSUME NEW r \in Reads, UsePage(r)
       PROVE  TypeOK'
  BY <1>1, <1>11
  DEF UsePage, NewContext, SetUpPage, Render, CloseContext, TypeOK, Goto, Place, Ended
<1>12. CASE CloseBrowser
  BY <1>1, <1>12 DEF CloseBrowser, Release, TypeOK, Goto, Place, Closing, None
<1>13. CASE StopLastDriver
  BY <1>1, <1>13, DriverStopType
  DEF StopLastDriver, Release, TypeOK, Goto, Place, None
<1>14. ASSUME NEW b \in connected, Crash(b)
       PROVE  TypeOK'
  BY <1>14 DEF Crash, TypeOK
<1>15. CASE UNCHANGED vars
  BY <1>15 DEF vars, TypeOK
<1> QED
  BY <1>1, <1>2, <1>3, <1>4, <1>5, <1>6, <1>7, <1>8, <1>9, <1>10, <1>11, <1>12,
     <1>13, <1>14, <1>15
  DEF Next, LifespanStep, ReadStep, Launch, Shutdown

\* Whatever crashes, fails or overlaps, every variable keeps its type.
THEOREM PoolTypeCorrect == Spec => []TypeOK
BY TypeInit, TypeStep, PTL DEF Spec
-----------------------------------------------------------------------------
(* One driver, one browser, one launcher. *)

LEMMA PoolInit == Init => PoolInv
BY TypeInit
DEF Init, PoolInv, LockInv, NumberInv, LaunchInv, OneDriver, Launching, Closing,
    Actors, None

\* What a read does with the lock in no one's way: the pool and the processes
\* stay, and nobody begins to launch or close.
LEMMA NobodyEnters ==
  ASSUME PoolInv, UNCHANGED <<poolVars, drivers, connected, started, orphans>>, TypeOK',
         \A a \in Actors : /\ at'[a] \in Launching \cup Closing => at'[a] = at[a]
                           /\ at[a] \in Launching \cup Closing => lock' = lock,
         at[Lifespan] = "unwinding" => at'[Lifespan] = "unwinding"
  PROVE  PoolInv'
BY DEF PoolInv, LockInv, NumberInv, LaunchInv, OneDriver, poolVars, Launching,
       Closing, Actors

\* Whoever gets the free lock finds the browser or sets out to launch it.
LEMMA Entering ==
  ASSUME PoolInv, TypeOK', NEW a \in Actors, lock = Nobody, CheckOrLaunch(a),
         UNCHANGED <<poolVars, processVars>>
  PROVE  PoolInv'
<1>1. \A b \in Actors : at[b] \notin Launching \cup Closing
  BY ActorsAssumption DEF PoolInv, LockInv, Actors
<1>2. Lifespan \in Actors /\ Lifespan \notin Reads
  BY ActorsAssumption DEF Actors
<1>3. CASE Usable /\ GiveBrowser(a, held)
  <2>1. \A b \in Actors : at'[b] \notin Launching \cup Closing
    BY <1>1, <1>3 DEF PoolInv, TypeOK, GiveBrowser, Goto, Launching, Closing
  <2> QED
    BY <1>1, <1>2, <2>1
    DEF PoolInv, LockInv, NumberInv, LaunchInv, OneDriver, poolVars, processVars,
        Launching, Closing, Actors
<1>4. CASE /\ ~ Usable
           /\ Goto(a, IF driver # None THEN "stopping" ELSE "starting")
           /\ lock' = a
  <2>1. driver \notin connected
    BY <1>1, <1>2, <1>4 DEF PoolInv, LaunchInv, Usable, Closing
  <2>2. /\ at'[a] = IF driver # None THEN "stopping" ELSE "starting"
        /\ \A b \in Actors : b # a => at'[b] = at[b]
    BY <1>4 DEF PoolInv, TypeOK, Goto
  <2>3. LockInv'
    BY <1>1, <1>4, <2>2 DEF LockInv, Closing, Actors
  <2>4. LaunchInv'
    BY <1>1, <2>1, <2>2 DEF LaunchInv, poolVars, processVars, Launching
  <2> QED
    BY <2>3, <2>4 DEF PoolInv, NumberInv, OneDriver, poolVars, processVars
<1> QED BY <1>3, <1>4 DEF CheckOrLaunch

\* The lifespan gets the free lock to close what there is.
LEMMA EnteringToClose ==
  ASSUME PoolInv, TypeOK', lock = Nobody, CheckAndClose,
         UNCHANGED <<poolVars, processVars>>
  PROVE  PoolInv'
<1>1. \A b \in Actors : at[b] \notin Launching \cup Closing
  BY ActorsAssumption DEF PoolInv, LockInv, Actors
<1>2. Lifespan \in Actors /\ Lifespan \notin Reads
  BY ActorsAssumption DEF Actors
<1>3. /\ at'[Lifespan] \in Closing => lock' = Lifespan
      /\ at'[Lifespan] \notin Launching
      /\ \A b \in Actors : b # Lifespan => at'[b] = at[b]
  BY <1>2 DEF CheckAndClose, PoolInv, TypeOK, Goto, Launching, Closing
<1> QED
  BY <1>1, <1>2, <1>3
  DEF PoolInv, LockInv, NumberInv, LaunchInv, OneDriver, poolVars, processVars,
      Launching, Closing, Actors

\* A driver that stopped, or would not, is no longer the pool's.
LEMMA DriverLetGo ==
  ASSUME PoolInv, DriverStops \/ DriverStopRaises
  PROVE  /\ drivers' \subseteq drivers /\ connected' \subseteq connected
         /\ drivers' \subseteq orphans' /\ connected' \subseteq orphans'
BY DEF PoolInv, OneDriver, DriverStops, DriverStopRaises

LEMMA PoolStep == PoolInv /\ [Next]_vars => PoolInv'
<1> SUFFICES ASSUME PoolInv, [Next]_vars
             PROVE  PoolInv'
  OBVIOUS
<1> USE DEF lockVars, readVars
<1>0. /\ TypeOK /\ TypeOK'
      /\ Lifespan \in Actors /\ Reads \subseteq Actors
      /\ Lifespan \notin Reads /\ Nobody \notin Actors
  BY TypeStep, ActorsAssumption DEF PoolInv, Actors
<1>1. CASE Start
  BY <1>0, <1>1, Entering DEF Start, LockAvailable
<1>2. CASE Stop
  <2>1. CASE LockAvailable /\ CheckAndClose
    BY <1>0, <1>2, <2>1, EnteringToClose DEF Stop, LockAvailable
  <2>2. CASE Goto(Lifespan, "quitting") /\ UNCHANGED lock
    BY <1>0, <1>2, <2>2, NobodyEnters
    DEF Stop, Serving, TypeOK, Goto, processVars, Launching, Closing
  <2> QED BY <1>2, <2>1, <2>2 DEF Stop
<1>3. ASSUME NEW a \in Actors, Acquire(a)
      PROVE  PoolInv'
  BY <1>0, <1>3, Entering, EnteringToClose DEF Acquire
<1>4. ASSUME NEW a \in Actors, StopDriver(a)
      PROVE  PoolInv'
  <2>1. /\ at'[a] = "starting"
        /\ \A b \in Actors : b # a => at'[b] = at[b] /\ at[b] \notin Launching \cup Closing
    BY <1>0, <1>4 DEF StopDriver, TypeOK, Goto, PoolInv, LockInv
  <2>2. driver' = None /\ None \notin connected' /\ UNCHANGED <<lock, held, started>>
    BY <1>4, DriverLetGo DEF StopDriver, PoolInv, NumberInv, None
  <2>3. LockInv'
    BY <1>0, <1>4, <2>1, <2>2 DEF StopDriver, PoolInv, LockInv, Closing
  <2>4. NumberInv' /\ OneDriver'
    BY <1>4, <2>2, DriverLetGo, <1>0
    DEF StopDriver, PoolInv, NumberInv, OneDriver, TypeOK, None
  <2>5. LaunchInv'
    BY <1>0, <2>1, <2>2 DEF LaunchInv, Launching
  <2> QED BY <1>0, <2>3, <2>4, <2>5 DEF PoolInv
<1>5. ASSUME NEW a \in Actors, StartDriver(a)
      PROVE  PoolInv'
  <2>1. /\ at'[a] = "launching"
        /\ \A b \in Actors : b # a => at'[b] = at[b] /\ at[b] \notin Launching \cup Closing
    BY <1>0, <1>5 DEF StartDriver, TypeOK, Goto, PoolInv, LockInv
  <2>2. driver = None /\ driver' = started + 1 /\ started' = started + 1
    BY <1>5 DEF StartDriver, PoolInv, LaunchInv
  <2>3. LockInv'
    BY <1>0, <1>5, <2>1 DEF StartDriver, PoolInv, LockInv, Closing
  <2>4. NumberInv'
    BY <1>0, <1>5, <2>2 DEF StartDriver, PoolInv, NumberInv, TypeOK
  <2>5. OneDriver'
    BY <1>5, <2>2 DEF StartDriver, PoolInv, NumberInv, OneDriver, None
  <2>6. driver' \notin connected /\ connected' = connected /\ driver' # None
    BY <1>0, <1>5, <2>2 DEF StartDriver, PoolInv, NumberInv, TypeOK, None
  <2>7. LaunchInv'
    BY <2>1, <2>6, <1>0 DEF LaunchInv, Launching
  <2> QED BY <1>0, <2>3, <2>4, <2>5, <2>7 DEF PoolInv
<1>6. ASSUME NEW a \in Actors, LaunchBrowser(a)
      PROVE  PoolInv'
  <2>1. /\ at'[a] \notin Launching \cup Closing
        /\ \A b \in Actors : b # a => at'[b] = at[b] /\ at[b] \notin Launching \cup Closing
    <3>1. lock = a /\ at[a] = "launching"
      BY <1>6 DEF LaunchBrowser, Release
    <3>2. \/ Goto(a, "context") \/ Goto(a, "serving")
      BY <1>6 DEF LaunchBrowser, GiveBrowser
    <3> QED
      BY <1>0, <3>1, <3>2 DEF TypeOK, Goto, PoolInv, LockInv, Launching, Closing
  <2>2. /\ held' = driver /\ driver' = driver /\ driver # None
        /\ connected' = connected \cup {driver}
        /\ UNCHANGED <<drivers, started, orphans>>
    BY <1>6 DEF LaunchBrowser, PoolInv, LaunchInv
  <2>3. LockInv'
    BY <1>0, <2>1 DEF PoolInv, LockInv, Closing
  <2>4. NumberInv' /\ OneDriver'
    BY <1>0, <2>2 DEF PoolInv, NumberInv, OneDriver, TypeOK, None
  <2>5. LaunchInv'
    BY <1>0, <2>1, <2>2 DEF LaunchInv, Launching
  <2> QED BY <1>0, <2>3, <2>4, <2>5 DEF PoolInv
<1>7. ASSUME NEW a \in Actors, LaunchFails(a)
      PROVE  PoolInv'
  <2>1. /\ at'[a] \notin Launching \cup Closing
        /\ at[a] # "unwinding"
        /\ \A b \in Actors : b # a => at'[b] = at[b] /\ at[b] \notin Launching \cup Closing
    <3>1. lock = a /\ at[a] \in {"starting", "launching"}
      BY <1>7 DEF LaunchFails, Release
    <3>2. \/ Goto(a, "raised") \/ Goto(a, "refused")
      BY <1>7 DEF LaunchFails
    <3> QED
      BY <1>0, <3>1, <3>2 DEF TypeOK, Goto, PoolInv, LockInv, Launching, Closing
  <2>2. at[Lifespan] # "unwinding"
    BY <1>0, <2>1 DEF Closing
  <2>3. UNCHANGED <<poolVars, processVars>>
    BY <1>7 DEF LaunchFails
  <2> QED
    BY <1>0, <2>1, <2>2, <2>3
    DEF PoolInv, LockInv, NumberInv, LaunchInv, OneDriver, poolVars, processVars,
        Launching, Closing
<1>8. ASSUME NEW r \in Reads, GetBrowser(r)
      PROVE  PoolInv'
  BY <1>0, <1>8, NobodyEnters
  DEF GetBrowser, GiveBrowser, TypeOK, Goto, processVars, Launching, Closing
<1>9. ASSUME NEW r \in Reads, GetBrowserLocked(r)
      PROVE  PoolInv'
  <2>1. CASE LockAvailable /\ CheckOrLaunch(r)
    BY <1>0, <1>9, <2>1, Entering DEF GetBrowserLocked, LockAvailable
  <2>2. CASE Goto(r, "waiting") /\ UNCHANGED lock
    BY <1>0, <1>9, <2>2, NobodyEnters
    DEF GetBrowserLocked, TypeOK, Goto, processVars, Launching, Closing
  <2> QED BY <1>9, <2>1, <2>2 DEF GetBrowserLocked
<1>10. ASSUME NEW r \in Reads, UsePage(r)
       PROVE  PoolInv'
  <2>1. UNCHANGED <<lockVars, poolVars, processVars>>
    BY <1>10 DEF UsePage, NewContext, SetUpPage, Render, CloseContext
  <2>2. PICK p \in {"page", "raised", "render", "leave", "returned"} : Goto(r, p)
    BY <1>10 DEF UsePage, NewContext, SetUpPage, Render, CloseContext, Ended
  <2> QED
    BY <1>0, <2>1, <2>2, NobodyEnters
    DEF TypeOK, Goto, processVars, Launching, Closing
<1>11. CASE CloseBrowser
  <2>1. /\ at'[Lifespan] \in {"unwinding", "stopped"}
        /\ at'[Lifespan] = "unwinding" => lock' = Lifespan
        /\ at'[Lifespan] = "stopped" => driver = None
        /\ \A b \in Actors : b # Lifespan => at'[b] = at[b] /\ at[b] \notin Launching \cup Closing
    BY <1>0, <1>11 DEF CloseBrowser, TypeOK, Goto, PoolInv, LockInv, Closing
  <2>2. /\ connected' \subseteq connected
        /\ UNCHANGED <<driver, drivers, started, orphans>>
    BY <1>11 DEF CloseBrowser
  <2>3. LockInv'
    BY <1>0, <2>1 DEF PoolInv, LockInv, Launching, Closing
  <2>4. NumberInv' /\ OneDriver'
    BY <2>2 DEF PoolInv, NumberInv, OneDriver
  <2>5. None \notin connected
    BY <1>0 DEF PoolInv, NumberInv, None
  <2>6. LaunchInv'
    BY <1>0, <2>1, <2>2, <2>5 DEF LaunchInv, Launching
  <2> QED BY <1>0, <2>3, <2>4, <2>6 DEF PoolInv
<1>12. CASE StopLastDriver
  <2>1. /\ at'[Lifespan] = "stopped"
        /\ \A b \in Actors : b # Lifespan => at'[b] = at[b] /\ at[b] \notin Launching \cup Closing
    BY <1>0, <1>12 DEF StopLastDriver, Release, TypeOK, Goto, PoolInv, LockInv, Closing
  <2>2. driver' = None /\ None \notin connected' /\ UNCHANGED started
    BY <1>12, DriverLetGo DEF StopLastDriver, PoolInv, NumberInv, None
  <2>3. LockInv'
    BY <1>0, <2>1 DEF PoolInv, LockInv, Launching, Closing
  <2>4. NumberInv' /\ OneDriver'
    BY <1>0, <1>12, <2>2, DriverLetGo
    DEF StopLastDriver, PoolInv, NumberInv, OneDriver, TypeOK, None
  <2>5. LaunchInv'
    BY <1>0, <2>1, <2>2 DEF LaunchInv, Launching
  <2> QED BY <1>0, <2>3, <2>4, <2>5 DEF PoolInv
<1>13. ASSUME NEW b \in connected, Crash(b)
       PROVE  PoolInv'
  BY <1>0, <1>13
  DEF Crash, PoolInv, LockInv, NumberInv, LaunchInv, OneDriver, poolVars
<1>14. CASE UNCHANGED vars
  BY <1>0, <1>14
  DEF vars, PoolInv, LockInv, NumberInv, LaunchInv, OneDriver, poolVars, processVars
<1> QED
  BY <1>0, <1>1, <1>2, <1>3, <1>4, <1>5, <1>6, <1>7, <1>8, <1>9, <1>10, <1>11,
     <1>12, <1>13, <1>14
  DEF Next, LifespanStep, ReadStep, Launch, Shutdown

\* Every driver process and every connected browser but those whose stop
\* raised is the pool's own, through any crashes, failed launches and shutdown.
THEOREM PoolIsOneDriver == Spec => []OneDriver
<1>1. PoolInv => OneDriver
  BY DEF PoolInv
<1> QED BY <1>1, PoolInit, PoolStep, PTL DEF Spec

\* At most one task is anywhere between the first and the last call of a
\* launch or of the shutdown.
THEOREM PoolHasOneLauncher == Spec => []OneLauncher
<1>1. PoolInv => OneLauncher
  <2> SUFFICES ASSUME PoolInv, NEW a \in Actors, NEW b \in Actors,
                      {at[a], at[b]} \subseteq Launching \cup Closing
               PROVE  a = b
    BY DEF OneLauncher
  <2>1. lock = a /\ lock = b
    BY DEF PoolInv, LockInv
  <2> QED BY <2>1
<1> QED BY <1>1, PoolInit, PoolStep, PTL DEF Spec

\* The two together: one driver, and one task that may change it.
THEOREM PoolStaysOne == Spec => []PoolIsOne
<1> QED BY PoolIsOneDriver, PoolHasOneLauncher, PTL DEF PoolIsOne
-----------------------------------------------------------------------------
(* What a step may not do. *)

\* A browser goes away when the driver that is being stopped takes it along,
\* at the shutdown, or by its own crash.
LEMMA BrowsersStay ==
  ASSUME PoolInv, [Next]_vars, NEW b \in connected, b \notin connected'
  PROVE  crashes' # crashes \/ at[Lifespan] \in Closing
<1>0. TypeOK /\ Lifespan \in Actors
  BY DEF PoolInv, Actors
<1>1. ASSUME UNCHANGED connected
      PROVE  FALSE
  BY <1>1
<1>2. ASSUME NEW a \in Actors, StopDriver(a)
      PROVE  FALSE
  <2>1. driver \notin connected
    BY <1>2 DEF StopDriver, PoolInv, LaunchInv, Launching
  <2> QED BY <1>2, <2>1 DEF StopDriver, DriverStops, DriverStopRaises
<1>3. ASSUME NEW a \in Actors, LaunchBrowser(a)
      PROVE  FALSE
  BY <1>3 DEF LaunchBrowser
<1>4. ASSUME CloseBrowser \/ StopLastDriver
      PROVE  at[Lifespan] \in Closing
  BY <1>4 DEF CloseBrowser, StopLastDriver, Closing
<1>5. ASSUME NEW c \in connected, Crash(c)
      PROVE  crashes' # crashes
  BY <1>0, <1>5 DEF Crash, TypeOK
<1>6. ASSUME \/ Start \/ Stop
             \/ \E a \in Actors : Acquire(a) \/ StartDriver(a) \/ LaunchFails(a)
             \/ \E r \in Reads : GetBrowser(r) \/ GetBrowserLocked(r) \/ UsePage(r)
             \/ UNCHANGED vars
      PROVE  UNCHANGED connected
  BY <1>6
  DEF Start, Stop, Acquire, StartDriver, LaunchFails, GetBrowser, GetBrowserLocked,
      UsePage, NewContext, SetUpPage, Render, CloseContext, vars, processVars
<1> QED
  BY <1>0, <1>1, <1>2, <1>3, <1>4, <1>5, <1>6
  DEF Next, LifespanStep, ReadStep, Launch, Shutdown, Actors

\* No relaunch takes away the browser another read has its page in: it stops
\* the driver only under the lock, of a browser that it saw disconnected there.
THEOREM RelaunchSparesReaders == Spec => ReadersKeepTheirBrowser
<1>1. PoolInv /\ [Next]_vars =>
        [\A r \in contexts :
           browser[r] \in connected =>
             browser[r] \in connected' \/ crashes' # crashes \/ at[Lifespan] \in Closing]_vars
  BY BrowsersStay
<1> QED BY <1>1, PoolInit, PoolStep, PTL DEF Spec, ReadersKeepTheirBrowser

\* A read is given the browser that is connected at that moment.
LEMMA GivenBrowserIsLive ==
  ASSUME PoolInv, [Next]_vars, NEW r \in Reads,
         at[r] # "context", at'[r] = "context"
  PROVE  browser'[r] \in connected'
<1>0. TypeOK /\ Lifespan \in Actors /\ Reads \subseteq Actors /\ Lifespan \notin Reads
  BY ActorsAssumption DEF PoolInv, Actors
<1>1. ASSUME NEW a \in Actors, NEW p \in Place, Goto(a, p), p # "context"
      PROVE  FALSE
  BY <1>0, <1>1 DEF TypeOK, Goto
<1>2. ASSUME NEW a \in Actors, NEW c, c \in connected', GiveBrowser(a, c)
      PROVE  browser'[r] \in connected'
  BY <1>0, <1>2 DEF GiveBrowser, TypeOK, Goto
<1>3. ASSUME NEW a \in Actors, CheckOrLaunch(a), UNCHANGED connected
      PROVE  browser'[r] \in connected'
  <2>1. CASE Usable /\ GiveBrowser(a, held)
    BY <1>2, <1>3, <2>1 DEF Usable
  <2>2. CASE Goto(a, IF driver # None THEN "stopping" ELSE "starting")
    BY <1>1, <2>2 DEF Place, Launching
  <2> QED BY <1>3, <2>1, <2>2 DEF CheckOrLaunch
<1>4. ASSUME CheckAndClose
      PROVE  FALSE
  BY <1>0, <1>1, <1>4 DEF CheckAndClose, Place, Closing
<1>5. CASE Start
  BY <1>0, <1>3, <1>5 DEF Start, processVars
<1>6. CASE Stop
  BY <1>0, <1>1, <1>4, <1>6 DEF Stop, Place
<1>7. ASSUME NEW a \in Actors, Acquire(a)
      PROVE  browser'[r] \in connected'
  BY <1>3, <1>4, <1>7 DEF Acquire, processVars
<1>8. ASSUME NEW a \in Actors, StopDriver(a) \/ StartDriver(a) \/ LaunchFails(a)
      PROVE  FALSE
  BY <1>1, <1>8 DEF StopDriver, StartDriver, LaunchFails, Place, Launching, Ended
<1>9. ASSUME NEW a \in Actors, LaunchBrowser(a)
      PROVE  browser'[r] \in connected'
  BY <1>2, <1>9 DEF LaunchBrowser
<1>10. ASSUME NEW q \in Reads, GetBrowser(q)
       PROVE  browser'[r] \in connected'
  BY <1>0, <1>2, <1>10 DEF GetBrowser, Usable, processVars
<1>11. ASSUME NEW q \in Reads, GetBrowserLocked(q)
       PROVE  browser'[r] \in connected'
  BY <1>0, <1>1, <1>3, <1>11 DEF GetBrowserLocked, Place, processVars
<1>12. ASSUME NEW q \in Reads, UsePage(q)
       PROVE  FALSE
  BY <1>0, <1>1, <1>12
  DEF UsePage, NewContext, SetUpPage, Render, CloseContext, Place, Ended
<1>13. ASSUME CloseBrowser \/ StopLastDriver
       PROVE  FALSE
  BY <1>0, <1>1, <1>13 DEF CloseBrowser, StopLastDriver, Place, Closing
<1>14. ASSUME (\E b \in connected : Crash(b)) \/ UNCHANGED vars
       PROVE  FALSE
  BY <1>14 DEF Crash, vars
<1> QED
  BY <1>0, <1>5, <1>6, <1>7, <1>8, <1>9, <1>10, <1>11, <1>12, <1>13, <1>14
  DEF Next, LifespanStep, ReadStep, Launch, Shutdown

\* Nobody is sent to a browser that is already gone, through the fast path or
\* through the lock, whoever launched it and however many launches failed.
THEOREM GivenBrowsersAreLive == Spec => HandsOutLiveBrowser
<1>1. PoolInv /\ [Next]_vars =>
        [\A r \in Reads :
           at[r] # "context" /\ at'[r] = "context" => browser'[r] \in connected']_vars
  BY GivenBrowserIsLive
<1> QED BY <1>1, PoolInit, PoolStep, PTL DEF Spec, HandsOutLiveBrowser

\* The step with which stop() returns leaves nothing but what would not stop.
LEMMA StopCleansUp ==
  ASSUME PoolInv, [Next]_vars, at[Lifespan] # "stopped", at'[Lifespan] = "stopped"
  PROVE  drivers' \cup connected' \subseteq orphans'
<1>0. TypeOK /\ Lifespan \in Actors /\ Reads \subseteq Actors /\ Lifespan \notin Reads
  BY ActorsAssumption DEF PoolInv, Actors
<1>1. ASSUME NEW a \in Actors, NEW p \in Place, Goto(a, p), p # "stopped"
      PROVE  FALSE
  BY <1>0, <1>1 DEF TypeOK, Goto
<1>2. ASSUME NEW a \in Reads, NEW p \in Place, Goto(a, p)
      PROVE  FALSE
  BY <1>0, <1>2 DEF TypeOK, Goto
<1>3. ASSUME driver = None, connected' \subseteq connected, UNCHANGED <<drivers, orphans>>
      PROVE  drivers' \cup connected' \subseteq orphans'
  BY <1>3 DEF PoolInv, OneDriver, NumberInv, None
<1>4. ASSUME NEW a \in Actors, CheckOrLaunch(a)
      PROVE  FALSE
  BY <1>0, <1>1, <1>4 DEF CheckOrLaunch, GiveBrowser, Place, Launching
<1>5. ASSUME CheckAndClose, UNCHANGED processVars
      PROVE  drivers' \cup connected' \subseteq orphans'
  <2>1. CASE <<held, driver>> = <<None, None>>
    BY <1>3, <1>5, <2>1 DEF processVars
  <2>2. CASE Goto(Lifespan, IF held # None THEN "closing" ELSE "unwinding")
    BY <1>0, <1>1, <2>2 DEF Place, Closing
  <2> QED BY <1>5, <2>1, <2>2 DEF CheckAndClose
<1>6. CASE Start
  BY <1>0, <1>4, <1>6 DEF Start
<1>7. CASE Stop
  BY <1>0, <1>1, <1>5, <1>7 DEF Stop, Place
<1>8. ASSUME NEW a \in Actors, Acquire(a)
      PROVE  drivers' \cup connected' \subseteq orphans'
  BY <1>4, <1>5, <1>8 DEF Acquire
<1>9. ASSUME NEW a \in Actors, Launch(a)
      PROVE  FALSE
  BY <1>1, <1>9
  DEF Launch, StopDriver, StartDriver, LaunchBrowser, GiveBrowser, LaunchFails,
      Place, Launching, Ended
<1>10. ASSUME NEW r \in Reads, GetBrowser(r) \/ GetBrowserLocked(r) \/ UsePage(r)
       PROVE  FALSE
  BY <1>0, <1>2, <1>4, <1>10
  DEF GetBrowser, GiveBrowser, GetBrowserLocked, UsePage, NewContext, SetUpPage,
      Render, CloseContext, Place, Ended
<1>11. CASE CloseBrowser
  <2>1. connected' \subseteq connected /\ UNCHANGED <<drivers, orphans>>
    BY <1>11 DEF CloseBrowser
  <2>2. driver = None
    BY <1>0, <1>1, <1>11 DEF CloseBrowser, Place, Closing
  <2> QED BY <1>3, <2>1, <2>2
<1>12. CASE StopLastDriver
  BY <1>12, DriverLetGo DEF StopLastDriver
<1>13. ASSUME (\E b \in connected : Crash(b)) \/ UNCHANGED vars
       PROVE  FALSE
  BY <1>13 DEF Crash, vars
<1> QED
  BY <1>0, <1>6, <1>7, <1>8, <1>9, <1>10, <1>11, <1>12, <1>13
  DEF Next, LifespanStep, ReadStep, Shutdown

\* Shutting down stops the driver and the browser there is, also the driver of
\* a launch that failed half way; only a stop that raises leaves anything.
THEOREM StopLeavesNothing == Spec => ShutdownIsClean
<1>1. PoolInv /\ [Next]_vars =>
        [at[Lifespan] # "stopped" /\ at'[Lifespan] = "stopped" =>
           drivers' \cup connected' \subseteq orphans']_vars
  BY StopCleansUp
<1> QED BY <1>1, PoolInit, PoolStep, PTL DEF Spec, ShutdownIsClean
=============================================================================
