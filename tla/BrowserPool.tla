----------------------------- MODULE BrowserPool -----------------------------
(***************************************************************************)
(* The shared Chromium of AscendWebSearch: BrowserPool, the reads of       *)
(* PlaywrightStrategy that borrow its browser, and the lifespan of the     *)
(* service that starts and stops it.                                       *)
(*                                                                         *)
(* Everything runs on one asyncio event loop, so what lies between two     *)
(* awaits is one action; one action is one call to Playwright.             *)
(*                                                                         *)
(* A driver is the Node process behind one async_playwright().start(); it  *)
(* launches at most one browser, which goes by the driver's number.        *)
(***************************************************************************)
EXTENDS Integers, Sequences, FiniteSets

CONSTANTS
  Reads,       \* the calls of PlaywrightStrategy.get_html ever made
  Detached,    \* those a shutdown does not wait for
  Lifespan,    \* the application's lifespan
  Nobody,      \* the lock when it is free
  MaxCrashes   \* bound: browsers that crash

ASSUME ActorsAssumption ==
  /\ Detached \subseteq Reads
  /\ Lifespan \notin Reads
  /\ Nobody \notin Reads \cup {Lifespan}
ASSUME CrashesAssumption == MaxCrashes \in Nat

Actors == Reads \cup {Lifespan}

VARIABLES
  lock,       \* who holds self._lock
  waiters,    \* who waits for it, first come first served
  driver,     \* self._playwright: a driver, or None
  held,       \* self._browser: the browser of that driver number, or None
  drivers,    \* the driver processes running
  connected,  \* the browsers running and connected
  started,    \* how many drivers were ever started
  at,         \* where each actor stands
  browser,    \* the browser each read was given
  contexts,   \* the reads with a browser context of their own
  orphans,    \* history: the drivers whose stop() raised
  crashes

poolVars == <<driver, held>>
processVars == <<drivers, connected, started, orphans>>
lockVars == <<lock, waiters>>
readVars == <<browser, contexts>>
vars == <<lockVars, poolVars, processVars, at, readVars, crashes>>

None == 0
-----------------------------------------------------------------------------
Launching == {"stopping", "starting", "launching"}
Closing == {"closing", "unwinding"}
Ended == {"returned", "raised"}
Place == {"idle", "waiting", "context", "page", "render", "leave"}
           \cup Launching \cup Closing \cup Ended
           \cup {"down", "serving", "quitting", "stopped", "refused"}

TypeOK ==
  /\ lock \in Actors \cup {Nobody}
  /\ waiters \in Seq(Actors)
  /\ driver \in Nat /\ held \in Nat /\ started \in Nat
  /\ drivers \subseteq Nat /\ connected \subseteq Nat /\ orphans \subseteq Nat
  /\ at \in [Actors -> Place]
  /\ browser \in [Reads -> Nat]
  /\ contexts \subseteq Reads
  /\ crashes \in Nat

Init ==
  /\ lock = Nobody /\ waiters = <<>>
  /\ driver = None /\ held = None
  /\ drivers = {} /\ connected = {} /\ started = 0 /\ orphans = {}
  /\ at = [a \in Actors |-> IF a = Lifespan THEN "down" ELSE "idle"]
  /\ browser = [r \in Reads |-> None]
  /\ contexts = {}
  /\ crashes = 0

\* self._browser is not None and self._browser.is_connected()
Usable == held \in connected
Serving == at[Lifespan] = "serving"
ShuttingDown == at[Lifespan] \in {"quitting", "closing", "unwinding", "stopped"}

Goto(a, p) == at' = [at EXCEPT ![a] = p]
Release(a) == lock = a /\ lock' = Nobody /\ UNCHANGED waiters
\* Mutant: who comes first is not asked.
LockIgnored == lock # Lifespan
\* asyncio.Lock: free and nobody waiting for it.
LockAvailable == lock = Nobody /\ waiters = <<>>
-----------------------------------------------------------------------------
(* The lock.  Whoever gets it goes on, without another await, to the check *)
(* behind it and to the first call that the check leads to.                *)

GiveBrowser(a, b) ==
  IF a \in Reads
    THEN /\ browser' = [browser EXCEPT ![a] = b]
         /\ Goto(a, "context")
    ELSE Goto(a, "serving") /\ UNCHANGED browser

\* Mutants: no second look at the browser under the lock; a browser that was
\* ever held is taken for the one the launch left.
LaunchUnseen(a) ==
  /\ Goto(a, IF driver # None THEN "stopping" ELSE "starting")
  /\ lock' = a
  /\ UNCHANGED browser
TrustTheLauncher(a) ==
  \/ held # None /\ GiveBrowser(a, held) /\ lock' = Nobody
  \/ held = None /\ LaunchUnseen(a)

\* Under the lock: the browser is there after all, or it is launched, by way
\* of stopping the driver there is.
CheckOrLaunch(a) ==
  \/ /\ Usable
     /\ GiveBrowser(a, held)
     /\ lock' = Nobody
  \/ /\ ~ Usable
     /\ Goto(a, IF driver # None THEN "stopping" ELSE "starting")
     /\ lock' = a
     /\ UNCHANGED browser

\* Mutant: without a connected browser there is nothing to close.
CloseOnlyWhenUsable ==
  \/ Usable /\ Goto(Lifespan, "closing") /\ lock' = Lifespan
  \/ ~ Usable /\ Goto(Lifespan, "stopped") /\ lock' = Nobody

\* Under the lock: stop() looks at what there is to close.
CheckAndClose ==
  \/ /\ <<held, driver>> # <<None, None>>
     /\ Goto(Lifespan, IF held # None THEN "closing" ELSE "unwinding")
     /\ lock' = Lifespan
  \/ /\ <<held, driver>> = <<None, None>>
     /\ Goto(Lifespan, "stopped")
     /\ lock' = Nobody

Start ==
  /\ at[Lifespan] = "down" /\ LockAvailable
  /\ CheckOrLaunch(Lifespan)
  /\ UNCHANGED <<waiters, poolVars, processVars, contexts, crashes>>

MayRead(r) == Serving \/ (r \in Detached /\ ShuttingDown)

\* get_browser() without the lock: the browser is connected.
GetBrowser(r) ==
  /\ at[r] = "idle" /\ MayRead(r)
  /\ Usable
  /\ GiveBrowser(r, held)
  /\ UNCHANGED <<lockVars, poolVars, processVars, contexts, crashes>>

GetBrowserLocked(r) ==
  /\ at[r] = "idle" /\ MayRead(r)
  /\ ~ Usable
  /\ \/ /\ LockAvailable
        /\ CheckOrLaunch(r)
        /\ UNCHANGED waiters
     \/ /\ ~ LockAvailable
        /\ waiters' = Append(waiters, r)
        /\ Goto(r, "waiting")
        /\ UNCHANGED <<lock, browser>>
  /\ UNCHANGED <<poolVars, processVars, contexts, crashes>>

\* The server stops once the requests it waits for are answered.
Stop ==
  /\ Serving
  /\ \A r \in Reads \ Detached : at[r] \in {"idle"} \cup Ended
  /\ \/ /\ LockAvailable
        /\ CheckAndClose
        /\ UNCHANGED waiters
     \/ /\ ~ LockAvailable
        /\ waiters' = Append(waiters, Lifespan)
        /\ Goto(Lifespan, "quitting")
        /\ UNCHANGED lock
  /\ UNCHANGED <<poolVars, processVars, readVars, crashes>>

\* The lock was released and its first waiter wakes up.
Acquire(a) ==
  /\ lock = Nobody /\ waiters # <<>> /\ Head(waiters) = a
  /\ waiters' = Tail(waiters)
  /\ \/ at[a] = "waiting" /\ CheckOrLaunch(a)
     \/ a = Lifespan /\ at[a] = "quitting" /\ CheckAndClose /\ UNCHANGED browser
  /\ UNCHANGED <<poolVars, processVars, contexts, crashes>>
-----------------------------------------------------------------------------
(* _launch_locked. *)

\* A driver that stops takes its browser along.
DriverStops ==
  /\ drivers' = drivers \ {driver}
  /\ connected' = connected \ {driver}
  /\ UNCHANGED orphans
\* stop() raised, whether or not the process is gone.
DriverStopRaises ==
  /\ orphans' = orphans \cup {driver}
  /\ \/ UNCHANGED <<drivers, connected>>
     \/ drivers' = drivers \ {driver} /\ connected' = connected \ {driver}

StopDriver(a) ==
  /\ at[a] = "stopping" /\ lock = a
  /\ DriverStops \/ DriverStopRaises
  /\ driver' = None
  /\ Goto(a, "starting")
  /\ UNCHANGED <<lockVars, held, started, readVars, crashes>>

StartDriver(a) ==
  /\ at[a] = "starting" /\ lock = a
  /\ started' = started + 1
  /\ driver' = started'
  /\ drivers' = drivers \cup {started'}
  /\ Goto(a, "launching")
  /\ UNCHANGED <<lockVars, held, connected, orphans, readVars, crashes>>

LaunchBrowser(a) ==
  /\ at[a] = "launching"
  /\ Release(a)
  /\ held' = driver
  /\ connected' = connected \cup {driver}
  /\ GiveBrowser(a, driver)
  /\ UNCHANGED <<driver, drivers, started, orphans, contexts, crashes>>

\* Mutant: a launch that fails leaves the lock taken.
FailHoldingLock(a) ==
  /\ at[a] \in {"starting", "launching"} /\ lock = a
  /\ Goto(a, IF a \in Reads THEN "raised" ELSE "refused")
  /\ UNCHANGED <<lockVars, poolVars, processVars, readVars, crashes>>

\* start() or launch() raises out of the `async with`.
LaunchFails(a) ==
  /\ at[a] \in {"starting", "launching"}
  /\ Release(a)
  /\ Goto(a, IF a \in Reads THEN "raised" ELSE "refused")
  /\ UNCHANGED <<poolVars, processVars, readVars, crashes>>
-----------------------------------------------------------------------------
(* A read with its browser. *)

NewContext(r) ==
  /\ at[r] = "context"
  /\ \/ /\ browser[r] \in connected
        /\ contexts' = contexts \cup {r}
        /\ Goto(r, "page")
     \/ /\ Goto(r, "raised")
        /\ UNCHANGED contexts
  /\ UNCHANGED <<lockVars, poolVars, processVars, browser, crashes>>

\* new_page() and the protections, before the try: what raises here leaves
\* the context as it is.
SetUpPage(r) ==
  /\ at[r] = "page"
  /\ \/ browser[r] \in connected /\ Goto(r, "render")
     \/ Goto(r, "raised")
  /\ UNCHANGED <<lockVars, poolVars, processVars, readVars, crashes>>

\* The page is rendered, or a challenge, a timeout or an error leaves the try.
Render(r) ==
  /\ at[r] = "render"
  /\ Goto(r, "leave")
  /\ UNCHANGED <<lockVars, poolVars, processVars, readVars, crashes>>

\* The finally closes the context; the read returns its html or raises.
CloseContext(r) ==
  /\ at[r] = "leave"
  /\ contexts' = contexts \ {r}
  /\ \E end \in Ended : Goto(r, end)
  /\ UNCHANGED <<lockVars, poolVars, processVars, browser, crashes>>
-----------------------------------------------------------------------------
(* stop(). *)

CloseBrowser ==
  /\ at[Lifespan] = "closing" /\ lock = Lifespan
  /\ connected' = connected \ {held} \/ UNCHANGED connected
  /\ held' = None
  /\ \/ driver # None /\ Goto(Lifespan, "unwinding") /\ UNCHANGED lockVars
     \/ driver = None /\ Goto(Lifespan, "stopped") /\ Release(Lifespan)
  /\ UNCHANGED <<driver, drivers, started, orphans, readVars, crashes>>

StopLastDriver ==
  /\ at[Lifespan] = "unwinding"
  /\ DriverStops \/ DriverStopRaises
  /\ driver' = None
  /\ Goto(Lifespan, "stopped")
  /\ Release(Lifespan)
  /\ UNCHANGED <<held, started, readVars, crashes>>

\* Chromium crashes or runs out of memory, alone or with its driver.
Crash(b) ==
  /\ crashes < MaxCrashes /\ b \in connected
  /\ crashes' = crashes + 1
  /\ connected' = connected \ {b}
  /\ drivers' \in {drivers, drivers \ {b}}
  /\ UNCHANGED <<lockVars, poolVars, started, orphans, at, readVars>>
-----------------------------------------------------------------------------
Launch(a) ==
  StopDriver(a) \/ StartDriver(a) \/ LaunchBrowser(a) \/ LaunchFails(a)
UsePage(r) == NewContext(r) \/ SetUpPage(r) \/ Render(r) \/ CloseContext(r)
ReadStep(r) == Acquire(r) \/ Launch(r) \/ UsePage(r)
Shutdown == CloseBrowser \/ StopLastDriver
LifespanStep == Acquire(Lifespan) \/ Launch(Lifespan) \/ Shutdown

Next ==
  \/ Start \/ Stop \/ LifespanStep
  \/ \E r \in Reads : GetBrowser(r) \/ GetBrowserLocked(r) \/ ReadStep(r)
  \/ \E b \in connected : Crash(b)

Spec == Init /\ [][Next]_vars
\* Every await ends, and the loop gives every task its turn.
FairSpec ==
  /\ Spec
  /\ WF_vars(LifespanStep)
  /\ \A r \in Reads : WF_vars(ReadStep(r))
-----------------------------------------------------------------------------
(* Properties. *)

\* The pool is one driver with one browser: every driver process that runs,
\* and every connected browser, is the one the pool holds, but for those whose
\* stop() raised.  A relaunch orphans no Node process (browser_pool.py:63-70).
OneDriver ==
  /\ drivers \ orphans \subseteq {driver}
  /\ connected \ orphans \subseteq {driver}

\* The driver that is being launched is launched by one task.
OneLauncher ==
  \A a, b \in Actors : {at[a], at[b]} \subseteq Launching \cup Closing => a = b

\* One pool of one browser, whoever relaunches it or shuts it down.
PoolIsOne == OneDriver /\ OneLauncher

\* No read loses the browser it has a context in to another read's relaunch:
\* a connected browser goes away by its own crash or by the shutdown.
ReadersKeepTheirBrowser ==
  [][\A r \in contexts :
       browser[r] \in connected =>
         browser[r] \in connected' \/ crashes' # crashes \/ at[Lifespan] \in Closing]_vars

\* Whoever leaves the lock with a browser has a live one, also a read that
\* waited for another's launch which failed.
HandsOutLiveBrowser ==
  [][\A r \in Reads :
       at[r] # "context" /\ at'[r] = "context" => browser'[r] \in connected']_vars

\* stop() returns with nothing left running but what it could not stop, also
\* when a launch failed half way before or a read was still at work.
ShutdownIsClean ==
  [][at[Lifespan] # "stopped" /\ at'[Lifespan] = "stopped" =>
       drivers' \cup connected' \subseteq orphans']_vars

\* A read that began ends, whatever crashed and whichever launches failed: the
\* lock is let go of on every path.
ReadsEnd ==
  \A r \in Reads : at[r] # "idle" ~> at[r] \in Ended

\* ADR-005:44 "closes only the context on completion": a read that is over has
\* left no context behind in a browser that still runs.
ContextsAreClosed ==
  \A r \in contexts : at[r] \in Ended => browser[r] \notin connected
=============================================================================
