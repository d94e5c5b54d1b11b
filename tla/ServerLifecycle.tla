---------------------------- MODULE ServerLifecycle ----------------------------
(***************************************************************************)
(* One server process from its start to its exit (packages/http-api:       *)
(* bin/server.ts, lifecycle.ts, the close of server.ts).  Signals may       *)
(* arrive at any time; the end of the close, the grace period and a second  *)
(* signal race for the outcome.  Requests use the pool until they end.      *)
(***************************************************************************)
EXTENDS Naturals

CONSTANTS
  MaxRequests, \* bound: requests accepted at once
  MaxSignals   \* bound: signals sent

VARIABLES
  phase,     \* "starting", then the phase of the lifecycle
  signalled, \* signals received
  forced,    \* ServerLifecycle.forced
  listening, pool, \* the listener and the database pool are open
  requests,  \* requests running
  broken,    \* requests that failed because the pool was closed under them
  closing,   \* how far running.close is: "no", "app", "pool", "closed", "failed"
  timer,     \* the grace period is running
  exit       \* the exit code, or "none"

lifeVars == <<phase, signalled, forced, listening, pool, requests, broken, closing, timer, exit>>

Alive == exit = "none"

\* startServer fails, or the server serves.
StartFails ==
  /\ Alive /\ phase = "starting"
  /\ exit' = "1"
  /\ UNCHANGED <<phase, signalled, forced, listening, pool, requests, broken, closing, timer>>

\* drain: the timer, and running.close, whose first step stops the listener.
Drain ==
  /\ phase' = "draining" /\ timer' = TRUE
  /\ closing' = "app" /\ listening' = FALSE

\* Slip: a signal that came during the start is forgotten.
ServeAnyway ==
  /\ phase' = "running" /\ listening' = TRUE
  /\ UNCHANGED <<timer, closing>>

\* A signal that came during the start is honoured now.
Serve ==
  IF signalled > 0 THEN Drain
  ELSE phase' = "running" /\ listening' = TRUE /\ UNCHANGED <<timer, closing>>

Started ==
  /\ Alive /\ phase = "starting"
  /\ pool' = TRUE /\ Serve
  /\ UNCHANGED <<signalled, forced, requests, broken, exit>>

\* process.on: remembered, the first drain, or the forced end.
Signal ==
  /\ Alive /\ signalled < MaxSignals
  /\ signalled' = signalled + 1
  /\ \/ phase = "starting" /\ UNCHANGED <<phase, forced, listening, closing, timer, exit>>
     \/ phase = "running" /\ Drain /\ UNCHANGED <<forced, exit>>
     \/ /\ phase = "draining"
        /\ forced' = TRUE /\ phase' = "abandoned" /\ timer' = FALSE /\ exit' = "1"
        /\ UNCHANGED <<listening, closing>>
  /\ UNCHANGED <<pool, requests, broken>>

Accept ==
  /\ Alive /\ listening /\ requests < MaxRequests
  /\ requests' = requests + 1
  /\ UNCHANGED <<phase, signalled, forced, listening, pool, broken, closing, timer, exit>>

\* A request ends; one that finds the pool closed has failed.
Finish ==
  /\ Alive /\ requests > 0
  /\ requests' = requests - 1
  /\ broken' = IF pool THEN broken ELSE broken + 1
  /\ UNCHANGED <<phase, signalled, forced, listening, pool, closing, timer, exit>>

\* Slip: the pool is ended while requests are running.
AppClosedEarly == TRUE

\* app.close resolves when the requests it took have ended.
AppClosed == requests = 0

CloseApp ==
  /\ Alive /\ closing = "app" /\ AppClosed
  /\ closing' = "pool"
  /\ UNCHANGED <<phase, signalled, forced, listening, pool, requests, broken, timer, exit>>

Settle(outcome) ==
  /\ phase' = IF outcome = "closed" THEN "closed" ELSE "abandoned"
  /\ timer' = FALSE
  /\ exit' = IF outcome = "closed" THEN "0" ELSE "1"

\* pool.end resolves once its connections are idle, or either close rejects.
EndPool ==
  /\ Alive /\ closing = "pool"
  /\ pool' = FALSE /\ closing' = "closed" /\ Settle("closed")
  /\ UNCHANGED <<signalled, forced, listening, requests, broken>>

CloseFails ==
  /\ Alive /\ closing \in {"app", "pool"}
  /\ closing' = "failed" /\ Settle("failed")
  /\ UNCHANGED <<signalled, forced, listening, pool, requests, broken>>

GraceExceeded ==
  /\ Alive /\ timer
  /\ Settle("grace_exceeded")
  /\ UNCHANGED <<signalled, forced, listening, pool, requests, broken, closing>>

LifeInit ==
  /\ phase = "starting" /\ signalled = 0 /\ forced = FALSE
  /\ listening = FALSE /\ pool = FALSE /\ requests = 0 /\ broken = 0
  /\ closing = "no" /\ timer = FALSE /\ exit = "none"

LifeNext ==
  \/ StartFails \/ Started \/ Signal \/ Accept \/ Finish
  \/ CloseApp \/ EndPool \/ CloseFails \/ GraceExceeded

LifeSpec == LifeInit /\ [][LifeNext]_lifeVars

--------------------------------------------------------------------------------
(* Properties *)

\* Exit code 0 means a clean end: no request was cut off and none lost its
\* database under it (drain; close ends the pool only after the application).
CleanExitMeansDrained == exit = "0" => requests = 0 /\ broken = 0 /\ ~pool /\ ~listening

\* A signal ends the process, whenever it came: during the start, while
\* requests never end, or again while draining.
SignalEndsProcess == signalled > 0 ~> exit # "none"
===============================================================================
