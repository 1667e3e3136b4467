----------------------------- MODULE Simulator -----------------------------
(***************************************************************************)
(* The process around the engine (src/sim/main.cc, signal.cc): main() runs *)
(* the engine, a progress thread reports on it, and cleanup() ends it all, *)
(* called by main() after the loop or as the handler of SIGINT.            *)
(*                                                                         *)
(* The handler runs on the main thread, at any point of it.  SIGINT is     *)
(* masked while its handler runs, and only then.                           *)
(***************************************************************************)
EXTENDS Engine

VARIABLES
    main,       \* where the main thread is: running the engine, or in cleanup
    handler,    \* cleanup runs as the handler
    held,       \* the engine's mutex that the handler interrupted, or "none"
    killLock,   \* cleanup holds killLock
    thread,     \* where the progress thread is
    freed,      \* objects cleanup has deleted
    stale       \* objects used after that

process == <<main, handler, held, killLock, thread, freed, stale>>
simVars == <<vars, process>>

Alive == main \notin {"exited", "stuck"} /\ phase # "panic"

SimInit ==
    /\ Init
    /\ main = "engine" /\ handler = FALSE /\ held = "none"
    /\ killLock = FALSE /\ thread = "none"
    /\ freed = {} /\ stale = {}

-----------------------------------------------------------------------------
(* The main thread *)

\* A step of the engine.  The thread is started, if at all, before the loop.
EngineStep ==
    /\ main = "engine"
    /\ \/ Work /\ UNCHANGED process
       \/ /\ BeginLoop
          /\ thread' \in {"none", "sleep"}
          /\ UNCHANGED <<main, handler, held, killLock, freed, stale>>
       \/ /\ EndLoop
          /\ main' = "lock"
          /\ UNCHANGED <<handler, held, killLock, thread, freed, stale>>

\* SIGINT.  What the main thread was doing is never resumed.  Cleanup blocks
\* for good on a mutex its own thread holds: killLock, when the handler
\* interrupts a cleanup that has it, or mTick of the engine.
Signal ==
    /\ Alive /\ ~handler
    /\ handler' = TRUE
    /\ IF killLock THEN main' = "stuck" /\ UNCHANGED held
       ELSE /\ main' = "lock"
            /\ held' \in {"none"}
                         \cup (IF main = "engine" THEN {"mTick"} ELSE {})
                         \cup (IF phase = "callback" THEN {"m"} ELSE {})
    /\ UNCHANGED <<vars, killLock, thread, freed, stale>>

\* cleanup, up to the first statistics: a run that never left tick 0 exits.
Lock ==
    /\ main = "lock" /\ ~killLock /\ phase # "panic"
    /\ killLock' = TRUE
    /\ main' = IF held = "mTick" THEN "stuck"
               ELSE IF simTick = 0 THEN "exited" ELSE "statistics"
    /\ UNCHANGED <<vars, handler, held, thread, freed, stale>>

Statistics ==
    /\ main = "statistics" /\ phase # "panic"
    /\ main' = "delete"
    /\ UNCHANGED <<vars, handler, held, killLock, thread, freed, stale>>

DeletedBeforeJoin == {"pInterface", "pIOGen"}
DeletedAllBeforeJoin == {"pInterface", "pIOGen", "pBIOEntry"}

\* Mutant: everything is deleted before the join.
EarlyDelete ==
    /\ main = "delete" /\ phase # "panic"
    /\ freed' = freed \cup DeletedAllBeforeJoin
    /\ main' = "join"
    /\ UNCHANGED <<vars, handler, held, killLock, thread, stale>>

Delete ==
    /\ main = "delete" /\ phase # "panic"
    /\ freed' = freed \cup DeletedBeforeJoin
    /\ main' = "join"
    /\ UNCHANGED <<vars, handler, held, killLock, thread, stale>>

Join ==
    /\ main = "join" /\ thread \in {"none", "done"} /\ phase # "panic"
    /\ freed' = freed \cup {"pBIOEntry"}
    /\ main' = "exited"
    /\ UNCHANGED <<vars, handler, held, killLock, thread, stale>>

-----------------------------------------------------------------------------
(* The progress thread (threadFunc) *)

Use(object) == stale' = stale \cup ({object} \cap freed)

\* Mutant: the thread goes on whoever holds the lock.
WakeAlways ==
    /\ Alive /\ thread = "sleep"
    /\ thread' = "getStat"
    /\ UNCHANGED <<vars, main, handler, held, killLock, freed, stale>>

\* After each sleep: try_lock fails only while cleanup holds the lock.
Wake ==
    /\ Alive /\ thread = "sleep"
    /\ thread' = IF killLock THEN "done" ELSE "getStat"
    /\ UNCHANGED <<vars, main, handler, held, killLock, freed, stale>>

\* Engine::getStat waits for the mutex m.
GetStat ==
    /\ Alive /\ thread = "getStat" /\ held # "m"
    /\ thread' = "iogen"
    /\ UNCHANGED <<vars, main, handler, held, killLock, freed, stale>>

GenProgress ==
    /\ Alive /\ thread = "iogen"
    /\ Use("pIOGen")
    /\ thread' = "bio"
    /\ UNCHANGED <<vars, main, handler, held, killLock, freed>>

BioProgress ==
    /\ Alive /\ thread = "bio"
    /\ Use("pBIOEntry")
    /\ thread' = "sleep"
    /\ UNCHANGED <<vars, main, handler, held, killLock, freed>>

-----------------------------------------------------------------------------

Cleanup == Lock \/ Statistics \/ Delete \/ Join
Thread == Wake \/ GetStat \/ GenProgress \/ BioProgress

\* The process is over, the run reached its bound, or cleanup waits for a
\* thread that waits for a mutex the handler interrupted.
SimOver ==
    /\ \/ ~Alive
       \/ phase = "loop" /\ eventHandled = MaxHandled
       \/ held = "m" /\ thread = "getStat"
    /\ UNCHANGED simVars

SimNext == EngineStep \/ Signal \/ Cleanup \/ Thread \/ SimOver

\* The operating system runs both threads, and a sleep ends.
SimSpec ==
    /\ SimInit /\ [][SimNext]_simVars
    /\ WF_simVars(Cleanup) /\ WF_simVars(Wake) /\ WF_simVars(GetStat)
    /\ WF_simVars(GenProgress) /\ WF_simVars(BioProgress)

-----------------------------------------------------------------------------
(* Properties *)

\* The block layer outlives the thread that reports on it: cleanup deletes
\* pBIOEntry only after it joined the thread.
BlockLayerOutlivesThread == "pBIOEntry" \notin stale

\* The same of the generator, which the thread reports on as well: cleanup
\* deletes pIOGen before it joins.
GeneratorOutlivesThread == "pIOGen" \notin stale

\* A cleanup that has begun ends the process, wherever the progress thread is
\* at that moment, unless the handler interrupted the main thread inside one
\* of the mutexes that cleanup or the thread still needs.
Interrupted == held # "none" \/ main = "stuck"
CleanupEnds == main = "lock" ~> (main = "exited" \/ Interrupted)
=============================================================================
