----------------------------- MODULE ServiceLife ------------------------------
(***************************************************************************)
(* The life of one process: lifespan builds the database pools, the        *)
(* readiness probe and the Codex runtime one after the other, serves, and  *)
(* takes them down in reverse order, from wherever it got to.  Each step   *)
(* of both can fail.  DependencyReadiness probes the database all along,   *)
(* and GET /ready reports what it found last.                              *)
(*                                                                         *)
(* The tasks admission waits for are those of module Admission; here only  *)
(* whether it still accepts matters.                                       *)
(***************************************************************************)
EXTENDS Naturals, Sequences

CONSTANTS MaxAge,  \* max_age of the readiness, in ticks
          Lag      \* BOUND: ticks an answer may wait for the event loop

ASSUME ServiceAssumption == MaxAge \in Nat \ {0} /\ Lag \in Nat

VARIABLES phase,     \* where lifespan is
          stack,     \* the AsyncExitStack: what is to be undone, the last on top
          pools,     \* the engines that are open
          runtime,   \* the Codex process
          started,   \* CodexRuntime._started
          accepting, \* app.state.agent_service.admission.accepting; FALSE while there is none
          probe,     \* the check in hand: idle, or the worker it waits for
          lag,       \* ticks that the answer of its worker has waited for the event loop
          stray,     \* the query of a worker whose check was cut off
          task,      \* the background probe task
          healthy,   \* DependencyReadiness._healthy
          age,       \* ticks since _last_success, up to MaxAge; MaxAge also if there was none
          db,        \* up, or away: PostgreSQL, its connection or the pool gives no answer
          down       \* ticks since the database could last answer, up to MaxAge + Lag

lifeVars  == <<phase, stack, pools, runtime, started, accepting>>
probeVars == <<probe, lag, stray, task, healthy, age>>
dbVars    == <<db, down>>
vars == <<lifeVars, probeVars, dbVars>>

-----------------------------------------------------------------------------
Phases  == {"pools", "check", "runtime", "assemble", "serving", "closing",
            "cancelling", "unwinding", "down"}
Engines == {"conversations", "approvals"}
Undo    == Engines \cup {"probe", "runtime"}
\* The two health checks run one after the other; "ok" and "failed" await the task.
Probes  == {"idle", "conversations", "approvals", "ok", "failed"}
Waiting == {"ok", "failed"}

Top == stack[Len(stack)]
Pop == stack' = SubSeq(stack, 1, Len(stack) - 1)

\* DependencyReadiness.ready and the conditions of GET /ready.
Ready == accepting /\ healthy /\ age < MaxAge

Init ==
    /\ phase = "pools"
    /\ stack = << >>
    /\ pools = {}
    /\ runtime = "off" /\ started = FALSE
    /\ accepting = FALSE
    /\ probe = "idle" /\ lag = 0 /\ stray = "none"
    /\ task = "none" /\ healthy = FALSE /\ age = MaxAge
    /\ db \in {"up", "away"} /\ down = IF db = "up" THEN 0 ELSE MaxAge + Lag

-----------------------------------------------------------------------------
\* An engine, with its dispose on the stack.
OpenPool(e) ==
    /\ phase = "pools"
    /\ pools' = pools \cup {e}
    /\ stack' = Append(stack, e)

OpenConversations ==
    /\ pools = {}
    /\ OpenPool("conversations")
    /\ UNCHANGED <<phase, runtime, started, accepting, probeVars, dbVars>>

\* With both there, the first check begins.
OpenApprovals ==
    /\ pools = {"conversations"}
    /\ OpenPool("approvals")
    /\ phase' = "check"
    /\ probe' = "conversations"
    /\ UNCHANGED <<runtime, started, accepting, lag, stray, task, healthy, age, dbVars>>

\* A setting is missing or invalid, or an engine cannot be made of its URL.
OpenRefused ==
    /\ phase = "pools"
    /\ phase' = "unwinding"
    /\ UNCHANGED <<stack, pools, runtime, started, accepting, probeVars, dbVars>>

\* readiness.start after a first good check, tested at once (so no age matters); the task
\* begins with a sleep.
ProbeStarted ==
    /\ phase = "check" /\ probe = "idle" /\ healthy
    /\ task' = "running"
    /\ stack' = Append(stack, "probe")
    /\ phase' = "runtime"
    /\ UNCHANGED <<pools, runtime, started, accepting, probe, lag, stray, healthy, age, dbVars>>

\* DATABASE_NOT_READY.
ProbeRefused ==
    /\ phase = "check" /\ probe = "idle" /\ ~healthy
    /\ phase' = "unwinding"
    /\ UNCHANGED <<stack, pools, runtime, started, accepting, probeVars, dbVars>>

\* runtime.start: the process is up.
RuntimeStarted ==
    /\ phase = "runtime"
    /\ runtime' = "on" /\ started' = TRUE
    /\ stack' = Append(stack, "runtime")
    /\ phase' = "assemble"
    /\ UNCHANGED <<pools, accepting, probeVars, dbVars>>

\* MUTANT: a failed start ends the process without unwinding.
RuntimeRefused_NoUnwind ==
    /\ phase = "runtime"
    /\ phase' = "down"
    /\ UNCHANGED <<stack, pools, runtime, started, accepting, probeVars, dbVars>>

\* The skill file is missing, the runtime's home is not writable, or the start raised and
\* __aexit__ took back what __aenter__ left.
RuntimeRefused ==
    /\ phase = "runtime"
    /\ phase' = "unwinding"
    /\ UNCHANGED <<stack, pools, runtime, started, accepting, probeVars, dbVars>>

\* The services are put into app.state and lifespan yields.
Serve ==
    /\ phase = "assemble"
    /\ accepting' = TRUE
    /\ phase' = "serving"
    /\ UNCHANGED <<stack, pools, runtime, started, probeVars, dbVars>>

\* A policy of admission or of a grant is invalid.
AssembleFails ==
    /\ phase = "assemble"
    /\ phase' = "unwinding"
    /\ UNCHANGED <<stack, pools, runtime, started, accepting, probeVars, dbVars>>

\* An operation came to an unknown end and closed admission; only a restart opens it.
LoseRuntime ==
    /\ phase = "serving"
    /\ accepting' = FALSE
    /\ UNCHANGED <<phase, stack, pools, runtime, started, probeVars, dbVars>>

\* EXTERNAL: the Codex process ends by itself; only an operation will notice.
RuntimeDies ==
    /\ runtime = "on"
    /\ runtime' = "off"
    /\ UNCHANGED <<phase, stack, pools, started, accepting, probeVars, dbVars>>

\* Shutdown: drain closes admission and waits for a while.
Drain ==
    /\ phase = "serving"
    /\ accepting' = FALSE
    /\ phase' = "closing"
    /\ UNCHANGED <<stack, pools, runtime, started, probeVars, dbVars>>

-----------------------------------------------------------------------------
\* CodexRuntime.close, by lifespan and again by the stack; it may raise, and then the
\* process may be there or not.
CloseRuntime(ok) ==
    /\ runtime' \in IF ~started THEN {runtime} ELSE IF ok THEN {"off"} ELSE {runtime, "off"}
    /\ started' = (started /\ ~ok)

Close ==
    /\ phase = "closing"
    /\ \E ok \in BOOLEAN : CloseRuntime(ok)
    /\ phase' = "cancelling"
    /\ UNCHANGED <<stack, pools, accepting, probeVars, dbVars>>

\* cancel_after_runtime_closed, whether the close raised or not.
CancelTasks ==
    /\ phase = "cancelling"
    /\ phase' = "unwinding"
    /\ UNCHANGED <<stack, pools, runtime, started, accepting, probeVars, dbVars>>

UndoRuntime ==
    /\ phase = "unwinding" /\ stack # << >> /\ Top = "runtime"
    /\ \E ok \in BOOLEAN : CloseRuntime(ok)
    /\ Pop
    /\ UNCHANGED <<phase, pools, accepting, probeVars, dbVars>>

\* MUTANT: the task is left to itself.
UndoProbe_NoCancel ==
    /\ phase = "unwinding" /\ stack # << >> /\ Top = "probe"
    /\ healthy' = FALSE
    /\ Pop
    /\ UNCHANGED <<phase, pools, runtime, started, accepting, probe, lag, stray, task, age,
                   dbVars>>

\* MUTANT: the task is awaited and not cancelled.
UndoProbe_AwaitsOnly ==
    /\ phase = "unwinding" /\ stack # << >> /\ Top = "probe"
    /\ task = "over"
    /\ healthy' = FALSE
    /\ Pop
    /\ UNCHANGED <<phase, pools, runtime, started, accepting, probe, lag, stray, task, age,
                   dbVars>>

\* readiness.close: the task is cancelled and awaited; a worker it was waiting for goes
\* on with its query.
UndoProbe ==
    /\ phase = "unwinding" /\ stack # << >> /\ Top = "probe"
    /\ healthy' = FALSE
    /\ task' = "over" /\ probe' = "idle" /\ lag' = 0
    /\ stray' = IF probe \in Engines THEN probe ELSE "none"
    /\ Pop
    /\ UNCHANGED <<phase, pools, runtime, started, accepting, age, dbVars>>

\* dispose puts an empty pool in the place of the old one; a connection in use is closed
\* when it is given back.
UndoPool ==
    /\ phase = "unwinding" /\ stack # << >> /\ Top \in Engines
    /\ pools' = pools \ {Top}
    /\ Pop
    /\ UNCHANGED <<phase, runtime, started, accepting, probeVars, dbVars>>

Exit ==
    /\ phase = "unwinding" /\ stack = << >>
    /\ phase' = "down"
    /\ UNCHANGED <<stack, pools, runtime, started, accepting, probeVars, dbVars>>

-----------------------------------------------------------------------------
\* The sleep of the task is over: the first health check goes to a worker.
Probe ==
    /\ task = "running" /\ probe = "idle"
    /\ probe' = "conversations"
    /\ UNCHANGED <<lifeVars, lag, stray, task, healthy, age, dbVars>>

\* A worker gets the answer of the database; the next check follows at once.
WorkerAnswers ==
    /\ probe \in Engines /\ db = "up"
    /\ probe' = IF probe = "conversations" THEN "approvals" ELSE "ok"
    /\ UNCHANGED <<lifeVars, lag, stray, task, healthy, age, dbVars>>

\* A query, the pool or a connection comes to its deadline, or the database refuses.
WorkerFails ==
    /\ probe \in Engines /\ db = "away"
    /\ probe' = "failed"
    /\ UNCHANGED <<lifeVars, lag, stray, task, healthy, age, dbVars>>

\* MUTANT: the check goes on in the background and takes the late answer for its own.
StrayEnds_Heard ==
    /\ stray \in Engines
    /\ stray' = "none"
    /\ healthy' = (db = "up")
    /\ UNCHANGED <<lifeVars, probe, lag, task, age, dbVars>>

\* The query that close left behind ends by its answer or its deadline, and nobody hears
\* of it.  A worker that came to its engine only after dispose has opened a connection in
\* the new pool, where it stays.
StrayEnds ==
    /\ stray \in Engines
    /\ stray' \in IF stray \in pools THEN {"none"} ELSE {"none", "connection"}
    /\ UNCHANGED <<lifeVars, probe, lag, task, healthy, age, dbVars>>

\* MUTANT: a success does not mend what a failure broke.
CheckSucceeds_StaysSick ==
    /\ probe = "ok"
    /\ probe' = "idle"
    /\ age' = 0
    /\ lag' = 0
    /\ healthy' = IF phase = "check" THEN TRUE ELSE healthy
    /\ UNCHANGED <<lifeVars, stray, task, dbVars>>

CheckSucceeds ==
    /\ probe = "ok"
    /\ probe' = "idle" /\ lag' = 0
    /\ healthy' = TRUE /\ age' = 0
    /\ UNCHANGED <<lifeVars, stray, task, dbVars>>

\* MUTANT: a failed check counts as a check.
CheckFails_Refreshes ==
    /\ probe = "failed"
    /\ probe' = "idle" /\ lag' = 0
    /\ age' = 0
    /\ UNCHANGED <<lifeVars, stray, task, healthy, dbVars>>

CheckFails ==
    /\ probe = "failed"
    /\ probe' = "idle" /\ lag' = 0
    /\ healthy' = FALSE
    /\ UNCHANGED <<lifeVars, stray, task, age, dbVars>>

Older(n, limit) == IF n < limit THEN n + 1 ELSE limit

\* Time passes; what a worker brought waits for the event loop, but not too long.
Tick ==
    /\ IF probe \in Waiting THEN lag < Lag /\ lag' = lag + 1 ELSE UNCHANGED lag
    /\ phase = "check" => probe # "idle"
    /\ age' = Older(age, MaxAge)
    /\ down' = IF db = "up" THEN 0 ELSE Older(down, MaxAge + Lag)
    /\ UNCHANGED <<lifeVars, probe, stray, task, healthy, db>>

\* EXTERNAL: the database goes away and comes back.
DatabaseGoes ==
    /\ db = "up"
    /\ db' = "away" /\ down' = 0
    /\ UNCHANGED <<lifeVars, probeVars>>

DatabaseReturns ==
    /\ db = "away"
    /\ db' = "up" /\ down' = 0
    /\ UNCHANGED <<lifeVars, probeVars>>

Start == OpenConversations \/ OpenApprovals \/ OpenRefused \/ ProbeStarted \/ ProbeRefused
         \/ RuntimeStarted \/ RuntimeRefused \/ Serve \/ AssembleFails
Stop  == Close \/ CancelTasks \/ UndoRuntime \/ UndoProbe \/ UndoPool \/ Exit
Check == Probe \/ WorkerAnswers \/ WorkerFails \/ CheckSucceeds \/ CheckFails
         \/ StrayEnds

Next == Start \/ LoseRuntime \/ RuntimeDies \/ Drain \/ Stop \/ Check \/ Tick
        \/ DatabaseGoes \/ DatabaseReturns

\* Each step of starting and stopping returns or raises, each query has a deadline, and
\* the task's sleep ends; nobody must shut the service down or bring the database back.
Fairness == WF_vars(Start) /\ WF_vars(Stop) /\ WF_vars(Check) /\ WF_vars(Tick)

Spec     == Init /\ [][Next]_vars
FairSpec == Spec /\ Fairness

-----------------------------------------------------------------------------
\* Every variable has its type.
TypeOK ==
    /\ phase \in Phases
    /\ stack \in Seq(Undo)
    /\ pools \subseteq Engines
    /\ runtime \in {"off", "on"}
    /\ started \in BOOLEAN
    /\ accepting \in BOOLEAN
    /\ probe \in Probes
    /\ lag \in 0 .. Lag
    /\ stray \in Engines \cup {"none", "connection"}
    /\ task \in {"none", "running", "over"}
    /\ healthy \in BOOLEAN
    /\ age \in 0 .. MaxAge
    /\ db \in {"up", "away"}
    /\ down \in 0 .. MaxAge + Lag

\* GET /ready never reports a database that has been silent for max_age and the delay of
\* the event loop, however long a probe hangs: the success it rests on is stamped when the
\* loop picks it up (DependencyReadiness: one background probe, requests only read).
ReadyIsRecent == Ready => down < MaxAge + Lag

\* Once readiness.close has run, or while an engine is not open, no check begins or is
\* waited for, and the process is not healthy: not even by the late answer of a worker
\* whose check close cut off.  That worker itself may still be in its query when its
\* engine is disposed of (the order of the exit stack, run_in_threadpool).
ProbeIsSilent ==
    task = "over" \/ pools # Engines => probe = "idle" /\ task # "running" /\ ~healthy

\* However the process came to its end, it leaves no engine, no probe task and no readiness
\* behind, a Codex process only if each try to close it raised, and of the probe only
\* what a check that close cut off may leave (lifespan).
DownIsClean ==
    phase = "down" =>
        /\ pools = {} /\ task # "running" /\ ~healthy
        /\ runtime = "on" => started
        /\ stray # "none" => task = "over"

\* Every start ends in a serving or a stopped process and every shutdown in a stopped
\* one in which no query runs any more, with the database there or not, and also if a
\* close raises (lifespan, the deadlines of DatabasePolicy).
ComesToRest == phase # "serving" ~> phase = "serving" \/ (phase = "down" /\ stray \notin Engines)

\* A database that comes back is noticed without a restart (DependencyReadiness._run).
RecoveryShows == <>[](db = "up" /\ phase = "serving" /\ accepting) => []<>Ready

=============================================================================
