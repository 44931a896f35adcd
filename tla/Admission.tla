------------------------------ MODULE Admission ------------------------------
(***************************************************************************)
(* AdmissionController (app/runtime/admission.py) on its event loop, with  *)
(* the runtime operations its tasks start, the HTTP clients that wait for  *)
(* them, and the shutdown sequence of app/core/lifespan.py.                *)
(*                                                                         *)
(* A step is what runs between two awaits.  A task is created by submit    *)
(* and runs later; what it started in the runtime can outlive it.          *)
(***************************************************************************)
EXTENDS Naturals, FiniteSets

CONSTANTS Keys,    \* conversation ids
          Tasks,   \* BOUND: identities of execution tasks, reused once spent
          Limit,   \* max_active
          None     \* a free entry of _tasks

ASSUME AdmissionAssumption ==
    /\ Limit \in Nat \ {0}
    /\ IsFiniteSet(Tasks)
    /\ None \notin Tasks \cup Keys

VARIABLES accepting,  \* _accepting
          table,      \* _tasks: the task that owns each conversation
          task,       \* each execution task: where execute() is
          remote,     \* the operation each task started in the runtime
          client,     \* the HTTP request that waits for each task
          runtime,    \* the Codex process
          phase,      \* the lifespan's position
          pending     \* drain's snapshot of the tasks to wait for

vars == <<accepting, table, task, remote, client, runtime, phase, pending>>

-----------------------------------------------------------------------------
TaskPcs   == {"idle", "created", "running", "cancelling"}
Remotes   == {"none", "live", "completed", "failed"}
Clients   == {"none", "waiting", "gone", "ok", "turn_failed", "unavailable"}
Phases    == {"serving", "draining", "closing", "cancelling", "gathering", "stopped"}

Task == [pc : TaskPcs, key : Keys \cup {None}]

IdleTask == [pc |-> "idle", key |-> None]

Active == {k \in Keys : table[k] # None}

Live(t) == remote[t] = "live"

\* The finally block of execute: the entry goes, what the runtime does goes on.
\* A client that is gone is told nothing.
Finish(t, answer) ==
    /\ table' = [table EXCEPT ![task[t].key] = None]
    /\ task' = [task EXCEPT ![t] = IF Live(t) THEN [@ EXCEPT !.pc = "idle"] ELSE IdleTask]
    /\ remote' = [remote EXCEPT ![t] = IF Live(t) THEN "live" ELSE "none"]
    /\ client' = [client EXCEPT ![t] = IF @ = "waiting" THEN answer ELSE "none"]

-----------------------------------------------------------------------------
Init ==
    /\ accepting = TRUE
    /\ table = [k \in Keys |-> None]
    /\ task = [t \in Tasks |-> IdleTask]
    /\ remote = [t \in Tasks |-> "none"]
    /\ client = [t \in Tasks |-> "none"]
    /\ runtime = "up"
    /\ phase = "serving"
    /\ pending = {}

\* MUTANT: no busy check.
Submit_NoBusyCheck(t, k) ==
    /\ task[t] = IdleTask /\ client[t] = "none"
    /\ accepting
    /\ Cardinality(Active) < Limit
    /\ table' = [table EXCEPT ![k] = t]
    /\ task' = [task EXCEPT ![t] = [pc |-> "created", key |-> k]]
    /\ client' = [client EXCEPT ![t] = "waiting"]
    /\ UNCHANGED <<accepting, remote, runtime, phase, pending>>

\* submit: three checks and the reservation, with no await between them.  A refused
\* request leaves no trace.
Submit(t, k) ==
    /\ task[t] = IdleTask /\ client[t] = "none"
    /\ accepting
    /\ table[k] = None
    /\ Cardinality(Active) < Limit
    /\ table' = [table EXCEPT ![k] = t]
    /\ task' = [task EXCEPT ![t] = [pc |-> "created", key |-> k]]
    /\ client' = [client EXCEPT ![t] = "waiting"]
    /\ UNCHANGED <<accepting, remote, runtime, phase, pending>>

\* The event loop gives the task its first step.
Start(t) ==
    /\ task[t].pc = "created"
    /\ task' = [task EXCEPT ![t].pc = "running"]
    /\ UNCHANGED <<accepting, table, remote, client, runtime, phase, pending>>

\* operation() reaches the runtime.
RemoteBegin(t) ==
    /\ task[t].pc = "running"
    /\ remote[t] = "none"
    /\ runtime = "up"
    /\ remote' = [remote EXCEPT ![t] = "live"]
    /\ UNCHANGED <<accepting, table, task, client, runtime, phase, pending>>

\* The runtime reaches a terminal state, whether or not anybody still waits for it.
RemoteEnd(t) ==
    /\ Live(t)
    /\ IF task[t].pc = "idle"
       THEN /\ remote' = [remote EXCEPT ![t] = "none"]
            /\ task' = [task EXCEPT ![t] = IdleTask]
       ELSE /\ \E r \in {"completed", "failed"} : remote' = [remote EXCEPT ![t] = r]
            /\ UNCHANGED task
    /\ UNCHANGED <<accepting, table, client, runtime, phase, pending>>

Succeed(t) ==
    /\ task[t].pc = "running"
    /\ remote[t] = "completed"
    /\ Finish(t, "ok")
    /\ UNCHANGED <<accepting, runtime, phase, pending>>

\* ExecutionFailed: the runtime confirmed the end; admission stays as it was.
FailConfirmed(t) ==
    /\ task[t].pc = "running"
    /\ remote[t] = "failed"
    /\ Finish(t, "turn_failed")
    /\ UNCHANGED <<accepting, runtime, phase, pending>>

\* MUTANT: an unknown end frees the entry and leaves admission open.
FailUnknown_KeepsAccepting(t) ==
    /\ task[t].pc = "running"
    /\ Finish(t, "unavailable")
    /\ UNCHANGED <<accepting, runtime, phase, pending>>

\* MUTANT: no asyncio.timeout around the operation.
FailUnknown_NoDeadline(t) ==
    /\ task[t].pc = "running"
    /\ ~Live(t)
    /\ accepting' = FALSE
    /\ Finish(t, "unavailable")
    /\ UNCHANGED <<runtime, phase, pending>>

\* The operation's deadline or any other exception: the remote end is not known.
FailUnknown(t) ==
    /\ task[t].pc = "running"
    /\ accepting' = FALSE
    /\ Finish(t, "unavailable")
    /\ UNCHANGED <<runtime, phase, pending>>

\* MUTANT: the lease is the client's.
Disconnect_FreesEntry(t) ==
    /\ client[t] = "waiting"
    /\ task[t].pc = "running"
    /\ Finish(t, "unavailable")
    /\ UNCHANGED <<accepting, runtime, phase, pending>>

\* The client hangs up: run() is cancelled, the shielded task is not.
Disconnect(t) ==
    /\ client[t] = "waiting"
    /\ client' = [client EXCEPT ![t] = "gone"]
    /\ UNCHANGED <<accepting, table, task, remote, runtime, phase, pending>>

\* The response is sent; the slot of a spent task is free again.
Respond(t) ==
    /\ client[t] \in {"ok", "turn_failed", "unavailable"}
    /\ client' = [client EXCEPT ![t] = "none"]
    /\ UNCHANGED <<accepting, table, task, remote, runtime, phase, pending>>

-----------------------------------------------------------------------------
\* The lifespan's finally block: drain, runtime.close, cancel_after_runtime_closed.
StartDrain ==
    /\ phase = "serving"
    /\ accepting' = FALSE
    /\ pending' = {table[k] : k \in Active}
    /\ phase' = IF Active = {} THEN "closing" ELSE "draining"
    /\ UNCHANGED <<table, task, remote, client, runtime>>

DrainDone ==
    /\ phase = "draining"
    /\ \A t \in pending : task[t].pc = "idle"
    /\ phase' = "closing"
    /\ UNCHANGED <<accepting, table, task, remote, client, runtime, pending>>

\* The shutdown deadline.  The first steps of the tasks in the snapshot were queued on
\* the loop before this timer, so they have run.
DrainTimeout ==
    /\ phase = "draining"
    /\ \A t \in pending : task[t].pc # "created"
    /\ \E t \in pending : task[t].pc # "idle"
    /\ phase' = "closing"
    /\ UNCHANGED <<accepting, table, task, remote, client, runtime, pending>>

\* runtime.close ends the Codex process and every operation in it ...
CloseRuntime ==
    /\ phase = "closing"
    /\ runtime' = "closed"
    /\ phase' = "cancelling"
    /\ remote' = [t \in Tasks |-> IF Live(t) THEN "none" ELSE remote[t]]
    /\ task' = [t \in Tasks |-> IF task[t].pc = "idle" THEN IdleTask ELSE task[t]]
    /\ UNCHANGED <<accepting, table, client, pending>>

\* ... or raises, and the finally block goes on all the same.
CloseFails ==
    /\ phase = "closing"
    /\ phase' = "cancelling"
    /\ UNCHANGED <<accepting, table, task, remote, client, runtime, pending>>

\* Every task in the table is cancelled; one that never started has no finally to run.
CancelAll ==
    /\ phase = "cancelling"
    /\ phase' = "gathering"
    /\ LET owners == {table[k] : k \in Active} IN
       task' = [t \in Tasks |->
                   CASE t \in owners /\ task[t].pc = "running" ->
                            [task[t] EXCEPT !.pc = "cancelling"]
                     [] t \in owners /\ task[t].pc = "created" -> IdleTask
                     [] OTHER -> task[t]]
    /\ UNCHANGED <<accepting, table, remote, client, runtime, pending>>

\* CancelledError inside execute: admission closes and the entry goes.
Cancelled(t) ==
    /\ task[t].pc = "cancelling"
    /\ accepting' = FALSE
    /\ Finish(t, "unavailable")
    /\ UNCHANGED <<runtime, phase, pending>>

\* MUTANT: the tasks are cancelled and not awaited.
Gathered_NoWait ==
    /\ phase = "gathering"
    /\ phase' = "stopped"
    /\ UNCHANGED <<accepting, table, task, remote, client, runtime, pending>>

\* MUTANT: the wait is for the runtime's operations, which a failed close leaves.
Gathered_WaitsForRuntime ==
    /\ phase = "gathering"
    /\ \A t \in Tasks : task[t].pc = "idle" /\ ~Live(t)
    /\ phase' = "stopped"
    /\ UNCHANGED <<accepting, table, task, remote, client, runtime, pending>>

Gathered ==
    /\ phase = "gathering"
    /\ \A t \in Tasks : task[t].pc = "idle"
    /\ phase' = "stopped"
    /\ UNCHANGED <<accepting, table, task, remote, client, runtime, pending>>

-----------------------------------------------------------------------------
TaskStep(t) ==
    \/ Start(t) \/ RemoteBegin(t) \/ Succeed(t) \/ FailConfirmed(t) \/ FailUnknown(t)
    \/ Cancelled(t)

Shutdown == DrainDone \/ DrainTimeout \/ CloseRuntime \/ CloseFails \/ CancelAll \/ Gathered

Next ==
    \/ \E t \in Tasks : \/ \E k \in Keys : Submit(t, k)
                        \/ TaskStep(t)
                        \/ RemoteEnd(t)
                        \/ Disconnect(t)
                        \/ Respond(t)
    \/ StartDrain
    \/ Shutdown

Spec == Init /\ [][Next]_vars

\* The event loop runs what is ready, asyncio.timeout ends every operation, and the
\* shutdown sequence goes on.  Neither clients nor the runtime owe us a step.
Fairness ==
    /\ \A t \in Tasks : /\ WF_vars(Start(t))
                        /\ WF_vars(FailUnknown(t))
                        /\ WF_vars(Cancelled(t))
                        /\ WF_vars(Respond(t))
    /\ WF_vars(Shutdown)

FairSpec == Spec /\ Fairness

-----------------------------------------------------------------------------
\* Every variable has its type.
TypeOK ==
    /\ accepting \in BOOLEAN
    /\ table \in [Keys -> Tasks \cup {None}]
    /\ task \in [Tasks -> Task]
    /\ remote \in [Tasks -> Remotes]
    /\ client \in [Tasks -> Clients]
    /\ runtime \in {"up", "closed"}
    /\ phase \in Phases
    /\ pending \subseteq Tasks

\* The runtime never works twice at once on a conversation, counting operations whose
\* task timed out and whose client left (submit, execute).
OneLivePerConversation ==
    \A t, u \in Tasks : Live(t) /\ Live(u) /\ task[t].key = task[u].key => t = u

\* The runtime never works on more than max_active conversations, whether or not the
\* tasks that asked for the work still wait for it (submit, execute).
WithinLimit == Cardinality({task[t].key : t \in {u \in Tasks : Live(u)}}) <= Limit

\* While /ready says yes, nothing runs in the runtime that the table does not show:
\* an operation with an unknown end closes admission in the very step that frees its
\* entry (execute, ready).
AcceptingMeansAccountedFor ==
    accepting => \A t \in Tasks : Live(t) => table[task[t].key] = t

\* After the shutdown nothing is left: no entry, no task and, unless closing the
\* runtime itself failed, no operation (lifespan).
StoppedIsQuiet ==
    phase = "stopped" =>
        /\ Active = {}
        /\ \A t \in Tasks : task[t].pc = "idle"
        /\ runtime = "closed" => \A t \in Tasks : ~Live(t)

\* What the docstring of cancel_after_runtime_closed asks of its callers.
CancelOnlyAfterClose == (\E t \in Tasks : task[t].pc = "cancelling") => runtime = "closed"

\* Every accepted operation gives its conversation back, even if the runtime never
\* answers (execute's timeout).
EntriesAreFreed == \A k \in Keys : table[k] # None ~> table[k] = None

\* A shutdown that began comes to its end, whatever the tasks and the runtime do.
ShutdownEnds == phase # "serving" ~> phase = "stopped"

\* Admission implements the bounded lease: a task holds its conversation while it, or the
\* operation of the runtime it left behind, is on it.
Lease == INSTANCE ConversationLease WITH
    Operations <- Tasks,
    open       <- accepting,
    held       <- [k \in Keys |-> {t \in Tasks : task[t].key = k}]

ImplementsLease == Lease!Spec

=============================================================================
