----------------------------- MODULE StreamTurn ------------------------------
(***************************************************************************)
(* One streamed turn from admission to the client: open_stream submits     *)
(* produce() (AgentService), which pumps the notifications of              *)
(* CodexRuntime.stream_turn, mapped by CodexEventMapper, into the          *)
(* subscription, and its exception decides what admission does next.       *)
(* The turn itself runs in the runtime, out of the pump's sight.           *)
(***************************************************************************)
EXTENDS EventSubscription

VARIABLES turn,       \* the turn in the runtime
          pump,       \* where produce() is
          seen,       \* completed in stream_turn: a turn.completed was mapped
          entry,      \* the conversation is in the admission table
          accepting   \* admission is open

turnVars == <<turn, pump, seen, entry, accepting>>
streamVars == <<subVars, turnVars>>

\* turn.completed, by the status it carries.  What other events there are is a matter
\* of the instance (Kinds).
Terminal == {"completed", "failed"}

ASSUME TerminalAssumption == Terminal \subseteq Kinds

StreamInit ==
    /\ SubInit
    /\ turn = "none"
    /\ pump = "none"
    /\ seen = FALSE
    /\ entry = FALSE
    /\ accepting = TRUE

-----------------------------------------------------------------------------
\* submit: the conversation is entered and produce() becomes a task.  A refusal leaves
\* no trace.
Open ==
    /\ pump = "none" /\ accepting
    /\ pump' = "created"
    /\ entry' = TRUE
    /\ UNCHANGED <<subVars, turn, seen, accepting>>

\* thread_resume has answered and thread.turn is on its way to the runtime.
Ask ==
    /\ pump = "created" /\ turn = "none"
    /\ turn' = "requested"
    /\ UNCHANGED <<subVars, pump, seen, entry, accepting>>

\* The runtime starts to work, whether or not the pump still waits for its answer.
TurnBegins ==
    /\ turn = "requested"
    /\ turn' = "running"
    /\ UNCHANGED <<subVars, pump, seen, entry, accepting>>

\* thread.turn has returned: the pump reads the notifications.
TurnStart ==
    /\ pump = "created" /\ turn \notin {"none", "requested"}
    /\ pump' = "streaming"
    /\ UNCHANGED <<subVars, turn, seen, entry, accepting>>

\* The turn ends in the runtime, whoever listens.
TurnEnds ==
    /\ turn = "running"
    /\ turn' \in Terminal
    /\ UNCHANGED <<subVars, pump, seen, entry, accepting>>

\* A notification that the mapper turns into an event.
Notify ==
    /\ pump = "streaming" /\ ~seen
    /\ Len(published) < MaxEvents - 1
    /\ \E e \in Kinds \ Terminal : Publish(e)
    /\ UNCHANGED turnVars

\* MUTANT: the status is left out and every end reads as a success.
NotifyEnd_AlwaysCompleted ==
    /\ pump = "streaming" /\ turn \in Terminal /\ ~seen
    /\ seen' = TRUE
    /\ Publish("completed")
    /\ UNCHANGED <<turn, pump, entry, accepting>>

\* turn/completed becomes turn.completed whatever the turn's status.
NotifyEnd ==
    /\ pump = "streaming" /\ turn \in Terminal /\ ~seen
    /\ seen' = TRUE
    /\ Publish(turn)
    /\ UNCHANGED <<turn, pump, entry, accepting>>

\* The pump is done and execute's finally block frees the conversation.
PumpEnds(err, open) ==
    /\ FinishWith(err)
    /\ pump' = "ended"
    /\ entry' = FALSE
    /\ accepting' = open
    /\ UNCHANGED <<turn, seen>>

\* The notifications end after a turn.completed.
StreamEnds ==
    /\ pump = "streaming" /\ seen
    /\ PumpEnds(NoError, accepting)

\* MUTANT: the end of the notifications is the end of the turn.
StreamBreaks_TrustsEof ==
    /\ pump = "streaming" /\ ~seen
    /\ PumpEnds(NoError, accepting)

\* MUTANT: an incomplete stream is a confirmed failure, reported but not doubted.
StreamBreaks_NoDoubt ==
    /\ pump = "streaming" /\ ~seen
    /\ PumpEnds("RUNTIME_UNAVAILABLE", accepting)

\* They end without one: INCOMPLETE_RUNTIME_STREAM.
StreamBreaks ==
    /\ pump = "streaming" /\ ~seen
    /\ PumpEnds("RUNTIME_UNAVAILABLE", FALSE)

\* The operation's deadline, the cancellation at shutdown, or an exception of the SDK:
\* from thread_resume on, and even after turn.completed.
PumpFails ==
    /\ pump \in {"created", "streaming"}
    /\ PumpEnds("RUNTIME_UNAVAILABLE", FALSE)

-----------------------------------------------------------------------------
Client == (ReaderStep \/ HangUp) /\ UNCHANGED turnVars

\* What goes on without a new event; Open, Notify and TurnEnds are left to the module
\* that knows who asks and what a turn does.
Server == \/ Ask \/ TurnBegins \/ TurnStart
          \/ NotifyEnd \/ StreamEnds \/ StreamBreaks \/ PumpFails \/ Client

\* The runtime works and says so, and the pump runs.  Nobody makes the client read, and
\* no deadline has to fire.
StreamFairness ==
    /\ WF_streamVars(Ask)
    /\ WF_streamVars(TurnBegins)
    /\ WF_streamVars(TurnStart)
    /\ WF_streamVars(TurnEnds)
    /\ WF_streamVars(NotifyEnd)
    /\ WF_streamVars(StreamEnds)

-----------------------------------------------------------------------------
StreamTypeOK ==
    /\ SubTypeOK
    /\ turn \in {"none", "requested", "running"} \cup Terminal
    /\ pump \in {"none", "created", "streaming", "ended"}
    /\ seen \in BOOLEAN /\ entry \in BOOLEAN /\ accepting \in BOOLEAN

Got(e) == \E n \in 1 .. Len(received) : received[n] = e

\* A conversation that is free while admission is open has no turn running in the
\* runtime, nor one that may yet begin there because nobody heard the answer to
\* thread.turn: an end nobody confirmed closes admission in the same step (produce, execute).
FreeMeansAtRest == ~entry /\ accepting => turn \notin {"requested", "running"}

\* A client that reads to the end of its stream, is shown no error and still holds no
\* turn.completed does not exist: EOF alone never follows a partial answer.
CleanEndHasVerdict ==
    reader = "returned" /\ (\A e \in Errors : ~Got(e)) => Got(turn) /\ turn \in Terminal

\* The client's success is the runtime's success, and a client that is told
\* RUNTIME_UNAVAILABLE finds the service refusing work, not silently continuing.
VerdictsAgree ==
    /\ Got("completed") => turn = "completed"
    /\ Got("RUNTIME_UNAVAILABLE") => ~accepting

\* A client that stopped reading does not hold its conversation: the pump gets to the
\* end of the turn without the client's help (publish never waits).
EntryIsFreed == entry ~> ~entry

=============================================================================
