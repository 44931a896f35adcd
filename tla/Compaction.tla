------------------------------ MODULE Compaction ------------------------------
(***************************************************************************)
(* Operations on the thread of one conversation, seen from the admission   *)
(* entry they hold: a turn (CodexRuntime.run_turn), which is answered with *)
(* its end, and a compaction (CodexRuntime.compact_thread), which is only  *)
(* acknowledged.  compact_thread therefore remembers the turns it found,   *)
(* asks for the compaction and reads the thread again and again until a    *)
(* turn it did not find before has ended.                                  *)
(***************************************************************************)
EXTENDS Naturals, Sequences

CONSTANTS MaxCalls,  \* BOUND: operations on the conversation
          None       \* no request

ASSUME CompactionAssumption == MaxCalls \in Nat

VARIABLES op,        \* where the operation that holds the entry is; idle: the entry is free
          answers,   \* what the caller of each finished operation was told
          asked,     \* the request the runtime has not turned into a turn yet
          turns,     \* the turns of the thread, oldest first; ids are positions
          previous,  \* previous_ids
          view,      \* the snapshot the last read returned
          accepting  \* admission is open

vars == <<op, answers, asked, turns, previous, view, accepting>>

-----------------------------------------------------------------------------
Ops      == {"idle", "chatting", "snapping", "asking", "polling", "looking"}
Answers  == {"chatted", "compacted", "failed", "unknown"}
Kinds    == {"chat", "compaction"}
BadEnds  == {"failed", "interrupted"}
Ends     == BadEnds \cup {"completed"}

Calls    == 1 .. MaxCalls
Requests == [by : Calls, kind : Kinds]
Turns    == [by : Calls, kind : Kinds, status : Ends \cup {"inProgress"}]

\* The operation in hand, numbered by those that ended before it.
Current == Len(answers) + 1

Init ==
    /\ op = "idle"
    /\ answers = << >>
    /\ asked = None
    /\ turns = << >>
    /\ previous = {}
    /\ view = << >>
    /\ accepting = TRUE

\* The operation ends, its caller is told how, and the conversation is free again.
End(answer, open) ==
    /\ op' = "idle"
    /\ answers' = Append(answers, answer)
    /\ accepting' = open
    /\ previous' = {}
    /\ view' = << >>

Admitted == op = "idle" /\ accepting /\ Current <= MaxCalls

-----------------------------------------------------------------------------
\* run_turn: the message is sent to the thread.
BeginChat ==
    /\ Admitted
    /\ op' = "chatting"
    /\ asked' = [by |-> Current, kind |-> "chat"]
    /\ UNCHANGED <<answers, turns, previous, view, accepting>>

\* thread.run returns with the turn it started, once that has ended.
EndChat ==
    /\ op = "chatting"
    /\ \E i \in DOMAIN turns :
         /\ turns[i].by = Current /\ turns[i].status \in Ends
         /\ End(IF turns[i].status = "completed" THEN "chatted" ELSE "failed", accepting)
    /\ UNCHANGED <<asked, turns>>

BeginCompact ==
    /\ Admitted
    /\ op' = "snapping"
    /\ UNCHANGED <<answers, asked, turns, previous, view, accepting>>

\* The first read returns, and the compaction is asked for.
Snapshot ==
    /\ op = "snapping"
    /\ op' = "asking"
    /\ previous' = DOMAIN turns
    /\ asked' = [by |-> Current, kind |-> "compaction"]
    /\ UNCHANGED <<answers, turns, view, accepting>>

\* MUTANT: the turns are noted only when the compaction is under way.
Acknowledge_Notes ==
    /\ op = "asking"
    /\ op' = "polling"
    /\ previous' = DOMAIN turns
    /\ UNCHANGED <<answers, asked, turns, view, accepting>>

\* compact() is acknowledged, be the turn there or not.
Acknowledge ==
    /\ op = "asking"
    /\ op' = "polling"
    /\ UNCHANGED <<answers, asked, turns, previous, view, accepting>>

ReadThread ==
    /\ op = "polling"
    /\ op' = "looking"
    /\ view' = turns
    /\ UNCHANGED <<answers, asked, turns, previous, accepting>>

\* MUTANT: any compaction of the thread will do.
Conclusive_AnyTurn(i) ==
    /\ i \in DOMAIN view
    /\ \/ view[i].status \in BadEnds
       \/ view[i].status = "completed" /\ view[i].kind = "compaction"

\* A turn that was not there before and settles the matter.
Conclusive(i) ==
    /\ i \in DOMAIN view \ previous
    /\ \/ view[i].status \in BadEnds
       \/ view[i].status = "completed" /\ view[i].kind = "compaction"

\* The first conclusive turn of the snapshot decides.
Conclude ==
    /\ op = "looking"
    /\ \E i \in DOMAIN view :
         /\ Conclusive(i)
         /\ \A j \in DOMAIN view : Conclusive(j) => i <= j
         /\ End(IF view[i].status = "completed" THEN "compacted" ELSE "failed", accepting)
    /\ UNCHANGED <<asked, turns>>

\* None is: sleep and read again.
PollAgain ==
    /\ op = "looking"
    /\ \A i \in DOMAIN view : ~Conclusive(i)
    /\ op' = "polling"
    /\ UNCHANGED <<answers, asked, turns, previous, view, accepting>>

\* MUTANT: the conversation is given out again whatever the outcome.
GiveUp_StaysOpen ==
    /\ op # "idle"
    /\ End("unknown", accepting)
    /\ UNCHANGED <<asked, turns>>

\* A call to the runtime fails, or the deadline of admission cuts the operation off; what
\* it asked for goes on.
GiveUp ==
    /\ op # "idle"
    /\ End("unknown", FALSE)
    /\ UNCHANGED <<asked, turns>>

-----------------------------------------------------------------------------
\* EXTERNAL: the runtime starts the turn that was asked for.
RuntimeBegins ==
    /\ asked # None
    /\ turns' = Append(turns, [by |-> asked.by, kind |-> asked.kind, status |-> "inProgress"])
    /\ asked' = None
    /\ UNCHANGED <<op, answers, previous, view, accepting>>

\* EXTERNAL: a turn ends.
RuntimeEnds(i, end) ==
    /\ turns[i].status = "inProgress"
    /\ turns' = [turns EXCEPT ![i].status = end]
    /\ UNCHANGED <<op, answers, asked, previous, view, accepting>>

Chat    == BeginChat \/ EndChat
Compact == BeginCompact \/ Snapshot \/ Acknowledge \/ ReadThread \/ Conclude \/ PollAgain
Runtime == RuntimeBegins \/ \E i \in DOMAIN turns, end \in Ends : RuntimeEnds(i, end)

Next == Chat \/ Compact \/ GiveUp \/ Runtime

\* The runtime answers and brings its turns to an end; no deadline is counted on.
Fairness ==
    /\ WF_vars(EndChat)
    /\ WF_vars(Snapshot) /\ WF_vars(Acknowledge)
    /\ WF_vars(ReadThread) /\ WF_vars(Conclude) /\ WF_vars(PollAgain)
    /\ WF_vars(Runtime)

Spec     == Init /\ [][Next]_vars
FairSpec == Spec /\ Fairness

-----------------------------------------------------------------------------
\* Every variable has its type.
TypeOK ==
    /\ op \in Ops
    /\ answers \in Seq(Answers) /\ Len(answers) <= MaxCalls
    /\ asked \in Requests \cup {None}
    /\ turns \in Seq(Turns)
    /\ previous \subseteq DOMAIN turns
    /\ view \in Seq(Turns) /\ Len(view) <= Len(turns)
    /\ accepting \in BOOLEAN

\* What a caller is told of a compaction or a turn is the end of the turn it asked for,
\* never that of one before it (compact_thread, run_turn).
AnswersAreOwn ==
    \A n \in DOMAIN answers : answers[n] # "unknown" =>
        \E i \in DOMAIN turns :
            /\ turns[i].by = n
            /\ turns[i].kind = (IF answers[n] = "chatted" THEN "chat"
                                ELSE IF answers[n] = "compacted" THEN "compaction"
                                ELSE turns[i].kind)
            /\ IF answers[n] = "failed" THEN turns[i].status \in BadEnds
                                        ELSE turns[i].status = "completed"

\* A conversation that is given out again is at rest: every turn has ended and none is on
\* its way (the comment of compact_thread, "RPC acknowledgement is not completion").
FreeMeansQuiet ==
    op = "idle" /\ accepting =>
        /\ asked = None
        /\ \A i \in DOMAIN turns : turns[i].status \in Ends

\* The poll cannot miss its own turn: once a snapshot shows that turn ended, however it
\* ended, the snapshot is conclusive; and no other turn makes it so (compact_thread).
OwnEndIsSeen ==
    op = "looking" => \A i \in DOMAIN view :
        Conclusive(i) <=> turns[i].by = Current /\ view[i].status \in Ends

-----------------------------------------------------------------------------
\* Each operation comes to an end because the poll notices the end of its turn, however
\* that turn ends, and not only because a deadline cuts it off (compact_thread).
OperationsEnd == op # "idle" ~> op = "idle"

=============================================================================
