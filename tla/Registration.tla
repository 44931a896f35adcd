----------------------------- MODULE Registration -----------------------------
(***************************************************************************)
(* Creating a conversation: AgentService._create_conversation starts a     *)
(* thread in the Codex runtime, stores its row in PostgreSQL and archives  *)
(* the thread again if the row could not be stored.  Both other systems    *)
(* answer late, fail after doing the work, or go on after the operation    *)
(* has given up; the process can be restarted at any moment.               *)
(*                                                                         *)
(* Capacity and the busy check are those of Admission; a conversation id   *)
(* is a fresh uuid, so only the admission flag matters here.               *)
(***************************************************************************)
EXTENDS Naturals

CONSTANTS Keys,         \* conversation ids, one creation each
          Threads,      \* BOUND: threads the runtime can start
          MaxRestarts,  \* BOUND: process restarts
          None          \* no thread

ASSUME RegistrationAssumption ==
    /\ MaxRestarts \in Nat
    /\ None \notin Threads

VARIABLES op,         \* where each creation is, as its task sees it
          start,      \* the thread/start request of each creation
          writer,     \* the thread-pool worker running ConversationRepository.create
          archive,    \* the thread/archive request of each creation
          born,       \* the thread each creation was given
          thread,     \* the threads of the runtime, kept on its disk
          row,        \* the conversations table: the thread of each conversation
          accepting,  \* admission is open
          restarts    \* restarts so far

vars == <<op, start, writer, archive, born, thread, row, accepting, restarts>>

-----------------------------------------------------------------------------
Ops     == {"new", "starting", "inserting", "archiving", "created", "failed", "lost"}
Running == {"starting", "inserting", "archiving"}

Init ==
    /\ op = [k \in Keys |-> "new"]
    /\ start = [k \in Keys |-> "none"]
    /\ writer = [k \in Keys |-> "none"]
    /\ archive = [k \in Keys |-> "none"]
    /\ born = [k \in Keys |-> None]
    /\ thread = [t \in Threads |-> "none"]
    /\ row = [k \in Keys |-> None]
    /\ accepting = TRUE
    /\ restarts = 0

\* create_conversation passes admission; create_thread sends its request.
Create(k) ==
    /\ op[k] = "new" /\ accepting
    /\ op' = [op EXCEPT ![k] = "starting"]
    /\ start' = [start EXCEPT ![k] = "sent"]
    /\ UNCHANGED <<writer, archive, born, thread, row, accepting, restarts>>

\* EXTERNAL: the runtime starts a thread, whether or not anybody still waits for it.
RuntimeStarts(k, t) ==
    /\ start[k] = "sent"
    /\ thread[t] = "none"
    /\ start' = [start EXCEPT ![k] = "done"]
    /\ thread' = [thread EXCEPT ![t] = "live"]
    /\ born' = [born EXCEPT ![k] = t]
    /\ UNCHANGED <<op, writer, archive, row, accepting, restarts>>

\* The thread id arrives; create() goes to the thread pool.
Started(k) ==
    /\ op[k] = "starting" /\ start[k] = "done"
    /\ op' = [op EXCEPT ![k] = "inserting"]
    /\ writer' = [writer EXCEPT ![k] = "running"]
    /\ UNCHANGED <<start, archive, born, thread, row, accepting, restarts>>

\* The INSERT commits; a lost acknowledgement makes create() raise all the same.
WriterCommits(k, acked) ==
    /\ writer[k] = "running"
    /\ row' = [row EXCEPT ![k] = born[k]]
    /\ writer' = [writer EXCEPT ![k] = IF acked THEN "stored" ELSE "raised"]
    /\ UNCHANGED <<op, start, archive, born, thread, accepting, restarts>>

WriterFails(k) ==
    /\ writer[k] = "running"
    /\ writer' = [writer EXCEPT ![k] = "raised"]
    /\ UNCHANGED <<op, start, archive, born, thread, row, accepting, restarts>>

\* create() returned: the client is given the conversation id.
Created(k) ==
    /\ op[k] = "inserting" /\ writer[k] = "stored"
    /\ op' = [op EXCEPT ![k] = "created"]
    /\ UNCHANGED <<start, writer, archive, born, thread, row, accepting, restarts>>

\* create() raised: the thread is to be archived.
Compensate(k) ==
    /\ op[k] = "inserting" /\ writer[k] = "raised"
    /\ op' = [op EXCEPT ![k] = "archiving"]
    /\ archive' = [archive EXCEPT ![k] = "sent"]
    /\ UNCHANGED <<start, writer, born, thread, row, accepting, restarts>>

\* EXTERNAL: the runtime archives the thread, in time or later.
RuntimeArchives(k) ==
    /\ archive[k] = "sent"
    /\ archive' = [archive EXCEPT ![k] = "done"]
    /\ thread' = [thread EXCEPT ![born[k]] = "archived"]
    /\ UNCHANGED <<op, start, writer, born, row, accepting, restarts>>

\* MUTANT: the error ends with the compensation, and the service goes on.
Archived_Settled(k) ==
    /\ op[k] = "archiving" /\ archive[k] = "done"
    /\ op' = [op EXCEPT ![k] = "failed"]
    /\ UNCHANGED <<start, writer, archive, born, thread, row, accepting, restarts>>

\* MUTANT: the compensation swallows the error it was for.
Archived_Swallows(k) ==
    /\ op[k] = "archiving" /\ archive[k] = "done"
    /\ op' = [op EXCEPT ![k] = "created"]
    /\ UNCHANGED <<start, writer, archive, born, thread, row, accepting, restarts>>

\* The error goes on after the thread was archived; execute closes admission.
Archived(k) ==
    /\ op[k] = "archiving" /\ archive[k] = "done"
    /\ op' = [op EXCEPT ![k] = "failed"]
    /\ accepting' = FALSE
    /\ UNCHANGED <<start, writer, archive, born, thread, row, restarts>>

\* A request failed, or the operation's deadline cancelled it at its await: nothing is
\* archived for a CancelledError, and the worker and the requests go on.
GivesUp(k) ==
    /\ op[k] \in Running
    /\ op' = [op EXCEPT ![k] = "failed"]
    /\ accepting' = FALSE
    /\ UNCHANGED <<start, writer, archive, born, thread, row, restarts>>

\* The process is restarted: its tasks, workers and requests end, both stores stay.
Restart ==
    /\ restarts < MaxRestarts
    /\ restarts' = restarts + 1
    /\ op' = [k \in Keys |-> IF op[k] \in Running \cup {"failed"} THEN "lost" ELSE op[k]]
    /\ start' = [k \in Keys |-> "none"]
    /\ writer' = [k \in Keys |-> "none"]
    /\ archive' = [k \in Keys |-> "none"]
    /\ accepting' = TRUE
    /\ UNCHANGED <<born, thread, row>>

Step(k) ==
    \/ Create(k)
    \/ \E t \in Threads : RuntimeStarts(k, t)
    \/ Started(k)
    \/ \E acked \in BOOLEAN : WriterCommits(k, acked)
    \/ WriterFails(k)
    \/ Created(k)
    \/ Compensate(k)
    \/ RuntimeArchives(k)
    \/ Archived(k)
    \/ GivesUp(k)

Next == Restart \/ \E k \in Keys : Step(k)

Spec == Init /\ [][Next]_vars

-----------------------------------------------------------------------------
\* Every variable has its type.
TypeOK ==
    /\ op \in [Keys -> Ops]
    /\ start \in [Keys -> {"none", "sent", "done"}]
    /\ writer \in [Keys -> {"none", "running", "stored", "raised"}]
    /\ archive \in [Keys -> {"none", "sent", "done"}]
    /\ born \in [Keys -> Threads \cup {None}]
    /\ thread \in [Threads -> {"none", "live", "archived"}]
    /\ row \in [Keys -> Threads \cup {None}]
    /\ accepting \in BOOLEAN
    /\ restarts \in 0 .. MaxRestarts

\* An id a client was given is good for ever: its row is stored, its thread is live and
\* nobody else's, and no late archive of any creation touches it (_create_conversation).
HandedOutIsUsable ==
    \A k \in Keys : op[k] = "created" =>
        /\ row[k] # None
        /\ thread[row[k]] = "live"
        /\ \A j \in Keys : row[j] = row[k] => j = k

\* While admission is open, the two stores agree about every creation that ended: no
\* thread is left without a row and no row points at an archived or an unknown thread,
\* except for creations that a restart cut off (execute, _create_conversation).
AcceptingMeansSettled ==
    accepting => \A k \in Keys : op[k] \notin Running \cup {"lost"} =>
        /\ born[k] = row[k]
        /\ row[k] # None => op[k] = "created"

\* What was handed out, and what was stored, stays for ever: no late worker, no second
\* answer and no restart takes a conversation back or gives it another thread
\* (_create_conversation, ConversationRepository.create).
StoredForGood ==
    [][\A k \in Keys : /\ row[k] # None => row'[k] = row[k]
                       /\ op[k] = "created" => op'[k] = "created"]_vars

=============================================================================
