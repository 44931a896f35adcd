------------------------------ MODULE Evaluation ------------------------------
(***************************************************************************)
(* One example of an evaluation: LangSmithAgentTarget is the client of a   *)
(* streamed turn (StreamTurn), asks for the approvals afterwards and hands *)
(* what it saw to the evaluators; their scores and those of the other      *)
(* examples go through the gate.                                           *)
(*                                                                         *)
(* The turn calls tools; cancel_order asks the service for a grant, in a   *)
(* handler that goes on when the adapter has given up (CancelFlow).        *)
(***************************************************************************)
EXTENDS StreamTurn, FiniteSets

CONSTANTS Tools,         \* events tool.started, by the tool's name
          Texts,         \* events message.delta, by what the rules look for
          CancelOrder,   \* the tool that needs an approval
          Expectations,  \* inputs and reference outputs an example may have
          OtherRows      \* rows the other examples may have left

\* What an example may ask for, and the rows of an experiment: skipped, an error of the
\* target, or three scores.
Example ==
    [fixture : BOOLEAN, contract : BOOLEAN, least : [Tools -> Nat], forbidden : SUBSET Tools,
     approval : BOOLEAN, any : SUBSET Texts, never : SUBSET Texts]

Scores == [tool_policy : 0 .. 1, approval_policy : 0 .. 1, response_contract : 0 .. 1]
Row    == [status : {"skipped", "error"}] \cup [status : {"completed"}, scores : Scores]

ASSUME EvaluationAssumption ==
    /\ Tools \cup Texts \subseteq Kinds \ Terminal
    /\ CancelOrder \in Tools
    /\ Expectations \subseteq Example
    /\ OtherRows \subseteq Seq(Row)

VARIABLES example,  \* the example: what it needs and what it expects
          phase,    \* where LangSmithAgentTarget.__call__ is
          read,     \* how many records of the stream it has consumed
          ticket,   \* the last cancel_order call of the turn, seen from the adapter
          row,      \* the approval row of this conversation is committed
          rows      \* the rows of the experiment, once this one is in

evalVars == <<example, phase, read, ticket, row, rows>>
allVars  == <<streamVars, evalVars>>

Phases == {"start", "created", "streaming", "listing", "closed"}

EvalInit ==
    /\ StreamInit
    /\ example \in Expectations
    /\ phase = "start"
    /\ read = 0
    /\ ticket = "none"
    /\ row = FALSE
    /\ rows = <<>>

-----------------------------------------------------------------------------
\* The evaluators, over what the target handed out.

Count(seq, k) == Cardinality({n \in DOMAIN seq : seq[n] = k})

ToolPolicy(seq) ==
    /\ \A t \in Tools : Count(seq, t) >= example.least[t]
    /\ \A t \in example.forbidden : Count(seq, t) = 0

ResponseContract(seq) ==
    /\ example.any = {} \/ \E x \in example.any : Count(seq, x) > 0
    /\ \A x \in example.never : Count(seq, x) = 0

\* _execution_guard: without a contract every score is 0.
Score(b) == IF example.contract /\ b THEN 1 ELSE 0

ScoresOf(seq, created) ==
    [tool_policy       |-> Score(ToolPolicy(seq)),
     approval_policy   |-> Score(example.approval = created),
     response_contract |-> Score(ResponseContract(seq))]

\* The gates.

IsGood(r) == r.status = "completed" /\ \A key \in DOMAIN r.scores : r.scores[key] = 1

Failed(s)  == {n \in DOMAIN s : s[n].status # "skipped" /\ ~IsGood(s[n])}
Skipped(s) == {n \in DOMAIN s : s[n].status = "skipped"}

\* MUTANT: skipped examples do not count against the set.
GatePassed_ForgivesSkips(s) == s # <<>> /\ Failed(s) = {}

\* summarize_results; the smoke runner counts alike.
GatePassed(s) == s # <<>> /\ Failed(s) = {} /\ Skipped(s) = {}

-----------------------------------------------------------------------------
\* The end of __call__: a result or an exception, and its row among those of the others.
Close(r) ==
    /\ phase' = "closed"
    /\ \E others \in OtherRows : rows' = Append(others, r)
    /\ UNCHANGED <<example, ticket, row>>

Fails == Close([status |-> "error"])

\* The fixture cannot be verified: no request is made.
Skip ==
    /\ phase = "start" /\ example.fixture
    /\ Close([status |-> "skipped"])
    /\ UNCHANGED <<streamVars, read>>

CreateConversation ==
    /\ phase = "start"
    /\ phase' = "created"
    /\ UNCHANGED <<streamVars, example, read, ticket, row, rows>>

\* The turn is submitted; its response arrives, or does not.
OpenTurn ==
    /\ phase = "created"
    /\ Open
    /\ \/ phase' = "streaming" /\ UNCHANGED <<example, ticket, row, rows>>
       \/ Fails
    /\ UNCHANGED read

\* A request is refused or lost; the stream breaks, or exceeds its deadline or its size.
RequestFails ==
    /\ phase \in {"start", "created", "streaming", "listing"}
    /\ Fails
    /\ UNCHANGED <<streamVars, read>>

\* consume: a record that counts.
Consume ==
    /\ phase = "streaming" /\ read < Len(received)
    /\ received[read + 1] \notin Errors \cup {"failed"}
    /\ read' = read + 1
    /\ phase' = IF received[read + 1] = "completed" THEN "listing" ELSE "streaming"
    /\ UNCHANGED <<streamVars, example, ticket, row, rows>>

\* consume: an error event, or a turn.completed that is no success.
ConsumeFails ==
    /\ phase = "streaming" /\ read < Len(received)
    /\ received[read + 1] \in Errors \cup {"failed"}
    /\ Fails
    /\ UNCHANGED <<streamVars, read>>

\* MUTANT: the end of the body is the end of the turn.
BodyEnds_TrustsEof ==
    /\ phase = "streaming"
    /\ phase' = "listing"
    /\ UNCHANGED <<streamVars, example, read, ticket, row, rows>>

\* The body ends without a turn.completed, by the server or by something in between; an
\* unterminated record is dropped: INCOMPLETE_STREAM.
BodyEnds ==
    /\ phase = "streaming"
    /\ Fails
    /\ UNCHANGED <<streamVars, read>>

\* MUTANT: one page of the whole tenant is searched for the conversation.
ListApprovals_TenantPage ==
    /\ phase = "listing"
    /\ \E onPage \in BOOLEAN :
           Close([status |-> "completed",
                  scores |-> ScoresOf(SubSeq(received, 1, read), row /\ onPage)])
    /\ UNCHANGED <<streamVars, read>>

\* The approvals of this conversation, then to_output and the evaluators.
ListApprovals ==
    /\ phase = "listing"
    /\ Close([status |-> "completed", scores |-> ScoresOf(SubSeq(received, 1, read), row)])
    /\ UNCHANGED <<streamVars, read>>

Target == \/ Skip \/ CreateConversation \/ OpenTurn \/ RequestFails
          \/ Consume \/ ConsumeFails \/ BodyEnds \/ ListApprovals

-----------------------------------------------------------------------------
\* The agent's side.

\* A notification.  With tool.started of cancel_order the adapter may ask for a grant;
\* if the notification comes late, the call is over.
Work ==
    /\ Notify
    /\ IF published'[Len(published')] = CancelOrder
       THEN \/ UNCHANGED <<ticket, row>>
            \/ turn = "running" /\ ticket' = "asked" /\ UNCHANGED row
            \/ turn # "running" /\ ticket' = "abandoned" /\ UNCHANGED row
            \/ turn # "running" /\ ticket' = "answered" /\ row' = TRUE
       ELSE UNCHANGED <<ticket, row>>
    /\ UNCHANGED <<example, phase, read, rows>>

\* The handler of prepare commits the row, whether or not the adapter still waits.
HandlerCommits ==
    /\ ticket \in {"asked", "abandoned"} /\ ~row
    /\ row' = TRUE
    /\ UNCHANGED <<streamVars, example, phase, read, ticket, rows>>

\* The adapter gets its answer, which is PENDING ...
HandlerAnswers ==
    /\ ticket = "asked" /\ row
    /\ ticket' = "answered"
    /\ UNCHANGED <<streamVars, example, phase, read, row, rows>>

\* ... or gives up on it (EXECUTION_AUTHORIZATION_UNAVAILABLE).
AdapterGivesUp ==
    /\ ticket = "asked"
    /\ ticket' = "abandoned"
    /\ UNCHANGED <<streamVars, example, phase, read, row, rows>>

\* A turn completes when its tool calls are over; it may fail at any time.
Ends ==
    /\ TurnEnds
    /\ turn' = "completed" => ticket # "asked"
    /\ UNCHANGED evalVars

Agent ==
    \/ Work \/ HandlerCommits \/ HandlerAnswers \/ AdapterGivesUp \/ Ends
    \/ Server /\ UNCHANGED evalVars

EvalNext == Target \/ Agent

EvalSpec == EvalInit /\ [][EvalNext]_allVars /\ StreamFairness

-----------------------------------------------------------------------------
EvalTypeOK ==
    /\ StreamTypeOK
    /\ example \in Example
    /\ phase \in Phases
    /\ read \in 0 .. Len(received)
    /\ ticket \in {"none", "asked", "answered", "abandoned"}
    /\ row \in BOOLEAN
    /\ rows \in Seq(Row)

\* A gate that opens speaks about the agent and not about the client: this example's
\* turn really ended in success, and the runtime's own account of it, not only the part
\* that reached the target, meets the tool rules and the rules for the answer.  No
\* break, overflow, error or skip is scored as a pass (consume, _stream_turn,
\* _execution_guard, summarize_results).
PassedIsTrue ==
    phase = "closed" /\ GatePassed(rows) =>
        /\ turn = "completed" /\ example.contract
        /\ \A t \in Tools : Count(published, t) >= example.least[t]
        /\ \A t \in example.forbidden \cup example.never : Count(published, t) = 0
        /\ example.any # {} => \E x \in example.any : Count(published, x) > 0

\* A passing approval score is about what the turn did: an approval that was expected is
\* in the table, and one that was not expected can be there only if it was committed
\* by a handler the adapter had given up on (__call__, list_approvals with its filter).
ApprovalScoreIsTrue ==
    phase = "closed" /\ rows[Len(rows)].status = "completed"
        /\ rows[Len(rows)].scores.approval_policy = 1 =>
            IF example.approval THEN row ELSE row => ticket = "abandoned"

=============================================================================
