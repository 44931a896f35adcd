------------------------------ MODULE CancelFlow ------------------------------
(***************************************************************************)
(* The whole path of cancel_order: the MCP adapter asks the grant store    *)
(* for an execution id (OrderService.cancelOrder, HttpExecutionAuthorizer),*)
(* checks the answer against its own clock (ExecutionDecision) and, if it  *)
(* may, posts to the order system with the id as Idempotency-Key           *)
(* (HttpOrderGateway).  Every wait can end in a timeout while the other    *)
(* side goes on, and the model may call the tool again at any time.        *)
(*                                                                         *)
(* Tool call c uses the store's thread c: a call that gave up leaves its   *)
(* prepare transaction running.  The order system is external; it is the   *)
(* one docs/EXECUTION_CONTRACT.md requires: it applies a key once.         *)
(***************************************************************************)
EXTENDS GrantStore

CONSTANT AdapterSkew   \* clock of the adapter's host minus database clock

ASSUME AdapterSkewAssumption == AdapterSkew \in Int

VARIABLES tool,     \* the cancel_order calls in the adapter
          sent,     \* requests posted to the order system, any of them maybe twice
          applied   \* requests the order system committed

flowVars == <<now, grants, locks, call, ruling, tool, sent, applied>>

Request == [intent : Intents, key : ExecIds]

ToolPcs == {"idle", "asking", "sent", "refused", "unavailable", "done", "unknown"}
ToolEnded == {"refused", "unavailable", "done", "unknown"}

Tool == [pc : ToolPcs, intent : Intents \cup {None}, key : ExecIds \cup {None}]

IdleTool == [pc |-> "idle", intent |-> None, key |-> None]

FlowInit ==
    /\ Init
    /\ tool = [c \in Callers |-> IdleTool]
    /\ sent = {}
    /\ applied = {}

-----------------------------------------------------------------------------
\* cancelOrder calls prepare: the POST reaches the store's handler.
Ask(c, i) ==
    /\ tool[c].pc = "idle"
    /\ Begin(c, i)
    /\ tool' = [tool EXCEPT ![c] = [IdleTool EXCEPT !.pc = "asking", !.intent = i]]
    /\ UNCHANGED <<sent, applied>>

\* The adapter's deadline ends prepare with an exception; the handler goes on.
AskTimeout(c) ==
    /\ tool[c].pc = "asking"
    /\ tool' = [tool EXCEPT ![c].pc = "unavailable"]
    /\ UNCHANGED <<vars, sent, applied>>

\* The handler raised: an HTTP error, never an answer.
AskFails(c) ==
    /\ tool[c].pc = "asking"
    /\ call[c].pc = "failed"
    /\ Return(c)
    /\ tool' = [tool EXCEPT ![c].pc = "unavailable"]
    /\ UNCHANGED <<sent, applied>>

\* MUTANT: any unexpired answer is a go.
MayExecute_AnyStatus(c) == ~Expired(grants[call[c].id], now + AdapterSkew)

\* MUTANT: an authorization counts however late it arrives.
MayExecute_Late(c) == call[c].status = "AUTHORIZED"

\* requireExecutionId, with the expiry the answer carries.
MayExecute(c) ==
    /\ call[c].status = "AUTHORIZED"
    /\ ~Expired(grants[call[c].id], now + AdapterSkew)

\* The answer arrives: a business outcome, an expired authorization, or a go.
Refuse(c) ==
    /\ tool[c].pc = "asking"
    /\ call[c].pc = "replied"
    /\ ~MayExecute(c)
    /\ Return(c)
    /\ tool' = [tool EXCEPT ![c].pc = "refused"]
    /\ UNCHANGED <<sent, applied>>

Send(c) ==
    /\ tool[c].pc = "asking"
    /\ call[c].pc = "replied"
    /\ MayExecute(c)
    /\ Return(c)
    /\ tool' = [tool EXCEPT ![c].pc = "sent", ![c].key = call[c].id]
    /\ sent' = sent \cup {[intent |-> tool[c].intent, key |-> call[c].id]}
    /\ UNCHANGED applied

\* The handler of a call that gave up answers nobody.
AnswerNobody(c) ==
    /\ tool[c].pc # "asking"
    /\ Return(c)
    /\ UNCHANGED <<tool, sent, applied>>

\* EXTERNAL: the order system receives a request, now or long after its sender gave
\* up, and applies it unless it has seen the key; it may also refuse (no step).
OmsApply(r) ==
    /\ r \in sent
    /\ \A a \in applied : a.key # r.key
    /\ applied' = applied \cup {r}
    /\ UNCHANGED <<vars, tool, sent>>

\* The order system's answer, first or replayed, reaches the adapter.
OmsAnswer(c) ==
    /\ tool[c].pc = "sent"
    /\ \E a \in applied : a.key = tool[c].key
    /\ tool' = [tool EXCEPT ![c].pc = "done"]
    /\ UNCHANGED <<vars, sent, applied>>

\* A 5xx, a lost connection or the read timeout: ORDER_SERVICE_UNAVAILABLE, no retry.
OmsTimeout(c) ==
    /\ tool[c].pc = "sent"
    /\ tool' = [tool EXCEPT ![c].pc = "unknown"]
    /\ UNCHANGED <<vars, sent, applied>>

\* The tool result is back at the model, which may call again.
EndTool(c) ==
    /\ tool[c].pc \in ToolEnded
    /\ call[c].pc = "idle"
    /\ tool' = [tool EXCEPT ![c] = IdleTool]
    /\ UNCHANGED <<vars, sent, applied>>

-----------------------------------------------------------------------------
\* The store's steps that do not talk to the adapter.
StoreStep ==
    /\ \/ Tick
       \/ \E c \in Callers : \/ Insert(c)
                             \/ Lock(c)
                             \/ Decide(c)
                             \/ \E acked \in BOOLEAN : Commit(c, acked)
                             \/ Abort(c)
       \/ \E d \in Approvers : ApproverStep(d)
    /\ UNCHANGED <<tool, sent, applied>>

ToolStep(c) ==
    \/ \E i \in Intents : Ask(c, i)
    \/ AskTimeout(c) \/ AskFails(c) \/ Refuse(c) \/ Send(c) \/ AnswerNobody(c)
    \/ OmsAnswer(c) \/ OmsTimeout(c) \/ EndTool(c)

FlowNext ==
    \/ StoreStep
    \/ \E c \in Callers : ToolStep(c)
    \/ \E r \in sent : OmsApply(r)

FlowSpec == FlowInit /\ [][FlowNext]_flowVars

-----------------------------------------------------------------------------
FlowTypeOK ==
    /\ TypeOK
    /\ tool \in [Callers -> Tool]
    /\ sent \subseteq Request
    /\ applied \subseteq sent

\* However often the model repeats a cancellation, through lost answers, timeouts on
\* both sides and requests that arrive late, the order system commits it once.
AtMostOnce == \A a, b \in applied : a.intent = b.intent => a = b

\* A key that reached the order system belongs to one action for good, to a durable
\* row a person approved and the store issued: nothing leaves on a timeout, a bad
\* answer or an answer meant for another action (cancelOrder, prepare).
SentIsIssued ==
    \A r \in sent : /\ grants[r.key].intent = r.intent
                    /\ grants[r.key].status = "CONSUMED"
                    /\ grants[r.key].decision = "approve"

\* The end of the path: what the order system has committed, however late, belongs to a
\* row that a person approved and that was consumed before its expiry (HttpOrderGateway).
AppliedIsCovered ==
    \A r \in applied : /\ grants[r.key].intent = r.intent
                       /\ grants[r.key].status = "CONSUMED"
                       /\ grants[r.key].decision = "approve"
                       /\ grants[r.key].consumedAt < grants[r.key].expires

Alive(i, e) ==
    /\ grants[e].intent = i
    /\ grants[e].status = "CONSUMED" /\ grants[e].decision = "approve"
    /\ grants[e].consumedAt < grants[e].expires
    /\ now + AdapterSkew < grants[e].expires

\* A request leaves only for a grant a person approved and the store consumed in time, and
\* only while it is alive by the adapter's own clock: an AUTHORIZED answer that was on its
\* way past the expiry posts nothing (requireExecutionId, cancelOrder).
SentInTime ==
    [][\A c \in Callers :
           tool[c].pc # "sent" /\ tool'[c].pc = "sent" => Alive(tool[c].intent, tool'[c].key)
      ]_flowVars

-----------------------------------------------------------------------------
\* The abstract state: the committed row of each action, and what was applied.
GrantOf(i) == {e \in ExecIds : Stored(e) /\ grants[e].intent = i}

\* The row of the action: there is at most one (OneGrantPerIntent).
KeyOf(i) == IF GrantOf(i) = {} THEN None ELSE CHOOSE e \in GrantOf(i) : TRUE

Phase(status) == CASE status = "PENDING"  -> "pending"
                   [] status = "APPROVED" -> "approved"
                   [] status = "REJECTED" -> "rejected"
                   [] status = "CONSUMED" -> "issued"

PhaseOf(i) == IF GrantOf(i) = {} THEN "new" ELSE Phase(grants[KeyOf(i)].status)

AppliedOf(i) == {r.key : r \in {a \in applied : a.intent = i}}

Authority == INSTANCE CancelAuthority WITH
    phase   <- [i \in Intents |-> PhaseOf(i)],
    key     <- [i \in Intents |-> KeyOf(i)],
    applied <- [i \in Intents |-> AppliedOf(i)]

\* The transactions, the approvers, the adapter and the order system together do
\* nothing but open, rule, issue and apply each action once, in that order.
ImplementsAuthority == Authority!Spec

=============================================================================
