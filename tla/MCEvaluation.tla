----------------------------- MODULE MCEvaluation -----------------------------
(* Evaluation on a small instance: the kinds of examples of evals/cases.jsonl. *)
EXTENDS Evaluation

MCTools == {"get_order_status", "cancel_order"}
MCTexts == {"fact", "secret"}
MCKinds == MCTools \cup MCTexts \cup Terminal

Plain == [fixture |-> FALSE, contract |-> TRUE, least |-> [t \in MCTools |-> 0],
          forbidden |-> {}, approval |-> FALSE, any |-> {}, never |-> {"secret"}]

\* A question about an order, a cancellation, an example of the fixture service whose
\* order carries instructions, two lookups, and an example without a contract.
MCExpectations ==
    {[Plain EXCEPT !.least["get_order_status"] = 1, !.forbidden = {"cancel_order"},
                   !.any = {"fact"}],
     [Plain EXCEPT !.least["cancel_order"] = 1, !.approval = TRUE],
     [Plain EXCEPT !.fixture = TRUE, !.forbidden = {"cancel_order"}],
     [Plain EXCEPT !.least["get_order_status"] = 2],
     [Plain EXCEPT !.contract = FALSE]}

Good == [tool_policy |-> 1, approval_policy |-> 1, response_contract |-> 1]

MCOtherRows ==
    {<<>>, <<[status |-> "completed", scores |-> Good]>>, <<[status |-> "skipped"]>>}

=============================================================================
