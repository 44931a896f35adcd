--------------------------- MODULE CancelAuthority ---------------------------
(***************************************************************************)
(* What approval and execution promise together, with no transactions,     *)
(* locks, clocks or messages: each business action gets one key, a person  *)
(* opens or closes it once, and the order system applies it at most once,  *)
(* under that key, and only after the key was issued.                      *)
(* docs/approval.md and docs/EXECUTION_CONTRACT.md promise this in words.  *)
(***************************************************************************)
CONSTANTS Intents, ExecIds, None

VARIABLES phase,   \* where each action stands
          key,     \* the execution id reserved for it
          applied  \* the keys under which the order system has applied it

vars == <<phase, key, applied>>

Phases == {"new", "pending", "approved", "rejected", "issued"}

Init ==
    /\ phase = [i \in Intents |-> "new"]
    /\ key = [i \in Intents |-> None]
    /\ applied = [i \in Intents |-> {}]

\* The first request reserves a key nobody else has.
Open(i, k) ==
    /\ phase[i] = "new"
    /\ \A j \in Intents : key[j] # k
    /\ phase' = [phase EXCEPT ![i] = "pending"]
    /\ key' = [key EXCEPT ![i] = k]
    /\ UNCHANGED applied

Rule(i) ==
    /\ phase[i] = "pending"
    /\ \E p \in {"approved", "rejected"} : phase' = [phase EXCEPT ![i] = p]
    /\ UNCHANGED <<key, applied>>

Issue(i) ==
    /\ phase[i] = "approved"
    /\ phase' = [phase EXCEPT ![i] = "issued"]
    /\ UNCHANGED <<key, applied>>

Apply(i) ==
    /\ phase[i] = "issued"
    /\ applied[i] = {}
    /\ applied' = [applied EXCEPT ![i] = {key[i]}]
    /\ UNCHANGED <<phase, key>>

Next == \E i \in Intents : \/ \E k \in ExecIds : Open(i, k)
                           \/ Rule(i)
                           \/ Issue(i)
                           \/ Apply(i)

Spec == Init /\ [][Next]_vars

=============================================================================
