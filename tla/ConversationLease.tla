-------------------------- MODULE ConversationLease --------------------------
(***************************************************************************)
(* What admission control promises, with no clients, table or exceptions:  *)
(* a bounded set of conversations is engaged with the runtime, each held   *)
(* by one operation, and after the door closes nothing new is engaged.  An *)
(* operation holds its conversation for as long as the runtime may be      *)
(* working on it, whoever waits.                                           *)
(***************************************************************************)
EXTENDS Naturals, FiniteSets

CONSTANTS Keys, Operations, Limit

VARIABLES open,
          held   \* the operations that hold each conversation

vars == <<open, held>>

Engaged == {k \in Keys : held[k] # {}}

Init == open = TRUE /\ held = [k \in Keys |-> {}]

Engage(k, o) ==
    /\ open
    /\ held[k] = {}
    /\ Cardinality(Engaged) < Limit
    /\ held' = [held EXCEPT ![k] = {o}]
    /\ UNCHANGED open

\* Any number of conversations are given back, and the door may close with it.
Release(K) ==
    /\ held' = [k \in Keys |-> IF k \in K THEN {} ELSE held[k]]
    /\ open' \in {open, FALSE}

Next == \/ \E k \in Keys, o \in Operations : Engage(k, o)
        \/ \E K \in SUBSET Keys : Release(K)

Spec == Init /\ [][Next]_vars

\* Never more conversations at once than the limit allows.
LimitKept == IsFiniteSet(Engaged) /\ Cardinality(Engaged) <= Limit

=============================================================================
