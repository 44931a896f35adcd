----------------------------- MODULE EventStream -----------------------------
(***************************************************************************)
(* What a subscriber may rely on, with no queue, no wake-up flag and no    *)
(* client speed: events arrive in the order they were published, without   *)
(* gaps, and the stream ends cleanly only when nothing is missing.         *)
(***************************************************************************)
EXTENDS Naturals, Sequences

VARIABLES published,  \* every event offered so far
          received,   \* every event handed to the client
          verdict     \* how the stream ended for the client

vars == <<published, received, verdict>>

Init == published = <<>> /\ received = <<>> /\ verdict = "open"

Publish ==
    /\ Len(published') = Len(published) + 1
    /\ SubSeq(published', 1, Len(published)) = published
    /\ UNCHANGED <<received, verdict>>

Deliver ==
    /\ verdict = "open"
    /\ Len(received) < Len(published)
    /\ received' = Append(received, published[Len(received) + 1])
    /\ UNCHANGED <<published, verdict>>

\* A clean end leaves nothing undelivered; an error or a hang-up may.
End(v) ==
    /\ verdict = "open"
    /\ v = "complete" => received = published
    /\ verdict' = v
    /\ UNCHANGED <<published, received>>

Next == Publish \/ Deliver \/ \E v \in {"complete", "error", "gone"} : End(v)

Spec == Init /\ [][Next]_vars

=============================================================================
