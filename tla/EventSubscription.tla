-------------------------- MODULE EventSubscription --------------------------
(***************************************************************************)
(* EventSubscription (app/runtime/event_subscription.py): one producer     *)
(* that never waits, one SSE consumer that may be slow or hang up, on one  *)
(* event loop.  A step is what runs between two suspensions: publish and   *)
(* finish have none, events() has one at each yield and one at the wait.   *)
(***************************************************************************)
EXTENDS Naturals, Sequences

CONSTANTS Kinds,      \* the events a producer offers
          Capacity,   \* max_events
          MaxEvents   \* BOUND: events the producer offers

ASSUME SubscriptionAssumption ==
    /\ Capacity \in Nat \ {0}
    /\ MaxEvents \in Nat

VARIABLES queue,      \* _queue
          changed,    \* _changed is set
          detached,   \* _detached
          finished,   \* _finished
          error,      \* _error
          reader,     \* where events() is suspended
          published,  \* history: every event offered
          received    \* history: every event yielded to the client

subVars == <<queue, changed, detached, finished, error, reader, published, received>>

NoError  == "none"
TooSlow  == "STREAM_CONSUMER_TOO_SLOW"
Failures == {"TURN_FAILED", "RUNTIME_UNAVAILABLE"}
Errors   == Failures \cup {TooSlow}

\* An error is an event of a type of its own.
ASSUME KindsAssumption == Kinds \cap Errors = {}

\* unstarted, at a yield, at the wait, at the yield of the error, returned, or hung up.
Readers     == {"unstarted", "yielded", "waiting", "lastyield", "returned", "gone"}
ReaderEnded == {"returned", "gone"}

SubInit ==
    /\ queue = <<>>
    /\ changed = FALSE
    /\ detached = FALSE
    /\ finished = FALSE
    /\ error = NoError
    /\ reader = "unstarted"
    /\ published = <<>>
    /\ received = <<>>

-----------------------------------------------------------------------------
\* MUTANT: a full backlog loses its oldest event.
Publish_DropsOldest(e) ==
    /\ ~finished
    /\ Len(published) < MaxEvents
    /\ published' = Append(published, e)
    /\ queue' = CASE detached -> queue
                  [] ~detached /\ Len(queue) < Capacity -> Append(queue, e)
                  [] OTHER -> Append(Tail(queue), e)
    /\ changed' = TRUE
    /\ UNCHANGED <<detached, error, finished, reader, received>>

\* MUTANT: await queue.put: the producer waits for the client.
Publish_Waits(e) ==
    /\ ~finished
    /\ Len(published) < MaxEvents
    /\ detached \/ Len(queue) < Capacity
    /\ published' = Append(published, e)
    /\ queue' = IF detached THEN queue ELSE Append(queue, e)
    /\ changed' = TRUE
    /\ UNCHANGED <<detached, error, finished, reader, received>>

\* put_nowait, or QueueFull: the backlog is thrown away and the client will be told.
Publish(e) ==
    /\ ~finished
    /\ Len(published) < MaxEvents
    /\ published' = Append(published, e)
    /\ CASE detached -> UNCHANGED <<queue, changed, detached, error>>
         [] ~detached /\ Len(queue) < Capacity ->
              /\ queue' = Append(queue, e)
              /\ changed' = TRUE
              /\ UNCHANGED <<detached, error>>
         [] OTHER ->
              /\ error' = TooSlow
              /\ queue' = <<>>
              /\ detached' = TRUE
              /\ changed' = TRUE
    /\ UNCHANGED <<finished, reader, received>>

\* MUTANT: finish forgets to wake the reader.
FinishWith_NoWake(err) ==
    /\ ~finished
    /\ finished' = TRUE
    /\ error' = IF error = NoError THEN err ELSE error
    /\ UNCHANGED <<changed, queue, detached, reader, published, received>>

\* MUTANT: the producer's end replaces an earlier error.
FinishWith_Overwrites(err) ==
    /\ ~finished
    /\ finished' = TRUE
    /\ error' = err
    /\ changed' = TRUE
    /\ UNCHANGED <<queue, detached, reader, published, received>>

\* finish: an earlier error is kept.
FinishWith(err) ==
    /\ ~finished
    /\ finished' = TRUE
    /\ error' = IF error = NoError THEN err ELSE error
    /\ changed' = TRUE
    /\ UNCHANGED <<queue, detached, reader, published, received>>

-----------------------------------------------------------------------------
\* events() can go on: the client took the last event, or the wait was woken.
Ready == \/ reader \in {"unstarted", "yielded"}
         \/ reader = "waiting" /\ changed

\* One turn of the loop of events().  An error overtakes what is queued.
YieldError ==
    /\ Ready
    /\ error # NoError
    /\ received' = Append(received, error)
    /\ reader' = "lastyield"
    /\ UNCHANGED <<queue, changed, detached, finished, error, published>>

YieldEvent ==
    /\ Ready
    /\ error = NoError
    /\ queue # <<>>
    /\ received' = Append(received, Head(queue))
    /\ queue' = Tail(queue)
    /\ reader' = "yielded"
    /\ UNCHANGED <<changed, detached, finished, error, published>>

Wait ==
    /\ Ready
    /\ error = NoError /\ queue = <<>> /\ ~finished /\ ~detached
    /\ changed' = FALSE
    /\ reader' = "waiting"
    /\ UNCHANGED <<queue, detached, finished, error, published, received>>

\* The return statements, and the finally block's aclose.
ReturnReader ==
    /\ \/ Ready /\ error = NoError /\ queue = <<>> /\ (finished \/ detached)
       \/ reader = "lastyield"
    /\ reader' = "returned"
    /\ detached' = TRUE
    /\ queue' = <<>>
    /\ changed' = TRUE
    /\ UNCHANGED <<finished, error, published, received>>

\* The client hangs up.  A generator that never started has no finally block to run.
HangUp ==
    /\ reader \notin ReaderEnded
    /\ reader' = "gone"
    /\ IF reader = "unstarted"
       THEN UNCHANGED <<queue, changed, detached>>
       ELSE /\ detached' = TRUE
            /\ queue' = <<>>
            /\ changed' = TRUE
    /\ UNCHANGED <<finished, error, published, received>>

-----------------------------------------------------------------------------
ReaderStep == YieldError \/ YieldEvent \/ Wait \/ ReturnReader

SubNext ==
    \/ \E e \in Kinds : Publish(e)
    \/ \E err \in Failures \cup {NoError} : FinishWith(err)
    \/ ReaderStep
    \/ HangUp

SubSpec == SubInit /\ [][SubNext]_subVars

\* The loop runs a ready generator, for a client that goes on reading, however slowly;
\* execute's timeout ends every producer.
SubFairSpec ==
    /\ SubSpec
    /\ WF_subVars(ReaderStep)
    /\ WF_subVars(\E err \in Failures \cup {NoError} : FinishWith(err))

-----------------------------------------------------------------------------
\* Every variable has its type and the backlog its bound.
SubTypeOK ==
    /\ queue \in Seq(Kinds) /\ Len(queue) <= Capacity
    /\ changed \in BOOLEAN
    /\ detached \in BOOLEAN
    /\ finished \in BOOLEAN
    /\ error \in Errors \cup {NoError}
    /\ reader \in Readers
    /\ published \in Seq(Kinds) /\ Len(published) <= MaxEvents
    /\ received \in Seq(Kinds \cup Errors)

\* TOO_SLOW is said only of a subscriber that left a full backlog unread; and one that
\* was cut off while still reading hears exactly that, whatever the producer's end.
TooSlowIsTrue ==
    /\ \A n \in 1 .. Len(received) :
           received[n] = TooSlow => /\ n = Len(received)
                                    /\ Len(published) >= n + Capacity
    /\ detached /\ reader \notin ReaderEnded => error = TooSlow

\* A reader waits with its wake-up pending whenever there is something for it: publish and
\* finish may run between its last look and its wait, or while it waits (events).
NoLostWakeUp ==
    reader = "waiting" /\ (queue # <<>> \/ error # NoError \/ finished \/ detached) => changed

\* Every stream ends for a client that goes on reading: no wake-up is lost and the
\* reader outlives neither the producer nor an overflow.
ReadersEnd == <>(reader \in ReaderEnded)

ToldError == received # <<>> /\ received[Len(received)] \in Errors

\* What the client was given before it was told of an error.
Given  == IF ToldError THEN Len(received) - 1 ELSE Len(received)
Handed == SubSeq(received, 1, Given)

\* How the stream ended for the client.
Verdict == CASE ToldError -> "error"
             [] ~ToldError /\ reader = "gone" -> "gone"
             [] ~ToldError /\ reader = "returned" -> "complete"
             [] ~ToldError /\ reader \notin ReaderEnded -> "open"

\* A subscription is the ordered, gapless stream it promises.
Stream == INSTANCE EventStream WITH received <- Handed, verdict <- Verdict

ImplementsStream == Stream!Spec

=============================================================================
