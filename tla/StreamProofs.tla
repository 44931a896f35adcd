------------------------------ MODULE StreamProofs ------------------------------
(***************************************************************************)
(* Proofs about EventSubscription, StreamTurn and Evaluation: for any      *)
(* events, backlog, tools, examples and rules, and streams of any length.  *)
(***************************************************************************)
EXTENDS Evaluation, SequenceTheorems, TLAPS

(* What was published is what the client was given followed by the backlog, or begins
   with what it was given once the backlog was thrown away. *)
InOrder ==
    /\ Given <= Len(published)
    /\ \A n \in 1 .. Given : received[n] = published[n]
    /\ ~detached => /\ Len(published) = Given + Len(queue)
                    /\ \A n \in 1 .. Len(queue) : queue[n] = published[Given + n]
    /\ detached => queue = <<>>

(* An error is the last the client reads, and the one that was set. *)
ErrorsLast ==
    /\ \A n \in 1 .. Len(received) : received[n] \in Errors =>
           n = Len(received) /\ received[n] = error
           /\ reader \in {"lastyield", "returned", "gone"}
    /\ reader = "lastyield" => ToldError

(* An overflow leaves more than a backlog behind what the client was given; the only
   other error is that of the producer's end. *)
SlowIsSlow ==
    /\ error # NoError => finished \/ detached
    /\ error = TooSlow => Len(published) >= Given + 1 + Capacity
    /\ detached /\ reader \notin ReaderEnded => error = TooSlow

(* A reader that returned without an error had been given everything. *)
CleanIsWhole ==
    reader = "returned" /\ ~ToldError => finished /\ error = NoError /\ Given = Len(published)

(* Inductive for the subscription. *)
SubInv == SubTypeOK /\ InOrder /\ ErrorsLast /\ SlowIsSlow /\ CleanIsWhole

-----------------------------------------------------------------------------
(* An element is appended. *)
LEMMA Appended ==
    ASSUME NEW S, NEW s \in Seq(S), NEW x \in S
    PROVE  /\ Append(s, x) \in Seq(S) /\ Len(Append(s, x)) = Len(s) + 1
           /\ \A i \in 1 .. Len(s) : Append(s, x)[i] = s[i]
           /\ Append(s, x)[Len(s) + 1] = x
OBVIOUS

(* The first element is taken off. *)
LEMMA TakenOff ==
    ASSUME NEW S, NEW s \in Seq(S), s # <<>>
    PROVE  /\ Tail(s) \in Seq(S) /\ Len(Tail(s)) = Len(s) - 1
           /\ Head(s) = s[1] /\ Len(s) \in Nat \ {0} /\ s[1] \in S
           /\ \A i \in 1 .. Len(s) - 1 : Tail(s)[i] = s[i + 1]
OBVIOUS

(* The numbers of the model have their types. *)
LEMMA SubNumbers ==
    ASSUME SubTypeOK
    PROVE  /\ Len(published) \in Nat /\ Len(received) \in Nat /\ Len(queue) \in Nat
           /\ Given \in Nat /\ Given <= Len(received)
           /\ ToldError => Len(received) = Given + 1
           /\ ~ToldError => Len(received) = Given
           /\ ToldError <=> Len(received) > 0 /\ received[Len(received)] \in Errors
           /\ Capacity \in Nat \ {0}
BY SubscriptionAssumption DEF SubTypeOK, Given, ToldError

(* An event is published; on a full backlog the client is cut off. *)
LEMMA PublishKeeps ==
    ASSUME SubInv, NEW e \in Kinds, Publish(e)
    PROVE  SubInv'
<1> USE DEF SubInv
<1>1. /\ published' \in Seq(Kinds) /\ Len(published') = Len(published) + 1
      /\ \A n \in 1 .. Len(published) : published'[n] = published[n]
      /\ published'[Len(published) + 1] = e
  BY Appended DEF Publish, SubTypeOK
<1>2. ~finished /\ UNCHANGED <<finished, reader, received>> /\ Given' = Given
      /\ ToldError' = ToldError /\ Len(published') <= MaxEvents
  BY <1>1, SubNumbers, SubscriptionAssumption DEF Publish, Given, ToldError
<1>3. CleanIsWhole'
  BY <1>2 DEF CleanIsWhole
<1>4. CASE detached
  <2>1. UNCHANGED <<queue, changed, detached, error>>
    BY <1>4 DEF Publish
  <2>2. SubTypeOK' /\ ErrorsLast'
    BY <1>1, <1>2, <2>1 DEF SubTypeOK, ErrorsLast
  <2>3. InOrder' /\ SlowIsSlow'
    BY <1>1, <1>2, <1>4, <2>1, SubNumbers DEF InOrder, SlowIsSlow
  <2> QED
    BY <1>3, <2>2, <2>3
<1>5. CASE ~detached /\ Len(queue) < Capacity
  <2>1. queue' = Append(queue, e) /\ changed' = TRUE /\ UNCHANGED <<detached, error>>
    BY <1>5 DEF Publish
  <2>2. /\ queue' \in Seq(Kinds) /\ Len(queue') = Len(queue) + 1
        /\ \A n \in 1 .. Len(queue) : queue'[n] = queue[n]
        /\ queue'[Len(queue) + 1] = e
    BY <2>1, Appended DEF SubTypeOK
  <2>3. SubTypeOK'
    BY <1>1, <1>2, <1>5, <2>1, <2>2, SubNumbers DEF SubTypeOK
  <2>4. InOrder'
    <3>1. Len(published) = Given + Len(queue)
          /\ \A n \in 1 .. Len(queue) : queue[n] = published[Given + n]
      BY <1>5 DEF InOrder
    <3>2. ASSUME NEW n \in 1 .. Len(queue') PROVE queue'[n] = published'[Given' + n]
      <4>1. CASE n = Len(queue) + 1
        <5>1. Given' + n = Len(published) + 1
          BY <1>2, <3>1, <4>1, SubNumbers
        <5> QED
          BY <1>1, <2>2, <4>1, <5>1
      <4>2. CASE n # Len(queue) + 1
        <5>1. n \in 1 .. Len(queue) /\ Given + n \in 1 .. Len(published)
          BY <2>2, <3>1, <4>2, SubNumbers
        <5> QED
          BY <1>1, <1>2, <2>2, <3>1, <5>1
      <4> QED
        BY <4>1, <4>2
    <3>3. /\ Len(published') = Given' + Len(queue') /\ Given' <= Len(published')
          /\ \A n \in 1 .. Given' : received'[n] = published'[n]
      <4>1. /\ Given <= Len(published)
            /\ \A n \in 1 .. Given : received[n] = published[n]
        BY DEF InOrder
      <4>2. Given \in Nat /\ Len(published) \in Nat /\ Len(queue) \in Nat
        BY SubNumbers
      <4>3. /\ Len(published') = Given' + Len(queue') /\ Given' <= Len(published')
            /\ \A n \in 1 .. Given : n \in 1 .. Len(published)
        BY <1>1, <1>2, <2>2, <3>1, <4>1, <4>2
      <4> QED
        BY <1>1, <1>2, <4>1, <4>3
    <3> QED
      BY <1>5, <2>1, <3>2, <3>3 DEF InOrder
  <2>5. ErrorsLast'
    BY <1>2, <2>1 DEF ErrorsLast
  <2>6. SlowIsSlow'
    BY <1>1, <1>2, <2>1, SubNumbers DEF SlowIsSlow
  <2> QED
    BY <1>3, <2>3, <2>4, <2>5, <2>6
<1>6. CASE ~detached /\ ~(Len(queue) < Capacity)
  <2>1. error' = TooSlow /\ queue' = <<>> /\ detached' = TRUE /\ changed' = TRUE
    BY <1>6 DEF Publish
  <2>2. SubTypeOK'
    BY <1>1, <1>2, <2>1, SubNumbers DEF SubTypeOK, Errors
  <2>3. InOrder'
    BY <1>1, <1>2, <2>1, SubNumbers DEF InOrder
  <2>4. SlowIsSlow'
    BY <1>1, <1>2, <1>6, <2>1, SubNumbers DEF InOrder, SlowIsSlow
  <2>5. ErrorsLast'
    <3>1. \A n \in 1 .. Len(received) : received[n] \notin Errors
      BY <1>2, <1>6 DEF SlowIsSlow, ErrorsLast, Errors, NoError, Failures, TooSlow
    <3> QED
      BY <1>2, <2>1, <3>1 DEF ErrorsLast
  <2> QED
    BY <1>3, <2>2, <2>3, <2>4, <2>5
<1> QED
  BY <1>4, <1>5, <1>6

(* The producer's end is told, unless something was wrong before. *)
LEMMA FinishKeeps ==
    ASSUME SubInv, NEW err \in Failures \cup {NoError}, FinishWith(err)
    PROVE  SubInv'
<1> USE DEF SubInv
<1>1. /\ ~finished /\ finished' = TRUE /\ changed' = TRUE
      /\ error' = IF error = NoError THEN err ELSE error
      /\ UNCHANGED <<queue, detached, reader, published, received>>
  BY DEF FinishWith
<1>2. Given' = Given /\ ToldError' = ToldError
  BY <1>1 DEF Given, ToldError
<1>3. err # TooSlow
  BY DEF Failures, NoError, TooSlow
<1>4. SubTypeOK' /\ InOrder'
  BY <1>1, <1>2 DEF SubTypeOK, InOrder, Errors
<1>5. ErrorsLast'
  <2>1. ASSUME NEW n \in 1 .. Len(received), received[n] \in Errors
        PROVE  error' = error
    BY <1>1, <2>1 DEF ErrorsLast, Errors, NoError, Failures, TooSlow
  <2> QED
    BY <1>1, <1>2, <2>1 DEF ErrorsLast
<1>6. SlowIsSlow'
  BY <1>1, <1>2, <1>3 DEF SlowIsSlow, NoError, TooSlow
<1>7. CleanIsWhole'
  BY <1>1, <1>2 DEF CleanIsWhole
<1> QED
  BY <1>4, <1>5, <1>6, <1>7

(* The reader is given the next event of the backlog. *)
LEMMA EventKeeps == ASSUME SubInv, YieldEvent PROVE SubInv'
<1> USE DEF SubInv
<1>1. /\ Ready /\ error = NoError /\ queue # <<>> /\ reader' = "yielded"
      /\ received' = Append(received, Head(queue)) /\ queue' = Tail(queue)
      /\ UNCHANGED <<changed, detached, finished, error, published>>
  BY DEF YieldEvent
<1>2. /\ queue' \in Seq(Kinds) /\ Len(queue') = Len(queue) - 1 /\ Len(queue) \in Nat \ {0}
      /\ Head(queue) = queue[1] /\ queue[1] \in Kinds
      /\ \A n \in 1 .. Len(queue) - 1 : queue'[n] = queue[n + 1]
  BY <1>1, TakenOff DEF SubTypeOK
<1>3. /\ received' \in Seq(Kinds \cup Errors) /\ Len(received') = Len(received) + 1
      /\ \A n \in 1 .. Len(received) : received'[n] = received[n]
      /\ received'[Len(received) + 1] = queue[1]
  <2>1. Head(queue) \in Kinds \cup Errors /\ received \in Seq(Kinds \cup Errors)
    BY <1>2 DEF SubTypeOK
  <2> QED
    BY <1>1, <1>2, <2>1, Appended
<1>4. \A n \in 1 .. Len(received) : received[n] \notin Errors
  BY <1>1 DEF ErrorsLast, Errors, NoError, Failures, TooSlow
<1>5. ~ToldError /\ Given = Len(received) /\ ~ToldError' /\ Given' = Given + 1
  BY <1>2, <1>3, <1>4, SubNumbers, KindsAssumption DEF ToldError, Given
<1>6. ~detached
  BY <1>1 DEF InOrder
<1>7. SubTypeOK'
  BY <1>1, <1>2, <1>3, SubNumbers DEF SubTypeOK, Readers
<1>8. InOrder'
  <2>1. Len(published) = Given + Len(queue)
        /\ \A n \in 1 .. Len(queue) : queue[n] = published[Given + n]
    BY <1>6 DEF InOrder
  <2>2. ASSUME NEW n \in 1 .. Given' PROVE received'[n] = published'[n]
    <3>1. CASE n = Given + 1
      BY <1>1, <1>2, <1>3, <1>5, <2>1, <3>1, SubNumbers
    <3>2. CASE n # Given + 1
      BY <1>1, <1>3, <1>5, <3>2, SubNumbers DEF InOrder
    <3> QED
      BY <3>1, <3>2
  <2>3. ASSUME NEW n \in 1 .. Len(queue') PROVE queue'[n] = published'[Given' + n]
    <3>1. n + 1 \in 1 .. Len(queue) /\ queue'[n] = queue[n + 1]
      BY <1>2
    <3>2. queue[n + 1] = published[Given + (n + 1)] /\ Given + (n + 1) = Given' + n
      BY <1>5, <2>1, <3>1, SubNumbers
    <3> QED
      BY <1>1, <3>1, <3>2
  <2>4. Len(published') = Given' + Len(queue') /\ Given' <= Len(published')
    BY <1>1, <1>2, <1>5, <2>1, SubNumbers
  <2> QED
    BY <1>1, <1>6, <2>2, <2>3, <2>4 DEF InOrder
<1>9. ErrorsLast'
  BY <1>1, <1>2, <1>3, <1>4, SubNumbers, KindsAssumption DEF ErrorsLast
<1>10. SlowIsSlow' /\ CleanIsWhole'
  BY <1>1, <1>6 DEF SlowIsSlow, CleanIsWhole, NoError, TooSlow
<1> QED
  BY <1>7, <1>8, <1>9, <1>10

(* The reader is told the error. *)
LEMMA ErrorKeeps == ASSUME SubInv, YieldError PROVE SubInv'
<1> USE DEF SubInv
<1>1. /\ Ready /\ error # NoError /\ reader' = "lastyield"
      /\ received' = Append(received, error)
      /\ UNCHANGED <<queue, changed, detached, finished, error, published>>
  BY DEF YieldError
<1>2. error \in Errors /\ reader \in {"unstarted", "yielded", "waiting"}
  BY <1>1 DEF SubTypeOK, Ready
<1>3. /\ received' \in Seq(Kinds \cup Errors) /\ Len(received') = Len(received) + 1
      /\ \A n \in 1 .. Len(received) : received'[n] = received[n]
      /\ received'[Len(received) + 1] = error
  <2>1. error \in Kinds \cup Errors /\ received \in Seq(Kinds \cup Errors)
    BY <1>2 DEF SubTypeOK
  <2> QED
    BY <1>1, <2>1, Appended
<1>4. \A n \in 1 .. Len(received) : received[n] \notin Errors
  BY <1>2 DEF ErrorsLast
<1>5. ~ToldError /\ Given = Len(received) /\ ToldError' /\ Given' = Given
  BY <1>2, <1>3, <1>4, SubNumbers DEF ToldError, Given
<1>6. SubTypeOK'
  BY <1>1, <1>3 DEF SubTypeOK, Readers
<1>7. InOrder'
  BY <1>1, <1>3, <1>5, SubNumbers DEF InOrder
<1>8. ErrorsLast'
  BY <1>1, <1>3, <1>4, <1>5, SubNumbers DEF ErrorsLast
<1>9. SlowIsSlow' /\ CleanIsWhole'
  BY <1>1, <1>2, <1>5 DEF SlowIsSlow, CleanIsWhole, ReaderEnded
<1> QED
  BY <1>6, <1>7, <1>8, <1>9

(* The reader waits, returns, or is cut off by its client. *)
LEMMA ReaderKeeps == ASSUME SubInv, Wait \/ ReturnReader \/ HangUp PROVE SubInv'
<1> USE DEF SubInv
<1>1. UNCHANGED <<finished, error, published, received>>
  BY DEF Wait, ReturnReader, HangUp
<1>2. Given' = Given /\ ToldError' = ToldError
  BY <1>1 DEF Given, ToldError
<1>3. \/ UNCHANGED <<queue, detached>> /\ detached' = detached
      \/ queue' = <<>> /\ detached' = TRUE
  BY DEF Wait, ReturnReader, HangUp
<1>4. SubTypeOK'
  <2>1. changed' \in BOOLEAN /\ reader' \in Readers /\ detached' \in BOOLEAN
    BY DEF Wait, ReturnReader, HangUp, SubTypeOK, Readers
  <2>2. queue' \in Seq(Kinds) /\ Len(queue') <= Capacity
    <3>1. <<>> \in Seq(Kinds) /\ Len(<<>>) = 0
      BY EmptySeq
    <3>2. CASE queue' = queue
      BY <3>2 DEF SubTypeOK
    <3>3. CASE queue' = <<>>
      <4>1. 0 <= Capacity
        BY SubscriptionAssumption
      <4> QED
        BY <3>1, <3>3, <4>1
    <3> QED
      BY <1>3, <3>2, <3>3
  <2> QED
    BY <1>1, <2>1, <2>2 DEF SubTypeOK
<1>5. InOrder'
  BY <1>1, <1>2, <1>3 DEF InOrder
<1>6. CASE Wait
  <2>1. reader \in {"unstarted", "yielded", "waiting"} /\ reader' = "waiting"
        /\ error = NoError /\ UNCHANGED <<queue, detached>>
    BY <1>6 DEF Wait, Ready
  <2>2. ErrorsLast' /\ SlowIsSlow' /\ CleanIsWhole'
    BY <1>1, <1>2, <2>1 DEF ErrorsLast, SlowIsSlow, CleanIsWhole, ReaderEnded
  <2> QED
    BY <1>4, <1>5, <2>2
<1>7. CASE ReturnReader
  <2>1. reader' = "returned" /\ detached' = TRUE
    BY <1>7 DEF ReturnReader
  <2>2. ErrorsLast' /\ SlowIsSlow'
    BY <1>1, <1>2, <2>1 DEF ErrorsLast, SlowIsSlow, ReaderEnded
  <2>3. ASSUME ~ToldError PROVE finished /\ error = NoError /\ Given = Len(published)
    <3>1. /\ Ready /\ error = NoError /\ queue = <<>> /\ (finished \/ detached)
      BY <1>7, <2>3 DEF ReturnReader, ErrorsLast
    <3>2. ~detached
      BY <3>1 DEF Ready, SlowIsSlow, ReaderEnded, NoError, TooSlow
    <3> QED
      BY <3>1, <3>2, SubNumbers DEF InOrder
  <2>4. CleanIsWhole'
    BY <1>1, <1>2, <2>3 DEF CleanIsWhole
  <2> QED
    BY <1>4, <1>5, <2>2, <2>4
<1>8. CASE HangUp
  <2>1. reader' = "gone"
    BY <1>8 DEF HangUp
  <2>2. ErrorsLast' /\ SlowIsSlow' /\ CleanIsWhole'
    BY <1>1, <1>2, <1>3, <2>1 DEF ErrorsLast, SlowIsSlow, CleanIsWhole, ReaderEnded
  <2> QED
    BY <1>4, <1>5, <2>2
<1> QED
  BY <1>6, <1>7, <1>8

(* Every step keeps SubInv. *)
LEMMA SubNextKeeps == SubInv /\ [SubNext]_subVars => SubInv'
<1>1. ASSUME SubInv, UNCHANGED subVars PROVE SubInv'
  BY <1>1 DEF SubInv, subVars, SubTypeOK, InOrder, ErrorsLast, SlowIsSlow, CleanIsWhole,
              Given, ToldError
<1> QED
  BY <1>1, PublishKeeps, FinishKeeps, EventKeeps, ErrorKeeps, ReaderKeeps
     DEF SubNext, ReaderStep

(* The empty subscription. *)
LEMMA SubInitHolds == SubInit => SubInv
<1> SUFFICES ASSUME SubInit PROVE SubInv
  OBVIOUS
<1>1. ~ToldError /\ Given = 0 /\ Len(published) = 0 /\ Len(received) = 0 /\ Len(queue) = 0
  BY DEF SubInit, ToldError, Given
<1>2. SubTypeOK
  <2>1. queue \in Seq(Kinds) /\ published \in Seq(Kinds) /\ received \in Seq(Kinds \cup Errors)
    BY EmptySeq DEF SubInit
  <2>2. Len(queue) <= Capacity /\ Len(published) <= MaxEvents
    BY <1>1, SubscriptionAssumption
  <2> QED
    BY <2>1, <2>2 DEF SubInit, SubTypeOK, Readers
<1>3. InOrder /\ ErrorsLast /\ SlowIsSlow /\ CleanIsWhole
  BY <1>1 DEF SubInit, InOrder, ErrorsLast, SlowIsSlow, CleanIsWhole, NoError, TooSlow
<1> QED
  BY <1>2, <1>3 DEF SubInv

(* What the client was given, the backlog and the errors stay together. *)
THEOREM SubscriptionInvariant == SubSpec => []SubInv
BY SubInitHolds, SubNextKeeps, PTL DEF SubSpec

(* A client is called too slow only over a full backlog, and one that was cut off hears
   it (EventSubscription.publish, finish). *)
THEOREM TooSlowIsDeserved == SubSpec => []TooSlowIsTrue
<1>1. SubInv => TooSlowIsTrue
  <2> SUFFICES ASSUME SubInv PROVE TooSlowIsTrue
    OBVIOUS
  <2>1. ASSUME NEW n \in 1 .. Len(received), received[n] = TooSlow
        PROVE  n = Len(received) /\ Len(published) >= n + Capacity
    <3>1. n = Len(received) /\ error = TooSlow /\ ToldError
      BY <2>1 DEF SubInv, ErrorsLast, Errors, ToldError
    <3> QED
      BY <3>1, SubNumbers DEF SubInv, SlowIsSlow
  <2> QED
    BY <2>1 DEF TooSlowIsTrue, SubInv, SlowIsSlow
<1> QED
  BY <1>1, SubscriptionInvariant, PTL

(* The wake-up flag is never lost: what ReadersEnd says of a fair loop rests on it
   (EventSubscription.events). *)
THEOREM WakeUpsAreKept == SubSpec => []NoLostWakeUp
<1>1. SubInit => NoLostWakeUp
  BY DEF SubInit, NoLostWakeUp
<1>2. NoLostWakeUp /\ [SubNext]_subVars => NoLostWakeUp'
  <2> SUFFICES ASSUME NoLostWakeUp, [SubNext]_subVars PROVE NoLostWakeUp'
    OBVIOUS
  <2>1. ASSUME NEW e \in Kinds, Publish(e) PROVE NoLostWakeUp'
    BY <2>1 DEF Publish, NoLostWakeUp
  <2>2. ASSUME NEW err \in Failures \cup {NoError}, FinishWith(err) PROVE NoLostWakeUp'
    BY <2>2 DEF FinishWith, NoLostWakeUp
  <2>3. CASE ReaderStep
    BY <2>3 DEF ReaderStep, YieldError, YieldEvent, Wait, ReturnReader, NoLostWakeUp
  <2>4. CASE HangUp
    BY <2>4 DEF HangUp, NoLostWakeUp
  <2>5. CASE UNCHANGED subVars
    BY <2>5 DEF subVars, NoLostWakeUp
  <2> QED
    BY <2>1, <2>2, <2>3, <2>4, <2>5 DEF SubNext
<1> QED
  BY <1>1, <1>2, PTL DEF SubSpec

-----------------------------------------------------------------------------
(* Two sequences with the same elements are equal. *)
LEMMA SameSeq ==
    ASSUME NEW S, NEW s \in Seq(S), NEW t \in Seq(S), Len(s) = Len(t),
           \A i \in 1 .. Len(s) : s[i] = t[i]
    PROVE  s = t
BY SeqEqual

(* What the client was given is the beginning of what was published. *)
HandedFits ==
    /\ Handed \in Seq(Kinds) /\ Len(Handed) = Given /\ Given \in Nat
    /\ \A i \in 1 .. Given : Handed[i] = received[i] /\ Handed[i] = published[i]

(* It follows from the invariant, before a step and after it. *)
LEMMA HandedIsPrefix == SubInv => HandedFits
<1> SUFFICES ASSUME SubInv PROVE HandedFits
  OBVIOUS
<1>1. Given \in Nat /\ Given <= Len(published) /\ published \in Seq(Kinds)
  BY SubNumbers DEF SubInv, InOrder, SubTypeOK
<1>2. ASSUME NEW i \in 1 .. Given PROVE received[i] = published[i] /\ received[i] \in Kinds
  <2>1. i \in 1 .. Len(published)
    BY <1>1
  <2> QED
    BY <1>1, <2>1 DEF SubInv, InOrder
<1>3. /\ SubSeq(received, 1, Given) \in Seq(Kinds)
      /\ Len(SubSeq(received, 1, Given)) = IF 1 <= Given THEN Given - 1 + 1 ELSE 0
      /\ \A i \in 1 .. Given - 1 + 1 : SubSeq(received, 1, Given)[i] = received[1 + i - 1]
  BY <1>1, <1>2, SubSeqProperties
<1> QED
  BY <1>1, <1>2, <1>3 DEF Handed, HandedFits

(* The verdict, by what the client saw last. *)
LEMMA Verdicts ==
    /\ ToldError => Verdict = "error"
    /\ ~ToldError /\ reader = "gone" => Verdict = "gone"
    /\ ~ToldError /\ reader = "returned" => Verdict = "complete"
    /\ ~ToldError /\ reader \notin ReaderEnded => Verdict = "open"
BY DEF Verdict, ReaderEnded

(* An event that is published prolongs the stream. *)
LEMMA PublishRefines == ASSUME SubInv, NEW e \in Kinds, Publish(e) PROVE Stream!Publish
<1>1. /\ published \in Seq(Kinds) /\ published' = Append(published, e)
      /\ UNCHANGED <<reader, received>>
  BY DEF Publish, SubInv, SubTypeOK
<1>2. /\ published' \in Seq(Kinds) /\ Len(published') = Len(published) + 1
      /\ \A n \in 1 .. Len(published) : published'[n] = published[n]
  BY <1>1, Appended
<1>3. SubSeq(published', 1, Len(published)) = published
  <2>1. Len(published) \in Nat
    BY <1>1
  <2>2. \A n \in 1 .. Len(published) : published'[n] \in Kinds
    BY <1>1, <1>2
  <2>3. /\ SubSeq(published', 1, Len(published)) \in Seq(Kinds)
        /\ Len(SubSeq(published', 1, Len(published)))
             = IF 1 <= Len(published) THEN Len(published) - 1 + 1 ELSE 0
        /\ \A i \in 1 .. Len(published) - 1 + 1 :
               SubSeq(published', 1, Len(published))[i] = published'[1 + i - 1]
    BY <2>1, <2>2, SubSeqProperties
  <2>4. /\ Len(SubSeq(published', 1, Len(published))) = Len(published)
        /\ \A i \in 1 .. Len(published) :
               SubSeq(published', 1, Len(published))[i] = published[i]
    BY <1>2, <2>1, <2>3
  <2> QED
    BY <1>1, <2>3, <2>4, SameSeq
<1>4. Handed' = Handed /\ Verdict' = Verdict
  BY <1>1 DEF Handed, Given, ToldError, Verdict
<1> QED
  BY <1>2, <1>3, <1>4 DEF Stream!Publish

(* An event that is yielded is the next one. *)
LEMMA YieldRefines == ASSUME SubInv, YieldEvent PROVE Stream!Deliver
<1>1. SubInv'
  BY EventKeeps
<1>2. /\ Ready /\ error = NoError /\ queue # <<>> /\ reader' = "yielded"
      /\ received' = Append(received, Head(queue)) /\ published' = published
  BY DEF YieldEvent
<1>3. ~ToldError /\ reader \notin ReaderEnded
  BY <1>2, SubNumbers
     DEF SubInv, ErrorsLast, Ready, ReaderEnded, ToldError, Errors, NoError, Failures, TooSlow
<1>4. /\ Head(queue) \in Kinds /\ Len(received') = Len(received) + 1
      /\ received'[Len(received) + 1] = Head(queue)
      /\ \A n \in 1 .. Len(received) : received'[n] = received[n]
  <2>1. Head(queue) \in Kinds
    BY <1>2, TakenOff DEF SubInv, SubTypeOK
  <2>2. Head(queue) \in Kinds \cup Errors /\ received \in Seq(Kinds \cup Errors)
    BY <2>1 DEF SubInv, SubTypeOK
  <2> QED
    BY <1>2, <2>1, <2>2, Appended
<1>5. Given = Len(received) /\ ~ToldError' /\ Given' = Given + 1
  BY <1>3, <1>4, SubNumbers, KindsAssumption DEF ToldError, Given
<1>6. /\ Handed \in Seq(Kinds) /\ Len(Handed) = Given /\ Given \in Nat
      /\ \A i \in 1 .. Given : Handed[i] = published[i]
      /\ Handed' \in Seq(Kinds) /\ Len(Handed') = Given'
      /\ \A i \in 1 .. Given' : Handed'[i] = published[i]
      /\ Given' <= Len(published)
  <2>1. /\ Handed' \in Seq(Kinds) /\ Len(Handed') = Given'
        /\ \A i \in 1 .. Given' : Handed'[i] = published'[i]
    <3>1. HandedFits'
      BY <1>1, HandedIsPrefix, PTL
    <3> QED
      BY <3>1 DEF HandedFits
  <2>2. Given' <= Len(published')
    BY <1>1 DEF SubInv, InOrder
  <2> QED
    BY <1>2, <2>1, <2>2, HandedIsPrefix DEF HandedFits
<1>7. Handed' = Append(Handed, published[Len(Handed) + 1])
  <2>1. published[Given + 1] \in Kinds
    BY <1>5, <1>6 DEF SubInv, SubTypeOK
  <2>2. /\ Append(Handed, published[Given + 1]) \in Seq(Kinds)
        /\ Len(Append(Handed, published[Given + 1])) = Given + 1
        /\ \A i \in 1 .. Given : Append(Handed, published[Given + 1])[i] = Handed[i]
        /\ Append(Handed, published[Given + 1])[Given + 1] = published[Given + 1]
    BY <1>6, <2>1, Appended
  <2>3. ASSUME NEW i \in 1 .. Len(Handed')
        PROVE  Handed'[i] = Append(Handed, published[Given + 1])[i]
    BY <1>5, <1>6, <2>2
  <2>4. Handed' = Append(Handed, published[Given + 1])
    BY <1>5, <1>6, <2>2, <2>3, SameSeq
  <2> QED
    BY <1>6, <2>4
<1>8. Verdict = "open" /\ Verdict' = "open"
  BY <1>2, <1>3, <1>5 DEF Verdict, ReaderEnded
<1>9. Len(Handed) < Len(published)
  BY <1>5, <1>6 DEF SubInv, SubTypeOK
<1> QED
  BY <1>2, <1>7, <1>8, <1>9 DEF Stream!Deliver

(* An error is how the stream ends. *)
LEMMA ErrorRefines == ASSUME SubInv, YieldError PROVE Stream!End("error")
<1>1. SubInv' /\ published' = published
  BY ErrorKeeps DEF YieldError
<1>2. error \in Errors /\ reader \in {"unstarted", "yielded", "waiting"}
      /\ received' = Append(received, error)
  BY DEF YieldError, Ready, SubInv, SubTypeOK
<1>3. ~ToldError
  BY <1>2, SubNumbers DEF SubInv, ErrorsLast, ToldError
<1>4. /\ Len(received') = Len(received) + 1 /\ received'[Len(received) + 1] = error
  <2>1. error \in Kinds \cup Errors /\ received \in Seq(Kinds \cup Errors)
    BY <1>2 DEF SubInv, SubTypeOK
  <2> QED
    BY <1>2, <2>1, Appended
<1>5. ToldError' /\ Given' = Given
  BY <1>2, <1>3, <1>4, SubNumbers DEF ToldError, Given, SubInv
<1>6. Handed' = Handed
  <2>1. /\ Handed' \in Seq(Kinds) /\ Len(Handed') = Given'
        /\ \A i \in 1 .. Given' : Handed'[i] = published'[i]
    <3>1. HandedFits'
      BY <1>1, HandedIsPrefix, PTL
    <3> QED
      BY <3>1 DEF HandedFits
  <2>2. /\ Handed \in Seq(Kinds) /\ Len(Handed) = Given
        /\ \A i \in 1 .. Given : Handed[i] = published[i]
    BY HandedIsPrefix DEF HandedFits
  <2> QED
    BY <1>1, <1>5, <2>1, <2>2, SameSeq
<1>7. Verdict = "open" /\ Verdict' = "error"
  BY <1>2, <1>3, <1>5 DEF Verdict, ReaderEnded
<1> QED
  BY <1>1, <1>6, <1>7 DEF Stream!End

(* A reader that returns ends the stream, cleanly if it was told of no error. *)
LEMMA ReturnRefines ==
    ASSUME SubInv, ReturnReader
    PROVE  Stream!End("complete") \/ UNCHANGED <<published, Handed, Verdict>>
<1>1. SubInv'
  BY ReaderKeeps
<1>2. /\ UNCHANGED <<published, received>> /\ reader' = "returned"
      /\ reader \in {"unstarted", "yielded", "waiting", "lastyield"}
  BY DEF ReturnReader, Ready
<1>3. Handed' = Handed /\ ToldError' = ToldError /\ Given' = Given
  BY <1>2 DEF Handed, Given, ToldError
<1>4. CASE ToldError
  BY <1>2, <1>3, <1>4 DEF Verdict
<1>5. CASE ~ToldError
  <2>1. Given = Len(published)
    BY <1>1, <1>2, <1>3, <1>5 DEF SubInv, CleanIsWhole
  <2>2. Handed = published
    BY <2>1, HandedIsPrefix, SameSeq DEF SubInv, SubTypeOK, HandedFits
  <2>3. Verdict = "open" /\ Verdict' = "complete"
    BY <1>2, <1>3, <1>5 DEF Verdict, ReaderEnded
  <2> QED
    BY <1>2, <1>3, <2>2, <2>3 DEF Stream!End
<1> QED
  BY <1>4, <1>5

(* A client that hangs up before it was told of an error ends the stream. *)
LEMMA HangUpRefines ==
    ASSUME SubInv, HangUp
    PROVE  Stream!End("gone") \/ UNCHANGED <<published, Handed, Verdict>>
<1>1. UNCHANGED <<published, received>> /\ reader' = "gone" /\ reader \notin ReaderEnded
  BY DEF HangUp
<1>2. Handed' = Handed /\ ToldError' = ToldError
  BY <1>1 DEF Handed, Given, ToldError
<1>3. CASE ToldError
  BY <1>1, <1>2, <1>3 DEF Verdict
<1>4. CASE ~ToldError
  <2>1. Verdict = "open" /\ Verdict' = "gone"
    BY <1>1, <1>2, <1>4 DEF Verdict, ReaderEnded
  <2> QED
    BY <1>1, <1>2, <2>1 DEF Stream!End
<1> QED
  BY <1>3, <1>4

(* The subscription implements the ordered, gapless stream (EventSubscription.events). *)
THEOREM SubscriptionImplementsStream == SubSpec => ImplementsStream
<1>1. SubInit => Stream!Init
  <2> SUFFICES ASSUME SubInit PROVE Stream!Init
    OBVIOUS
  <2>1. ~ToldError /\ Given = 0 /\ reader \notin ReaderEnded /\ published = <<>>
    BY DEF SubInit, ToldError, Given, ReaderEnded
  <2>2. Handed = <<>>
    BY <2>1, SubSeqEmpty DEF Handed
  <2> QED
    BY <2>1, <2>2, Verdicts DEF Stream!Init
<1>2. SubInv /\ [SubNext]_subVars => [Stream!Next]_(Stream!vars)
  <2> SUFFICES ASSUME SubInv, [SubNext]_subVars PROVE [Stream!Next]_(Stream!vars)
    OBVIOUS
  <2>1. ASSUME UNCHANGED <<published, received, reader>> PROVE UNCHANGED Stream!vars
    BY <2>1 DEF Stream!vars, Handed, Given, ToldError, Verdict
  <2>2. ASSUME UNCHANGED <<published, received>>, reader \notin ReaderEnded,
               reader' \notin ReaderEnded
        PROVE  UNCHANGED Stream!vars
    BY <2>2 DEF Stream!vars, Handed, Given, ToldError, Verdict, ReaderEnded
  <2>3. ASSUME NEW e \in Kinds, Publish(e) PROVE Stream!Next
    BY <2>3, PublishRefines DEF Stream!Next
  <2>4. ASSUME NEW err \in Failures \cup {NoError}, FinishWith(err)
        PROVE  UNCHANGED Stream!vars
    BY <2>1, <2>4 DEF FinishWith
  <2>5. CASE YieldError
    BY <2>5, ErrorRefines DEF Stream!Next
  <2>6. CASE YieldEvent
    BY <2>6, YieldRefines DEF Stream!Next
  <2>7. CASE Wait
    BY <2>2, <2>7 DEF Wait, Ready, ReaderEnded
  <2>8. CASE ReturnReader
    BY <2>8, ReturnRefines DEF Stream!Next, Stream!vars
  <2>9. CASE HangUp
    BY <2>9, HangUpRefines DEF Stream!Next, Stream!vars
  <2>10. CASE UNCHANGED subVars
    BY <2>1, <2>10 DEF subVars
  <2> QED
    BY <2>3, <2>4, <2>5, <2>6, <2>7, <2>8, <2>9, <2>10 DEF SubNext, ReaderStep
<1> QED
  BY <1>1, <1>2, SubscriptionInvariant, PTL DEF SubSpec, ImplementsStream, Stream!Spec

-----------------------------------------------------------------------------
(* Where the pump is and what that says of the turn, the conversation and admission:
   it ends with a confirmed end or with closed doors. *)
PumpTells ==
    /\ pump = "none" => ~entry /\ turn = "none" /\ published = <<>>
    /\ pump = "created" => entry
    /\ pump = "streaming" => entry /\ turn \notin {"none", "requested"}
    /\ pump = "ended" => ~entry /\ (accepting \/ error = NoError => seen)
    /\ finished <=> pump = "ended"
    /\ error = "RUNTIME_UNAVAILABLE" => ~accepting

(* turn.completed is the last event that is published, and says how the turn ended. *)
EndIsLast ==
    /\ seen => turn \in Terminal /\ Len(published) > 0 /\ published[Len(published)] = turn
    /\ \A n \in 1 .. Len(published) : published[n] \in Terminal =>
           seen /\ n = Len(published) /\ published[n] = turn

StreamInv == StreamTypeOK /\ SubInv /\ PumpTells /\ EndIsLast

(* Every step of the target or the agent is a step of the streamed turn, or none. *)
StreamStep == Open \/ Ask \/ TurnBegins \/ TurnStart \/ TurnEnds \/ Notify \/ NotifyEnd
              \/ StreamEnds \/ StreamBreaks \/ PumpFails \/ Client

LEMMA EvalSteps == [EvalNext]_allVars => StreamStep \/ UNCHANGED streamVars
BY DEF EvalNext, Target, Agent, Skip, CreateConversation, OpenTurn, RequestFails, Consume,
       ConsumeFails, BodyEnds, ListApprovals, Work, HandlerCommits, HandlerAnswers,
       AdapterGivesUp, Ends, Server, StreamStep, allVars

(* Pump, runtime and client move the subscription only by its own operations. *)
LEMMA StreamStepIsSub ==
    ASSUME StreamStep \/ UNCHANGED streamVars
    PROVE  [SubNext]_subVars
<1>1. "completed" \in Kinds /\ "failed" \in Kinds /\ Terminal \subseteq Kinds
  BY TerminalAssumption DEF Terminal
<1>2. CASE NotifyEnd
  BY <1>1, <1>2 DEF NotifyEnd, SubNext
<1>3. CASE Notify
  BY <1>3 DEF Notify, SubNext
<1>4. CASE StreamEnds \/ StreamBreaks \/ PumpFails
  BY <1>4 DEF StreamEnds, StreamBreaks, PumpFails, PumpEnds, SubNext, Failures
<1>5. CASE Open \/ Ask \/ TurnBegins \/ TurnStart \/ TurnEnds \/ Client \/ UNCHANGED streamVars
  BY <1>5 DEF Open, Ask, TurnBegins, TurnStart, TurnEnds, Client, SubNext, streamVars
<1> QED
  BY <1>2, <1>3, <1>4, <1>5 DEF StreamStep

(* A verdict is published once, and nothing after it; what was received stays. *)
LEMMA PastStays ==
    ASSUME StreamInv, StreamStep \/ UNCHANGED streamVars
    PROVE  /\ SubInv'
           /\ Len(received) \in Nat /\ Len(received') \in Nat /\ Len(received) <= Len(received')
           /\ \A n \in 1 .. Len(received) : received'[n] = received[n]
           /\ seen => seen' /\ UNCHANGED <<turn, published>>
           /\ turn' # turn => Ask \/ TurnBegins \/ TurnEnds
           /\ turn = "completed" => turn' = "completed"
<1>1. [SubNext]_subVars
  BY StreamStepIsSub
<1>2. SubInv'
  BY <1>1, SubNextKeeps DEF StreamInv
<1>3. /\ Len(received) \in Nat /\ Len(received') \in Nat /\ Len(received) <= Len(received')
      /\ \A n \in 1 .. Len(received) : received'[n] = received[n]
  <2>1. received \in Seq(Kinds \cup Errors) /\ Len(received) \in Nat
    BY DEF StreamInv, SubInv, SubTypeOK
  <2>2. CASE received' = received
    BY <2>1, <2>2
  <2>3. ASSUME NEW x \in Kinds \cup Errors, received' = Append(received, x)
        PROVE  /\ Len(received') \in Nat /\ Len(received) <= Len(received')
               /\ \A n \in 1 .. Len(received) : received'[n] = received[n]
    BY <2>1, <2>3, Appended
  <2>4. CASE YieldEvent
    <3>1. Head(queue) \in Kinds \cup Errors /\ received' = Append(received, Head(queue))
      BY <2>4, TakenOff DEF YieldEvent, StreamInv, SubInv, SubTypeOK
    <3> QED
      BY <2>3, <3>1
  <2>5. CASE YieldError
    <3>1. error \in Kinds \cup Errors /\ received' = Append(received, error)
      BY <2>5 DEF YieldError, StreamInv, SubInv, SubTypeOK
    <3> QED
      BY <2>3, <3>1
  <2>6. received' = received \/ YieldEvent \/ YieldError
    BY <1>1 DEF SubNext, subVars, Publish, FinishWith, ReaderStep, Wait, ReturnReader, HangUp
  <2> QED
    BY <2>2, <2>4, <2>5, <2>6
<1>4. seen => seen' /\ UNCHANGED <<turn, published>>
  BY DEF StreamStep, Open, Ask, TurnBegins, TurnStart, TurnEnds, Notify, NotifyEnd,
         StreamEnds, StreamBreaks, PumpFails, PumpEnds, FinishWith, Client, ReaderStep,
         YieldError, YieldEvent, Wait, ReturnReader, HangUp, streamVars, subVars, turnVars, StreamInv, PumpTells,
         EndIsLast, Terminal
<1>5. turn' # turn => Ask \/ TurnBegins \/ TurnEnds
  BY DEF StreamStep, Open, TurnStart, Notify, NotifyEnd, StreamEnds, StreamBreaks,
         PumpFails, PumpEnds, Client, streamVars, turnVars
<1>6. turn = "completed" => turn' = "completed"
  BY <1>5 DEF Ask, TurnBegins, TurnEnds
<1> QED
  BY <1>2, <1>3, <1>4, <1>5, <1>6

(* The pump's steps keep its invariant. *)
LEMMA StreamStepKeeps ==
    ASSUME StreamInv, StreamStep \/ UNCHANGED streamVars
    PROVE  StreamInv'
<1> USE DEF StreamInv
<1>1. SubInv'
  BY PastStays
<1>2. published \in Seq(Kinds) /\ Len(published) \in Nat
  BY DEF SubInv, SubTypeOK
<1>3. SubTypeOK'
  BY <1>1 DEF SubInv
<1>4. ASSUME UNCHANGED published, seen' = seen, seen => turn' = turn
      PROVE  EndIsLast'
  BY <1>4 DEF EndIsLast
<1>5. CASE Open
  <2>1. UNCHANGED subVars /\ pump' = "created" /\ entry' = TRUE /\ pump = "none"
        /\ UNCHANGED <<turn, seen, accepting>>
    BY <1>5 DEF Open
  <2>2. StreamTypeOK' /\ PumpTells' /\ EndIsLast'
    BY <1>3, <1>4, <2>1 DEF subVars, StreamTypeOK, PumpTells
  <2> QED
    BY <1>1, <2>2
<1>6. CASE TurnStart
  <2>1. /\ UNCHANGED subVars /\ pump' = "streaming" /\ pump = "created"
        /\ turn \notin {"none", "requested"} /\ UNCHANGED <<turn, entry, seen, accepting>>
    BY <1>6 DEF TurnStart
  <2>2. StreamTypeOK' /\ PumpTells' /\ EndIsLast'
    BY <1>3, <1>4, <2>1 DEF subVars, StreamTypeOK, PumpTells
  <2> QED
    BY <1>1, <2>2
<1>7. CASE TurnEnds
  <2>1. /\ UNCHANGED subVars /\ turn = "running" /\ turn' \in Terminal
        /\ UNCHANGED <<pump, entry, seen, accepting>>
    BY <1>7 DEF TurnEnds
  <2>2. ~seen
    BY <2>1 DEF EndIsLast, Terminal
  <2>3. StreamTypeOK' /\ PumpTells' /\ EndIsLast'
    BY <1>3, <1>4, <2>1, <2>2 DEF subVars, StreamTypeOK, PumpTells, Terminal
  <2> QED
    BY <1>1, <2>3
<1>8. ASSUME NEW e \in Kinds, Publish(e), pump = "streaming", ~seen,
             UNCHANGED <<turn, pump, entry, accepting>>,
             IF e \in Terminal THEN seen' = TRUE /\ e = turn ELSE seen' = seen
      PROVE  StreamInv'
  <2>1. /\ published' = Append(published, e) /\ UNCHANGED finished
        /\ error' = error \/ error' = TooSlow
    BY <1>8 DEF Publish
  <2>2. /\ Len(published') = Len(published) + 1
        /\ \A n \in 1 .. Len(published) : published'[n] = published[n]
        /\ published'[Len(published) + 1] = e
    BY <1>2, <2>1, Appended
  <2>3. EndIsLast'
    BY <1>2, <1>8, <2>2 DEF EndIsLast
  <2>4. PumpTells' /\ StreamTypeOK'
    BY <1>3, <1>8, <2>1 DEF PumpTells, StreamTypeOK, TooSlow, NoError
  <2> QED
    BY <1>1, <2>3, <2>4
<1>9. CASE Notify
  <2>1. PICK e \in Kinds \ Terminal : Publish(e)
    BY <1>9 DEF Notify
  <2> QED
    BY <1>8, <1>9, <2>1 DEF Notify, turnVars
<1>10. CASE NotifyEnd
  BY <1>8, <1>10, TerminalAssumption DEF NotifyEnd, Terminal
<1>11. ASSUME NEW err \in {NoError, "RUNTIME_UNAVAILABLE"}, NEW open \in BOOLEAN,
              PumpEnds(err, open), pump \in {"created", "streaming"},
              open => accepting /\ seen /\ err = NoError, err = NoError => seen
       PROVE  StreamInv'
  <2>1. /\ finished' = TRUE /\ ~finished /\ pump' = "ended" /\ entry' = FALSE
        /\ accepting' = open /\ UNCHANGED <<turn, seen, published>>
        /\ error' = IF error = NoError THEN err ELSE error
    BY <1>11 DEF PumpEnds, FinishWith
  <2>2. EndIsLast'
    BY <1>4, <2>1
  <2>3. PumpTells' /\ StreamTypeOK'
    BY <1>3, <1>11, <2>1 DEF PumpTells, StreamTypeOK, NoError
  <2> QED
    BY <1>1, <2>2, <2>3
<1>12. CASE StreamEnds
  BY <1>11, <1>12 DEF StreamEnds, StreamTypeOK
<1>13. CASE StreamBreaks \/ PumpFails
  BY <1>11, <1>13 DEF StreamBreaks, PumpFails, NoError
<1>14. CASE Client
  <2>1. UNCHANGED <<finished, error, published>> /\ UNCHANGED turnVars
    BY <1>14 DEF Client, ReaderStep, YieldError, YieldEvent, Wait, ReturnReader, HangUp
  <2>2. StreamTypeOK' /\ PumpTells' /\ EndIsLast'
    BY <1>3, <1>4, <2>1 DEF turnVars, StreamTypeOK, PumpTells
  <2> QED
    BY <1>1, <2>2
<1>15. CASE UNCHANGED streamVars
  <2>1. StreamTypeOK' /\ PumpTells' /\ EndIsLast'
    BY <1>3, <1>4, <1>15 DEF streamVars, turnVars, subVars, StreamTypeOK, PumpTells
  <2> QED
    BY <1>1, <2>1
<1>16. CASE Ask \/ TurnBegins
  <2>1. /\ UNCHANGED subVars /\ pump # "none" /\ pump # "streaming"
        /\ turn \in {"none", "requested"} /\ turn' \in {"requested", "running"}
        /\ UNCHANGED <<pump, entry, seen, accepting>>
    BY <1>16 DEF Ask, TurnBegins, PumpTells
  <2>2. ~seen
    BY <2>1 DEF EndIsLast, Terminal
  <2>3. StreamTypeOK' /\ PumpTells' /\ EndIsLast'
    BY <1>3, <1>4, <2>1, <2>2 DEF subVars, StreamTypeOK, PumpTells
  <2> QED
    BY <1>1, <2>3
<1> QED
  BY <1>5, <1>6, <1>7, <1>9, <1>10, <1>12, <1>13, <1>14, <1>15, <1>16 DEF StreamStep

(* Nothing has begun. *)
LEMMA EvalStartsWell == EvalInit => StreamInv
<1> SUFFICES ASSUME EvalInit PROVE StreamInv
  OBVIOUS
<1>1. SubInv /\ SubInit
  BY SubInitHolds DEF EvalInit, StreamInit
<1>2. Len(published) = 0
  BY <1>1 DEF SubInit
<1>3. pump = "none" /\ ~seen /\ ~entry /\ turn = "none" /\ accepting
      /\ ~finished /\ published = <<>> /\ error = NoError
  BY DEF EvalInit, StreamInit, SubInit
<1>4. StreamTypeOK
  BY <1>1, <1>3 DEF StreamTypeOK, SubInv, EvalInit, StreamInit
<1>5. PumpTells
  BY <1>3 DEF PumpTells, NoError
<1>6. EndIsLast
  BY <1>2, <1>3 DEF EndIsLast
<1> QED
  BY <1>1, <1>4, <1>5, <1>6 DEF StreamInv

(* The pump's invariant holds of every evaluation, whatever tools a turn calls. *)
THEOREM StreamInvariant == EvalSpec => []StreamInv
<1>1. StreamInv /\ [EvalNext]_allVars => StreamInv'
  BY EvalSteps, StreamStepKeeps
<1> QED
  BY EvalStartsWell, <1>1, PTL DEF EvalSpec

(* The subscription inside a streamed turn is an EventSubscription: the pump's produce()
   and the SSE response use it only through publish, finish and events(). *)
THEOREM TurnsUseSubscriptions == EvalSpec => SubSpec
<1>1. EvalInit => SubInit
  BY DEF EvalInit, StreamInit
<1>2. [EvalNext]_allVars => [SubNext]_subVars
  BY EvalSteps, StreamStepIsSub
<1> QED
  BY <1>1, <1>2, PTL DEF EvalSpec, SubSpec

(* So a streamed turn as a whole is, for its client, the ordered and gapless stream that
   EventStream promises, whatever the runtime and the evaluation target do. *)
THEOREM TurnsAreStreams == EvalSpec => ImplementsStream
BY TurnsUseSubscriptions, SubscriptionImplementsStream, PTL

(* A free conversation of an open service has no turn running (produce, execute). *)
THEOREM FreeIsAtRest == EvalSpec => []FreeMeansAtRest
<1>1. StreamInv => FreeMeansAtRest
  BY DEF StreamInv, StreamTypeOK, PumpTells, EndIsLast, FreeMeansAtRest, Terminal
<1> QED
  BY <1>1, StreamInvariant, PTL

(* A stream that ends without an error has said how the turn ended (stream_turn). *)
THEOREM CleanEndSaysHow == EvalSpec => []CleanEndHasVerdict
<1>1. StreamInv => CleanEndHasVerdict
  <2> SUFFICES ASSUME StreamInv, reader = "returned", \A e \in Errors : ~Got(e)
               PROVE  Got(turn) /\ turn \in Terminal
    BY DEF CleanEndHasVerdict
  <2> USE DEF StreamInv
  <2>1. ~ToldError
    BY SubNumbers DEF SubInv, ToldError, Got
  <2>2. finished /\ error = NoError /\ Given = Len(published) /\ Given = Len(received)
    BY <2>1, SubNumbers DEF SubInv, CleanIsWhole
  <2>3. seen /\ turn \in Terminal /\ Len(published) > 0 /\ published[Len(published)] = turn
    BY <2>2 DEF PumpTells, EndIsLast
  <2>4. Given \in 1 .. Len(received) /\ received[Given] = turn
    BY <2>2, <2>3, SubNumbers DEF SubInv, InOrder
  <2> QED
    BY <2>3, <2>4 DEF Got
<1> QED
  BY <1>1, StreamInvariant, PTL

(* A verdict the client was given is the turn's own, and published last. *)
LEMMA VerdictIsPublished ==
    ASSUME StreamInv, NEW n \in 1 .. Len(received), received[n] \in Terminal
    PROVE  n = Len(published) /\ n <= Given /\ seen /\ received[n] = turn
<1> USE DEF StreamInv
<1>1. n <= Given
  BY SubNumbers, KindsAssumption, TerminalAssumption DEF SubInv
<1>2. received[n] = published[n] /\ n \in 1 .. Len(published)
  BY <1>1, SubNumbers DEF SubInv, InOrder
<1> QED
  BY <1>1, <1>2 DEF EndIsLast

(* The client's success is the runtime's, and a broken stream a service that refuses
   (stream_turn, produce). *)
THEOREM VerdictsAreTrue == EvalSpec => []VerdictsAgree
<1>1. StreamInv => VerdictsAgree
  <2> SUFFICES ASSUME StreamInv PROVE VerdictsAgree
    OBVIOUS
  <2>1. ASSUME NEW n \in 1 .. Len(received), received[n] = "completed"
        PROVE  turn = "completed"
    BY <2>1, VerdictIsPublished DEF Terminal
  <2>2. ASSUME NEW n \in 1 .. Len(received), received[n] = "RUNTIME_UNAVAILABLE"
        PROVE  ~accepting
    BY <2>2 DEF StreamInv, SubInv, ErrorsLast, PumpTells, Errors, Failures
  <2> QED
    BY <2>1, <2>2 DEF VerdictsAgree, Got
<1> QED
  BY <1>1, StreamInvariant, PTL

-----------------------------------------------------------------------------
(* The approvals are asked for once a success was read. *)
ListingIsEarned == phase = "listing" => read > 0 /\ received[read] = "completed"

(* No cancel_order call is under way in a turn that completed. *)
CallsAreOver == turn = "completed" => ticket # "asked"

(* The row of a completed example was scored on all that was published, and on the
   approval table as it was then. *)
Judged ==
    phase = "closed" =>
        /\ rows # <<>>
        /\ rows[Len(rows)].status = "completed" =>
               /\ seen /\ turn = "completed"
               /\ \E created \in BOOLEAN :
                      /\ rows[Len(rows)].scores = ScoresOf(published, created)
                      /\ created => row
                      /\ ~created /\ row => ticket = "abandoned"

EvalInv == EvalTypeOK /\ StreamInv /\ ListingIsEarned /\ CallsAreOver /\ Judged

(* The scores have their types, and depend on the example and what was published. *)
LEMMA ScoresAreScores ==
    ASSUME NEW seq, NEW created \in BOOLEAN
    PROVE  ScoresOf(seq, created) \in Scores
BY DEF ScoresOf, Scores, Score

LEMMA ScoresStay ==
    ASSUME NEW created, UNCHANGED <<published, example>>
    PROVE  ScoresOf(published, created)' = ScoresOf(published, created)
BY DEF ScoresOf, Score, ToolPolicy, ResponseContract, Count

(* What a target that is listing has read is all there is. *)
LEMMA ListedIsAll ==
    ASSUME EvalInv, phase = "listing"
    PROVE  /\ seen /\ turn = "completed" /\ SubSeq(received, 1, read) = published
<1>1. read \in 1 .. Len(received) /\ received[read] = "completed"
  <2>1. read \in 0 .. Len(received) /\ Len(received) \in Nat
    BY DEF EvalInv, EvalTypeOK, StreamTypeOK, SubTypeOK
  <2> QED
    BY <2>1 DEF EvalInv, ListingIsEarned
<1>2. read = Len(published) /\ read <= Given /\ seen /\ turn = "completed"
  BY <1>1, VerdictIsPublished DEF EvalInv, Terminal
<1>3. published \in Seq(Kinds) /\ Len(published) = read /\ read \in Nat
  BY <1>1, <1>2 DEF EvalInv, EvalTypeOK, StreamTypeOK, SubTypeOK
<1>4. \A n \in 1 .. read : received[n] = published[n] /\ received[n] \in Kinds
  <2>1. ASSUME NEW n \in 1 .. read PROVE received[n] = published[n] /\ received[n] \in Kinds
    <3>1. n \in 1 .. Given /\ n \in 1 .. Len(published)
      BY <1>2, <1>3, SubNumbers DEF EvalInv, StreamInv, SubInv
    <3> QED
      BY <1>3, <3>1 DEF EvalInv, StreamInv, SubInv, InOrder
  <2> QED
    BY <2>1
<1>5. /\ SubSeq(received, 1, read) \in Seq(Kinds)
      /\ Len(SubSeq(received, 1, read)) = IF 1 <= read THEN read - 1 + 1 ELSE 0
      /\ \A i \in 1 .. read - 1 + 1 : SubSeq(received, 1, read)[i] = received[1 + i - 1]
  BY <1>3, <1>4, SubSeqProperties
<1>6. /\ Len(SubSeq(received, 1, read)) = Len(published)
      /\ \A i \in 1 .. Len(published) : SubSeq(received, 1, read)[i] = published[i]
  BY <1>3, <1>4, <1>5
<1>7. SubSeq(received, 1, read) = published
  BY <1>3, <1>5, <1>6, SameSeq
<1> QED
  BY <1>2, <1>7

(* A target that ends leaves its row last. *)
LEMMA CloseLeavesRow ==
    ASSUME NEW r \in Row, Close(r)
    PROVE  /\ phase' = "closed" /\ UNCHANGED <<example, ticket, row>>
           /\ rows' \in Seq(Row) /\ rows' # <<>> /\ rows'[Len(rows')] = r
<1>1. PICK others \in OtherRows : rows' = Append(others, r)
  BY DEF Close
<1>2. others \in Seq(Row) /\ Len(others) \in Nat
  BY EvaluationAssumption
<1>3. /\ rows' \in Seq(Row) /\ Len(rows') = Len(others) + 1
      /\ rows'[Len(others) + 1] = r
  BY <1>1, <1>2, Appended
<1>4. rows' # <<>>
  BY <1>2, <1>3
<1> QED
  BY <1>3, <1>4 DEF Close

(* What a step of the agent leaves alone while the row stays out or is in. *)
LEMMA AgentKeeps ==
    ASSUME EvalInv, Agent \/ UNCHANGED allVars
    PROVE  EvalInv'
<1> USE DEF EvalInv
<1>1. StreamStep \/ UNCHANGED streamVars
  BY EvalSteps DEF EvalNext
<1>2. StreamInv'
  BY <1>1, StreamStepKeeps
<1>3. UNCHANGED <<example, phase, read, rows>>
  BY DEF Agent, Work, HandlerCommits, HandlerAnswers, AdapterGivesUp, Ends, evalVars, allVars
<1>4. \/ UNCHANGED <<ticket, row>>
      \/ Work /\ ~seen
      \/ ticket \in {"asked", "abandoned"} /\ ticket' = ticket /\ row' = TRUE
      \/ ticket = "asked" /\ ticket' \in {"answered", "abandoned"} /\ row' = row
  BY DEF Agent, Work, HandlerCommits, HandlerAnswers, AdapterGivesUp, Ends, evalVars, allVars,
         Notify
<1>5. EvalTypeOK'
  <2>1. ticket' \in {"none", "asked", "answered", "abandoned"} /\ row' \in BOOLEAN
    BY <1>4 DEF Work, EvalTypeOK
  <2>2. read' \in 0 .. Len(received')
    BY <1>1, <1>3, PastStays DEF EvalTypeOK
  <2> QED
    BY <1>2, <1>3, <2>1, <2>2 DEF EvalTypeOK, StreamInv
<1>6. ListingIsEarned'
  <2> SUFFICES ASSUME phase = "listing" PROVE read' > 0 /\ received'[read'] = "completed"
    BY <1>3 DEF ListingIsEarned
  <2>1. read > 0 /\ received[read] = "completed" /\ read \in 1 .. Len(received)
    BY DEF ListingIsEarned, EvalTypeOK
  <2>2. received'[read] = received[read]
    BY <1>1, <2>1, PastStays
  <2> QED
    BY <1>3, <2>1, <2>2
<1>7. CallsAreOver'
  <2> SUFFICES ASSUME turn' = "completed" PROVE ticket' # "asked"
    BY DEF CallsAreOver
  <2>1. CASE turn = "completed"
    BY <1>4, <2>1 DEF CallsAreOver, Work
  <2>2. CASE turn # "completed"
    <3>1. Ask \/ TurnBegins \/ TurnEnds
      BY <1>1, <2>2, PastStays
    <3>2. TurnEnds
      BY <3>1 DEF Ask, TurnBegins
    <3>3. Ends
      BY <2>2, <3>2 DEF Agent, Work, HandlerCommits, HandlerAnswers, AdapterGivesUp, Notify,
                Server, Ask, TurnBegins, TurnStart, NotifyEnd, StreamEnds, StreamBreaks,
                PumpFails, PumpEnds, Client, allVars, streamVars, turnVars
    <3> QED
      BY <3>3 DEF Ends, evalVars
  <2> QED
    BY <2>1, <2>2
<1>8. Judged'
  <2> SUFFICES ASSUME phase = "closed" PROVE Judged'
    BY <1>3 DEF Judged
  <2>1. rows' = rows /\ rows # <<>>
    BY <1>3 DEF Judged
  <2>2. CASE rows[Len(rows)].status # "completed"
    BY <2>1, <2>2 DEF Judged
  <2>3. CASE rows[Len(rows)].status = "completed"
    <3>1. PICK created \in BOOLEAN :
            /\ rows[Len(rows)].scores = ScoresOf(published, created)
            /\ created => row
            /\ ~created /\ row => ticket = "abandoned"
      BY <2>3 DEF Judged
    <3>2. seen /\ turn = "completed" /\ ticket # "asked"
      BY <2>3 DEF Judged, CallsAreOver
    <3>3. seen' /\ turn' = "completed" /\ UNCHANGED published
      BY <1>1, <3>2, PastStays
    <3>4. ScoresOf(published, created)' = ScoresOf(published, created)
      BY <1>3, <3>3, ScoresStay
    <3>5. (created => row') /\ (~created /\ row' => ticket' = "abandoned")
      BY <1>4, <3>1, <3>2
    <3>6. rows'[Len(rows')].scores = ScoresOf(published, created)'
      BY <2>1, <3>1, <3>4
    <3> QED
      BY <2>1, <3>3, <3>5, <3>6 DEF Judged
  <2> QED
    BY <2>2, <2>3
<1> QED
  BY <1>2, <1>5, <1>6, <1>7, <1>8

(* An end without a result. *)
LEMMA FailureKeeps ==
    ASSUME EvalInv, NEW status \in {"skipped", "error"}, Close([status |-> status]),
           StreamStep \/ UNCHANGED streamVars, turn' = turn, read' = read
    PROVE  EvalInv'
<1> USE DEF EvalInv
<1>1. StreamInv'
  BY StreamStepKeeps
<1>2. [status |-> status] \in Row /\ [status |-> status].status # "completed"
  BY DEF Row
<1>3. /\ phase' = "closed" /\ UNCHANGED <<example, ticket, row>>
      /\ rows' \in Seq(Row) /\ rows' # <<>> /\ rows'[Len(rows')].status # "completed"
  BY <1>2, CloseLeavesRow
<1>4. EvalTypeOK'
  <2>1. read' \in 0 .. Len(received')
    BY PastStays DEF EvalTypeOK
  <2> QED
    BY <1>1, <1>3, <2>1 DEF EvalTypeOK, StreamInv, Phases
<1>5. ListingIsEarned' /\ CallsAreOver' /\ Judged'
  BY <1>3 DEF ListingIsEarned, CallsAreOver, Judged
<1> QED
  BY <1>1, <1>4, <1>5

(* The steps of the target that do not end it. *)
LEMMA ProgressKeeps ==
    ASSUME EvalInv, phase' \in Phases \ {"closed"}, UNCHANGED <<example, ticket, row, rows>>,
           StreamStep \/ UNCHANGED streamVars, turn' = turn,
           read' \in 0 .. Len(received'),
           phase' = "listing" => read' > 0 /\ received'[read'] = "completed"
    PROVE  EvalInv'
<1> USE DEF EvalInv
<1>1. StreamInv'
  BY StreamStepKeeps
<1>2. EvalTypeOK'
  BY <1>1 DEF EvalTypeOK, StreamInv
<1>3. ListingIsEarned' /\ CallsAreOver' /\ Judged'
  BY DEF ListingIsEarned, CallsAreOver, Judged
<1> QED
  BY <1>1, <1>2, <1>3

(* A result. *)
LEMMA ResultKeeps == ASSUME EvalInv, ListApprovals PROVE EvalInv'
<1> USE DEF EvalInv
<1>1. /\ phase = "listing" /\ UNCHANGED <<streamVars, read>>
      /\ Close([status |-> "completed", scores |-> ScoresOf(SubSeq(received, 1, read), row)])
  BY DEF ListApprovals
<1>2. seen /\ turn = "completed" /\ SubSeq(received, 1, read) = published
  BY <1>1, ListedIsAll
<1> DEFINE r == [status |-> "completed", scores |-> ScoresOf(published, row)]
<1>3. r \in Row /\ r.status = "completed" /\ r.scores = ScoresOf(published, row)
  <2>1. ScoresOf(published, row) \in Scores
    BY ScoresAreScores DEF EvalTypeOK
  <2> HIDE DEF ScoresOf
  <2> QED
    BY <2>1 DEF Row
<1>4. Close(r)
  BY <1>1, <1>2
<1> HIDE DEF r
<1>5. /\ phase' = "closed" /\ UNCHANGED <<example, ticket, row>>
      /\ rows' \in Seq(Row) /\ rows' # <<>> /\ rows'[Len(rows')] = r
  BY <1>3, <1>4, CloseLeavesRow
<1>6. StreamInv'
  BY <1>1, StreamStepKeeps
<1>7. UNCHANGED <<published, received, seen, turn, read>>
  BY <1>1 DEF streamVars, subVars, turnVars
<1>8. EvalTypeOK'
  BY <1>5, <1>6, <1>7 DEF EvalTypeOK, StreamInv, Phases
<1>9. ListingIsEarned' /\ CallsAreOver'
  BY <1>5, <1>7 DEF ListingIsEarned, CallsAreOver
<1>10. Judged'
  <2>1. row \in BOOLEAN
    BY DEF EvalTypeOK
  <2>2. PICK created \in BOOLEAN : created = row' /\ created = row
    BY <1>5, <2>1
  <2>3. rows'[Len(rows')].scores = ScoresOf(published, created)'
    BY <1>3, <1>5, <1>7, <2>2, ScoresStay
  <2> QED
    BY <1>2, <1>5, <1>7, <2>2, <2>3 DEF Judged
<1> QED
  BY <1>6, <1>8, <1>9, <1>10

(* Every step of an evaluation keeps its invariant. *)
LEMMA EvalNextKeeps == EvalInv /\ [EvalNext]_allVars => EvalInv'
<1> SUFFICES ASSUME EvalInv, [EvalNext]_allVars PROVE EvalInv'
  OBVIOUS
<1>1. ASSUME Target PROVE StreamStep \/ UNCHANGED streamVars
  BY <1>1, EvalSteps DEF EvalNext
<1>2. read \in 0 .. Len(received) /\ Len(received) \in Nat /\ read \in Nat
  BY DEF EvalInv, EvalTypeOK, StreamTypeOK, SubTypeOK
<1>3. ASSUME UNCHANGED streamVars
      PROVE  turn' = turn /\ received' = received
  BY <1>3 DEF streamVars, subVars, turnVars
<1>4. CASE Agent \/ UNCHANGED allVars
  BY <1>4, AgentKeeps
<1>5. CASE Skip
  BY <1>1, <1>3, <1>5, FailureKeeps DEF Skip, Target
<1>6. CASE RequestFails \/ ConsumeFails \/ BodyEnds
  BY <1>1, <1>3, <1>6, FailureKeeps DEF RequestFails, ConsumeFails, BodyEnds, Fails, Target
<1>7. CASE CreateConversation
  BY <1>1, <1>2, <1>3, <1>7, ProgressKeeps DEF CreateConversation, Target, Phases
<1>8. CASE OpenTurn
  <2>1. turn' = turn /\ received' = received /\ read' = read
    BY <1>8 DEF OpenTurn, Open, subVars
  <2>2. CASE Fails
    BY <1>1, <1>8, <2>1, <2>2, FailureKeeps DEF Fails, Target
  <2>3. CASE phase' = "streaming" /\ UNCHANGED <<example, ticket, row, rows>>
    BY <1>1, <1>2, <1>8, <2>1, <2>3, ProgressKeeps DEF Target, Phases
  <2> QED
    BY <1>8, <2>2, <2>3 DEF OpenTurn
<1>9. CASE Consume
  <2>1. /\ read < Len(received) /\ read' = read + 1
        /\ phase' = IF received[read + 1] = "completed" THEN "listing" ELSE "streaming"
        /\ UNCHANGED <<streamVars, example, ticket, row, rows>>
    BY <1>9 DEF Consume
  <2>2. read' \in 0 .. Len(received') /\ read' > 0
        /\ (phase' = "listing" => received'[read'] = "completed")
    BY <1>2, <1>3, <2>1
  <2> QED
    BY <1>1, <1>3, <1>9, <2>1, <2>2, ProgressKeeps DEF Target, Phases
<1>10. CASE ListApprovals
  BY <1>10, ResultKeeps
<1> QED
  BY <1>4, <1>5, <1>6, <1>7, <1>8, <1>9, <1>10 DEF EvalNext, Target

(* Nothing is scored on less than all that happened. *)
THEOREM EvaluationInvariant == EvalSpec => []EvalInv
<1>1. EvalInit => EvalInv
  <2> SUFFICES ASSUME EvalInit PROVE EvalInv
    OBVIOUS
  <2>1. StreamInv
    BY EvalStartsWell
  <2>2. read = 0 /\ phase = "start" /\ ticket = "none" /\ row = FALSE /\ rows = <<>>
        /\ turn = "none" /\ example \in Example /\ Len(received) = 0
    BY EvaluationAssumption DEF EvalInit, StreamInit, SubInit
  <2>3. rows \in Seq(Row)
    BY <2>2, EmptySeq
  <2>4. EvalTypeOK
    <3>1. StreamTypeOK /\ read \in 0 .. Len(received)
      BY <2>1, <2>2 DEF StreamInv
    <3>2. example \in Example
      BY <2>2
    <3>3. row \in BOOLEAN /\ phase \in Phases
          /\ ticket \in {"none", "asked", "answered", "abandoned"}
      BY <2>2 DEF Phases
    <3> QED
      BY <2>3, <3>1, <3>2, <3>3 DEF EvalTypeOK
  <2>5. ListingIsEarned /\ CallsAreOver /\ Judged
    BY <2>2 DEF ListingIsEarned, CallsAreOver, Judged
  <2> QED
    BY <2>1, <2>4, <2>5 DEF EvalInv
<1> QED
  BY <1>1, EvalNextKeeps, PTL DEF EvalSpec

(* A gate that opens saw the whole of a turn that succeeded (consume, _stream_turn,
   _execution_guard, summarize_results). *)
THEOREM PassesAreTrue == EvalSpec => []PassedIsTrue
<1>1. EvalInv => PassedIsTrue
  <2> SUFFICES ASSUME EvalInv, phase = "closed", GatePassed(rows)
               PROVE  /\ turn = "completed" /\ example.contract
                      /\ ToolPolicy(published) /\ ResponseContract(published)
    <3>1. ASSUME ToolPolicy(published), ResponseContract(published)
          PROVE  /\ \A t \in Tools : Count(published, t) >= example.least[t]
                 /\ \A t \in example.forbidden \cup example.never : Count(published, t) = 0
                 /\ example.any # {} => \E x \in example.any : Count(published, x) > 0
      BY <3>1 DEF ToolPolicy, ResponseContract
    <3> QED
      BY <3>1 DEF PassedIsTrue
  <2> DEFINE last == rows[Len(rows)]
  <2>1. rows \in Seq(Row) /\ rows # <<>>
    BY DEF EvalInv, EvalTypeOK, Judged
  <2>2. Len(rows) \in DOMAIN rows
    BY <2>1
  <2>3. IsGood(last)
    BY <2>2 DEF GatePassed, Failed, Skipped
  <2>4. last.status = "completed" /\ \A key \in DOMAIN last.scores : last.scores[key] = 1
    BY <2>3 DEF IsGood
  <2>5. PICK created \in BOOLEAN : last.scores = ScoresOf(published, created)
    BY <2>4 DEF EvalInv, Judged
  <2>6. turn = "completed"
    BY <2>4 DEF EvalInv, Judged
  <2>7. Score(ToolPolicy(published)) = 1 /\ Score(ResponseContract(published)) = 1
    BY <2>4, <2>5 DEF ScoresOf
  <2> QED
    BY <2>6, <2>7 DEF Score
<1> QED
  BY <1>1, EvaluationInvariant, PTL

(* A passing approval score is about what the turn did (__call__, list_approvals). *)
THEOREM ApprovalScoresAreTrue == EvalSpec => []ApprovalScoreIsTrue
<1>1. EvalInv => ApprovalScoreIsTrue
  <2> SUFFICES ASSUME EvalInv, phase = "closed", rows[Len(rows)].status = "completed",
                      rows[Len(rows)].scores.approval_policy = 1
               PROVE  IF example.approval THEN row ELSE row => ticket = "abandoned"
    BY DEF ApprovalScoreIsTrue
  <2>1. PICK created \in BOOLEAN :
          /\ rows[Len(rows)].scores = ScoresOf(published, created)
          /\ created => row
          /\ ~created /\ row => ticket = "abandoned"
    BY DEF EvalInv, Judged
  <2>2. Score(example.approval = created) = 1
    BY <2>1 DEF ScoresOf
  <2>3. example.approval = created
    BY <2>2 DEF Score
  <2> QED
    BY <2>1, <2>3
<1> QED
  BY <1>1, EvaluationInvariant, PTL

=============================================================================
