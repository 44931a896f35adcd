--------------------------- MODULE CompactionProofs ---------------------------
(***************************************************************************)
(* Proofs about Compaction for any number of operations on a conversation. *)
(***************************************************************************)
EXTENDS Compaction, TLAPS

(* What the operation in hand asks for. *)
KindInHand == IF op = "chatting" THEN "chat" ELSE "compaction"

(* The operation in hand has one request or one turn of its own, and all the turns of
   the operations before it have ended. *)
OneAtATime ==
    /\ accepting /\ Len(answers) < MaxCalls
    /\ asked # None => asked.by = Current /\ asked.kind = KindInHand
    /\ \A i \in DOMAIN turns :
           /\ turns[i].by <= Current
           /\ turns[i].by # Current => turns[i].status \in Ends
           /\ turns[i].by = Current =>
                  /\ asked = None /\ turns[i].kind = KindInHand
                  /\ \A j \in DOMAIN turns : turns[j].by = Current => i = j

(* The compaction has asked for nothing before it has read the thread; the turns that
   were not there then are its own. *)
PreviousKnown ==
    /\ op = "snapping" => asked = None /\ \A i \in DOMAIN turns : turns[i].by # Current
    /\ op \in {"asking", "polling", "looking"} =>
           \A i \in DOMAIN turns : i \in previous <=> turns[i].by # Current

(* A free conversation is at rest and the next operation has left no trace yet. *)
AtRest ==
    asked = None /\ \A i \in DOMAIN turns : turns[i].status \in Ends /\ turns[i].by < Current

(* What was read is still true of the turns that had ended. *)
ViewTrue ==
    \A i \in DOMAIN view :
        /\ i \in DOMAIN turns
        /\ view[i].by = turns[i].by /\ view[i].kind = turns[i].kind
        /\ view[i].status \in Ends => turns[i].status = view[i].status

(* Inductive. *)
CompInv ==
    /\ TypeOK /\ AnswersAreOwn /\ ViewTrue
    /\ op # "idle" => OneAtATime /\ PreviousKnown
    /\ op = "idle" /\ accepting => AtRest

-----------------------------------------------------------------------------
(* Facts about sequences. *)
LEMMA ElementType == ASSUME NEW S, NEW s \in Seq(S), NEW n \in DOMAIN s PROVE s[n] \in S
OBVIOUS

(* The same for an element that is appended. *)
LEMMA Appended ==
    ASSUME NEW S, NEW s \in Seq(S), NEW x \in S
    PROVE  /\ Append(s, x) \in Seq(S) /\ Len(Append(s, x)) = Len(s) + 1
           /\ DOMAIN Append(s, x) = DOMAIN s \cup {Len(s) + 1}
           /\ Len(s) + 1 \notin DOMAIN s
           /\ \A i \in DOMAIN s : Append(s, x)[i] = s[i]
           /\ Append(s, x)[Len(s) + 1] = x
OBVIOUS

(* The numbers and turns of the model have their types. *)
LEMMA TypeFacts ==
    ASSUME CompInv
    PROVE  /\ Current \in Nat \ {0} /\ Len(answers) \in Nat
           /\ \A i \in DOMAIN turns : turns[i] \in Turns
           /\ \A i \in DOMAIN view : view[i] \in Turns
BY ElementType DEF CompInv, TypeOK, Current

(* The end of an operation whose own turn ended, with the answer that turn deserves. *)
LEMMA EndKeeps ==
    ASSUME CompInv, op # "idle", NEW i \in DOMAIN turns,
           turns[i].by = Current, turns[i].status \in Ends,
           NEW answer \in {"chatted", "compacted", "failed"},
           answer = "failed" => turns[i].status \in BadEnds,
           answer # "failed" => turns[i].status = "completed",
           answer = "chatted" => turns[i].kind = "chat",
           answer = "compacted" => turns[i].kind = "compaction",
           End(answer, accepting), UNCHANGED <<asked, turns>>
    PROVE  CompInv'
<1> USE DEF CompInv
<1>1. answers \in Seq(Answers) /\ answer \in Answers /\ answers' = Append(answers, answer)
  BY DEF TypeOK, Answers, End
<1>2. /\ answers' \in Seq(Answers) /\ Len(answers') = Len(answers) + 1
      /\ DOMAIN answers' = DOMAIN answers \cup {Current}
      /\ \A n \in DOMAIN answers : answers'[n] = answers[n]
      /\ answers'[Current] = answer
  BY <1>1, Appended DEF Current
<1>3. TypeOK'
  <2>1. Len(answers') <= MaxCalls
    BY <1>2, TypeFacts, CompactionAssumption DEF OneAtATime
  <2> QED
    BY <1>2, <2>1 DEF TypeOK, End, Ops
<1>4. AnswersAreOwn'
  <2> SUFFICES ASSUME NEW n \in DOMAIN answers', answers'[n] # "unknown"
               PROVE  \E j \in DOMAIN turns :
                          /\ turns[j].by = n
                          /\ turns[j].kind = (IF answers'[n] = "chatted" THEN "chat"
                                ELSE IF answers'[n] = "compacted" THEN "compaction"
                                ELSE turns[j].kind)
                          /\ IF answers'[n] = "failed" THEN turns[j].status \in BadEnds
                                                       ELSE turns[j].status = "completed"
    BY DEF AnswersAreOwn
  <2>1. CASE n = Current
    BY <1>2, <2>1
  <2>2. CASE n # Current
    BY <1>2, <2>2 DEF AnswersAreOwn
  <2> QED
    BY <2>1, <2>2
<1>5. ViewTrue' /\ op' = "idle"
  BY DEF ViewTrue, End
<1>6. AtRest'
  <2>1. Current' = Current + 1
    BY <1>2 DEF Current
  <2>2. asked = None /\ \A j \in DOMAIN turns : turns[j].by = Current => j = i
    BY DEF OneAtATime
  <2>3. \A j \in DOMAIN turns : turns[j].status \in Ends
    BY <2>2 DEF OneAtATime
  <2>4. \A j \in DOMAIN turns : turns[j].by < Current'
    BY <2>1, TypeFacts DEF OneAtATime, Turns, Calls
  <2> QED
    BY <2>2, <2>3, <2>4 DEF AtRest
<1> QED
  BY <1>3, <1>4, <1>5, <1>6

(* A turn that ended and what the operation makes of it. *)
LEMMA ChatEnds == ASSUME CompInv, EndChat PROVE CompInv'
<1>1. PICK i \in DOMAIN turns :
          /\ turns[i].by = Current /\ turns[i].status \in Ends
          /\ End(IF turns[i].status = "completed" THEN "chatted" ELSE "failed", accepting)
  BY DEF EndChat
<1>2. turns[i].kind = "chat"
  BY <1>1 DEF EndChat, CompInv, OneAtATime, KindInHand
<1>3. turns[i].status # "completed" => turns[i].status \in BadEnds
  BY <1>1 DEF Ends
<1>4. op # "idle" /\ UNCHANGED <<asked, turns>>
  BY DEF EndChat
<1>5. CASE turns[i].status = "completed"
  BY <1>1, <1>2, <1>4, <1>5, EndKeeps
<1>6. CASE turns[i].status # "completed"
  BY <1>1, <1>3, <1>4, <1>6, EndKeeps
<1> QED
  BY <1>5, <1>6

(* The first conclusive turn of the snapshot is the compaction's own. *)
LEMMA CompactionEnds == ASSUME CompInv, Conclude PROVE CompInv'
<1>1. PICK i \in DOMAIN view :
          /\ Conclusive(i)
          /\ End(IF view[i].status = "completed" THEN "compacted" ELSE "failed", accepting)
  BY DEF Conclude
<1>2. op = "looking" /\ UNCHANGED <<asked, turns>>
  BY DEF Conclude
<1>3. /\ i \in DOMAIN turns /\ turns[i].kind = view[i].kind
      /\ view[i].status \in Ends /\ turns[i].status = view[i].status
  BY <1>1 DEF Conclusive, CompInv, ViewTrue, Ends
<1>4. turns[i].by = Current
  BY <1>1, <1>2, <1>3 DEF Conclusive, CompInv, PreviousKnown
<1>5. turns[i].kind = "compaction"
  BY <1>2, <1>3, <1>4 DEF CompInv, OneAtATime, KindInHand
<1>6. turns[i].status # "completed" => turns[i].status \in BadEnds
  BY <1>3 DEF Ends
<1>7. CASE turns[i].status = "completed"
  BY <1>1, <1>2, <1>3, <1>4, <1>5, <1>7, EndKeeps
<1>8. CASE turns[i].status # "completed"
  BY <1>1, <1>2, <1>3, <1>4, <1>6, <1>8, EndKeeps
<1> QED
  BY <1>7, <1>8

(* An operation that is cut off closes admission. *)
LEMMA GiveUpKeeps == ASSUME CompInv, GiveUp PROVE CompInv'
<1> USE DEF CompInv
<1>1. answers \in Seq(Answers) /\ "unknown" \in Answers /\ answers' = Append(answers, "unknown")
  BY DEF GiveUp, End, TypeOK, Answers
<1>2. /\ answers' \in Seq(Answers) /\ Len(answers') = Len(answers) + 1
      /\ DOMAIN answers' = DOMAIN answers \cup {Len(answers) + 1}
      /\ \A n \in DOMAIN answers : answers'[n] = answers[n]
      /\ answers'[Len(answers) + 1] = "unknown"
  BY <1>1, Appended
<1>3. TypeOK'
  <2>1. Len(answers') <= MaxCalls
    BY <1>2, TypeFacts, CompactionAssumption DEF OneAtATime, GiveUp
  <2>2. /\ op' = "idle" /\ previous' = {} /\ view' = << >> /\ accepting' = FALSE
        /\ asked' = asked /\ turns' = turns
    BY DEF GiveUp, End
  <2>3. view' \in Seq(Turns) /\ Len(view') <= Len(turns')
    BY <2>2 DEF TypeOK
  <2>4. previous' \subseteq DOMAIN turns' /\ turns' \in Seq(Turns) /\ asked' \in Requests' \cup {None}
    BY <2>2 DEF TypeOK, Requests, Calls
  <2>5. op' \in Ops /\ accepting' \in BOOLEAN
    BY <2>2 DEF Ops
  <2> QED
    BY <1>2, <2>1, <2>3, <2>4, <2>5 DEF TypeOK, Answers
<1>4. AnswersAreOwn'
  BY <1>2 DEF AnswersAreOwn, GiveUp
<1> QED
  BY <1>3, <1>4 DEF GiveUp, End, ViewTrue

(* The other steps of the operations: nothing is said to anybody and no turn changes. *)
LEMMA OperationSteps ==
    ASSUME CompInv,
           BeginChat \/ BeginCompact \/ Snapshot \/ Acknowledge \/ ReadThread \/ PollAgain
    PROVE  CompInv'
<1> USE DEF CompInv
<1>1. UNCHANGED <<answers, turns, accepting>> /\ Current' = Current
  BY DEF BeginChat, BeginCompact, Snapshot, Acknowledge, ReadThread, PollAgain, Current
<1>2. AnswersAreOwn'
  BY <1>1 DEF AnswersAreOwn
<1>3. Current \in Calls /\ op' # "idle"
  BY TypeFacts, CompactionAssumption
     DEF BeginChat, BeginCompact, Snapshot, Acknowledge, ReadThread, PollAgain, Admitted,
         OneAtATime, Calls, Current
<1>4. TypeOK'
  BY <1>3 DEF BeginChat, BeginCompact, Snapshot, Acknowledge, ReadThread, PollAgain, TypeOK,
              Ops, Requests, Kinds
<1>5. ViewTrue'
  <2>1. CASE ReadThread
    BY <2>1 DEF ReadThread, ViewTrue
  <2>2. CASE ~ReadThread
    BY <2>2 DEF BeginChat, BeginCompact, Snapshot, Acknowledge, PollAgain, ViewTrue
  <2> QED
    BY <2>1, <2>2
<1>6. CASE BeginChat \/ BeginCompact
  <2>1. AtRest /\ accepting /\ Len(answers) < MaxCalls
    BY <1>6, TypeFacts, CompactionAssumption DEF BeginChat, BeginCompact, Admitted, Current
  <2>2. \A i \in DOMAIN turns : turns[i].by <= Current /\ turns[i].by # Current
                                /\ turns[i].status \in Ends
    BY <2>1, TypeFacts DEF AtRest, Turns, Calls
  <2>3. OneAtATime'
    BY <1>1, <1>6, <2>1, <2>2 DEF OneAtATime, BeginChat, BeginCompact, KindInHand, AtRest
  <2>4. PreviousKnown'
    BY <1>1, <1>6, <2>1, <2>2 DEF PreviousKnown, BeginChat, BeginCompact, AtRest
  <2> QED
    BY <1>2, <1>3, <1>4, <1>5, <2>3, <2>4
<1>7. CASE Snapshot
  <2>1. OneAtATime'
    BY <1>1, <1>7 DEF OneAtATime, Snapshot, KindInHand, PreviousKnown
  <2>2. PreviousKnown'
    BY <1>1, <1>7 DEF PreviousKnown, Snapshot
  <2> QED
    BY <1>2, <1>3, <1>4, <1>5, <2>1, <2>2
<1>8. CASE Acknowledge \/ ReadThread \/ PollAgain
  <2>1. OneAtATime'
    BY <1>1, <1>8 DEF OneAtATime, Acknowledge, ReadThread, PollAgain, KindInHand
  <2>2. PreviousKnown'
    BY <1>1, <1>8 DEF PreviousKnown, Acknowledge, ReadThread, PollAgain
  <2> QED
    BY <1>2, <1>3, <1>4, <1>5, <2>1, <2>2
<1> QED
  BY <1>6, <1>7, <1>8

(* The runtime starts the turn that was asked for. *)
LEMMA BeginsKeeps == ASSUME CompInv, RuntimeBegins PROVE CompInv'
<1> USE DEF CompInv
<1> DEFINE new == [by |-> asked.by, kind |-> asked.kind, status |-> "inProgress"]
           last == Len(turns) + 1
<1>1. asked \in Requests /\ new \in Turns /\ turns \in Seq(Turns) /\ Len(turns) \in Nat
  BY DEF RuntimeBegins, TypeOK, Requests, Turns
<1>2. turns' = Append(turns, new)
  BY DEF RuntimeBegins
<1> HIDE DEF new
<1>3. /\ turns' \in Seq(Turns) /\ Len(turns') = Len(turns) + 1
      /\ DOMAIN turns' = DOMAIN turns \cup {last} /\ last \notin DOMAIN turns
      /\ \A i \in DOMAIN turns : turns'[i] = turns[i]
      /\ turns'[last] = new
  BY <1>1, <1>2, Appended
<1>4. TypeOK'
  <2>1. Len(view) <= Len(turns') /\ previous \subseteq DOMAIN turns'
    BY <1>1, <1>3 DEF TypeOK
  <2> QED
    BY <1>3, <2>1 DEF RuntimeBegins, TypeOK
<1>5. AnswersAreOwn'
  BY <1>3 DEF AnswersAreOwn, RuntimeBegins
<1>6. ViewTrue'
  BY <1>3 DEF ViewTrue, RuntimeBegins
<1>7. ~(op = "idle" /\ accepting)
  BY DEF RuntimeBegins, AtRest
<1>8. ASSUME op # "idle" PROVE OneAtATime' /\ PreviousKnown'
  <2>1. /\ asked.by = Current /\ asked.kind = KindInHand /\ op # "snapping"
        /\ \A i \in DOMAIN turns : turns[i].by # Current
    BY <1>8 DEF RuntimeBegins, OneAtATime, PreviousKnown
  <2>2. new.by = Current /\ new.kind = KindInHand /\ new.status = "inProgress"
    BY <2>1 DEF new
  <2>3. Current' = Current /\ KindInHand' = KindInHand /\ asked' = None /\ Current \in Nat
    BY TypeFacts DEF RuntimeBegins, Current, KindInHand
  <2>4. OneAtATime'
    BY <1>3, <1>8, <2>1, <2>2, <2>3 DEF OneAtATime, RuntimeBegins
  <2>5. last \notin previous
    BY <1>3 DEF TypeOK
  <2>6. PreviousKnown'
    BY <1>3, <1>8, <2>1, <2>2, <2>3, <2>5 DEF PreviousKnown, RuntimeBegins
  <2> QED
    BY <2>4, <2>6
<1> QED
  BY <1>4, <1>5, <1>6, <1>7, <1>8 DEF RuntimeBegins

(* A turn ends, once. *)
LEMMA EndsKeeps ==
    ASSUME CompInv, NEW i \in DOMAIN turns, NEW end \in Ends, RuntimeEnds(i, end)
    PROVE  CompInv'
<1> USE DEF CompInv
<1>1. turns \in Seq(Turns) /\ turns[i] \in Turns /\ turns[i].status = "inProgress"
  BY TypeFacts DEF RuntimeEnds, TypeOK
<1>2. /\ DOMAIN turns' = DOMAIN turns
      /\ \A j \in DOMAIN turns : /\ turns'[j].by = turns[j].by
                                 /\ turns'[j].kind = turns[j].kind
                                 /\ turns'[j].status = IF j = i THEN end ELSE turns[j].status
                                 /\ turns'[j] \in Turns
  BY <1>1, TypeFacts DEF RuntimeEnds, Turns
<1>3. turns' \in Seq(Turns) /\ Len(turns') = Len(turns)
  <2>1. turns \in [1 .. Len(turns) -> Turns] /\ Len(turns) \in Nat
    BY <1>1
  <2>2. turns' = [turns EXCEPT ![i] = [turns[i] EXCEPT !.status = end]]
    BY DEF RuntimeEnds
  <2>3. [turns[i] EXCEPT !.status = end] \in Turns
    BY <1>1 DEF Turns
  <2>4. turns' \in [1 .. Len(turns) -> Turns]
    BY <2>1, <2>2, <2>3
  <2> QED
    BY <2>1, <2>4
<1>4. TypeOK'
  BY <1>2, <1>3 DEF RuntimeEnds, TypeOK
<1>5. turns[i].status \notin Ends
  BY <1>1 DEF Ends, BadEnds
<1>6. AnswersAreOwn'
  <2>1. \A j \in DOMAIN turns : turns[j].status \in Ends => turns'[j].status = turns[j].status
    BY <1>2, <1>5
  <2>2. BadEnds \subseteq Ends /\ "completed" \in Ends
    BY DEF Ends
  <2> QED
    BY <1>2, <2>1, <2>2 DEF AnswersAreOwn, RuntimeEnds
<1>7. ViewTrue'
  BY <1>2, <1>5 DEF ViewTrue, RuntimeEnds
<1>8. op = "idle" /\ accepting => AtRest'
  BY <1>5 DEF AtRest
<1>9. ASSUME op # "idle" PROVE OneAtATime' /\ PreviousKnown'
  <2>1. Current' = Current /\ KindInHand' = KindInHand
    BY DEF RuntimeEnds, Current, KindInHand
  <2>2. OneAtATime'
    BY <1>2, <1>9, <2>1 DEF OneAtATime, RuntimeEnds
  <2>3. PreviousKnown'
    BY <1>2, <1>9, <2>1 DEF PreviousKnown, RuntimeEnds
  <2> QED
    BY <2>2, <2>3
<1> QED
  BY <1>4, <1>6, <1>7, <1>8, <1>9 DEF RuntimeEnds

(* Every step keeps CompInv. *)
LEMMA CompNextKeeps == CompInv /\ [Next]_vars => CompInv'
<1> SUFFICES ASSUME CompInv, [Next]_vars PROVE CompInv'
  OBVIOUS
<1>1. CASE UNCHANGED vars
  BY <1>1 DEF CompInv, vars, TypeOK, AnswersAreOwn, ViewTrue, OneAtATime, PreviousKnown, AtRest,
              Current, KindInHand
<1>2. CASE Chat \/ Compact
  BY <1>2, OperationSteps, ChatEnds, CompactionEnds DEF Chat, Compact
<1>3. CASE Runtime
  BY <1>3, BeginsKeeps, EndsKeeps DEF Runtime
<1> QED
  BY <1>1, <1>2, <1>3, GiveUpKeeps DEF Next

(* Operations take turns, and what each has read of the thread stays true. *)
THEOREM CompactionInvariant == Spec => []CompInv
<1>1. Init => CompInv
  BY CompactionAssumption DEF Init, CompInv, TypeOK, AnswersAreOwn, ViewTrue, AtRest, Ops, Answers, Turns
<1> QED
  BY <1>1, CompNextKeeps, PTL DEF Spec

(* Nobody is told the end of a turn that is not his (compact_thread, run_turn). *)
THEOREM AnswersAreTheirOwn == Spec => []AnswersAreOwn
<1>1. CompInv => AnswersAreOwn
  BY DEF CompInv
<1> QED
  BY <1>1, CompactionInvariant, PTL

(* A conversation that is given out again has no turn running and none on its way. *)
THEOREM FreeIsQuiet == Spec => []FreeMeansQuiet
<1>1. CompInv => FreeMeansQuiet
  BY DEF CompInv, FreeMeansQuiet, AtRest
<1> QED
  BY <1>1, CompactionInvariant, PTL

(* A snapshot is conclusive for its own turn and for no other, so that a poll can neither
   run on past the end it waits for nor stop early; OperationsEnd rests on it. *)
THEOREM PollSeesItsEnd == Spec => []OwnEndIsSeen
<1>1. CompInv => OwnEndIsSeen
  <2> SUFFICES ASSUME CompInv, op = "looking", NEW i \in DOMAIN view
               PROVE  Conclusive(i) <=> turns[i].by = Current /\ view[i].status \in Ends
    BY DEF OwnEndIsSeen
  <2>1. i \in DOMAIN turns /\ view[i].kind = turns[i].kind
    BY DEF CompInv, ViewTrue
  <2>2. i \in previous <=> turns[i].by # Current
    BY <2>1 DEF CompInv, PreviousKnown
  <2>3. turns[i].by = Current => turns[i].kind = "compaction"
    BY <2>1 DEF CompInv, OneAtATime, KindInHand
  <2> QED
    BY <2>1, <2>2, <2>3 DEF Conclusive, Ends
<1> QED
  BY <1>1, CompactionInvariant, PTL

=============================================================================
