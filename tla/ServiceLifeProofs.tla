--------------------------- MODULE ServiceLifeProofs ---------------------------
(***************************************************************************)
(* Proofs about ServiceLife for every max_age and every delay of the event *)
(* loop: how fresh readiness is, and what the exit stack takes down before *)
(* what.                                                                   *)
(***************************************************************************)
EXTENDS ServiceLife, SequenceTheorems, TLAPS

(* The silence of the database is longer than the age of the last success by no more
   than the delay with which the loop stamped it.  While a good answer waits for the
   loop the database has been silent no longer than the answer has waited. *)
Freshness ==
    /\ age \in 0 .. MaxAge /\ down \in 0 .. MaxAge + Lag /\ lag \in 0 .. Lag
    /\ down <= age + Lag
    /\ db \in {"up", "away"}
    /\ db = "up" => down = 0
    /\ probe = "ok" => down <= lag

(* Every step of the probe, the clock and the database keeps that order. *)
THEOREM FreshnessInvariant == Spec => []Freshness
<1>1. Init => Freshness
  BY ServiceAssumption DEF Init, Freshness
<1>2. Freshness /\ [Next]_vars => Freshness'
  <2> SUFFICES ASSUME Freshness, [Next]_vars PROVE Freshness'
    OBVIOUS
  <2> USE ServiceAssumption DEF Freshness
  <2>1. CASE Tick
    <3>1. /\ age' = IF age < MaxAge THEN age + 1 ELSE MaxAge
          /\ down' = IF db = "up" THEN 0
                     ELSE IF down < MaxAge + Lag THEN down + 1 ELSE MaxAge + Lag
          /\ probe' = probe /\ db' = db
          /\ lag' \in 0 .. Lag
          /\ probe = "ok" => lag' = lag + 1
      BY <2>1 DEF Tick, Older, Waiting
    <3>2. down' <= age' + Lag /\ age' \in 0 .. MaxAge /\ down' \in 0 .. MaxAge + Lag
      BY <3>1
    <3>3. probe' = "ok" => down' <= lag'
      BY <3>1
    <3> QED
      BY <3>1, <3>2, <3>3
  <2>2. CASE DatabaseGoes \/ DatabaseReturns
    BY <2>2 DEF DatabaseGoes, DatabaseReturns, probeVars
  <2>3. CASE WorkerAnswers
    BY <2>3 DEF WorkerAnswers, Engines, dbVars
  <2>4. CASE CheckSucceeds
    BY <2>4 DEF CheckSucceeds, dbVars
  <2>5. CASE Probe \/ WorkerFails \/ CheckFails \/ StrayEnds
    BY <2>5 DEF Probe, WorkerFails, CheckFails, StrayEnds, dbVars
  <2>6. CASE OpenConversations \/ OpenApprovals \/ OpenRefused
    BY <2>6 DEF OpenConversations, OpenApprovals, OpenRefused, probeVars, dbVars
  <2>7. CASE UndoProbe
    BY <2>7 DEF UndoProbe, dbVars
  <2>8. CASE \/ RuntimeRefused \/ RuntimeStarted \/ Serve \/ AssembleFails \/ ProbeRefused
             \/ LoseRuntime \/ RuntimeDies \/ Drain \/ Close \/ CancelTasks
             \/ UndoRuntime \/ UndoPool \/ Exit
    BY <2>8 DEF RuntimeRefused, RuntimeStarted, Serve, AssembleFails, ProbeRefused,
       LoseRuntime, RuntimeDies, Drain, Close, CancelTasks, UndoRuntime, UndoPool, Exit,
       probeVars, dbVars
  <2>9. CASE ProbeStarted
    BY <2>9 DEF ProbeStarted, dbVars
  <2>10. CASE UNCHANGED vars
    BY <2>10 DEF vars, probeVars, dbVars
  <2> QED
    BY <2>1, <2>2, <2>3, <2>4, <2>5, <2>6, <2>7, <2>8, <2>9, <2>10
    DEF Next, Start, Stop, Check
<1> QED
  BY <1>1, <1>2, PTL DEF Spec

(* GET /ready never reports a database that has been silent for max_age and the delay of
   the event loop. *)
THEOREM ReadyRecent == Spec => []ReadyIsRecent
<1>1. Freshness => ReadyIsRecent
  BY ServiceAssumption DEF Freshness, ReadyIsRecent, Ready
<1> QED
  BY <1>1, FreshnessInvariant, PTL

-----------------------------------------------------------------------------
(* The exit stack at each depth, the outermost resource at the bottom. *)
S0 == << >>
S1 == Append(S0, "conversations")
S2 == Append(S1, "approvals")
S3 == Append(S2, "probe")
S4 == Append(S3, "runtime")

(* How far the start got tells what is on the stack, and what is on the stack tells
   what is there: the probe only on top of both engines. *)
StackInv ==
    /\ stack \in {S0, S1, S2, S3, S4}
    /\ phase \in Phases
    /\ phase = "pools" => stack \in {S0, S1}
    /\ phase = "check" => stack = S2
    /\ phase = "runtime" => stack = S3
    /\ phase \in {"assemble", "serving", "closing", "cancelling"} => stack = S4
    /\ stack \in {S2, S3, S4} => pools = Engines
    /\ stack = S1 => pools = {"conversations"}
    /\ stack = S0 => pools = {}
    /\ phase = "down" => stack = S0
    /\ task = "running" => stack \in {S3, S4}
    /\ task = "over" => phase \in {"unwinding", "down"} /\ stack \in {S0, S1, S2}
    /\ stray # "none" => task = "over"
    /\ probe # "idle" => phase = "check" \/ task = "running"
    /\ task = "none" => ~(stack \in {S3, S4})
    /\ healthy => phase = "check" \/ stack \in {S3, S4}

(* What is popped is what was pushed last, and what was below it is left. *)
LEMMA PopOfPush ==
    ASSUME NEW s \in Seq(Undo), NEW e \in Undo
    PROVE  /\ Append(s, e) \in Seq(Undo)
           /\ Len(Append(s, e)) = Len(s) + 1
           /\ Append(s, e)[Len(Append(s, e))] = e
           /\ SubSeq(Append(s, e), 1, Len(Append(s, e)) - 1) = s
<1> DEFINE a == Append(s, e)
<1>1. /\ a \in Seq(Undo) /\ Len(a) = Len(s) + 1 /\ Len(s) \in Nat
      /\ a[Len(a)] = e
      /\ \A i \in 1 .. Len(s) : a[i] = s[i]
  OBVIOUS
<1>2. SubSeq(a, 1, Len(a) - 1) = s
  <2>1. \A i \in 1 .. Len(s) : a[i] \in Undo
    BY <1>1
  <2>2. /\ SubSeq(a, 1, Len(s)) \in Seq(Undo)
        /\ Len(SubSeq(a, 1, Len(s))) = Len(s)
        /\ \A i \in 1 .. Len(s) : SubSeq(a, 1, Len(s))[i] = a[i]
    BY <1>1, <2>1, SubSeqProperties
  <2>3. SubSeq(a, 1, Len(s)) = s
    BY <1>1, <2>2, SeqEqual
  <2> QED
    BY <1>1, <2>3
<1> QED
  BY <1>1, <1>2

(* The five stacks are sequences of resources, each one longer than the last. *)
LEMMA Depths ==
    /\ S0 \in Seq(Undo) /\ S1 \in Seq(Undo) /\ S2 \in Seq(Undo)
    /\ S3 \in Seq(Undo) /\ S4 \in Seq(Undo)
    /\ Len(S0) = 0 /\ Len(S1) = 1 /\ Len(S2) = 2 /\ Len(S3) = 3 /\ Len(S4) = 4
<1>0. /\ "conversations" \in Undo /\ "approvals" \in Undo
      /\ "probe" \in Undo /\ "runtime" \in Undo
  BY DEF Undo, Engines
<1>1. S0 \in Seq(Undo) /\ Len(S0) = 0
  BY DEF S0
<1>2. S1 \in Seq(Undo) /\ Len(S1) = Len(S0) + 1
  BY <1>0, <1>1, PopOfPush DEF S1
<1>3. S2 \in Seq(Undo) /\ Len(S2) = Len(S1) + 1
  BY <1>0, <1>2, PopOfPush DEF S2
<1>4. S3 \in Seq(Undo) /\ Len(S3) = Len(S2) + 1
  BY <1>0, <1>3, PopOfPush DEF S3
<1>5. S4 \in Seq(Undo) /\ Len(S4) = Len(S3) + 1
  BY <1>0, <1>4, PopOfPush DEF S4
<1> QED
  BY <1>1, <1>2, <1>3, <1>4, <1>5

(* Each depth pops to the one below it. *)
LEMMA PushPop ==
    /\ SubSeq(S4, 1, Len(S4) - 1) = S3 /\ S4[Len(S4)] = "runtime"
    /\ SubSeq(S3, 1, Len(S3) - 1) = S2 /\ S3[Len(S3)] = "probe"
    /\ SubSeq(S2, 1, Len(S2) - 1) = S1 /\ S2[Len(S2)] = "approvals"
    /\ SubSeq(S1, 1, Len(S1) - 1) = S0 /\ S1[Len(S1)] = "conversations"
<1>1. SubSeq(S4, 1, Len(S4) - 1) = S3 /\ S4[Len(S4)] = "runtime"
  BY Depths, PopOfPush DEF S4, Undo, Engines
<1>2. SubSeq(S3, 1, Len(S3) - 1) = S2 /\ S3[Len(S3)] = "probe"
  BY Depths, PopOfPush DEF S3, Undo, Engines
<1>3. SubSeq(S2, 1, Len(S2) - 1) = S1 /\ S2[Len(S2)] = "approvals"
  BY Depths, PopOfPush DEF S2, Undo, Engines
<1>4. SubSeq(S1, 1, Len(S1) - 1) = S0 /\ S1[Len(S1)] = "conversations"
  BY Depths, PopOfPush DEF S1, Undo, Engines
<1> QED
  BY <1>1, <1>2, <1>3, <1>4

(* No two depths are the same stack, because their lengths differ. *)
LEMMA DepthsDiffer ==
    /\ S0 # S1 /\ S0 # S2 /\ S0 # S3 /\ S0 # S4 /\ S1 # S2
    /\ S1 # S3 /\ S1 # S4 /\ S2 # S3 /\ S2 # S4 /\ S3 # S4
<1> DEFINE Depth(s) == Len(s)
<1>1. /\ Depth(S0) # Depth(S1) /\ Depth(S0) # Depth(S2) /\ Depth(S0) # Depth(S3)
      /\ Depth(S0) # Depth(S4) /\ Depth(S1) # Depth(S2) /\ Depth(S1) # Depth(S3)
      /\ Depth(S1) # Depth(S4) /\ Depth(S2) # Depth(S3) /\ Depth(S2) # Depth(S4)
      /\ Depth(S3) # Depth(S4)
  BY Depths
<1> HIDE DEF Depth
<1> QED
  BY <1>1, Zenon

(* Every step of the start, of the exit stack and of the probe keeps stack and
   resources together. *)
THEOREM StackInvariant == Spec => []StackInv
<1>1. Init => StackInv
  BY DepthsDiffer DEF Init, StackInv, Phases, S0
<1>2. StackInv /\ [Next]_vars => StackInv'
  <2> SUFFICES ASSUME StackInv, [Next]_vars PROVE StackInv'
    OBVIOUS
  <2> USE DepthsDiffer DEF StackInv, Phases
  <2>1. CASE OpenConversations \/ OpenApprovals \/ OpenRefused
    <3>1. CASE OpenConversations
      BY <3>1 DEF OpenConversations, OpenPool, S1, probeVars
    <3>2. CASE OpenApprovals
      <4>1. stack = S1
        BY <3>2 DEF OpenApprovals, OpenPool
      <4>2. stack' = S2 /\ pools' = Engines
        BY <3>2, <4>1 DEF OpenApprovals, OpenPool, S2, Engines
      <4> QED
        BY <3>2, <4>1, <4>2 DEF OpenApprovals, OpenPool
    <3>3. CASE OpenRefused
      BY <3>3 DEF OpenRefused, probeVars
    <3> QED
      BY <2>1, <3>1, <3>2, <3>3
  <2>2. CASE ProbeStarted
    BY <2>2 DEF ProbeStarted, S3
  <2>3. CASE ProbeRefused
    BY <2>3 DEF ProbeRefused, probeVars
  <2>4. CASE RuntimeStarted
    BY <2>4 DEF RuntimeStarted, S4, probeVars
  <2>5. CASE RuntimeRefused \/ Serve \/ AssembleFails
    BY <2>5 DEF RuntimeRefused, Serve, AssembleFails, probeVars
  <2>6. CASE LoseRuntime \/ RuntimeDies \/ Drain \/ Close \/ CancelTasks
    BY <2>6 DEF LoseRuntime, RuntimeDies, Drain, Close, CancelTasks, probeVars
  <2>7. CASE UndoRuntime
    <3>1. stack = S4
      BY <2>7, PushPop DEF UndoRuntime, Top, S0
    <3> QED
      BY <2>7, <3>1, PushPop DEF UndoRuntime, Pop, probeVars
  <2>8. CASE UndoProbe
    <3>1. stack = S3
      BY <2>8, PushPop DEF UndoProbe, Top, S0
    <3> QED
      BY <2>8, <3>1, PushPop DEF UndoProbe, Pop
  <2>9. CASE UndoPool
    <3>1. stack = S2 \/ stack = S1
      BY <2>9, PushPop DEF UndoPool, Top, Engines, S0
    <3>2. CASE stack = S2
      <4>1. stack' = S1 /\ pools' = {"conversations"}
        BY <2>9, <3>2, PushPop DEF UndoPool, Top, Pop, Engines
      <4> QED
        BY <2>9, <3>2, <4>1 DEF UndoPool, probeVars
    <3>3. CASE stack = S1
      <4>1. stack' = S0 /\ pools' = {}
        BY <2>9, <3>3, PushPop DEF UndoPool, Top, Pop, Engines
      <4> QED
        BY <2>9, <3>3, <4>1 DEF UndoPool, probeVars
    <3> QED
      BY <3>1, <3>2, <3>3
  <2>10. CASE Exit
    BY <2>10 DEF Exit, S0, probeVars
  <2>11. CASE Check
    BY <2>11 DEF Check, Probe, WorkerAnswers, WorkerFails, CheckSucceeds, CheckFails,
       StrayEnds, lifeVars, dbVars, Engines
  <2>12. CASE Tick \/ DatabaseGoes \/ DatabaseReturns \/ UNCHANGED vars
    BY <2>12 DEF Tick, DatabaseGoes, DatabaseReturns, vars, lifeVars, probeVars
  <2> QED
    BY <2>1, <2>2, <2>3, <2>4, <2>5, <2>6, <2>7, <2>8, <2>9, <2>10, <2>11, <2>12
    DEF Next, Start, Stop
<1> QED
  BY <1>1, <1>2, PTL DEF Spec

(* No check begins or is waited for once readiness.close has run or while an engine is
   not open, and the late answer of a worker that close left behind is not heard. *)
THEOREM ClosedProbeIsSilent == Spec => []ProbeIsSilent
<1>1. StackInv => ProbeIsSilent
  BY DepthsDiffer DEF StackInv, ProbeIsSilent
<1> QED
  BY <1>1, StackInvariant, PTL

-----------------------------------------------------------------------------
(* A Codex process that is there is one whose close, if tried, raised. *)
StartedInv == runtime = "on" => started

(* CodexRuntime.close forgets the process only when it has ended it. *)
THEOREM StartedInvariant == Spec => []StartedInv
<1>1. Init => StartedInv
  BY DEF Init, StartedInv
<1>2. StartedInv /\ [Next]_vars => StartedInv'
  <2> SUFFICES ASSUME StartedInv, [Next]_vars PROVE StartedInv'
    OBVIOUS
  <2> USE DEF StartedInv
  <2>1. CASE Start
    BY <2>1 DEF Start, OpenConversations, OpenApprovals, OpenRefused, OpenPool, ProbeStarted, ProbeRefused, RuntimeStarted,
       RuntimeRefused, Serve, AssembleFails
  <2>2. CASE LoseRuntime \/ RuntimeDies \/ Drain
    BY <2>2 DEF LoseRuntime, RuntimeDies, Drain
  <2>3. CASE Close \/ UndoRuntime
    BY <2>3 DEF Close, UndoRuntime, CloseRuntime
  <2>4. CASE CancelTasks \/ UndoProbe \/ UndoPool \/ Exit
    BY <2>4 DEF CancelTasks, UndoProbe, UndoPool, Exit
  <2>5. CASE Check \/ Tick \/ DatabaseGoes \/ DatabaseReturns \/ UNCHANGED vars
    BY <2>5 DEF Check, Probe, WorkerAnswers, WorkerFails, CheckSucceeds, CheckFails,
       StrayEnds, Tick, DatabaseGoes, DatabaseReturns, vars, lifeVars
  <2> QED
    BY <2>1, <2>2, <2>3, <2>4, <2>5 DEF Next, Stop
<1> QED
  BY <1>1, <1>2, PTL DEF Spec

(* A process that came to its end leaves nothing behind, but for a Codex process that
   no close could end. *)
THEOREM CleanEnd == Spec => []DownIsClean
<1>1. StackInv /\ StartedInv => DownIsClean
  BY DepthsDiffer DEF StackInv, StartedInv, DownIsClean
<1> QED
  BY <1>1, StackInvariant, StartedInvariant, PTL

=============================================================================
