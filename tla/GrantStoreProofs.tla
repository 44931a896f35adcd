---------------------------- MODULE GrantStoreProofs ----------------------------
(***************************************************************************)
(* Proofs about the execution grant store and the path of cancel_order     *)
(* through it, for any number of actions, threads, approvers, tool calls   *)
(* and execution ids, any TTL and any clocks.                              *)
(*                                                                         *)
(* First GrantStore alone: its locks and rows fit together, and what it    *)
(* answers is backed by a row.  Then CancelFlow: what reached the order    *)
(* system was issued, it commits each action once, and the whole path      *)
(* implements CancelAuthority.  The adapter and the order system write no  *)
(* row, so the store's invariants carry over to the flow.                  *)
(***************************************************************************)
EXTENDS CancelFlow, TLAPS

(* The invariant that is inductive: the types and the lock discipline need each
   other, because a transaction's row is known only through its lock. *)
LockInv == TypeOK /\ LockDiscipline /\ OneGrantPerIntent

(* The row prepare_execution inserts is a PENDING row of the action it is for. *)
LEMMA FreshType ==
    ASSUME NEW i \in Intents, NEW t \in Clock
    PROVE  /\ Fresh(i, t) \in Grant
           /\ Fresh(i, t).status = "PENDING"
           /\ Fresh(i, t).intent = i
           /\ Fresh(i, t).expires = t + TTL
<1>1. t + TTL \in 0 .. MaxTime + TTL /\ 0 \in Clock
  BY GrantStoreAssumption DEF Clock
<1> QED
  BY <1>1 DEF Fresh, Grant, Statuses

(* What SELECT ... FOR UPDATE returns is a row: never a missing one, and of the
   transaction's own action when the transaction has just inserted it. *)
LEMMA RowSeenType ==
    ASSUME TypeOK, NEW c \in Callers, call[c].id \in ExecIds, call[c].intent \in Intents
    PROVE  /\ RowSeen(c) \in Grant
           /\ RowSeen(c).status # "ABSENT"
           /\ ~Stored(call[c].id) => RowSeen(c).intent = call[c].intent
<1>1. CASE Stored(call[c].id)
  BY <1>1 DEF TypeOK, RowSeen, Stored
<1>2. CASE ~Stored(call[c].id)
  <2>1. call[c].since \in Clock
    BY DEF TypeOK, Call
  <2>2. RowSeen(c) = Fresh(call[c].intent, call[c].since)
    BY <1>2 DEF RowSeen
  <2> QED
    BY <2>1, <2>2, FreshType, <1>2
<1> QED
  BY <1>1, <1>2

(* The branches after the row lock answer one of the four outcomes for any row. *)
LEMMA OutcomeType ==
    ASSUME NEW g \in Grant, g.status # "ABSENT", NEW t \in Clock
    PROVE  Outcome(g, t) \in Outcomes
BY DEF Outcome, Grant, Statuses, Outcomes

(* A commit or rollback gives back the locks of its transaction and no other. *)
LEMMA ReleasedType ==
    ASSUME TypeOK, NEW a
    PROVE  /\ Released(a) \in [ExecIds -> Callers \cup Approvers \cup {None}]
           /\ \A e \in ExecIds : Released(a)[e] = IF locks[e] = a THEN None ELSE locks[e]
BY DEF TypeOK, Released

(* The commit of prepare_execution leaves the columns it does not write as they were. *)
LEMMA WrittenType ==
    ASSUME TypeOK, NEW c \in Callers, call[c].id \in ExecIds, call[c].intent \in Intents
    PROVE  /\ Written(c) \in Grant
           /\ Written(c).status # "ABSENT"
           /\ Written(c).intent = RowSeen(c).intent
           /\ Written(c).expires = RowSeen(c).expires
           /\ Written(c).decision = RowSeen(c).decision
           /\ Written(c).decidedBy = RowSeen(c).decidedBy
<1>1. RowSeen(c) \in Grant /\ RowSeen(c).status # "ABSENT"
  BY RowSeenType
<1>2. call[c].at \in Clock
  BY DEF TypeOK, Call
<1> QED
  BY <1>1, <1>2 DEF Written, Grant, Statuses

(* The UPDATE of decide writes status, decision and decided_by and nothing else. *)
LEMMA RuledType ==
    ASSUME TypeOK, NEW d \in Approvers,
           ruling[d].id \in ExecIds, ruling[d].decision \in Decisions
    PROVE  /\ Ruled(d) \in Grant
           /\ Ruled(d).status \in {"APPROVED", "REJECTED"}
           /\ Ruled(d).status = "APPROVED" => Ruled(d).decision = "approve"
           /\ Ruled(d).intent = grants[ruling[d].id].intent
           /\ Ruled(d).expires = grants[ruling[d].id].expires
           /\ Ruled(d).decision = ruling[d].decision
           /\ Ruled(d).decidedBy = d
<1>1. grants[ruling[d].id] \in Grant
  BY DEF TypeOK
<1> QED
  BY <1>1 DEF Ruled, Grant, Statuses, Decisions

(* The records of threads that are not in a transaction have their types. *)
LEMMA RestingRecords ==
    /\ FailedCall \in Call /\ FailedCall.pc = "failed"
    /\ IdleCall \in Call /\ IdleCall.pc = "idle"
    /\ IdleRuling \in Ruling /\ IdleRuling.pc = "idle"
<1>1. 0 \in Clock
  BY GrantStoreAssumption DEF Clock
<1> QED
  BY <1>1 DEF FailedCall, IdleCall, Call, CallPcs, IdleRuling, Ruling, RulingPcs

(* The database clock disturbs no lock and no row. *)
LEMMA TickKeeps ==
    ASSUME LockInv, Tick
    PROVE  LockInv'
<1> USE GrantStoreAssumption DEF LockInv, LockDiscipline
<1>1. TypeOK'
  BY DEF TypeOK, Tick, Clock
<1>2. CallLocks'
  BY DEF TypeOK, Tick, CallLocks, InTransaction, Stored, Call, Ruling
<1>3. RulingLocks'
  BY DEF TypeOK, Tick, RulingLocks, Stored, Call, Ruling
<1>4. InsertsAreAlone'
  BY DEF TypeOK, Tick, InsertsAreAlone, ActionTaken, CallLocks, Stored, Call, Ruling
<1>5. OneGrantPerIntent'
  BY DEF TypeOK, Tick, OneGrantPerIntent, Stored
<1> QED
  BY <1>1, <1>2, <1>3, <1>4, <1>5

(* A transaction starts without a lock. *)
LEMMA BeginKeeps ==
    ASSUME LockInv, NEW c \in Callers, NEW i \in Intents, Begin(c, i)
    PROVE  LockInv'
<1> USE GrantStoreAssumption DEF LockInv, LockDiscipline
<1>1. TypeOK'
  <2>1. Requested(i) \in Call /\ Requested(i).pc = "began"
    BY RestingRecords DEF Requested, Call, CallPcs
  <2>2. [Requested(i) EXCEPT !.since = now] \in Call
    BY <2>1 DEF TypeOK, Call
  <2> QED
    BY <2>2 DEF TypeOK, Begin
<1>2. CallLocks'
  BY DEF TypeOK, Begin, Requested, IdleCall, CallLocks, InTransaction, Stored, Call, Ruling
<1>3. RulingLocks'
  BY DEF TypeOK, Begin, Requested, IdleCall, RulingLocks, Stored, Call, Ruling
<1>4. InsertsAreAlone'
  BY DEF TypeOK, Begin, Requested, IdleCall, InsertsAreAlone, ActionTaken, CallLocks,
     Stored, Call, Ruling
<1>5. OneGrantPerIntent'
  BY DEF TypeOK, Begin, Requested, IdleCall, OneGrantPerIntent, Stored
<1> QED
  BY <1>1, <1>2, <1>3, <1>4, <1>5

(* An INSERT that goes through is the only one of its action: the unique index
   let it pass because no committed row and no other INSERT has the action. *)
LEMMA InsertRowKeeps ==
    ASSUME LockInv, NEW c \in Callers, NEW e \in ExecIds, InsertRow(c, e)
    PROVE  LockInv'
<1> USE GrantStoreAssumption DEF LockInv, LockDiscipline
<1>1. TypeOK'
  BY DEF TypeOK, InsertRow, Call, CallPcs, Clock
<1>2. CallLocks'
  BY DEF TypeOK, InsertRow, CallLocks, InTransaction, Stored, Call, Ruling
<1>3. RulingLocks'
  BY DEF TypeOK, InsertRow, RulingLocks, Stored, Call, Ruling
<1>4. InsertsAreAlone'
  BY DEF TypeOK, InsertRow, InsertInFlight, InsertsAreAlone, ActionTaken, CallLocks,
         InTransaction, Stored, Call
<1>5. OneGrantPerIntent'
  BY DEF TypeOK, InsertRow, OneGrantPerIntent, Stored
<1> QED
  BY <1>1, <1>2, <1>3, <1>4, <1>5

(* An INSERT that meets a committed row takes nothing. *)
LEMMA InsertConflictKeeps ==
    ASSUME LockInv, NEW c \in Callers, InsertConflict(c)
    PROVE  LockInv'
<1> USE GrantStoreAssumption DEF LockInv, LockDiscipline
<1>1. TypeOK'
  BY DEF TypeOK, InsertConflict, Call, CallPcs, Clock
<1>2. CallLocks'
  BY DEF TypeOK, InsertConflict, CallLocks, InTransaction, Stored, Call, Ruling
<1>3. RulingLocks'
  BY DEF TypeOK, InsertConflict, RulingLocks, Stored, Call, Ruling
<1>4. InsertsAreAlone'
  BY DEF TypeOK, InsertConflict, InsertsAreAlone, ActionTaken, CallLocks, Stored, Call, Ruling
<1>5. OneGrantPerIntent'
  BY DEF TypeOK, InsertConflict, OneGrantPerIntent, Stored
<1> QED
  BY <1>1, <1>2, <1>3, <1>4, <1>5

(* SELECT ... FOR UPDATE takes one lock, on a row of the caller's action. *)
LEMMA SelectForUpdateKeeps ==
    ASSUME LockInv, NEW c \in Callers, NEW e \in ExecIds, SelectForUpdate(c, e)
    PROVE  LockInv'
<1> USE GrantStoreAssumption DEF LockInv, LockDiscipline
<1>1. /\ call[c] \in Call /\ call[c].pc = "inserted" /\ call[c].intent \in Intents
      /\ locks[e] \in {c, None}
      /\ Stored(e) => grants[e].intent = call[c].intent
  BY DEF TypeOK, SelectForUpdate, CallLocks, InTransaction
<1>2. /\ call' \in [Callers -> Call]
      /\ call'[c].pc = "locked" /\ call'[c].id = e /\ call'[c].intent = call[c].intent
      /\ \A b \in Callers : b # c => call'[b] = call[b]
  BY <1>1 DEF TypeOK, SelectForUpdate, Call, CallPcs
<1>3. /\ locks' \in [ExecIds -> Callers \cup Approvers \cup {None}]
      /\ locks'[e] = c
      /\ \A f \in ExecIds : f # e => locks'[f] = locks[f]
      /\ \A f \in ExecIds : locks[f] = c => f = e
  <2>1. \A f \in ExecIds : locks[f] = c => ~Stored(f)
    BY <1>1 DEF CallLocks
  <2>2. \A f \in ExecIds : locks[f] = c => f = e
    BY <1>1, <2>1 DEF SelectForUpdate, TypeOK, InsertsAreAlone, ActionTaken
  <2> QED
    BY <2>2 DEF TypeOK, SelectForUpdate
<1>4. UNCHANGED <<now, grants, ruling>>
  BY DEF SelectForUpdate
<1>5. TypeOK'
  BY <1>2, <1>3, <1>4 DEF TypeOK, Clock
<1>6. CallLocks'
  BY <1>1, <1>2, <1>3, <1>4 DEF TypeOK, CallLocks, InTransaction, Stored
<1>7. RulingLocks'
  BY <1>1, <1>3, <1>4 DEF TypeOK, RulingLocks, Stored
<1>8. InsertsAreAlone'
  BY <1>1, <1>2, <1>3, <1>4 DEF SelectForUpdate, InsertsAreAlone, ActionTaken, Stored
<1>9. OneGrantPerIntent'
  BY <1>4 DEF OneGrantPerIntent, Stored
<1> QED
  BY <1>5, <1>6, <1>7, <1>8, <1>9

(* A transaction that has decided is a transaction. *)
LEMMA DecidedType ==
    ASSUME NEW k \in Call, NEW o \in Outcomes, NEW t \in Clock
    PROVE  [k EXCEPT !.pc = "decided", !.status = o, !.at = t] \in Call
BY DEF Call, CallPcs

(* The branches of prepare_execution run under the row lock and keep it. *)
LEMMA DecideKeeps ==
    ASSUME LockInv, NEW c \in Callers, Decide(c)
    PROVE  LockInv'
<1> USE GrantStoreAssumption DEF LockInv, LockDiscipline
<1>1. TypeOK'
  <2>1. call[c].id \in ExecIds /\ call[c].intent \in Intents
    BY DEF Decide, CallLocks, InTransaction
  <2>2. Outcome(RowSeen(c), now) \in Outcomes
    BY <2>1, RowSeenType, OutcomeType DEF TypeOK
  <2> DEFINE o == Outcome(RowSeen(c), now)
             d == [call[c] EXCEPT !.pc = "decided", !.status = o, !.at = now]
  <2>3. call' = [call EXCEPT ![c] = d]
    BY DEF Decide, TypeOK
  <2>4. UNCHANGED <<now, grants, locks, ruling>>
    BY DEF Decide
  <2>5. o \in Outcomes /\ call[c] \in Call /\ now \in Clock
    BY <2>2 DEF TypeOK
  <2> HIDE DEF o
  <2>6. d \in Call
    BY <2>5, DecidedType
  <2> HIDE DEF d
  <2> QED
    BY <2>3, <2>4, <2>6 DEF TypeOK, Clock
<1>2. CallLocks'
  BY DEF TypeOK, Decide, CallLocks, InTransaction, Stored, Call, Ruling
<1>3. RulingLocks'
  BY DEF TypeOK, Decide, RulingLocks, Stored, Call, Ruling
<1>4. InsertsAreAlone'
  BY DEF TypeOK, Decide, InsertsAreAlone, ActionTaken, CallLocks, Stored, Call, Ruling
<1>5. OneGrantPerIntent'
  BY DEF TypeOK, Decide, OneGrantPerIntent, Stored
<1> QED
  BY <1>1, <1>2, <1>3, <1>4, <1>5

(* The commit of prepare_execution stores a row of an action nobody else has a row
   of, or rewrites the one it had locked, and gives the lock back. *)
LEMMA CommitKeeps ==
    ASSUME LockInv, NEW c \in Callers, NEW acked \in BOOLEAN, Commit(c, acked)
    PROVE  LockInv'
<1> USE GrantStoreAssumption DEF LockInv, LockDiscipline
<1> DEFINE e == call[c].id
           g == Written(c)
<1>1. /\ e \in ExecIds /\ call[c].intent \in Intents
      /\ locks[e] = c
      /\ Stored(e) => grants[e].intent = call[c].intent
      /\ \A f \in ExecIds : locks[f] = c => f = e
  BY DEF Commit, CallLocks, InTransaction
<1>2. g \in Grant /\ g.status # "ABSENT" /\ g.intent = call[c].intent
  BY <1>1, WrittenType, RowSeenType DEF RowSeen
<1>3. /\ grants' = [grants EXCEPT ![e] = g]
      /\ UNCHANGED <<now, ruling>>
  BY DEF Commit
<1>4. /\ locks' \in [ExecIds -> Callers \cup Approvers \cup {None}]
      /\ \A f \in ExecIds : locks'[f] = IF locks[f] = c THEN None ELSE locks[f]
  BY ReleasedType DEF Commit
<1>5. /\ call' \in [Callers -> Call]
      /\ call'[c].pc \in {"replied", "failed"}
      /\ \A b \in Callers : b # c => call'[b] = call[b]
  <2>1. call[c] \in Call
    BY DEF TypeOK
  <2>2. [call[c] EXCEPT !.pc = "replied"] \in Call
    BY <2>1 DEF Call, CallPcs
  <2>3. [call[c] EXCEPT !.pc = "replied"].pc = "replied"
    BY <2>1 DEF Call
  <2> QED
    BY <2>2, <2>3, RestingRecords DEF Commit, TypeOK
<1> HIDE DEF e, g
<1>6. TypeOK'
  BY <1>1, <1>2, <1>3, <1>4, <1>5 DEF TypeOK, Clock
<1>7. /\ \A f \in ExecIds : f # e => grants'[f] = grants[f]
      /\ grants'[e] = g
  BY <1>1, <1>3 DEF TypeOK
<1>8. CallLocks'
  BY <1>1, <1>2, <1>4, <1>5, <1>7 DEF CallLocks, InTransaction, Stored
<1>9. RulingLocks'
  BY <1>1, <1>2, <1>3, <1>4, <1>7 DEF RulingLocks, Stored
<1>10. InsertsAreAlone'
  <2>1. \A f \in ExecIds, b \in Callers :
            ~Stored(f)' /\ locks'[f] = b => /\ ~Stored(f) /\ locks[f] = b
                                            /\ b # c /\ f # e /\ call'[b] = call[b]
    BY <1>1, <1>2, <1>4, <1>5, <1>7 DEF Stored
  <2>2. \A f \in ExecIds, b \in Callers :
            ~Stored(f) /\ locks[f] = b /\ b # c /\ f # e =>
                ~ActionTaken(call[b].intent) /\ call[b].intent # call[c].intent
    BY <1>1 DEF InsertsAreAlone, ActionTaken
  <2> QED
    BY <1>2, <1>7, <2>1, <2>2 DEF InsertsAreAlone, ActionTaken, Stored
<1>11. OneGrantPerIntent'
  <2>1. \A f \in ExecIds : Stored(f) /\ grants[f].intent = call[c].intent => f = e
    BY <1>1 DEF OneGrantPerIntent, InsertsAreAlone, ActionTaken
  <2> QED
    BY <1>1, <1>2, <1>7, <2>1 DEF OneGrantPerIntent, Stored
<1> QED
  BY <1>6, <1>8, <1>9, <1>10, <1>11

(* A rollback at any statement of prepare_execution leaves rows and other locks alone. *)
LEMMA AbortKeeps ==
    ASSUME LockInv, NEW c \in Callers, Abort(c)
    PROVE  LockInv'
<1> USE GrantStoreAssumption DEF LockInv, LockDiscipline
<1>1. /\ locks' \in [ExecIds -> Callers \cup Approvers \cup {None}]
      /\ \A f \in ExecIds : locks'[f] = IF locks[f] = c THEN None ELSE locks[f]
      /\ UNCHANGED <<now, grants, ruling>>
  BY ReleasedType DEF Abort
<1>2. /\ call' \in [Callers -> Call]
      /\ call'[c].pc = "failed"
      /\ \A b \in Callers : b # c => call'[b] = call[b]
  BY RestingRecords DEF Abort, TypeOK
<1>3. TypeOK'
  BY <1>1, <1>2 DEF TypeOK, Clock
<1>4. CallLocks'
  BY <1>1, <1>2 DEF CallLocks, InTransaction, Stored
<1>5. RulingLocks'
  BY <1>1 DEF RulingLocks, Stored
<1>6. InsertsAreAlone'
  BY <1>1, <1>2 DEF InsertsAreAlone, ActionTaken, Stored
<1>7. OneGrantPerIntent'
  BY <1>1 DEF OneGrantPerIntent, Stored
<1> QED
  BY <1>3, <1>4, <1>5, <1>6, <1>7

(* A thread that has answered holds no lock. *)
LEMMA ReturnKeeps ==
    ASSUME LockInv, NEW c \in Callers, Return(c)
    PROVE  LockInv'
<1> USE GrantStoreAssumption DEF LockInv, LockDiscipline
<1>1. /\ call' \in [Callers -> Call]
      /\ call'[c].pc = "idle"
      /\ \A b \in Callers : b # c => call'[b] = call[b]
      /\ call[c].pc \in {"replied", "failed"}
      /\ UNCHANGED <<now, grants, locks, ruling>>
  BY RestingRecords DEF Return, TypeOK
<1>2. \A f \in ExecIds : locks[f] # c
  BY <1>1 DEF CallLocks
<1>3. TypeOK'
  BY <1>1 DEF TypeOK, Clock
<1>4. CallLocks'
  BY <1>1, <1>2 DEF CallLocks, InTransaction, Stored
<1>5. RulingLocks'
  BY <1>1 DEF RulingLocks, Stored
<1>6. InsertsAreAlone'
  BY <1>1, <1>2 DEF InsertsAreAlone, ActionTaken, Stored
<1>7. OneGrantPerIntent'
  BY <1>1 DEF OneGrantPerIntent, Stored
<1> QED
  BY <1>3, <1>4, <1>5, <1>6, <1>7

(* The snapshot of decide's UPDATE is taken without a lock. *)
LEMMA ScanKeeps ==
    ASSUME LockInv, NEW d \in Approvers, NEW e \in ExecIds, NEW verdict \in Decisions,
           Scan(d, e, verdict)
    PROVE  LockInv'
<1> USE GrantStoreAssumption DEF LockInv, LockDiscipline
<1>1. TypeOK'
  BY DEF TypeOK, Scan, Ruling, RulingPcs
<1>2. CallLocks'
  BY DEF TypeOK, Scan, CallLocks, InTransaction, Stored, Call, Ruling
<1>3. RulingLocks'
  BY DEF TypeOK, Scan, RulingLocks, Stored, Call, Ruling
<1>4. InsertsAreAlone'
  BY DEF TypeOK, Scan, InsertsAreAlone, ActionTaken, CallLocks, Stored, Call, Ruling
<1>5. OneGrantPerIntent'
  BY DEF TypeOK, Scan, OneGrantPerIntent, Stored
<1> QED
  BY <1>1, <1>2, <1>3, <1>4, <1>5

(* decide for an id nobody has, or of another tenant, touches nothing. *)
LEMMA ScanUnknownKeeps ==
    ASSUME LockInv, NEW d \in Approvers, ScanUnknown(d)
    PROVE  LockInv'
<1> USE GrantStoreAssumption DEF LockInv, LockDiscipline
<1>1. TypeOK'
  BY DEF TypeOK, ScanUnknown, Ruling, RulingPcs
<1>2. CallLocks'
  BY DEF TypeOK, ScanUnknown, CallLocks, InTransaction, Stored, Call, Ruling
<1>3. RulingLocks'
  BY DEF TypeOK, ScanUnknown, RulingLocks, Stored, Call, Ruling
<1>4. InsertsAreAlone'
  BY DEF TypeOK, ScanUnknown, InsertsAreAlone, ActionTaken, CallLocks, Stored, Call, Ruling
<1>5. OneGrantPerIntent'
  BY DEF TypeOK, ScanUnknown, OneGrantPerIntent, Stored
<1> QED
  BY <1>1, <1>2, <1>3, <1>4, <1>5

(* decide's UPDATE locks a PENDING row or nothing. *)
LEMMA UpdateKeeps ==
    ASSUME LockInv, NEW d \in Approvers, Update(d)
    PROVE  LockInv'
<1> USE GrantStoreAssumption DEF LockInv, LockDiscipline
<1>1. TypeOK'
  BY DEF TypeOK, Update, Ruling, RulingPcs
<1>2. CallLocks'
  BY DEF TypeOK, Update, CallLocks, InTransaction, Stored, Call, Ruling
<1>3. RulingLocks'
  BY DEF TypeOK, Update, RulingLocks, Stored, Call, Ruling
<1>4. InsertsAreAlone'
  BY DEF TypeOK, Update, InsertsAreAlone, ActionTaken, CallLocks, Stored, Call, Ruling
<1>5. OneGrantPerIntent'
  BY DEF TypeOK, Update, OneGrantPerIntent, Stored
<1> QED
  BY <1>1, <1>2, <1>3, <1>4, <1>5

(* The commit of decide rewrites the row it had locked, keeps its action, and gives
   the lock back. *)
LEMMA CommitRulingKeeps ==
    ASSUME LockInv, NEW d \in Approvers, NEW acked \in BOOLEAN, CommitRuling(d, acked)
    PROVE  LockInv'
<1> USE GrantStoreAssumption DEF LockInv, LockDiscipline
<1> DEFINE e == ruling[d].id
           g == Ruled(d)
<1>1. /\ e \in ExecIds /\ ruling[d].decision \in Decisions
      /\ Stored(e) /\ locks[e] = d /\ d \notin Callers
      /\ ruling[d].pc = "updated"
  BY DEF CommitRuling, RulingLocks
<1>2. g \in Grant /\ g.status # "ABSENT" /\ g.intent = grants[e].intent
  BY <1>1, RuledType
<1>3. /\ grants' = [grants EXCEPT ![e] = g]
      /\ UNCHANGED <<now, call>>
  BY DEF CommitRuling
<1>4. /\ locks' \in [ExecIds -> Callers \cup Approvers \cup {None}]
      /\ \A f \in ExecIds : locks'[f] = IF locks[f] = d THEN None ELSE locks[f]
  BY ReleasedType DEF CommitRuling
<1>5. /\ ruling' \in [Approvers -> Ruling]
      /\ ruling'[d].pc \in {"committed", "failed"}
      /\ ruling'[d].id = e /\ ruling'[d].decision = ruling[d].decision
      /\ \A b \in Approvers : b # d => ruling'[b] = ruling[b]
  BY DEF CommitRuling, TypeOK, Ruling, RulingPcs
<1> HIDE DEF e, g
<1>6. TypeOK'
  BY <1>1, <1>2, <1>3, <1>4, <1>5 DEF TypeOK, Clock
<1>7. /\ \A f \in ExecIds : f # e => grants'[f] = grants[f]
      /\ grants'[e] = g
  BY <1>1, <1>3 DEF TypeOK
<1>8. \A f \in ExecIds : Stored(f)' = Stored(f) /\ grants'[f].intent = grants[f].intent
  BY <1>1, <1>2, <1>7 DEF Stored
<1>9. CallLocks'
  BY <1>1, <1>3, <1>4, <1>8 DEF CallLocks, InTransaction
<1>10. RulingLocks'
  BY <1>1, <1>4, <1>5, <1>7, <1>8 DEF RulingLocks
<1>11. InsertsAreAlone'
  BY <1>1, <1>3, <1>4, <1>8 DEF InsertsAreAlone, ActionTaken
<1>12. OneGrantPerIntent'
  BY <1>8 DEF OneGrantPerIntent
<1> QED
  BY <1>6, <1>9, <1>10, <1>11, <1>12

(* A rollback of decide leaves rows and other locks alone. *)
LEMMA AbortRulingKeeps ==
    ASSUME LockInv, NEW d \in Approvers, AbortRuling(d)
    PROVE  LockInv'
<1> USE GrantStoreAssumption DEF LockInv, LockDiscipline
<1>1. /\ locks' \in [ExecIds -> Callers \cup Approvers \cup {None}]
      /\ \A f \in ExecIds : locks'[f] = IF locks[f] = d THEN None ELSE locks[f]
      /\ d \notin Callers
      /\ UNCHANGED <<now, grants, call>>
  BY ReleasedType DEF AbortRuling
<1>2. /\ ruling' \in [Approvers -> Ruling]
      /\ ruling[d].pc \notin {"idle", "unknown"}
      /\ ruling'[d].pc = "failed"
      /\ ruling'[d].id = ruling[d].id /\ ruling'[d].decision = ruling[d].decision
      /\ \A b \in Approvers : b # d => ruling'[b] = ruling[b]
  BY DEF AbortRuling, RulingAtWork, TypeOK, Ruling, RulingPcs
<1>3. TypeOK'
  BY <1>1, <1>2 DEF TypeOK, Clock
<1>4. CallLocks'
  BY <1>1 DEF CallLocks, InTransaction, Stored
<1>5. RulingLocks'
  BY <1>1, <1>2 DEF RulingLocks, Stored
<1>6. InsertsAreAlone'
  BY <1>1 DEF InsertsAreAlone, ActionTaken, Stored
<1>7. OneGrantPerIntent'
  BY <1>1 DEF OneGrantPerIntent, Stored
<1> QED
  BY <1>3, <1>4, <1>5, <1>6, <1>7

(* The read after rowcount 0 changes no row and no lock. *)
LEMMA ClassifyKeeps ==
    ASSUME LockInv, NEW d \in Approvers, Classify(d)
    PROVE  LockInv'
<1> USE GrantStoreAssumption DEF LockInv, LockDiscipline
<1>1. TypeOK'
  BY DEF TypeOK, Classify, Ruling, RulingPcs
<1>2. CallLocks'
  BY DEF TypeOK, Classify, CallLocks, InTransaction, Stored, Call, Ruling
<1>3. RulingLocks'
  BY DEF TypeOK, Classify, RulingLocks, Stored, Call, Ruling
<1>4. InsertsAreAlone'
  BY DEF TypeOK, Classify, InsertsAreAlone, ActionTaken, CallLocks, Stored, Call, Ruling
<1>5. OneGrantPerIntent'
  BY DEF TypeOK, Classify, OneGrantPerIntent, Stored
<1> QED
  BY <1>1, <1>2, <1>3, <1>4, <1>5

(* The read after rowcount 1 changes no row and no lock. *)
LEMMA ReadBackKeeps ==
    ASSUME LockInv, NEW d \in Approvers, ReadBack(d)
    PROVE  LockInv'
<1> USE GrantStoreAssumption DEF LockInv, LockDiscipline
<1>1. TypeOK'
  BY DEF TypeOK, ReadBack, Ruling, RulingPcs
<1>2. CallLocks'
  BY DEF TypeOK, ReadBack, CallLocks, InTransaction, Stored, Call, Ruling
<1>3. RulingLocks'
  BY DEF TypeOK, ReadBack, RulingLocks, Stored, Call, Ruling
<1>4. InsertsAreAlone'
  BY DEF TypeOK, ReadBack, InsertsAreAlone, ActionTaken, CallLocks, Stored, Call, Ruling
<1>5. OneGrantPerIntent'
  BY DEF TypeOK, ReadBack, OneGrantPerIntent, Stored
<1> QED
  BY <1>1, <1>2, <1>3, <1>4, <1>5

(* An approver who has an answer holds no lock. *)
LEMMA EndRulingKeeps ==
    ASSUME LockInv, NEW d \in Approvers, EndRuling(d)
    PROVE  LockInv'
<1> USE GrantStoreAssumption DEF LockInv, LockDiscipline
<1>1. /\ ruling' \in [Approvers -> Ruling]
      /\ ruling[d].pc # "updated"
      /\ ruling'[d].pc = "idle"
      /\ \A b \in Approvers : b # d => ruling'[b] = ruling[b]
      /\ UNCHANGED <<now, grants, locks, call>>
  BY RestingRecords DEF EndRuling, RulingEnded, TypeOK
<1>2. TypeOK'
  BY <1>1 DEF TypeOK, Clock
<1>3. CallLocks'
  BY <1>1 DEF CallLocks, InTransaction, Stored
<1>4. RulingLocks'
  BY <1>1 DEF RulingLocks, Stored
<1>5. InsertsAreAlone'
  BY <1>1 DEF InsertsAreAlone, ActionTaken, Stored
<1>6. OneGrantPerIntent'
  BY <1>1 DEF OneGrantPerIntent, Stored
<1> QED
  BY <1>2, <1>3, <1>4, <1>5, <1>6

(* The empty table satisfies the invariant. *)
LEMMA InitHolds == Init => LockInv
<1> SUFFICES ASSUME Init
             PROVE  LockInv
  OBVIOUS
<1>1. Vacant \in Grant /\ Vacant.status = "ABSENT"
  BY GrantStoreAssumption DEF Vacant, Grant, Statuses, Clock
<1>2. \A e \in ExecIds : ~Stored(e) /\ locks[e] = None
  BY <1>1 DEF Init, Stored
<1>3. \A c \in Callers : call[c].pc = "idle"
  BY RestingRecords DEF Init
<1>4. \A d \in Approvers : ruling[d].pc = "idle"
  BY RestingRecords DEF Init
<1>5. TypeOK
  BY <1>1, RestingRecords, GrantStoreAssumption DEF Init, TypeOK, Clock
<1>6. CallLocks
  BY <1>2, <1>3, GrantStoreAssumption DEF CallLocks, InTransaction
<1>7. RulingLocks
  BY <1>2, <1>4, GrantStoreAssumption DEF RulingLocks
<1>8. InsertsAreAlone /\ OneGrantPerIntent
  BY <1>2, GrantStoreAssumption DEF InsertsAreAlone, OneGrantPerIntent
<1> QED
  BY <1>5, <1>6, <1>7, <1>8 DEF LockInv, LockDiscipline

(* Steps of the rest of the system do not touch the store. *)
LEMMA StutterKeeps == LockInv /\ UNCHANGED vars => LockInv'
<1> SUFFICES ASSUME LockInv, UNCHANGED vars
             PROVE  LockInv'
  OBVIOUS
<1> USE DEF LockInv, LockDiscipline, vars
<1>1. TypeOK'
  BY DEF TypeOK, Clock
<1>2. CallLocks'
  BY DEF CallLocks, InTransaction, Stored
<1>3. RulingLocks'
  BY DEF RulingLocks, Stored
<1>4. InsertsAreAlone'
  BY DEF InsertsAreAlone, ActionTaken, Stored
<1>5. OneGrantPerIntent'
  BY DEF OneGrantPerIntent, Stored
<1> QED
  BY <1>1, <1>2, <1>3, <1>4, <1>5

(* Every step of prepare_execution and decide keeps the invariant. *)
LEMMA NextKeeps == LockInv /\ [Next]_vars => LockInv'
<1> SUFFICES ASSUME LockInv, [Next]_vars
             PROVE  LockInv'
  OBVIOUS
<1>1. CASE Tick
  BY <1>1, TickKeeps
<1>2. ASSUME NEW c \in Callers, CallerStep(c)
      PROVE  LockInv'
  BY <1>2, BeginKeeps, InsertRowKeeps, InsertConflictKeeps, SelectForUpdateKeeps,
     DecideKeeps, CommitKeeps, AbortKeeps, ReturnKeeps DEF CallerStep, Insert, Lock
<1>3. ASSUME NEW d \in Approvers, ApproverStep(d)
      PROVE  LockInv'
  BY <1>3, ScanKeeps, ScanUnknownKeeps, UpdateKeeps, CommitRulingKeeps, AbortRulingKeeps,
     ClassifyKeeps, ReadBackKeeps, EndRulingKeeps DEF ApproverStep
<1>4. CASE UNCHANGED vars
  BY <1>4, StutterKeeps
<1> QED
  BY <1>1, <1>2, <1>3, <1>4 DEF Next

(* Types, locks and the uniqueness of rows hold together in every state, for any
   number of threads serving prepare_execution and decide. *)
THEOREM LockInvariant == Spec => []LockInv
<1>1. Init => LockInv
  BY InitHolds
<1>2. LockInv /\ [Next]_vars => LockInv'
  BY NextKeeps
<1> QED
  BY <1>1, <1>2, PTL DEF Spec

(* Every variable of the grant store has its type, always. *)
THEOREM TypeCorrect == Spec => []TypeOK
<1>1. LockInv => TypeOK
  BY DEF LockInv
<1> QED
  BY <1>1, LockInvariant, PTL

(* Every row lock has the one transaction of prepare_execution or decide that took
   it behind it, and a row being inserted is the only one of its action. *)
THEOREM LocksAreDisciplined == Spec => []LockDiscipline
<1>1. LockInv => LockDiscipline
  BY DEF LockInv
<1> QED
  BY <1>1, LockInvariant, PTL

(* prepare_execution never stores a second execution id for a business action,
   however many requests race, roll back or are repeated after a terminal status. *)
THEOREM OneGrantPerAction == Spec => []OneGrantPerIntent
<1>1. LockInv => OneGrantPerIntent
  BY DEF LockInv
<1> QED
  BY <1>1, LockInvariant, PTL

-----------------------------------------------------------------------------
(* A transaction that is past SELECT ... FOR UPDATE holds the lock of one row of its
   action, and what it saw there is the committed row or its own PENDING insert. *)
LEMMA OwnRow ==
    ASSUME LockInv, NEW c \in Callers, call[c].pc \in {"locked", "decided"}
    PROVE  /\ call[c].id \in ExecIds /\ call[c].intent \in Intents
           /\ locks[call[c].id] = c
           /\ RowSeen(c) \in Grant
           /\ RowSeen(c).status # "ABSENT"
           /\ RowSeen(c).intent = call[c].intent
           /\ Stored(call[c].id) => RowSeen(c) = grants[call[c].id]
           /\ ~Stored(call[c].id) => RowSeen(c).status = "PENDING"
<1>1. /\ call[c].id \in ExecIds /\ call[c].intent \in Intents
      /\ locks[call[c].id] = c
      /\ Stored(call[c].id) => grants[call[c].id].intent = call[c].intent
  BY DEF LockInv, LockDiscipline, CallLocks, InTransaction
<1>2. TypeOK
  BY DEF LockInv
<1>3. Stored(call[c].id) => RowSeen(c) = grants[call[c].id]
  BY DEF RowSeen
<1>4. ~Stored(call[c].id) => RowSeen(c).status = "PENDING"
  BY DEF RowSeen, Fresh
<1> QED
  BY <1>1, <1>2, <1>3, <1>4, RowSeenType

(* What the commit of prepare_execution changes, acknowledged or not. *)
LEMMA CommitEffect ==
    ASSUME LockInv, NEW c \in Callers, NEW acked \in BOOLEAN, Commit(c, acked)
    PROVE  /\ call[c].id \in ExecIds
           /\ grants'[call[c].id] = Written(c)
           /\ \A e \in ExecIds : e # call[c].id => grants'[e] = grants[e]
           /\ \A b \in Callers : b # c => call'[b] = call[b]
           /\ UNCHANGED <<now, ruling>>
           /\ \/ call'[c].pc = "failed"
              \/ /\ call'[c].pc = "replied"
                 /\ call'[c].id = call[c].id /\ call'[c].intent = call[c].intent
                 /\ call'[c].status = call[c].status /\ call'[c].at = call[c].at
<1>1. call[c].id \in ExecIds
  BY OwnRow DEF Commit
<1>2. call[c] \in Call /\ call \in [Callers -> Call] /\ grants \in [ExecIds -> Grant]
  BY DEF LockInv, TypeOK
<1>3. CASE acked
  BY <1>1, <1>2, <1>3 DEF Commit, Call
<1>4. CASE ~acked
  BY <1>1, <1>2, <1>4, RestingRecords DEF Commit
<1> QED
  BY <1>3, <1>4

(* What the commit of decide changes, acknowledged or not. *)
LEMMA CommitRulingEffect ==
    ASSUME LockInv, NEW d \in Approvers, NEW acked \in BOOLEAN, CommitRuling(d, acked)
    PROVE  /\ ruling[d].id \in ExecIds
           /\ locks[ruling[d].id] = d
           /\ grants[ruling[d].id].status = "PENDING"
           /\ grants'[ruling[d].id] = Ruled(d)
           /\ Ruled(d).status \in {"APPROVED", "REJECTED"}
           /\ Ruled(d).status = "APPROVED" => Ruled(d).decision = "approve"
           /\ Ruled(d).intent = grants[ruling[d].id].intent
           /\ Ruled(d).expires = grants[ruling[d].id].expires
           /\ Ruled(d).decision = ruling[d].decision
           /\ Ruled(d).decidedBy = d
           /\ \A e \in ExecIds : e # ruling[d].id => grants'[e] = grants[e]
           /\ UNCHANGED <<now, call>>
<1>1. /\ ruling[d].id \in ExecIds /\ ruling[d].decision \in Decisions
      /\ locks[ruling[d].id] = d
      /\ grants[ruling[d].id].status = "PENDING"
  BY DEF LockInv, LockDiscipline, RulingLocks, CommitRuling
<1>2. TypeOK
  BY DEF LockInv
<1> QED
  BY <1>1, <1>2, RuledType DEF CommitRuling, TypeOK

(* The commit of prepare_execution moves a stored row forward or leaves it. *)
LEMMA CommitForward ==
    ASSUME LockInv, NEW c \in Callers, NEW acked \in BOOLEAN, Commit(c, acked),
           NEW e \in ExecIds
    PROVE  Forward(grants[e], grants'[e])
<1>1. CASE e = call[c].id /\ Stored(e)
  <2>1. RowSeen(c) = grants[e] /\ grants[e] \in Grant
    BY <1>1, OwnRow DEF Commit
  <2>2. CASE call[c].status = "AUTHORIZED" /\ grants[e].status = "APPROVED"
    <3>1. grants'[e] = [grants[e] EXCEPT !.status = "CONSUMED", !.consumedAt = call[c].at]
      <4>1. Written(c) = [grants[e] EXCEPT !.status = "CONSUMED", !.consumedAt = call[c].at]
        BY <2>1, <2>2 DEF Written
      <4>2. grants'[e] = Written(c)
        BY <1>1, CommitEffect
      <4> QED
        BY <4>1, <4>2
    <3>2. /\ grants'[e].status = "CONSUMED"
          /\ grants'[e].intent = grants[e].intent /\ grants'[e].expires = grants[e].expires
          /\ grants'[e].decision = grants[e].decision
          /\ grants'[e].decidedBy = grants[e].decidedBy
      BY <2>1, <3>1 DEF Grant
    <3> QED
      BY <2>2, <3>2 DEF Forward
  <2>3. CASE ~(call[c].status = "AUTHORIZED" /\ grants[e].status = "APPROVED")
    <3>1. grants'[e] = grants[e]
      BY <1>1, <2>1, <2>3, CommitEffect DEF Written
    <3> QED
      BY <3>1 DEF Forward
  <2> QED
    BY <2>2, <2>3
<1>2. CASE ~Stored(e)
  BY <1>2 DEF Forward, Stored
<1>3. CASE e # call[c].id
  BY <1>3, CommitEffect DEF Forward
<1> QED
  BY <1>1, <1>2, <1>3

(* No step of the grant store moves a row backwards. *)
LEMMA NextForward ==
    ASSUME LockInv, [Next]_vars, NEW e \in ExecIds
    PROVE  Forward(grants[e], grants'[e])
<1>1. CASE UNCHANGED grants
  BY <1>1 DEF Forward
<1>2. ASSUME NEW c \in Callers, NEW acked \in BOOLEAN, Commit(c, acked)
      PROVE  Forward(grants[e], grants'[e])
  BY <1>2, CommitForward
<1>3. ASSUME NEW d \in Approvers, NEW acked \in BOOLEAN, CommitRuling(d, acked)
      PROVE  Forward(grants[e], grants'[e])
  BY <1>3, CommitRulingEffect DEF Forward
<1> QED
  BY <1>1, <1>2, <1>3 DEF Next, CallerStep, ApproverStep, Insert, Lock, Tick, Begin,
     InsertRow, InsertConflict, SelectForUpdate, Decide, Abort, Return, Scan, ScanUnknown,
     Update, AbortRuling, Classify, ReadBack, EndRuling, vars

(* Rows go from PENDING to REJECTED or to APPROVED to CONSUMED and nowhere else;
   neither prepare_execution nor decide renews, reopens, re-decides or deletes one. *)
THEOREM GrantsOnlyMoveForward == Spec => GrantsMoveForward
<1>1. LockInv /\ [Next]_vars => [\A e \in ExecIds : Forward(grants[e], grants'[e])]_vars
  BY NextForward
<1> QED
  BY <1>1, LockInvariant, PTL DEF Spec, GrantsMoveForward

-----------------------------------------------------------------------------
(* What the transaction of a caller has decided, between its UPDATE and its
   COMMIT, still fits the locked row: nobody else can have written it. *)
DecidedFits ==
    \A c \in Callers :
        call[c].pc = "decided" =>
            /\ call[c].at <= now
            /\ call[c].status = Outcome(RowSeen(c), call[c].at)
            /\ RowSeen(c).status = "CONSUMED" => RowSeen(c).consumedAt <= call[c].at

(* A row is approved or consumed only on an approval. *)
ApprovedByPerson ==
    \A e \in ExecIds : grants[e].status = "APPROVED" => grants[e].decision = "approve"

(* Nothing is consumed in the future. *)
ConsumedInThePast ==
    \A e \in ExecIds : grants[e].status = "CONSUMED" => grants[e].consumedAt <= now

(* A caller that was answered was answered from a row. *)
RepliesHaveRows ==
    \A c \in Callers : call[c].pc = "replied" => call[c].id \in ExecIds

BackedInv == /\ DecidedFits /\ RepliesHaveRows /\ ApprovedByPerson /\ ConsumedInThePast
             /\ ConsumedInTime /\ AuthorizedIsBacked

(* A step that writes no row and answers no caller keeps BackedInv, time included. *)
LEMMA QuietBacked ==
    ASSUME LockInv, BackedInv, UNCHANGED grants, now' \in {now, now + 1},
           \A c \in Callers : call'[c] = call[c] \/ call'[c].pc \notin {"decided", "replied"}
    PROVE  BackedInv'
<1> USE DEF BackedInv
<1>1. now \in Int /\ now <= now' /\ \A c \in Callers : call[c].at \in Int
  BY GrantStoreAssumption DEF LockInv, TypeOK, Clock, Call
<1>2. \A e \in ExecIds : grants[e].consumedAt \in Int
  BY GrantStoreAssumption DEF LockInv, TypeOK, Clock, Grant
<1>3. DecidedFits'
  BY <1>1 DEF DecidedFits, RowSeen, Stored
<1>4. ApprovedByPerson' /\ ConsumedInTime' /\ RepliesHaveRows'
  BY DEF ApprovedByPerson, ConsumedInTime, RepliesHaveRows
<1>5. ConsumedInThePast'
  BY <1>1, <1>2 DEF ConsumedInThePast
<1>6. AuthorizedIsBacked'
  BY DEF AuthorizedIsBacked
<1> QED
  BY <1>3, <1>4, <1>5, <1>6

(* The second clock_timestamp() and the branches establish DecidedFits for their caller. *)
LEMMA DecideBacked ==
    ASSUME LockInv, BackedInv, NEW c \in Callers, Decide(c)
    PROVE  BackedInv'
<1> USE DEF BackedInv
<1>1. /\ call'[c].pc = "decided" /\ call'[c].at = now
      /\ call'[c].status = Outcome(RowSeen(c), now)
      /\ call'[c].id = call[c].id /\ call'[c].intent = call[c].intent
      /\ call'[c].since = call[c].since
      /\ \A b \in Callers : b # c => call'[b] = call[b]
      /\ UNCHANGED <<now, grants>>
  BY DEF Decide, LockInv, TypeOK, Call
<1>2. \A b \in Callers : RowSeen(b)' = RowSeen(b)
  BY <1>1 DEF RowSeen, Stored
<1>3. RowSeen(c).status = "CONSUMED" => RowSeen(c).consumedAt <= now
  BY OwnRow DEF Decide, ConsumedInThePast
<1>4. now \in Int
  BY GrantStoreAssumption DEF LockInv, TypeOK, Clock
<1>5. DecidedFits'
  BY <1>1, <1>2, <1>3, <1>4 DEF DecidedFits
<1>6. ApprovedByPerson' /\ ConsumedInTime' /\ ConsumedInThePast'
  BY <1>1 DEF ApprovedByPerson, ConsumedInTime, ConsumedInThePast
<1>7. AuthorizedIsBacked' /\ RepliesHaveRows'
  BY <1>1 DEF AuthorizedIsBacked, RepliesHaveRows
<1> QED
  BY <1>5, <1>6, <1>7

(* What a commit of prepare_execution writes is approved, in time, and CONSUMED
   whenever the answer is AUTHORIZED. *)
LEMMA WrittenBacked ==
    ASSUME LockInv, BackedInv, NEW c \in Callers, call[c].pc = "decided"
    PROVE  LET h == Written(c) IN
           /\ h.intent = call[c].intent
           /\ h.status = "APPROVED" => h.decision = "approve"
           /\ h.status = "CONSUMED" => /\ h.decision = "approve"
                                       /\ h.consumedAt < h.expires
                                       /\ h.consumedAt <= now
           /\ call[c].status = "AUTHORIZED" => /\ h.status = "CONSUMED"
                                               /\ h.decision = "approve"
                                               /\ h.consumedAt <= call[c].at
                                               /\ call[c].at < h.expires
<1> DEFINE g == RowSeen(c)
           t == call[c].at
<1>1. /\ g \in Grant /\ g.intent = call[c].intent
      /\ g.status = "APPROVED" => g.decision = "approve"
      /\ g.status = "CONSUMED" => /\ g.decision = "approve"
                                  /\ g.consumedAt < g.expires
                                  /\ g.consumedAt <= now
                                  /\ g.consumedAt <= t
      /\ t <= now
      /\ call[c].status = Outcome(g, t)
  BY OwnRow DEF BackedInv, ApprovedByPerson, ConsumedInTime, ConsumedInThePast, DecidedFits
<1>2. t \in Int /\ now \in Int /\ g.expires \in Int /\ g.consumedAt \in Int
  BY <1>1, GrantStoreAssumption DEF LockInv, TypeOK, Clock, Call, Grant
<1>3. call[c].status = "AUTHORIZED" => t < g.expires /\ g.status \in {"APPROVED", "CONSUMED"}
  <2>1. g.status \in Statuses
    BY <1>1 DEF Grant
  <2> QED
    BY <1>1, <1>2, <2>1 DEF Outcome, Expired, Statuses
<1>4. CASE call[c].status = "AUTHORIZED" /\ g.status = "APPROVED"
  <2>1. Written(c) = [g EXCEPT !.status = "CONSUMED", !.consumedAt = t]
    BY <1>4 DEF Written
  <2>2. /\ Written(c).status = "CONSUMED" /\ Written(c).consumedAt = t
        /\ Written(c).intent = g.intent /\ Written(c).expires = g.expires
        /\ Written(c).decision = g.decision
    BY <1>1, <2>1 DEF Grant
  <2> QED
    BY <1>1, <1>2, <1>3, <1>4, <2>2
<1>5. CASE ~(call[c].status = "AUTHORIZED" /\ g.status = "APPROVED")
  <2>1. Written(c) = g
    BY <1>5 DEF Written
  <2> QED
    BY <1>1, <1>2, <1>3, <1>5, <2>1
<1> QED
  BY <1>4, <1>5

(* The commit of prepare_execution keeps BackedInv, for its caller and for the
   callers that were answered from the same row before. *)
LEMMA CommitBacked ==
    ASSUME LockInv, BackedInv, NEW c \in Callers, NEW acked \in BOOLEAN, Commit(c, acked)
    PROVE  BackedInv'
<1> USE DEF BackedInv
<1> DEFINE e == call[c].id
<1>1. call[c].pc = "decided"
  BY DEF Commit
<1>2. /\ e \in ExecIds
      /\ grants'[e] = Written(c)
      /\ \A f \in ExecIds : f # e => grants'[f] = grants[f]
      /\ \A b \in Callers : b # c => call'[b] = call[b]
      /\ UNCHANGED now
  BY CommitEffect
<1>3. \A b \in Callers : b # c /\ call[b].pc = "decided" => call[b].id \in ExecIds \ {e}
  BY <1>1, OwnRow
<1>4. DecidedFits'
  <2>1. call'[c].pc # "decided"
    BY CommitEffect
  <2>2. \A b \in Callers : b # c /\ call[b].pc = "decided" => RowSeen(b)' = RowSeen(b)
    BY <1>2, <1>3 DEF RowSeen, Stored
  <2> QED
    BY <1>2, <2>1, <2>2 DEF DecidedFits
<1>5. ApprovedByPerson' /\ ConsumedInTime' /\ ConsumedInThePast'
  BY <1>1, <1>2, WrittenBacked DEF ApprovedByPerson, ConsumedInTime, ConsumedInThePast
<1>6. AuthorizedIsBacked'
  <2>1. ASSUME NEW b \in Callers, b # c, call[b].pc = "replied", call[b].status = "AUTHORIZED"
        PROVE  grants'[call[b].id] = grants[call[b].id]
    <3>1. CASE call[b].id = e
      <4>1. Stored(e) /\ grants[e].status = "CONSUMED"
        BY <2>1, <3>1 DEF AuthorizedIsBacked, Stored
      <4>2. RowSeen(c) = grants[e]
        BY <1>1, <4>1, OwnRow
      <4>3. Written(c) = grants[e]
        BY <4>1, <4>2 DEF Written
      <4> QED
        BY <1>2, <3>1, <4>3
    <3>2. CASE call[b].id # e
      BY <1>2, <2>1, <3>2 DEF RepliesHaveRows
    <3> QED
      BY <3>1, <3>2
  <2> QED
    BY <1>1, <1>2, <2>1, WrittenBacked, CommitEffect DEF AuthorizedIsBacked
<1>7. RepliesHaveRows'
  BY <1>2, CommitEffect DEF RepliesHaveRows
<1> QED
  BY <1>4, <1>5, <1>6, <1>7

(* The commit of decide keeps BackedInv: its row was PENDING and locked, so no
   decided transaction and no answer depends on it. *)
LEMMA CommitRulingBacked ==
    ASSUME LockInv, BackedInv, NEW d \in Approvers, NEW acked \in BOOLEAN,
           CommitRuling(d, acked)
    PROVE  BackedInv'
<1> USE DEF BackedInv
<1> DEFINE e == ruling[d].id
<1>1. /\ e \in ExecIds /\ locks[e] = d /\ grants[e].status = "PENDING"
      /\ grants'[e].status \in {"APPROVED", "REJECTED"}
      /\ grants'[e].status = "APPROVED" => grants'[e].decision = "approve"
      /\ \A f \in ExecIds : f # e => grants'[f] = grants[f]
      /\ UNCHANGED <<now, call>>
  BY CommitRulingEffect
<1>2. \A c \in Callers : call[c].pc = "decided" => call[c].id \in ExecIds \ {e}
  BY <1>1, OwnRow, GrantStoreAssumption
<1> HIDE DEF e
<1>3. DecidedFits'
  <2>1. \A c \in Callers : call[c].pc = "decided" => RowSeen(c)' = RowSeen(c)
    BY <1>1, <1>2 DEF RowSeen, Stored
  <2> QED
    BY <1>1, <2>1 DEF DecidedFits
<1>4. ApprovedByPerson' /\ ConsumedInTime' /\ ConsumedInThePast'
  BY <1>1 DEF ApprovedByPerson, ConsumedInTime, ConsumedInThePast
<1>5. AuthorizedIsBacked' /\ RepliesHaveRows'
  BY <1>1 DEF AuthorizedIsBacked, RepliesHaveRows
<1> QED
  BY <1>3, <1>4, <1>5

(* Every step of prepare_execution and decide keeps BackedInv. *)
LEMMA NextBacked == LockInv /\ BackedInv /\ [Next]_vars => BackedInv'
<1> SUFFICES ASSUME LockInv, BackedInv, [Next]_vars
             PROVE  BackedInv'
  OBVIOUS
<1>1. call \in [Callers -> Call]
  BY DEF LockInv, TypeOK
<1>2. CASE Tick \/ UNCHANGED vars
  BY <1>2, QuietBacked DEF Tick, vars
<1>3. ASSUME NEW c \in Callers, CallerStep(c)
      PROVE  BackedInv'
  <2>1. CASE Decide(c)
    BY <2>1, DecideBacked
  <2>2. ASSUME NEW acked \in BOOLEAN, Commit(c, acked)
        PROVE  BackedInv'
    BY <2>2, CommitBacked
  <2>3. ASSUME NEW i \in Intents, Begin(c, i)
        PROVE  BackedInv'
    <3>1. call'[c].pc = "began"
      BY <1>1, <2>3 DEF Begin, Requested
    <3> QED
      BY <1>1, <2>3, <3>1, QuietBacked DEF Begin
  <2>4. CASE Insert(c)
    <3>1. call'[c].pc = "inserted"
      BY <1>1, <2>4 DEF Insert, InsertRow, InsertConflict, Call
    <3> QED
      BY <1>1, <2>4, <3>1, QuietBacked DEF Insert, InsertRow, InsertConflict
  <2>5. CASE Lock(c)
    <3>1. call'[c].pc = "locked"
      BY <1>1, <2>5 DEF Lock, SelectForUpdate, Call
    <3> QED
      BY <1>1, <2>5, <3>1, QuietBacked DEF Lock, SelectForUpdate
  <2>6. CASE Abort(c) \/ Return(c)
    <3>1. call'[c].pc \in {"failed", "idle"}
      BY <1>1, <2>6, RestingRecords DEF Abort, Return
    <3> QED
      BY <1>1, <2>6, <3>1, QuietBacked DEF Abort, Return
  <2> QED
    BY <1>3, <2>1, <2>2, <2>3, <2>4, <2>5, <2>6 DEF CallerStep
<1>4. ASSUME NEW d \in Approvers, ApproverStep(d)
      PROVE  BackedInv'
  <2>1. ASSUME NEW acked \in BOOLEAN, CommitRuling(d, acked)
        PROVE  BackedInv'
    BY <2>1, CommitRulingBacked
  <2>2. CASE UNCHANGED <<now, grants, call>>
    BY <2>2, QuietBacked
  <2> QED
    BY <1>4, <2>1, <2>2 DEF ApproverStep, Scan, ScanUnknown, Update, AbortRuling,
       Classify, ReadBack, EndRuling
<1> QED
  BY <1>2, <1>3, <1>4 DEF Next

(* The empty table satisfies BackedInv. *)
LEMMA InitBacked == Init => BackedInv
<1> SUFFICES ASSUME Init
             PROVE  BackedInv
  OBVIOUS
<1>1. \A c \in Callers : call[c].pc = "idle"
  BY RestingRecords DEF Init
<1>2. \A e \in ExecIds : grants[e].status = "ABSENT"
  BY DEF Init, Vacant
<1> QED
  BY <1>1, <1>2 DEF BackedInv, DecidedFits, RepliesHaveRows, ApprovedByPerson,
     ConsumedInThePast, ConsumedInTime, AuthorizedIsBacked

(* BackedInv holds in every state of the grant store. *)
THEOREM BackedInvariant == Spec => []BackedInv
<1>1. Init => BackedInv
  BY InitBacked
<1>2. LockInv /\ BackedInv /\ [Next]_vars => BackedInv'
  BY NextBacked
<1> QED
  BY <1>1, <1>2, LockInvariant, PTL DEF Spec

(* prepare_execution answers AUTHORIZED only from a durable CONSUMED row of the very
   action asked for, approved by a person, at a database time before its expiry. *)
THEOREM AuthorizationsAreBacked == Spec => []AuthorizedIsBacked
<1>1. BackedInv => AuthorizedIsBacked
  BY DEF BackedInv
<1> QED
  BY <1>1, BackedInvariant, PTL

(* A CONSUMED row was approved and was consumed before its expiry, even when decide
   wrote the approval after the expiry. *)
THEOREM ConsumptionIsInTime == Spec => []ConsumedInTime
<1>1. BackedInv => ConsumedInTime
  BY DEF BackedInv
<1> QED
  BY <1>1, BackedInvariant, PTL

-----------------------------------------------------------------------------
(* What an approver is told stays true: the row of a recorded decision is no
   longer PENDING, and a missed one is decided or expired for good. *)
RulingInv ==
    /\ RulingHonoured
    /\ RefusalExplained
    /\ \A d \in Approvers :
           /\ ruling[d].pc \in {"committed", "ok"} => grants[ruling[d].id].status # "PENDING"
           /\ ruling[d].pc = "missed" =>
                  \/ grants[ruling[d].id].status # "PENDING"
                  \/ Expired(grants[ruling[d].id], now)

(* What decide has told or will tell an approver stays true while the other threads
   of prepare_execution and decide go on. *)
LEMMA RulingRests ==
    ASSUME LockInv, RulingInv, [Next]_vars, NEW d \in Approvers, ruling'[d] = ruling[d]
    PROVE  /\ ruling[d].pc \in {"committed", "ok"} =>
                  /\ grants'[ruling[d].id].decidedBy = d
                  /\ grants'[ruling[d].id].decision = ruling[d].decision
                  /\ grants'[ruling[d].id].status # "PENDING"
           /\ ruling[d].pc = "missed" =>
                  \/ grants'[ruling[d].id].status # "PENDING"
                  \/ Expired(grants'[ruling[d].id], now')
<1> DEFINE e == ruling[d].id
<1>1. ASSUME ruling[d].pc \notin {"idle", "unknown"}
      PROVE  /\ e \in ExecIds
             /\ grants[e].status # "ABSENT"
             /\ Forward(grants[e], grants'[e])
  BY <1>1, NextForward DEF LockInv, LockDiscipline, RulingLocks, Stored
<1>2. ASSUME e \in ExecIds
      PROVE  grants[e].expires \in Int
  BY <1>2, GrantStoreAssumption DEF LockInv, TypeOK, Grant, Clock
<1>3. now \in Int /\ now' \in Int /\ now <= now'
  <2>1. now \in Int
    BY GrantStoreAssumption DEF LockInv, TypeOK, Clock
  <2>2. now' = now \/ now' = now + 1
    BY DEF Next, CallerStep, ApproverStep, Insert, Lock, Tick, Begin, InsertRow,
       InsertConflict, SelectForUpdate, Decide, Commit, Abort, Return, Scan, ScanUnknown,
       Update, CommitRuling, AbortRuling, Classify, ReadBack, EndRuling, vars
  <2> QED
    BY <2>1, <2>2
<1> QED
  BY <1>1, <1>2, <1>3 DEF RulingInv, RulingHonoured, Forward, Expired

(* Every step of decide leaves its approver with something true. *)
LEMMA RulingMoves ==
    ASSUME LockInv, RulingInv, NEW d \in Approvers, ApproverStep(d)
    PROVE  /\ ruling'[d].pc \in {"committed", "ok"} =>
                  /\ grants'[ruling'[d].id].decidedBy = d
                  /\ grants'[ruling'[d].id].decision = ruling'[d].decision
                  /\ grants'[ruling'[d].id].status # "PENDING"
           /\ ruling'[d].pc = "missed" =>
                  \/ grants'[ruling'[d].id].status # "PENDING"
                  \/ Expired(grants'[ruling'[d].id], now')
           /\ HostSkew >= 0 => ruling'[d].pc # "inconclusive"
           /\ \A b \in Approvers : b # d => ruling'[b] = ruling[b]
<1>1. ruling \in [Approvers -> Ruling] /\ ruling[d] \in Ruling
  BY DEF LockInv, TypeOK
<1>2. ASSUME NEW e \in ExecIds, NEW verdict \in Decisions,
           Scan(d, e, verdict)
      PROVE  /\ ruling'[d].pc \in {"matched", "missed"}
             /\ ruling'[d].pc = "missed" => \/ grants[e].status # "PENDING"
                                            \/ Expired(grants[e], now)
             /\ ruling'[d].id = e
             /\ \A b \in Approvers : b # d => ruling'[b] = ruling[b]
             /\ UNCHANGED <<now, grants>>
  BY <1>1, <1>2 DEF Scan
<1>3. CASE Update(d)
  <2>1. /\ ruling'[d].pc \in {"updated", "missed"}
        /\ ruling'[d].pc = "missed" => grants[ruling[d].id].status # "PENDING"
        /\ ruling'[d].id = ruling[d].id
        /\ \A b \in Approvers : b # d => ruling'[b] = ruling[b]
        /\ UNCHANGED <<now, grants>>
    BY <1>1, <1>3 DEF Update, Ruling
  <2> QED
    BY <2>1
<1>4. ASSUME NEW acked \in BOOLEAN, CommitRuling(d, acked)
      PROVE  /\ ruling'[d].pc \in {"committed", "failed"}
             /\ ruling'[d].id = ruling[d].id /\ ruling'[d].decision = ruling[d].decision
             /\ \A b \in Approvers : b # d => ruling'[b] = ruling[b]
             /\ grants'[ruling[d].id].decidedBy = d
             /\ grants'[ruling[d].id].decision = ruling[d].decision
             /\ grants'[ruling[d].id].status # "PENDING"
  <2>1. /\ ruling'[d].pc \in {"committed", "failed"}
        /\ ruling'[d].id = ruling[d].id /\ ruling'[d].decision = ruling[d].decision
        /\ \A b \in Approvers : b # d => ruling'[b] = ruling[b]
    BY <1>1, <1>4 DEF CommitRuling, Ruling
  <2> QED
    BY <1>4, <2>1, CommitRulingEffect
<1>5. CASE AbortRuling(d)
  <2>1. /\ ruling'[d].pc = "failed"
        /\ \A b \in Approvers : b # d => ruling'[b] = ruling[b]
    BY <1>1, <1>5 DEF AbortRuling, Ruling
  <2> QED
    BY <2>1
<1>6. CASE Classify(d)
  <2>1. /\ ruling'[d].pc \in {"expired", "processed", "inconclusive"}
        /\ ruling'[d].pc = "inconclusive" =>
               /\ ~Expired(grants[ruling[d].id], now + HostSkew)
               /\ grants[ruling[d].id].status = "PENDING"
        /\ \A b \in Approvers : b # d => ruling'[b] = ruling[b]
    BY <1>1, <1>6 DEF Classify, Ruling
  <2>2. \/ grants[ruling[d].id].status # "PENDING"
        \/ Expired(grants[ruling[d].id], now)
    BY <1>6 DEF Classify, RulingInv
  <2>3. ruling[d].id \in ExecIds
    BY <1>6 DEF Classify, LockInv, LockDiscipline, RulingLocks
  <2>4. grants[ruling[d].id].expires \in Int /\ now \in Int
    BY <2>3, GrantStoreAssumption DEF LockInv, TypeOK, Grant, Clock
  <2> QED
    BY <2>1, <2>2, <2>4, GrantStoreAssumption DEF Expired
<1>7. CASE ReadBack(d)
  <2>1. /\ ruling[d].pc = "committed" /\ ruling'[d].pc = "ok"
        /\ ruling'[d].id = ruling[d].id /\ ruling'[d].decision = ruling[d].decision
        /\ \A b \in Approvers : b # d => ruling'[b] = ruling[b]
        /\ UNCHANGED <<now, grants>>
    BY <1>1, <1>7 DEF ReadBack, Ruling
  <2> QED
    BY <2>1 DEF RulingInv, RulingHonoured
<1>8. CASE EndRuling(d)
  <2>1. /\ ruling'[d].pc = "idle"
        /\ \A b \in Approvers : b # d => ruling'[b] = ruling[b]
    BY <1>1, <1>8, RestingRecords DEF EndRuling
  <2> QED
    BY <2>1
<1>9. CASE ScanUnknown(d)
  <2>1. /\ ruling'[d].pc = "unknown"
        /\ \A b \in Approvers : b # d => ruling'[b] = ruling[b]
    BY <1>1, <1>9 DEF ScanUnknown, Ruling
  <2> QED
    BY <2>1
<1> QED
  BY <1>2, <1>3, <1>4, <1>5, <1>6, <1>7, <1>8, <1>9 DEF ApproverStep

(* Every step of prepare_execution and decide keeps RulingInv. *)
LEMMA NextRuling == LockInv /\ RulingInv /\ [Next]_vars => RulingInv'
<1> SUFFICES ASSUME LockInv, RulingInv, [Next]_vars
             PROVE  RulingInv'
  OBVIOUS
<1>1. CASE UNCHANGED ruling
  BY <1>1, RulingRests DEF RulingInv, RulingHonoured, RefusalExplained
<1>2. ASSUME NEW d \in Approvers, ApproverStep(d)
      PROVE  RulingInv'
  <2>1. \A b \in Approvers \ {d} : ruling'[b] = ruling[b]
    BY <1>2, RulingMoves
  <2>2. RulingHonoured'
    BY <1>2, <2>1, RulingMoves, RulingRests DEF RulingHonoured
  <2>3. RefusalExplained'
    BY <1>2, <2>1, RulingMoves DEF RulingInv, RefusalExplained
  <2> QED
    BY <1>2, <2>1, <2>2, <2>3, RulingMoves, RulingRests DEF RulingInv
<1> QED
  BY <1>1, <1>2 DEF Next, CallerStep, Insert, Lock, Tick, Begin, InsertRow, InsertConflict,
     SelectForUpdate, Decide, Commit, Abort, Return, vars

(* RulingInv holds in every state of the grant store. *)
THEOREM RulingInvariant == Spec => []RulingInv
<1>1. Init => RulingInv
  BY RestingRecords DEF Init, RulingInv, RulingHonoured, RefusalExplained
<1>2. LockInv /\ RulingInv /\ [Next]_vars => RulingInv'
  BY NextRuling
<1> QED
  BY <1>1, <1>2, LockInvariant, PTL DEF Spec

(* An approver whom decide tells that the decision was recorded finds it in the row,
   under that name, for ever. *)
THEOREM RulingsAreHonoured == Spec => []RulingHonoured
<1>1. RulingInv => RulingHonoured
  BY DEF RulingInv
<1> QED
  BY <1>1, RulingInvariant, PTL

(* With a host clock that is not behind the database clock, decide never reaches its
   final RuntimeError: an approver whose UPDATE changed nothing learns why. *)
THEOREM RefusalsAreExplained == Spec => []RefusalExplained
<1>1. RulingInv => RefusalExplained
  BY DEF RulingInv
<1> QED
  BY <1>1, RulingInvariant, PTL

-----------------------------------------------------------------------------
(* What SELECT ... FOR UPDATE will find is there, and stays there. *)
RowAtHand ==
    \A c \in Callers : call[c].pc = "inserted" => \E e \in ExecIds : RowOf(c, e)

(* The unique index and the row locks leave a transaction no second row. *)
LEMMA OneRowAtMost ==
    ASSUME LockInv, NEW c \in Callers, call[c].pc = "inserted",
           NEW e \in ExecIds, NEW f \in ExecIds, RowOf(c, e), RowOf(c, f)
    PROVE  e = f
<1>1. CASE Stored(e) /\ Stored(f)
  BY <1>1 DEF LockInv, OneGrantPerIntent, RowOf
<1>2. CASE ~Stored(e) \/ ~Stored(f)
  BY <1>2 DEF LockInv, LockDiscipline, InsertsAreAlone, ActionTaken, RowOf
<1> QED
  BY <1>1, <1>2

(* A committed row stays the row of its action. *)
LEMMA StoredStays ==
    ASSUME LockInv, [Next]_vars, NEW e \in ExecIds, Stored(e)
    PROVE  Stored(e)' /\ grants'[e].intent = grants[e].intent
<1>1. Forward(grants[e], grants'[e])
  BY NextForward
<1> QED
  BY <1>1 DEF Forward, Stored

(* The row that a transaction has inserted is nobody else's to lock, commit or undo. *)
LEMMA InsertStays ==
    ASSUME LockInv, [Next]_vars, NEW c \in Callers, call'[c] = call[c],
           call[c].pc = "inserted",
           NEW e \in ExecIds, ~Stored(e), locks[e] = c
    PROVE  ~Stored(e)' /\ locks'[e] = c
<1> USE GrantStoreAssumption
<1>1. call \in [Callers -> Call] /\ c # None /\ c \notin Approvers
  BY DEF LockInv, TypeOK
<1>2. CASE UNCHANGED <<grants, locks>>
  BY <1>2 DEF Stored
<1>3. ASSUME NEW b \in Callers, CallerStep(b)
      PROVE  ~Stored(e)' /\ locks'[e] = c
  <2>1. ASSUME NEW f \in ExecIds, InsertRow(b, f)
        PROVE  ~Stored(e)' /\ locks'[e] = c
    BY <1>1, <2>1 DEF InsertRow, Stored, LockInv, TypeOK
  <2>2. ASSUME NEW f \in ExecIds, SelectForUpdate(b, f)
        PROVE  ~Stored(e)' /\ locks'[e] = c
    <3>1. f # e \/ b = c
      BY <2>2 DEF SelectForUpdate
    <3> QED
      BY <1>1, <2>2, <3>1 DEF SelectForUpdate, Stored, LockInv, TypeOK
  <2>3. ASSUME NEW acked \in BOOLEAN, Commit(b, acked)
        PROVE  ~Stored(e)' /\ locks'[e] = c
    <3>1. b # c /\ call[b].id # e
      BY <1>1, <2>3, OwnRow DEF Commit
    <3>2. grants'[e] = grants[e]
      BY <2>3, <3>1, CommitEffect
    <3>3. locks'[e] = locks[e]
      BY <2>3, <3>1, ReleasedType DEF Commit, LockInv
    <3> QED
      BY <3>2, <3>3 DEF Stored
  <2>4. CASE Abort(b)
    <3>1. b # c
      BY <1>1, <2>4 DEF Abort, FailedCall
    <3>2. locks'[e] = locks[e] /\ UNCHANGED grants
      BY <2>4, <3>1, ReleasedType DEF Abort, LockInv
    <3> QED
      BY <3>2 DEF Stored
  <2> QED
    BY <1>2, <1>3, <2>1, <2>2, <2>3, <2>4 DEF CallerStep, Insert, Lock, Begin,
       InsertConflict, Decide, Return
<1>4. ASSUME NEW d \in Approvers, ApproverStep(d)
      PROVE  ~Stored(e)' /\ locks'[e] = c
  <2>1. ASSUME NEW acked \in BOOLEAN, CommitRuling(d, acked)
        PROVE  ~Stored(e)' /\ locks'[e] = c
    <3>1. d # c /\ ruling[d].id # e
      BY <1>1, <2>1, CommitRulingEffect
    <3>2. grants'[e] = grants[e]
      BY <2>1, <3>1 DEF CommitRuling, LockInv, TypeOK
    <3>3. locks'[e] = locks[e]
      BY <2>1, <3>1, ReleasedType DEF CommitRuling, LockInv
    <3> QED
      BY <3>2, <3>3 DEF Stored
  <2>2. CASE Update(d)
    <3>1. locks'[e] = locks[e] /\ UNCHANGED grants
      BY <1>1, <2>2 DEF Update, LockInv, TypeOK
    <3> QED
      BY <3>1 DEF Stored
  <2>3. CASE AbortRuling(d)
    <3>1. locks'[e] = locks[e] /\ UNCHANGED grants
      BY <1>1, <2>3, ReleasedType DEF AbortRuling, LockInv
    <3> QED
      BY <3>1 DEF Stored
  <2> QED
    BY <1>2, <1>4, <2>1, <2>2, <2>3 DEF ApproverStep, Scan, ScanUnknown, Classify,
       ReadBack, EndRuling
<1> QED
  BY <1>2, <1>3, <1>4 DEF Next, Tick, vars

(* A step of the transaction itself that ends its INSERT leaves it a row. *)
LEMMA InsertLeavesRow ==
    ASSUME LockInv, NEW c \in Callers, CallerStep(c), call'[c].pc = "inserted"
    PROVE  \E e \in ExecIds : RowOf(c, e)'
<1>1. call \in [Callers -> Call] /\ locks \in [ExecIds -> Callers \cup Approvers \cup {None}]
  BY DEF LockInv, TypeOK
<1>2. CASE InsertConflict(c)
  <2>1. PICK e \in ExecIds : Stored(e) /\ grants[e].intent = call[c].intent
    BY <1>2 DEF InsertConflict, ActionTaken
  <2>2. call'[c].intent = call[c].intent /\ UNCHANGED grants
    BY <1>1, <1>2 DEF InsertConflict, Call
  <2> QED
    BY <2>1, <2>2 DEF RowOf, Stored
<1>3. ASSUME NEW e \in ExecIds, InsertRow(c, e)
      PROVE  RowOf(c, e)'
  BY <1>1, <1>3 DEF InsertRow, RowOf, Stored
<1>4. CASE \/ \E i \in Intents : Begin(c, i)
           \/ Lock(c) \/ Decide(c) \/ Abort(c) \/ Return(c)
           \/ \E acked \in BOOLEAN : Commit(c, acked)
  <2>1. ASSUME NEW i \in Intents, Begin(c, i)
        PROVE  call'[c].pc = "began"
    BY <1>1, <2>1, RestingRecords DEF Begin, Requested, Call
  <2>2. CASE Lock(c) \/ Decide(c) \/ Abort(c) \/ Return(c)
             \/ \E acked \in BOOLEAN : Commit(c, acked)
    <3>1. call'[c].pc \in {"locked", "decided", "failed", "idle", "replied"}
      BY <1>1, <2>2, RestingRecords DEF Lock, SelectForUpdate, Decide, Abort, Return,
         Commit, Call
    <3> QED
      BY <3>1
  <2> QED
    BY <1>1, <1>4, <2>1, <2>2
<1> QED
  BY <1>2, <1>3, <1>4 DEF CallerStep, Insert

(* Every step of prepare_execution and decide leaves each transaction its row. *)
LEMMA NextRowAtHand == LockInv /\ RowAtHand /\ [Next]_vars => RowAtHand'
<1> SUFFICES ASSUME LockInv, RowAtHand, [Next]_vars,
                    NEW c \in Callers, call'[c].pc = "inserted"
             PROVE  \E e \in ExecIds : RowOf(c, e)'
  BY DEF RowAtHand
<1>1. CASE call'[c] = call[c]
  <2>1. PICK e \in ExecIds : RowOf(c, e)
    BY <1>1 DEF RowAtHand
  <2>2. CASE Stored(e)
    BY <1>1, <2>1, <2>2, StoredStays DEF RowOf
  <2>3. CASE ~Stored(e)
    BY <1>1, <2>1, <2>3, InsertStays DEF RowOf
  <2> QED
    BY <2>2, <2>3
<1>2. CASE CallerStep(c)
  BY <1>2, InsertLeavesRow
<1>3. ASSUME NEW b \in Callers, b # c, CallerStep(b)
      PROVE  call'[c] = call[c]
  <2>1. call \in [Callers -> Call]
    BY DEF LockInv, TypeOK
  <2> QED
    BY <1>3, <2>1 DEF CallerStep, Insert, Lock, Begin, InsertRow, InsertConflict,
       SelectForUpdate, Decide, Commit, Abort, Return
<1>4. CASE Tick \/ UNCHANGED vars \/ \E d \in Approvers : ApproverStep(d)
  <2>1. UNCHANGED call
    BY <1>4 DEF Tick, vars, ApproverStep, Scan, ScanUnknown, Update, CommitRuling,
       AbortRuling, Classify, ReadBack, EndRuling
  <2> QED
    BY <1>1, <2>1
<1> QED
  BY <1>1, <1>2, <1>3, <1>4 DEF Next

(* After its INSERT ... DO NOTHING a transaction of prepare_execution finds exactly one
   row to lock: SELECT ... FOR UPDATE ... .one() never raises. *)
THEOREM OneRowIsThere == Spec => []OneRowToLock
<1>1. Init => RowAtHand
  BY RestingRecords DEF Init, RowAtHand
<1>2. LockInv /\ RowAtHand /\ [Next]_vars => RowAtHand'
  BY NextRowAtHand
<1>3. LockInv /\ RowAtHand => OneRowToLock
  BY OneRowAtMost DEF RowAtHand, OneRowToLock
<1> QED
  BY <1>1, <1>2, <1>3, LockInvariant, PTL DEF Spec

(* Transactions of prepare_execution and decide never wait for each other in a circle:
   who waits for an index entry or a row lock holds neither. *)
THEOREM NoCircularWait == Spec => []WaitersHoldNothing
<1>1. LockInv => WaitersHoldNothing
  <2> SUFFICES ASSUME LockInv, NEW e \in ExecIds
               PROVE  /\ \A c \in Callers : CallWaits(c) => locks[e] # c
                      /\ \A d \in Approvers : RulingWaits(d) => locks[e] # d
    BY DEF WaitersHoldNothing
  <2> USE DEF LockInv, LockDiscipline
  <2>1. ASSUME NEW c \in Callers, CallWaits(c), locks[e] = c
        PROVE  FALSE
    <3>1. call[c].pc = "inserted" /\ ~Stored(e)
      BY <2>1 DEF CallWaits, CallLocks
    <3>2. PICK f \in ExecIds : RowOf(c, f) /\ locks[f] # c
      BY <2>1, <3>1 DEF CallWaits
    <3>3. RowOf(c, e)
      BY <2>1, <3>1 DEF RowOf
    <3> QED
      BY <2>1, <3>1, <3>2, <3>3, OneRowAtMost
  <2>2. ASSUME NEW d \in Approvers, RulingWaits(d), locks[e] = d
        PROVE  FALSE
    BY <2>2 DEF RulingWaits, RulingLocks
  <2> QED
    BY <2>1, <2>2
<1> QED
  BY <1>1, LockInvariant, PTL

-----------------------------------------------------------------------------
(* A waiting tool call is waiting for the handler of its own request: the handler works
   on the action the tool call is for, or has failed. *)
AskedFor ==
    \A c \in Callers :
        tool[c].pc = "asking" =>
            /\ call[c].pc # "idle"
            /\ call[c].pc = "failed" \/ call[c].intent = tool[c].intent

(* The order system applies a key once. *)
KeysOnce == \A a, b \in applied : a.key = b.key => a = b

FlowTypes ==
    /\ tool \in [Callers -> Tool]
    /\ \A c \in Callers : tool[c].pc = "asking" => tool[c].intent \in Intents
    /\ sent \subseteq Request
    /\ applied \subseteq sent

(* Inductive together with the invariants of the grant store. *)
FlowInv == LockInv /\ BackedInv /\ FlowTypes /\ AskedFor /\ SentIsIssued /\ KeysOnce

-----------------------------------------------------------------------------
(* Every step of the path is a step of the grant store or leaves it alone. *)
LEMMA FlowStep == [FlowNext]_flowVars => [Next]_vars
<1> SUFFICES ASSUME [FlowNext]_flowVars
             PROVE  [Next]_vars
  OBVIOUS
<1>1. CASE UNCHANGED flowVars
  BY <1>1 DEF flowVars, vars
<1>2. CASE StoreStep
  BY <1>2 DEF StoreStep, Next, CallerStep
<1>3. ASSUME NEW c \in Callers, ToolStep(c)
      PROVE  [Next]_vars
  <2>1. ASSUME NEW i \in Intents, Ask(c, i)
        PROVE  Next
    BY <2>1 DEF Ask, Next, CallerStep
  <2>2. CASE AskFails(c) \/ Refuse(c) \/ Send(c) \/ AnswerNobody(c)
    BY <2>2 DEF AskFails, Refuse, Send, AnswerNobody, Next, CallerStep
  <2>3. CASE AskTimeout(c) \/ OmsAnswer(c) \/ OmsTimeout(c) \/ EndTool(c)
    BY <2>3 DEF AskTimeout, OmsAnswer, OmsTimeout, EndTool
  <2> QED
    BY <1>3, <2>1, <2>2, <2>3 DEF ToolStep
<1>4. ASSUME NEW r \in sent, OmsApply(r)
      PROVE  UNCHANGED vars
  BY <1>4 DEF OmsApply
<1> QED
  BY <1>1, <1>2, <1>3, <1>4 DEF FlowNext

(* A step of the store keeps a handler at the action it was asked for, or fails it. *)
LEMMA StoreKeepsCalls ==
    ASSUME TypeOK, StoreStep, NEW c \in Callers
    PROVE  \/ call'[c] = call[c]
           \/ call'[c].pc = "failed"
           \/ /\ call[c].pc # "failed" /\ call'[c].pc # "idle"
              /\ call'[c].intent = call[c].intent
<1>1. call \in [Callers -> Call]
  BY DEF TypeOK
<1>2. CASE Tick
  BY <1>2 DEF Tick
<1>3. ASSUME NEW b \in Callers, Insert(b) \/ Lock(b) \/ Decide(b)
      PROVE  \/ call'[c] = call[c]
             \/ /\ call[c].pc # "failed" /\ call'[c].pc # "idle"
                /\ call'[c].intent = call[c].intent
  BY <1>1, <1>3 DEF Insert, InsertRow, InsertConflict, Lock, SelectForUpdate, Decide, Call
<1>4. ASSUME NEW b \in Callers, NEW acked \in BOOLEAN, Commit(b, acked)
      PROVE  \/ call'[c] = call[c]
             \/ call'[c].pc = "failed"
             \/ /\ call[c].pc # "failed" /\ call'[c].pc # "idle"
                /\ call'[c].intent = call[c].intent
  <2>1. CASE acked
    BY <1>1, <1>4, <2>1 DEF Commit, Call
  <2>2. CASE ~acked
    BY <1>1, <1>4, <2>2 DEF Commit, FailedCall
  <2> QED
    BY <2>1, <2>2
<1>5. ASSUME NEW b \in Callers, Abort(b)
      PROVE  call'[c] = call[c] \/ call'[c].pc = "failed"
  BY <1>1, <1>5 DEF Abort, FailedCall
<1>6. ASSUME NEW d \in Approvers, ApproverStep(d)
      PROVE  call'[c] = call[c]
  BY <1>6 DEF ApproverStep, Scan, ScanUnknown, Update, CommitRuling, AbortRuling,
     Classify, ReadBack, EndRuling
<1> QED
  BY <1>2, <1>3, <1>4, <1>5, <1>6 DEF StoreStep

-----------------------------------------------------------------------------
(* What was sent stays issued: a CONSUMED row never changes. *)
LEMMA SentStays ==
    ASSUME FlowInv, [Next]_vars, NEW r \in sent
    PROVE  /\ grants'[r.key].intent = r.intent
           /\ grants'[r.key].status = "CONSUMED"
           /\ grants'[r.key].decision = "approve"
<1>1. r.key \in ExecIds
  BY DEF FlowInv, FlowTypes, Request
<1>2. /\ grants[r.key].intent = r.intent
      /\ grants[r.key].status = "CONSUMED"
      /\ grants[r.key].decision = "approve"
  BY DEF FlowInv, SentIsIssued
<1>3. Forward(grants[r.key], grants'[r.key])
  BY <1>1, NextForward DEF FlowInv
<1> QED
  BY <1>2, <1>3 DEF Forward

(* HttpOrderGateway posts an id only for the action it was issued for. *)
LEMMA SendIsIssued ==
    ASSUME FlowInv, NEW c \in Callers, Send(c)
    PROVE  /\ tool[c].intent \in Intents /\ call[c].id \in ExecIds
           /\ grants[call[c].id].intent = tool[c].intent
           /\ grants[call[c].id].status = "CONSUMED"
           /\ grants[call[c].id].decision = "approve"
<1>1. /\ tool[c].pc = "asking" /\ call[c].pc = "replied" /\ call[c].status = "AUTHORIZED"
  BY DEF Send, MayExecute
<1>2. tool[c].intent \in Intents /\ call[c].intent = tool[c].intent
  BY <1>1 DEF FlowInv, FlowTypes, AskedFor
<1>3. call[c].id \in ExecIds
  BY <1>1 DEF FlowInv, BackedInv, RepliesHaveRows
<1> QED
  BY <1>1, <1>2, <1>3 DEF FlowInv, BackedInv, AuthorizedIsBacked

(* The store's own steps keep what is known of the adapter and the order system. *)
LEMMA StoreFlow ==
    ASSUME FlowInv, StoreStep
    PROVE  FlowTypes' /\ AskedFor' /\ KeysOnce' /\ SentIsIssued'
<1>1. UNCHANGED <<tool, sent, applied>>
  BY DEF StoreStep
<1>2. FlowTypes' /\ KeysOnce'
  BY <1>1 DEF FlowInv, FlowTypes, KeysOnce
<1>3. AskedFor'
  BY <1>1, StoreKeepsCalls DEF FlowInv, LockInv, AskedFor
<1>4. [Next]_vars
  BY FlowStep DEF FlowNext
<1>5. SentIsIssued'
  BY <1>1, <1>4, SentStays DEF SentIsIssued
<1> QED
  BY <1>2, <1>3, <1>5

(* A step of a tool call moves its own record and handler and no others. *)
LEMMA ToolFlow ==
    ASSUME FlowInv, NEW c \in Callers, ToolStep(c)
    PROVE  FlowTypes' /\ AskedFor' /\ KeysOnce' /\ SentIsIssued'
<1>1. /\ tool \in [Callers -> Tool] /\ call \in [Callers -> Call]
      /\ tool[c] \in Tool
  BY DEF FlowInv, FlowTypes, LockInv, TypeOK
<1>2. [Next]_vars
  BY FlowStep DEF FlowNext
<1>3. UNCHANGED applied
  BY DEF ToolStep, Ask, AskTimeout, AskFails, Refuse, Send, AnswerNobody, OmsAnswer,
     OmsTimeout, EndTool
<1>4. KeysOnce'
  BY <1>3 DEF FlowInv, KeysOnce
<1>5. ASSUME NEW i \in Intents, Ask(c, i)
      PROVE  FlowTypes' /\ AskedFor'
  <2> DEFINE asked == [IdleTool EXCEPT !.pc = "asking", !.intent = i]
  <2>0. asked \in Tool /\ asked.pc = "asking" /\ asked.intent = i
    BY DEF IdleTool, Tool, ToolPcs
  <2>1. /\ tool' = [tool EXCEPT ![c] = asked]
        /\ call'[c].pc = "began" /\ call'[c].intent = i
        /\ \A b \in Callers : b # c => call'[b] = call[b]
        /\ UNCHANGED sent
    BY <1>1, <1>5 DEF Ask, Begin, Requested, IdleCall
  <2> HIDE DEF asked
  <2>2. FlowTypes'
    BY <1>1, <1>3, <2>0, <2>1 DEF FlowInv, FlowTypes
  <2>3. AskedFor'
    BY <1>1, <2>0, <2>1 DEF FlowInv, AskedFor
  <2> QED
    BY <2>2, <2>3
<1>6. ASSUME \/ AskTimeout(c) \/ AskFails(c) \/ Refuse(c)
             \/ OmsAnswer(c) \/ OmsTimeout(c) \/ EndTool(c)
      PROVE  FlowTypes' /\ AskedFor'
  <2>1. /\ \E p \in ToolPcs \ {"asking"} : \/ tool' = [tool EXCEPT ![c].pc = p]
                                           \/ tool' = [tool EXCEPT ![c] = IdleTool]
        /\ \A b \in Callers : b # c => call'[b] = call[b]
        /\ UNCHANGED sent
    BY <1>1, <1>6 DEF AskTimeout, AskFails, Refuse, OmsAnswer, OmsTimeout, EndTool, Return,
       ToolPcs, vars
  <2>2. tool'[c].pc # "asking" /\ tool' \in [Callers -> Tool]
    BY <1>1, <2>1 DEF Tool, IdleTool, ToolPcs
  <2>3. \A b \in Callers : b # c => tool'[b] = tool[b]
    BY <1>1, <2>1
  <2>4. FlowTypes'
    BY <1>3, <2>1, <2>2, <2>3 DEF FlowInv, FlowTypes
  <2>5. AskedFor'
    BY <2>1, <2>2, <2>3 DEF FlowInv, AskedFor
  <2> QED
    BY <2>4, <2>5
<1>7. ASSUME Send(c)
      PROVE  FlowTypes' /\ AskedFor'
  <2>1. /\ tool' = [tool EXCEPT ![c].pc = "sent", ![c].key = call[c].id]
        /\ sent' = sent \cup {[intent |-> tool[c].intent, key |-> call[c].id]}
        /\ \A b \in Callers : b # c => call'[b] = call[b]
    BY <1>1, <1>7 DEF Send, Return
  <2>2. tool[c].intent \in Intents /\ call[c].id \in ExecIds
    BY <1>7, SendIsIssued
  <2>3. /\ tool' \in [Callers -> Tool] /\ tool'[c].pc = "sent"
        /\ \A b \in Callers : b # c => tool'[b] = tool[b]
    BY <1>1, <2>1, <2>2 DEF Tool, ToolPcs
  <2>4. sent' \subseteq Request /\ sent \subseteq sent'
    BY <2>1, <2>2 DEF FlowInv, FlowTypes, Request
  <2>5. FlowTypes'
    BY <1>3, <2>3, <2>4 DEF FlowInv, FlowTypes
  <2>6. AskedFor'
    BY <2>1, <2>3 DEF FlowInv, AskedFor
  <2> QED
    BY <2>5, <2>6
<1>8. ASSUME AnswerNobody(c)
      PROVE  FlowTypes' /\ AskedFor'
  BY <1>1, <1>3, <1>8 DEF AnswerNobody, Return, FlowInv, FlowTypes, AskedFor
<1>9. SentIsIssued'
  <2> SUFFICES ASSUME NEW r \in sent'
               PROVE  /\ grants'[r.key].intent = r.intent
                      /\ grants'[r.key].status = "CONSUMED"
                      /\ grants'[r.key].decision = "approve"
    BY DEF SentIsIssued
  <2>1. CASE r \in sent
    BY <1>2, <2>1, SentStays
  <2>2. CASE r \notin sent
    <3>1. Send(c)
      BY <2>2 DEF ToolStep, Ask, AskTimeout, AskFails, Refuse, AnswerNobody, OmsAnswer,
         OmsTimeout, EndTool
    <3>2. r = [intent |-> tool[c].intent, key |-> call[c].id] /\ UNCHANGED grants
      BY <2>2, <3>1 DEF Send, Return
    <3> QED
      BY <3>1, <3>2, SendIsIssued
  <2> QED
    BY <2>1, <2>2
<1> QED
  BY <1>4, <1>5, <1>6, <1>7, <1>8, <1>9 DEF ToolStep

(* The order system applies what was sent, and no key twice. *)
LEMMA OmsFlow ==
    ASSUME FlowInv, NEW r \in sent, OmsApply(r)
    PROVE  FlowTypes' /\ AskedFor' /\ KeysOnce' /\ SentIsIssued'
<1>1. applied' = applied \cup {r} /\ \A a \in applied : a.key # r.key
  BY DEF OmsApply
<1>2. UNCHANGED <<tool, sent, call, grants>>
  BY DEF OmsApply, vars
<1>3. FlowTypes' /\ AskedFor' /\ SentIsIssued'
  BY <1>1, <1>2 DEF FlowInv, FlowTypes, AskedFor, SentIsIssued
<1>4. KeysOnce'
  BY <1>1 DEF FlowInv, KeysOnce
<1> QED
  BY <1>3, <1>4

(* Before the first tool call there is nothing to know. *)
LEMMA FlowInitHolds == FlowInit => FlowInv
<1> SUFFICES ASSUME FlowInit
             PROVE  FlowInv
  OBVIOUS
<1>1. LockInv /\ BackedInv
  BY InitHolds, InitBacked DEF FlowInit
<1>2. IdleTool \in Tool /\ IdleTool.pc = "idle"
  BY DEF IdleTool, Tool, ToolPcs
<1>3. FlowTypes /\ AskedFor /\ SentIsIssued /\ KeysOnce
  BY <1>2 DEF FlowInit, FlowTypes, AskedFor, SentIsIssued, KeysOnce
<1> QED
  BY <1>1, <1>3 DEF FlowInv

(* Every step of the path keeps FlowInv. *)
LEMMA FlowNextKeeps == FlowInv /\ [FlowNext]_flowVars => FlowInv'
<1> SUFFICES ASSUME FlowInv, [FlowNext]_flowVars
             PROVE  FlowInv'
  OBVIOUS
<1>1. LockInv' /\ BackedInv'
  BY FlowStep, NextKeeps, NextBacked DEF FlowInv
<1>2. CASE UNCHANGED flowVars
  BY <1>1, <1>2 DEF flowVars, FlowInv, FlowTypes, AskedFor, SentIsIssued, KeysOnce
<1>3. CASE FlowNext
  <2>1. FlowTypes' /\ AskedFor' /\ KeysOnce' /\ SentIsIssued'
    BY <1>3, StoreFlow, ToolFlow, OmsFlow DEF FlowNext
  <2> QED
    BY <1>1, <2>1 DEF FlowInv
<1> QED
  BY <1>1, <1>2, <1>3

(* FlowInv holds in every state of the path. *)
THEOREM FlowInvariant == FlowSpec => []FlowInv
<1>1. FlowInit => FlowInv
  BY FlowInitHolds
<1>2. FlowInv /\ [FlowNext]_flowVars => FlowInv'
  BY FlowNextKeeps
<1> QED
  BY <1>1, <1>2, PTL DEF FlowSpec

(* A request that HttpOrderGateway posted names an action with a durable CONSUMED row
   that a person approved, whatever timed out on the way. *)
THEOREM SentRequestsAreIssued == FlowSpec => []SentIsIssued
<1>1. FlowInv => SentIsIssued
  BY DEF FlowInv
<1> QED
  BY <1>1, FlowInvariant, PTL

(* HttpOrderGateway posts only while the grant is alive on the adapter's clock, and only
   for a grant that was approved and consumed before its expiry; an AUTHORIZED answer that
   arrives later posts nothing. *)
THEOREM RequestsLeaveInTime == FlowSpec => SentInTime
<1>1. ASSUME FlowInv, [FlowNext]_flowVars, NEW c \in Callers,
             tool[c].pc # "sent", tool'[c].pc = "sent"
      PROVE  Alive(tool[c].intent, tool'[c].key)
  <2>1. tool \in [Callers -> Tool]
    BY <1>1 DEF FlowInv, FlowTypes
  <2>2. Send(c)
    <3>1. PICK b \in Callers : ToolStep(b)
      BY <1>1 DEF FlowNext, flowVars, StoreStep, OmsApply
    <3>2. CASE Send(b)
      <4>1. b = c
        BY <1>1, <2>1, <3>2 DEF Send
      <4> QED
        BY <3>2, <4>1
    <3>3. CASE \/ AskTimeout(b) \/ AskFails(b) \/ Refuse(b)
               \/ OmsAnswer(b) \/ OmsTimeout(b)
      <4>1. tool'[c] = tool[c] \/ tool'[c].pc \in {"unavailable", "refused", "done", "unknown"}
        BY <2>1, <3>3 DEF AskTimeout, AskFails, Refuse, OmsAnswer, OmsTimeout, Tool
      <4> QED
        BY <1>1, <4>1
    <3>4. CASE EndTool(b) \/ AnswerNobody(b)
      <4>1. tool'[c] = tool[c] \/ tool'[c].pc = "idle"
        BY <2>1, <3>4 DEF EndTool, AnswerNobody, IdleTool
      <4> QED
        BY <1>1, <4>1
    <3>5. ASSUME NEW i \in Intents, Ask(b, i)
          PROVE  FALSE
      <4> DEFINE asked == [IdleTool EXCEPT !.pc = "asking", !.intent = i]
      <4>1. asked.pc = "asking"
        BY DEF IdleTool
      <4>2. tool' = [tool EXCEPT ![b] = asked]
        BY <3>5 DEF Ask
      <4> HIDE DEF asked
      <4>3. tool'[c] = tool[c] \/ tool'[c] = asked
        BY <2>1, <4>2
      <4> QED
        BY <1>1, <4>1, <4>3
    <3> QED
      BY <3>1, <3>2, <3>3, <3>4, <3>5 DEF ToolStep
  <2>3. tool'[c].key = call[c].id /\ MayExecute(c)
    BY <2>1, <2>2 DEF Send, Tool
  <2>4. /\ call[c].id \in ExecIds
        /\ grants[call[c].id].intent = tool[c].intent
        /\ grants[call[c].id].status = "CONSUMED"
        /\ grants[call[c].id].decision = "approve"
    BY <1>1, <2>2, SendIsIssued
  <2>5. grants[call[c].id].consumedAt < grants[call[c].id].expires
    BY <1>1, <2>4 DEF FlowInv, BackedInv, ConsumedInTime
  <2>6. now + AdapterSkew < grants[call[c].id].expires
    <3>1. ~Expired(grants[call[c].id], now + AdapterSkew)
      BY <2>3 DEF MayExecute
    <3>2. now \in Int /\ grants[call[c].id].expires \in Int
      BY <1>1, <2>4, GrantStoreAssumption DEF FlowInv, LockInv, TypeOK, Clock, Grant
    <3> QED
      BY <3>1, <3>2, AdapterSkewAssumption DEF Expired
  <2> QED
    BY <2>3, <2>4, <2>5, <2>6 DEF Alive
<1>2. FlowInv /\ [FlowNext]_flowVars =>
          [\A c \in Callers :
               tool[c].pc # "sent" /\ tool'[c].pc = "sent" => Alive(tool[c].intent, tool'[c].key)
          ]_flowVars
  BY <1>1
<1> QED
  BY <1>2, FlowInvariant, PTL DEF FlowSpec, SentInTime

(* Nothing is ever cancelled in the order system without an approval that was used in
   time, and the row that says so is never changed afterwards (prepare_execution, decide,
   cancelOrder, HttpOrderGateway). *)
THEOREM CancellationsAreApproved == FlowSpec => []AppliedIsCovered
<1>1. FlowInv => AppliedIsCovered
  <2> SUFFICES ASSUME FlowInv, NEW r \in applied
               PROVE  /\ grants[r.key].intent = r.intent
                      /\ grants[r.key].status = "CONSUMED"
                      /\ grants[r.key].decision = "approve"
                      /\ grants[r.key].consumedAt < grants[r.key].expires
    BY DEF AppliedIsCovered
  <2>1. r \in sent /\ r.key \in ExecIds
    BY DEF FlowInv, FlowTypes, Request
  <2>2. /\ grants[r.key].intent = r.intent
        /\ grants[r.key].status = "CONSUMED"
        /\ grants[r.key].decision = "approve"
    BY <2>1 DEF FlowInv, SentIsIssued
  <2> QED
    BY <2>1, <2>2 DEF FlowInv, BackedInv, ConsumedInTime
<1> QED
  BY <1>1, FlowInvariant, PTL

(* The path uses the grant store only through its own operations: whatever is proved of
   GrantStore holds of the store inside the path. *)
THEOREM FlowUsesStore == FlowSpec => Spec
<1>1. FlowInit => Init
  BY DEF FlowInit
<1>2. [FlowNext]_flowVars => [Next]_vars
  BY FlowStep
<1> QED
  BY <1>1, <1>2, PTL DEF FlowSpec, Spec

(* Two requests for one action carry one key, because the action has one row. *)
LEMMA OneKeyPerAction ==
    ASSUME FlowInv, NEW a \in sent, NEW b \in sent, a.intent = b.intent
    PROVE  a = b
<1>1. a \in Request /\ b \in Request
  BY DEF FlowInv, FlowTypes
<1>2. a.key = b.key
  BY <1>1 DEF FlowInv, SentIsIssued, LockInv, OneGrantPerIntent, Stored, Request
<1> QED
  BY <1>1, <1>2 DEF Request

(* The order system commits an action at most once, for any number of repeated and
   overlapping tool calls (cancelOrder, prepare_execution). *)
THEOREM AppliedAtMostOnce == FlowSpec => []AtMostOnce
<1>1. FlowInv => AtMostOnce
  BY OneKeyPerAction DEF FlowInv, FlowTypes, AtMostOnce
<1> QED
  BY <1>1, FlowInvariant, PTL

-----------------------------------------------------------------------------
(* The refinement of CancelAuthority.  Every row belongs to an action. *)
RowsHaveActions == \A e \in ExecIds : Stored(e) => grants[e].intent \in Intents

(* No step of the grant store writes a row for nothing. *)
LEMMA NextRows == LockInv /\ RowsHaveActions /\ [Next]_vars => RowsHaveActions'
<1> SUFFICES ASSUME LockInv, RowsHaveActions, [Next]_vars,
                    NEW e \in ExecIds, Stored(e)'
             PROVE  grants'[e].intent \in Intents
  BY DEF RowsHaveActions
<1>1. CASE Stored(e)
  BY <1>1, NextForward DEF Forward, Stored, RowsHaveActions
<1>2. CASE ~Stored(e)
  <2>1. CASE UNCHANGED grants
    BY <1>2, <2>1 DEF Stored
  <2>2. ASSUME NEW c \in Callers, NEW acked \in BOOLEAN, Commit(c, acked)
        PROVE  grants'[e].intent \in Intents
    <3>1. e = call[c].id
      BY <1>2, <2>2, CommitEffect DEF Stored
    <3>2. call[c].id \in ExecIds /\ call[c].intent \in Intents
          /\ RowSeen(c).intent = call[c].intent /\ TypeOK
      BY <2>2, OwnRow DEF Commit, LockInv
    <3>3. Written(c).intent = call[c].intent
      BY <3>2, WrittenType
    <3> QED
      BY <2>2, <3>1, <3>2, <3>3, CommitEffect
  <2>3. ASSUME NEW d \in Approvers, NEW acked \in BOOLEAN, CommitRuling(d, acked)
        PROVE  grants'[e].intent \in Intents
    BY <1>2, <2>3, CommitRulingEffect DEF Stored
  <2> QED
    BY <2>1, <2>2, <2>3 DEF Next, CallerStep, ApproverStep, Insert, Lock, Tick, Begin,
       InsertRow, InsertConflict, SelectForUpdate, Decide, Abort, Return, Scan,
       ScanUnknown, Update, AbortRuling, Classify, ReadBack, EndRuling, vars
<1> QED
  BY <1>1, <1>2

(* The one row of an action is its key, and the row's status its phase; stated for any
   table, to be used before and after a step. *)
LEMMA TheRow ==
    ASSUME NEW G, NEW i, NEW e \in ExecIds,
           G[e].status # "ABSENT", G[e].intent = i,
           \A f \in ExecIds : G[f].status # "ABSENT" /\ G[f].intent = i => f = e,
           NEW S, S = {x \in ExecIds : G[x].status # "ABSENT" /\ G[x].intent = i}
    PROVE  S # {} /\ (CHOOSE x \in S : TRUE) = e
<1>1. S = {e}
  OBVIOUS
<1> QED
  BY <1>1

(* A row moves on: its action keeps the key and takes the phase of the new status, and
   no other action is concerned. *)
LEMMA RowMoves ==
    ASSUME OneGrantPerIntent, OneGrantPerIntent', NEW e \in ExecIds, NEW i,
           Stored(e), Stored(e)', grants[e].intent = i, grants'[e].intent = i,
           \A f \in ExecIds : f # e => grants'[f] = grants[f]
    PROVE  /\ KeyOf(i) = e /\ KeyOf(i)' = e
           /\ PhaseOf(i) = Phase(grants[e].status) /\ PhaseOf(i)' = Phase(grants'[e].status)
           /\ \A j \in Intents : j # i => KeyOf(j)' = KeyOf(j) /\ PhaseOf(j)' = PhaseOf(j)
<1>1. GrantOf(i) # {} /\ KeyOf(i) = e
  BY TheRow DEF GrantOf, KeyOf, Stored, OneGrantPerIntent
<1>2. GrantOf(i)' # {} /\ KeyOf(i)' = e
  BY TheRow DEF GrantOf, KeyOf, Stored, OneGrantPerIntent
<1>3. ASSUME NEW j \in Intents, j # i
      PROVE  KeyOf(j)' = KeyOf(j) /\ PhaseOf(j)' = PhaseOf(j)
  <2>1. GrantOf(j)' = GrantOf(j) /\ e \notin GrantOf(j) /\ GrantOf(j) \subseteq ExecIds
    BY <1>3 DEF GrantOf, Stored
  <2>2. KeyOf(j)' = KeyOf(j)
    BY <2>1 DEF KeyOf
  <2>3. GrantOf(j) # {} => KeyOf(j) \in GrantOf(j)
    BY DEF KeyOf
  <2>4. GrantOf(j) # {} => grants'[KeyOf(j)] = grants[KeyOf(j)]
    BY <2>1, <2>3
  <2> QED
    BY <2>1, <2>2, <2>4 DEF PhaseOf
<1> QED
  BY <1>1, <1>2, <1>3 DEF PhaseOf

(* A first row appears: its action was new, its key was free, and no other action is
   concerned. *)
LEMMA RowAppears ==
    ASSUME OneGrantPerIntent', NEW e \in ExecIds, NEW i, i \in Intents,
           ~Stored(e), Stored(e)', grants'[e].intent = i,
           \A f \in ExecIds : f # e => grants'[f] = grants[f]
    PROVE  /\ PhaseOf(i) = "new"
           /\ \A j \in Intents : KeyOf(j) # e
           /\ KeyOf(i)' = e /\ PhaseOf(i)' = Phase(grants'[e].status)
           /\ \A j \in Intents : j # i => KeyOf(j)' = KeyOf(j) /\ PhaseOf(j)' = PhaseOf(j)
<1>1. GrantOf(i)' # {} /\ KeyOf(i)' = e
  BY TheRow DEF GrantOf, KeyOf, Stored, OneGrantPerIntent
<1>2. GrantOf(i) = {}
  BY DEF GrantOf, Stored, OneGrantPerIntent
<1>3. \A j \in Intents : KeyOf(j) # e
  <2> TAKE j \in Intents
  <2>1. e \notin GrantOf(j)
    BY DEF GrantOf
  <2>2. GrantOf(j) # {} => KeyOf(j) \in GrantOf(j)
    BY DEF KeyOf
  <2>3. None # e
    BY GrantStoreAssumption
  <2> QED
    BY <2>1, <2>2, <2>3 DEF KeyOf
<1>4. ASSUME NEW j \in Intents, j # i
      PROVE  KeyOf(j)' = KeyOf(j) /\ PhaseOf(j)' = PhaseOf(j)
  <2>1. GrantOf(j)' = GrantOf(j) /\ e \notin GrantOf(j)
    BY <1>4 DEF GrantOf, Stored
  <2>2. KeyOf(j)' = KeyOf(j)
    BY <2>1 DEF KeyOf
  <2>3. GrantOf(j) # {} => KeyOf(j) \in GrantOf(j)
    BY DEF KeyOf
  <2>4. GrantOf(j) # {} => grants'[KeyOf(j)] = grants[KeyOf(j)]
    BY <2>1, <2>3 DEF GrantOf
  <2> QED
    BY <2>1, <2>2, <2>4 DEF PhaseOf
<1> QED
  BY <1>1, <1>2, <1>3, <1>4 DEF PhaseOf

-----------------------------------------------------------------------------
(* No row and no effect changes: the abstract state stutters. *)
LEMMA QuietMaps ==
    ASSUME UNCHANGED <<grants, applied>>
    PROVE  UNCHANGED Authority!vars
<1>1. \A i \in Intents : /\ PhaseOf(i)' = PhaseOf(i) /\ KeyOf(i)' = KeyOf(i)
                          /\ AppliedOf(i)' = AppliedOf(i)
  BY DEF PhaseOf, KeyOf, GrantOf, Stored, AppliedOf
<1> QED
  BY <1>1 DEF Authority!vars

(* The commit of prepare_execution opens an action, issues it, or shows nothing. *)
LEMMA CommitMaps ==
    ASSUME FlowInv, FlowInv', RowsHaveActions, UNCHANGED applied,
           NEW c \in Callers, NEW acked \in BOOLEAN, Commit(c, acked),
           NEW e, e = call[c].id, NEW i, i = call[c].intent
    PROVE  [Authority!Next]_(Authority!vars)
<1>1. /\ e \in ExecIds /\ i \in Intents
      /\ RowSeen(c) \in Grant /\ RowSeen(c).status # "ABSENT" /\ RowSeen(c).intent = i
      /\ Stored(e) => RowSeen(c) = grants[e]
      /\ ~Stored(e) => RowSeen(c).status = "PENDING"
  BY OwnRow DEF Commit, FlowInv
<1>2. /\ grants'[e] = Written(c)
      /\ \A f \in ExecIds : f # e => grants'[f] = grants[f]
  BY CommitEffect DEF FlowInv
<1>3. OneGrantPerIntent /\ OneGrantPerIntent' /\ TypeOK
  BY DEF FlowInv, LockInv
<1>4. Written(c).intent = i /\ Written(c).status # "ABSENT"
  BY <1>1, <1>3, WrittenType
<1>5. \A j \in Intents : AppliedOf(j)' = AppliedOf(j)
  BY DEF AppliedOf
<1>6. CASE ~Stored(e)
  <2>1. Written(c) = RowSeen(c) /\ Written(c).status = "PENDING"
    BY <1>1, <1>6 DEF Written
  <2>2. Authority!Open(i, e)
    <3>1. /\ PhaseOf(i) = "new"
          /\ \A j \in Intents : KeyOf(j) # e
          /\ KeyOf(i)' = e /\ PhaseOf(i)' = Phase(grants'[e].status)
          /\ \A j \in Intents : j # i => KeyOf(j)' = KeyOf(j) /\ PhaseOf(j)' = PhaseOf(j)
      BY <1>1, <1>2, <1>3, <1>4, <1>6, RowAppears DEF Stored
    <3>2. PhaseOf(i)' = "pending"
      BY <1>2, <2>1, <3>1 DEF Phase
    <3> QED
      BY <1>1, <1>5, <3>1, <3>2 DEF Authority!Open
  <2> QED
    BY <1>1, <2>2 DEF Authority!Next
<1>7. CASE Stored(e) /\ Written(c) = grants[e]
  <2>1. \A f \in ExecIds : grants'[f] = grants[f]
    BY <1>2, <1>7
  <2>2. UNCHANGED grants
    BY <2>1 DEF FlowInv, LockInv, TypeOK
  <2> QED
    BY <2>2, QuietMaps
<1>8. CASE Stored(e) /\ Written(c) # grants[e]
  <2>1. grants[e] \in Grant /\ grants[e].intent = i
    BY <1>1, <1>8
  <2>2. grants[e].status = "APPROVED" /\ Written(c).status = "CONSUMED"
    BY <1>1, <1>8, <2>1 DEF Written, Grant
  <2>3. /\ PhaseOf(i) = Phase(grants[e].status) /\ PhaseOf(i)' = Phase(grants'[e].status)
        /\ \A j \in Intents : j # i => KeyOf(j)' = KeyOf(j) /\ PhaseOf(j)' = PhaseOf(j)
        /\ KeyOf(i)' = KeyOf(i)
    BY <1>1, <1>2, <1>3, <1>4, <1>8, <2>1, RowMoves DEF Stored
  <2>4. PhaseOf(i) = "approved" /\ PhaseOf(i)' = "issued"
    BY <1>2, <2>2, <2>3 DEF Phase
  <2>5. Authority!Issue(i)
    BY <1>1, <1>5, <2>3, <2>4 DEF Authority!Issue
  <2> QED
    BY <1>1, <2>5 DEF Authority!Next
<1> QED
  BY <1>6, <1>7, <1>8

(* The commit of decide rules on an action. *)
LEMMA CommitRulingMaps ==
    ASSUME FlowInv, FlowInv', RowsHaveActions, UNCHANGED applied,
           NEW d \in Approvers, NEW acked \in BOOLEAN, CommitRuling(d, acked),
           NEW e, e = ruling[d].id, NEW i, i = grants[e].intent
    PROVE  [Authority!Next]_(Authority!vars)
<1>1. /\ e \in ExecIds /\ grants[e].status = "PENDING"
      /\ grants'[e].status \in {"APPROVED", "REJECTED"} /\ grants'[e].intent = i
      /\ \A f \in ExecIds : f # e => grants'[f] = grants[f]
  BY CommitRulingEffect DEF FlowInv
<1>2. OneGrantPerIntent /\ OneGrantPerIntent' /\ i \in Intents
  BY <1>1 DEF FlowInv, LockInv, RowsHaveActions, Stored
<1>3. \A j \in Intents : AppliedOf(j)' = AppliedOf(j)
  BY DEF AppliedOf
<1>4. /\ PhaseOf(i) = Phase(grants[e].status) /\ PhaseOf(i)' = Phase(grants'[e].status)
      /\ \A j \in Intents : j # i => KeyOf(j)' = KeyOf(j) /\ PhaseOf(j)' = PhaseOf(j)
      /\ KeyOf(i)' = KeyOf(i)
  BY <1>1, <1>2, RowMoves DEF Stored
<1>5. PhaseOf(i) = "pending" /\ PhaseOf(i)' \in {"approved", "rejected"}
  BY <1>1, <1>4 DEF Phase
<1>6. Authority!Rule(i)
  BY <1>2, <1>3, <1>4, <1>5 DEF Authority!Rule
<1> QED
  BY <1>2, <1>6 DEF Authority!Next

(* The order system applies the action under the key that was issued for it, once. *)
LEMMA OmsMaps ==
    ASSUME FlowInv, NEW r \in sent, OmsApply(r), NEW i, i = r.intent
    PROVE  [Authority!Next]_(Authority!vars)
<1>1. /\ applied' = applied \cup {r} /\ \A a \in applied : a.key # r.key
      /\ UNCHANGED grants
  BY DEF OmsApply, vars
<1>2. r.key \in ExecIds /\ i \in Intents /\ applied \subseteq sent
  BY DEF FlowInv, FlowTypes, Request
<1>3. grants[r.key].intent = i /\ grants[r.key].status = "CONSUMED"
  BY DEF FlowInv, SentIsIssued
<1>4. GrantOf(i) # {} /\ KeyOf(i) = r.key
  BY <1>2, <1>3, TheRow DEF GrantOf, KeyOf, Stored, OneGrantPerIntent, FlowInv, LockInv
<1>5. PhaseOf(i) = "issued"
  BY <1>3, <1>4 DEF PhaseOf, Phase
<1>6. \A a \in applied : a.intent # i
  BY <1>1, <1>2, OneKeyPerAction
<1>7. AppliedOf(i) = {} /\ AppliedOf(i)' = {KeyOf(i)}
  BY <1>1, <1>4, <1>6 DEF AppliedOf
<1>8. \A j \in Intents : j # i => AppliedOf(j)' = AppliedOf(j)
  BY <1>1 DEF AppliedOf
<1>9. \A j \in Intents : PhaseOf(j)' = PhaseOf(j) /\ KeyOf(j)' = KeyOf(j)
  BY <1>1 DEF PhaseOf, KeyOf, GrantOf, Stored
<1>10. Authority!Apply(i)
  BY <1>2, <1>5, <1>7, <1>8, <1>9 DEF Authority!Apply
<1> QED
  BY <1>2, <1>10 DEF Authority!Next

(* Every step of the path is a step of CancelAuthority or shows nothing. *)
LEMMA FlowMaps ==
    FlowInv /\ FlowInv' /\ RowsHaveActions /\ [FlowNext]_flowVars
        => [Authority!Next]_(Authority!vars)
<1> SUFFICES ASSUME FlowInv, FlowInv', RowsHaveActions, [FlowNext]_flowVars
             PROVE  [Authority!Next]_(Authority!vars)
  OBVIOUS
<1>1. CASE UNCHANGED <<grants, applied>>
  BY <1>1, QuietMaps
<1>2. ASSUME NEW c \in Callers, NEW acked \in BOOLEAN, Commit(c, acked), UNCHANGED applied
      PROVE  [Authority!Next]_(Authority!vars)
  BY <1>2, CommitMaps
<1>3. ASSUME NEW d \in Approvers, NEW acked \in BOOLEAN, CommitRuling(d, acked),
             UNCHANGED applied
      PROVE  [Authority!Next]_(Authority!vars)
  BY <1>3, CommitRulingMaps
<1>4. ASSUME NEW r \in sent, OmsApply(r)
      PROVE  [Authority!Next]_(Authority!vars)
  BY <1>4, OmsMaps
<1>5. CASE StoreStep
  BY <1>1, <1>2, <1>3, <1>5 DEF StoreStep, Tick, Insert, InsertRow, InsertConflict, Lock,
     SelectForUpdate, Decide, Abort, ApproverStep, Scan, ScanUnknown, Update, AbortRuling,
     Classify, ReadBack, EndRuling
<1>6. ASSUME NEW c \in Callers, ToolStep(c)
      PROVE  UNCHANGED <<grants, applied>>
  BY <1>6 DEF ToolStep, Ask, Begin, AskTimeout, AskFails, Refuse, Send, AnswerNobody,
     OmsAnswer, OmsTimeout, EndTool, Return, vars
<1>7. CASE UNCHANGED flowVars
  BY <1>1, <1>7 DEF flowVars
<1> QED
  BY <1>1, <1>4, <1>5, <1>6, <1>7 DEF FlowNext

(* An empty table and an order system without effects: every action is new. *)
LEMMA FlowInitMaps == FlowInit => Authority!Init /\ RowsHaveActions
<1> SUFFICES ASSUME FlowInit
             PROVE  Authority!Init /\ RowsHaveActions
  OBVIOUS
<1>1. \A e \in ExecIds : ~Stored(e)
  BY DEF FlowInit, Init, Vacant, Stored
<1>2. \A i \in Intents : GrantOf(i) = {} /\ AppliedOf(i) = {}
  BY <1>1 DEF GrantOf, AppliedOf, FlowInit
<1>3. \A i \in Intents : PhaseOf(i) = "new" /\ KeyOf(i) = None /\ AppliedOf(i) = {}
  BY <1>2 DEF PhaseOf, KeyOf
<1> QED
  BY <1>1, <1>3 DEF Authority!Init, RowsHaveActions

(* The adapter, the grant store, the approvers and the order system together do nothing
   but what CancelAuthority allows, for any number of each: every action is opened once,
   ruled on once, issued only if approved, and applied once under its own key. *)
THEOREM FlowImplementsAuthority == FlowSpec => ImplementsAuthority
<1>1. FlowInit => Authority!Init /\ RowsHaveActions
  BY FlowInitMaps
<1>2. FlowInv /\ RowsHaveActions /\ [FlowNext]_flowVars => RowsHaveActions'
  BY FlowStep, NextRows DEF FlowInv
<1>3. FlowInv /\ FlowInv' /\ RowsHaveActions /\ [FlowNext]_flowVars
          => [Authority!Next]_(Authority!vars)
  BY FlowMaps
<1> QED
  BY <1>1, <1>2, <1>3, FlowInvariant, PTL
     DEF FlowSpec, ImplementsAuthority, Authority!Spec

=============================================================================
