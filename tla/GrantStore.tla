------------------------------ MODULE GrantStore ------------------------------
(***************************************************************************)
(* The approval_requests table as the execution grant store uses it: the   *)
(* transaction of ApprovalRepository.prepare_execution, run by any number  *)
(* of HTTP worker threads at once, and ApprovalRepository.decide, run by   *)
(* approvers at the same time, under PostgreSQL READ COMMITTED.            *)
(*                                                                         *)
(* An intent is what ExecutionService.prepare fingerprints: conversation,  *)
(* user, tenant, operation and validated arguments.  A row is named by its *)
(* execution id.  What a transaction wrote and did not commit is in its    *)
(* own record (call, ruling) and not in grants.  The statements of one     *)
(* transaction are separate steps: a lock wait, a crash or a deadline can  *)
(* fall between any two of them.                                           *)
(***************************************************************************)
EXTENDS Integers

CONSTANTS Intents,     \* business actions that may be asked for
          ExecIds,     \* uuid4 values drawn for execution ids
          Callers,     \* threads serving POST /internal/executions/prepare
          Approvers,   \* threads serving POST /approvals/{id}/approve|reject
          TTL,         \* EXECUTION_GRANT_TTL_SECONDS
          MaxTime,     \* BOUND: the database clock stops here
          HostSkew,    \* clock of the service's host minus database clock
          None         \* no row, no owner, no decision

ASSUME GrantStoreAssumption ==
    /\ TTL \in Nat \ {0}
    /\ MaxTime \in Nat
    /\ HostSkew \in Int
    /\ None \notin Intents \cup ExecIds \cup Callers \cup Approvers
    /\ Callers \cap Approvers = {}

VARIABLES now,     \* clock_timestamp() of the database
          grants,  \* committed rows, by execution id
          locks,   \* who holds the row lock (or the uncommitted insert)
          call,    \* the prepare transaction of each caller
          ruling   \* the decide call of each approver

vars == <<now, grants, locks, call, ruling>>

-----------------------------------------------------------------------------
Statuses  == {"ABSENT", "PENDING", "APPROVED", "REJECTED", "CONSUMED"}
Outcomes  == {"PENDING", "AUTHORIZED", "REJECTED", "EXPIRED"}
Decisions == {"approve", "reject"}
Clock     == 0 .. MaxTime

\* The columns of a row that the properties tell apart.
Grant == [intent     : Intents \cup {None},
          status     : Statuses,
          expires    : 0 .. MaxTime + TTL,
          decision   : Decisions \cup {None},
          decidedBy  : Approvers \cup {None},
          consumedAt : Clock]

Vacant == [intent |-> None, status |-> "ABSENT", expires |-> 0,
           decision |-> None, decidedBy |-> None, consumedAt |-> 0]

\* The row the INSERT of prepare_execution writes, with the clock it read first.
Fresh(i, t) == [intent |-> i, status |-> "PENDING", expires |-> t + TTL,
                decision |-> None, decidedBy |-> None, consumedAt |-> 0]

CallPcs == {"idle", "began", "inserted", "locked", "decided", "replied", "failed"}
InTransaction == {"began", "inserted", "locked", "decided"}

Call == [pc     : CallPcs,
         intent : Intents \cup {None},
         since  : Clock,                  \* the clock read before the INSERT
         id     : ExecIds \cup {None},    \* the row the transaction works on
         status : Outcomes \cup {None},   \* what it will answer
         at     : Clock]                  \* the clock read after the row lock

IdleCall == [pc |-> "idle", intent |-> None, since |-> 0, id |-> None,
             status |-> None, at |-> 0]
FailedCall == [pc |-> "failed", intent |-> None, since |-> 0, id |-> None,
               status |-> None, at |-> 0]

RulingPcs == {"idle", "matched", "missed", "updated", "committed", "ok",
              "expired", "processed", "inconclusive", "unknown", "failed"}
RulingEnded == {"ok", "expired", "processed", "inconclusive", "unknown", "failed"}

Ruling == [pc : RulingPcs, id : ExecIds \cup {None}, decision : Decisions \cup {None}]

IdleRuling == [pc |-> "idle", id |-> None, decision |-> None]

\* A validated and fingerprinted request on its way to the store.
Requested(i) == [IdleCall EXCEPT !.pc = "began", !.intent = i]

Stored(e) == grants[e].status # "ABSENT"
Expired(g, t) == g.expires <= t

\* An INSERT of this intent that its transaction has not committed yet: a
\* second INSERT waits for it on the unique index uq_execution_grant_action.
InsertInFlight(i) ==
    \E e \in ExecIds, c \in Callers : /\ ~Stored(e)
                                      /\ locks[e] = c
                                      /\ call[c].intent = i

\* MUTANT: the index of migration 003, which forgets terminal rows.
ActionTaken_ActiveOnly(i) ==
    \E e \in ExecIds : grants[e].status \in {"PENDING", "APPROVED"} /\ grants[e].intent = i

\* uq_execution_grant_action covers rows of every status, the terminal ones too.
ActionTaken(i) == \E e \in ExecIds : Stored(e) /\ grants[e].intent = i

\* What SELECT ... FOR UPDATE shows the caller: its own insert or the committed row.
RowSeen(c) == LET k == call[c] IN
              IF Stored(k.id) THEN grants[k.id] ELSE Fresh(k.intent, k.since)

\* The branches of prepare_execution after the row lock, on a row and a clock.
Outcome(g, t) ==
    IF Expired(g, t) THEN "EXPIRED"
    ELSE IF g.status \in {"APPROVED", "CONSUMED"} THEN "AUTHORIZED"
    ELSE g.status

Released(a) == [e \in ExecIds |-> IF locks[e] = a THEN None ELSE locks[e]]

-----------------------------------------------------------------------------
Init ==
    /\ now = 0
    /\ grants = [e \in ExecIds |-> Vacant]
    /\ locks = [e \in ExecIds |-> None]
    /\ call = [c \in Callers |-> IdleCall]
    /\ ruling = [d \in Approvers |-> IdleRuling]

Tick ==
    /\ now < MaxTime
    /\ now' = now + 1
    /\ UNCHANGED <<grants, locks, call, ruling>>

\* BEGIN and the first clock_timestamp(): expires_at will count from here.
Begin(c, i) ==
    /\ call[c].pc = "idle"
    /\ call' = [call EXCEPT ![c] = [Requested(i) EXCEPT !.since = now]]
    /\ UNCHANGED <<now, grants, locks, ruling>>

\* INSERT ... ON CONFLICT DO NOTHING that inserts: nobody has, or is inserting, the action.
InsertRow(c, e) ==
    /\ call[c].pc = "began"
    /\ ~ActionTaken(call[c].intent)
    /\ ~InsertInFlight(call[c].intent)
    /\ ~Stored(e) /\ locks[e] = None
    /\ locks' = [locks EXCEPT ![e] = c]
    /\ call' = [call EXCEPT ![c].pc = "inserted"]
    /\ UNCHANGED <<now, grants, ruling>>

\* The same INSERT when a committed row has the action: it does nothing.
InsertConflict(c) ==
    /\ call[c].pc = "began"
    /\ ActionTaken(call[c].intent)
    /\ call' = [call EXCEPT ![c].pc = "inserted"]
    /\ UNCHANGED <<now, grants, locks, ruling>>

\* SELECT ... FOR UPDATE ... .one(): the transaction's own row, or the committed
\* one as soon as no other transaction holds its lock.
SelectForUpdate(c, e) ==
    /\ call[c].pc = "inserted"
    /\ \/ ~Stored(e) /\ locks[e] = c
       \/ Stored(e) /\ grants[e].intent = call[c].intent /\ locks[e] = None
    /\ locks' = [locks EXCEPT ![e] = c]
    /\ call' = [call EXCEPT ![c].pc = "locked", ![c].id = e]
    /\ UNCHANGED <<now, grants, ruling>>

\* MUTANT: expiry tested with the clock read before the lock wait.
Decide_StaleClock(c) ==
    /\ call[c].pc = "locked"
    /\ call' = [call EXCEPT ![c].pc = "decided",
                            ![c].status = Outcome(RowSeen(c), call[c].since),
                            ![c].at = now]
    /\ UNCHANGED <<now, grants, locks, ruling>>

\* The second clock_timestamp(), the branches on the locked row and, for an
\* APPROVED one, the UPDATE to CONSUMED (visible to others at the commit).
Decide(c) ==
    /\ call[c].pc = "locked"
    /\ call' = [call EXCEPT ![c].pc = "decided",
                            ![c].status = Outcome(RowSeen(c), now),
                            ![c].at = now]
    /\ UNCHANGED <<now, grants, locks, ruling>>

\* MUTANT: the UPDATE to CONSUMED is not part of the transaction.
Written_ForgetsConsume(c) == RowSeen(c)

\* MUTANT: a request after the expiry renews the grant in place.
Written_Renews(c) ==
    IF call[c].status = "EXPIRED" THEN Fresh(call[c].intent, call[c].at) ELSE RowSeen(c)

\* What the commit of c leaves in its row.
Written(c) ==
    LET g == RowSeen(c) IN
    IF call[c].status = "AUTHORIZED" /\ g.status = "APPROVED"
    THEN [g EXCEPT !.status = "CONSUMED", !.consumedAt = call[c].at]
    ELSE g

\* COMMIT.  The acknowledgement can be lost: the row is durable and the caller fails.
Commit(c, acked) ==
    /\ call[c].pc = "decided"
    /\ grants' = [grants EXCEPT ![call[c].id] = Written(c)]
    /\ locks' = Released(c)
    /\ call' = [call EXCEPT ![c] = IF acked THEN [@ EXCEPT !.pc = "replied"] ELSE FailedCall]
    /\ UNCHANGED <<now, ruling>>

\* MUTANT: a rolled back transaction still answers what it had decided.
Abort_StillAnswers(c) ==
    /\ call[c].pc \in InTransaction
    /\ locks' = Released(c)
    /\ call' = [call EXCEPT ![c] = IF @.pc = "decided" THEN [@ EXCEPT !.pc = "replied"]
                                   ELSE FailedCall]
    /\ UNCHANGED <<now, grants, ruling>>

\* lock_timeout, statement_timeout, a lost connection or a dead process: rollback.
Abort(c) ==
    /\ call[c].pc \in InTransaction
    /\ locks' = Released(c)
    /\ call' = [call EXCEPT ![c] = FailedCall]
    /\ UNCHANGED <<now, grants, ruling>>

\* The HTTP handler has answered (or raised) and the thread is free again.
Return(c) ==
    /\ call[c].pc \in {"replied", "failed"}
    /\ call' = [call EXCEPT ![c] = IdleCall]
    /\ UNCHANGED <<now, grants, locks, ruling>>

-----------------------------------------------------------------------------
\* decide: the UPDATE finds its row in the statement's snapshot, and tests the
\* clock there, before it waits for the row lock.
Scan(d, e, verdict) ==
    /\ ruling[d].pc = "idle"
    /\ Stored(e)
    /\ ruling' = [ruling EXCEPT ![d] =
           [pc |-> IF grants[e].status = "PENDING" /\ ~Expired(grants[e], now)
                   THEN "matched" ELSE "missed",
            id |-> e, decision |-> verdict]]
    /\ UNCHANGED <<now, grants, locks, call>>

\* decide for an id that is nobody's or another tenant's: neither the UPDATE nor the read
\* after it finds a row the approver may see.  (No id is known before its row is committed.)
ScanUnknown(d) ==
    /\ ruling[d].pc = "idle"
    /\ ruling' = [ruling EXCEPT ![d].pc = "unknown"]
    /\ UNCHANGED <<now, grants, locks, call>>

\* MUTANT: read, then write: the status is not tested again under the lock.
Update_NoRecheck(d) ==
    /\ ruling[d].pc = "matched"
    /\ locks[ruling[d].id] = None
    /\ locks' = [locks EXCEPT ![ruling[d].id] = d]
    /\ ruling' = [ruling EXCEPT ![d].pc = "updated"]
    /\ UNCHANGED <<now, grants, call>>

\* The row lock is free.  PostgreSQL tests the WHERE clause again only if another
\* transaction changed the row meanwhile, that is, if it is no longer PENDING.
Update(d) ==
    LET e == ruling[d].id IN
    /\ ruling[d].pc = "matched"
    /\ locks[e] = None
    /\ IF grants[e].status = "PENDING"
       THEN /\ locks' = [locks EXCEPT ![e] = d]
            /\ ruling' = [ruling EXCEPT ![d].pc = "updated"]
       ELSE /\ ruling' = [ruling EXCEPT ![d].pc = "missed"]
            /\ UNCHANGED locks
    /\ UNCHANGED <<now, grants, call>>

\* What the UPDATE of d leaves in its row.
Ruled(d) ==
    [grants[ruling[d].id] EXCEPT
        !.status    = IF ruling[d].decision = "approve" THEN "APPROVED" ELSE "REJECTED",
        !.decision  = ruling[d].decision,
        !.decidedBy = d]

CommitRuling(d, acked) ==
    /\ ruling[d].pc = "updated"
    /\ grants' = [grants EXCEPT ![ruling[d].id] = Ruled(d)]
    /\ locks' = Released(d)
    /\ ruling' = [ruling EXCEPT ![d].pc = IF acked THEN "committed" ELSE "failed"]
    /\ UNCHANGED <<now, call>>

RulingAtWork == {"matched", "missed", "updated", "committed"}

\* MUTANT: the connection goes back to the pool with its transaction open.
AbortRuling_KeepsLock(d) ==
    /\ ruling[d].pc \in RulingAtWork
    /\ ruling' = [ruling EXCEPT ![d].pc = "failed"]
    /\ UNCHANGED <<now, grants, locks, call>>

\* The UPDATE, the commit or the read after it fails: the approver is not told how it ended.
AbortRuling(d) ==
    /\ ruling[d].pc \in RulingAtWork
    /\ locks' = Released(d)
    /\ ruling' = [ruling EXCEPT ![d].pc = "failed"]
    /\ UNCHANGED <<now, grants, call>>

\* MUTANT: a grant at its expiry instant counts as unexpired in the read.
Classify_StrictExpiry(d) ==
    LET g == grants[ruling[d].id] IN
    /\ ruling[d].pc = "missed"
    /\ ruling' = [ruling EXCEPT ![d].pc =
           IF g.expires < now + HostSkew THEN "expired"
           ELSE IF g.status # "PENDING" THEN "processed"
           ELSE "inconclusive"]
    /\ UNCHANGED <<now, grants, locks, call>>

\* rowcount 0: a separate read, classified with the clock of the service's host.
Classify(d) ==
    LET g == grants[ruling[d].id] IN
    /\ ruling[d].pc = "missed"
    /\ ruling' = [ruling EXCEPT ![d].pc =
           IF Expired(g, now + HostSkew) THEN "expired"
           ELSE IF g.status # "PENDING" THEN "processed"
           ELSE "inconclusive"]
    /\ UNCHANGED <<now, grants, locks, call>>

\* rowcount 1: the final self.get() answers the approver with the row as it is now.
ReadBack(d) ==
    /\ ruling[d].pc = "committed"
    /\ ruling' = [ruling EXCEPT ![d].pc = "ok"]
    /\ UNCHANGED <<now, grants, locks, call>>

EndRuling(d) ==
    /\ ruling[d].pc \in RulingEnded
    /\ ruling' = [ruling EXCEPT ![d] = IdleRuling]
    /\ UNCHANGED <<now, grants, locks, call>>

-----------------------------------------------------------------------------
Insert(c) == InsertConflict(c) \/ \E e \in ExecIds : InsertRow(c, e)
Lock(c)   == \E e \in ExecIds : SelectForUpdate(c, e)

CallerStep(c) ==
    \/ \E i \in Intents : Begin(c, i)
    \/ Insert(c)
    \/ Lock(c)
    \/ Decide(c)
    \/ \E acked \in BOOLEAN : Commit(c, acked)
    \/ Abort(c)
    \/ Return(c)

ApproverStep(d) ==
    \/ \E e \in ExecIds, verdict \in Decisions : Scan(d, e, verdict)
    \/ ScanUnknown(d)
    \/ Update(d)
    \/ \E acked \in BOOLEAN : CommitRuling(d, acked)
    \/ AbortRuling(d)
    \/ Classify(d)
    \/ ReadBack(d)
    \/ EndRuling(d)

Next ==
    \/ Tick
    \/ \E c \in Callers : CallerStep(c)
    \/ \E d \in Approvers : ApproverStep(d)

Spec == Init /\ [][Next]_vars

\* PostgreSQL runs the statements it is given and queues lock waiters in order; no
\* thread is obliged to start a call, time need not pass and no deadline need fire.
Fairness ==
    /\ \A c \in Callers : /\ SF_vars(Insert(c))
                          /\ SF_vars(Lock(c))
                          /\ WF_vars(Decide(c))
                          /\ WF_vars(\E acked \in BOOLEAN : Commit(c, acked))
    /\ \A d \in Approvers : /\ SF_vars(Update(d))
                            /\ WF_vars(\E acked \in BOOLEAN : CommitRuling(d, acked))

FairSpec == Spec /\ Fairness

-----------------------------------------------------------------------------
\* Every variable has its type.
TypeOK ==
    /\ now \in Clock
    /\ grants \in [ExecIds -> Grant]
    /\ locks \in [ExecIds -> Callers \cup Approvers \cup {None}]
    /\ call \in [Callers -> Call]
    /\ ruling \in [Approvers -> Ruling]

\* Locks, transactions and rows fit together: a lock has the one transaction that took
\* it behind it, which works on that row and no other; a row that is being inserted is
\* the only one of its action, committed or not (the unique index and the row locks of
\* prepare_execution and decide).
CallLocks ==
    \A c \in Callers :
        /\ call[c].pc \in InTransaction => call[c].intent \in Intents
        /\ \A e \in ExecIds : locks[e] = c =>
               \/ call[c].pc = "inserted" /\ ~Stored(e)
               \/ call[c].pc \in {"locked", "decided"} /\ call[c].id = e
        /\ call[c].pc \in {"locked", "decided"} =>
               /\ call[c].id \in ExecIds
               /\ locks[call[c].id] = c
               /\ Stored(call[c].id) => grants[call[c].id].intent = call[c].intent

RulingLocks ==
    \A d \in Approvers :
        /\ \A e \in ExecIds : locks[e] = d => ruling[d].pc = "updated" /\ ruling[d].id = e
        /\ ruling[d].pc \notin {"idle", "unknown"} => /\ ruling[d].id \in ExecIds
                                                      /\ ruling[d].decision \in Decisions
                                                      /\ Stored(ruling[d].id)
        /\ ruling[d].pc = "updated" => /\ locks[ruling[d].id] = d
                                       /\ grants[ruling[d].id].status = "PENDING"

InsertsAreAlone ==
    /\ \A e \in ExecIds, c \in Callers :
           ~Stored(e) /\ locks[e] = c => ~ActionTaken(call[c].intent)
    /\ \A e, f \in ExecIds, c, b \in Callers :
           /\ ~Stored(e) /\ locks[e] = c
           /\ ~Stored(f) /\ locks[f] = b
           /\ call[c].intent = call[b].intent
           => e = f

LockDiscipline == CallLocks /\ RulingLocks /\ InsertsAreAlone

\* One business action has one row, whatever its status: concurrent first requests,
\* rollbacks and retries after a rejection or an expiry never store a second
\* execution id for it (migrations/005, prepare_execution).
OneGrantPerIntent ==
    \A e, f \in ExecIds :
        Stored(e) /\ Stored(f) /\ grants[e].intent = grants[f].intent => e = f

\* An id is handed out only from a durable CONSUMED row of the very action asked
\* for, which a person approved, at a database time before the grant expired;
\* with a lost acknowledgement it is not handed out (prepare_execution).
AuthorizedIsBacked ==
    \A c \in Callers :
        call[c].pc = "replied" /\ call[c].status = "AUTHORIZED" =>
            LET g == grants[call[c].id] IN
            /\ g.intent = call[c].intent
            /\ g.status = "CONSUMED"
            /\ g.decision = "approve"
            /\ g.consumedAt <= call[c].at
            /\ call[c].at < g.expires

\* Issuing never outruns the person: a CONSUMED row carries an approval and was
\* consumed before its expiry, even when the approval was written late, after
\* waiting for the row lock across the expiry (prepare_execution, decide).
ConsumedInTime ==
    \A e \in ExecIds :
        grants[e].status = "CONSUMED" =>
            /\ grants[e].decision = "approve"
            /\ grants[e].consumedAt < grants[e].expires

\* An approver who is told that the decision was recorded reads a row that still
\* carries that decision under that name: of two approvers racing on one row the
\* second is never told ok, and no later step overwrites the first (decide).
RulingHonoured ==
    \A d \in Approvers :
        ruling[d].pc \in {"committed", "ok"} =>
            /\ grants[ruling[d].id].decidedBy = d
            /\ grants[ruling[d].id].decision = ruling[d].decision

\* Where the host clock is not behind the database clock, an approver whose UPDATE
\* changed nothing learns why; the RuntimeError branch of decide is dead code.
RefusalExplained ==
    HostSkew >= 0 => \A d \in Approvers : ruling[d].pc # "inconclusive"

\* A row goes from PENDING to REJECTED or to APPROVED to CONSUMED and nowhere
\* else; its action and its expiry never change, and nobody deletes it, so that a
\* retry after any outcome meets the same row (prepare_execution, decide).
Forward(g, h) ==
    \/ g.status = "ABSENT"
    \/ /\ h.intent = g.intent /\ h.expires = g.expires
       /\ \/ h = g
          \/ g.status = "PENDING" /\ h.status \in {"APPROVED", "REJECTED"}
          \/ /\ g.status = "APPROVED" /\ h.status = "CONSUMED"
             /\ h.decision = g.decision /\ h.decidedBy = g.decidedBy

GrantsMoveForward == [][\A e \in ExecIds : Forward(grants[e], grants'[e])]_vars

\* The rows SELECT ... FOR UPDATE selects for a transaction: its own insert, or the
\* committed row of its action.
RowOf(c, e) ==
    \/ ~Stored(e) /\ locks[e] = c
    \/ Stored(e) /\ grants[e].intent = call[c].intent

\* After its INSERT ... DO NOTHING a transaction has exactly one row to lock, its own or
\* the one that was in its way, whoever commits, rolls back or decides in between: the
\* .one() of prepare_execution never raises, neither for no row nor for two.
OneRowToLock ==
    \A c \in Callers :
        call[c].pc = "inserted" =>
            \E e \in ExecIds : /\ RowOf(c, e)
                               /\ \A f \in ExecIds : RowOf(c, f) => f = e

CallWaits(c) ==
    \/ /\ call[c].pc = "began"
       /\ ~ActionTaken(call[c].intent) /\ InsertInFlight(call[c].intent)
    \/ /\ call[c].pc = "inserted"
       /\ \E e \in ExecIds : RowOf(c, e) /\ locks[e] \notin {c, None}

RulingWaits(d) == ruling[d].pc = "matched" /\ locks[ruling[d].id] # None

\* Who waits, for an index entry or for a row, holds nothing another could wait for: the
\* transactions of prepare_execution and decide never wait for each other in a circle.
WaitersHoldNothing ==
    \A e \in ExecIds : /\ \A c \in Callers : CallWaits(c) => locks[e] # c
                       /\ \A d \in Approvers : RulingWaits(d) => locks[e] # d

\* No prepare transaction waits for ever: every lock it needs is given back by the
\* commit or rollback of its holder, without any deadline having to fire.
TransactionsEnd ==
    \A c \in Callers : call[c].pc \in InTransaction ~> call[c].pc \notin InTransaction

=============================================================================
