-------------------------- MODULE RegistrationProofs --------------------------
(***************************************************************************)
(* Proofs about Registration for any number of creations, threads and      *)
(* restarts.                                                               *)
(***************************************************************************)
EXTENDS Registration, TLAPS

(* No thread is given to two creations. *)
BornApart == \A j, k \in Keys : born[k] # None /\ born[j] = born[k] => j = k

(* The requests and the worker of a creation can be under way only while it is at a
   certain place, and what they did shows. *)
RequestsFit(k) ==
    /\ start[k] = "sent" => born[k] = None /\ op[k] \in {"starting", "failed"}
    /\ start[k] = "done" => born[k] # None
    /\ writer[k] # "none" => /\ born[k] # None
                             /\ op[k] \in {"inserting", "archiving", "created", "failed"}
    /\ writer[k] = "stored" => row[k] = born[k]
    /\ archive[k] # "none" => born[k] # None /\ op[k] \in {"archiving", "failed"}

(* Where a creation is tells what the two stores can hold of it. *)
StoresFit(k) ==
    /\ row[k] \in {None, born[k]}
    /\ op[k] = "new" => start[k] = "none" /\ born[k] = None
    /\ op[k] = "created" => born[k] # None /\ row[k] = born[k]
    /\ op[k] = "failed" => ~accepting

(* A thread that was given out exists, and is archived only for a creation that ended
   badly. *)
ThreadFits(k) ==
    born[k] # None =>
        /\ thread[born[k]] # "none"
        /\ thread[born[k]] = "archived" => op[k] \in {"archiving", "failed", "lost"}

(* Inductive. *)
RegInv == /\ TypeOK /\ BornApart
          /\ \A k \in Keys : RequestsFit(k) /\ StoresFit(k) /\ ThreadFits(k)

-----------------------------------------------------------------------------
(* RegInv says all that the invariants of the run say. *)
LEMMA RegInvImplies == RegInv => HandedOutIsUsable /\ AcceptingMeansSettled
<1> SUFFICES ASSUME RegInv PROVE HandedOutIsUsable /\ AcceptingMeansSettled
  OBVIOUS
<1>1. HandedOutIsUsable
  <2> SUFFICES ASSUME NEW k \in Keys, op[k] = "created"
               PROVE  /\ row[k] # None /\ thread[row[k]] = "live"
                      /\ \A j \in Keys : row[j] = row[k] => j = k
    BY DEF HandedOutIsUsable
  <2>1. born[k] # None /\ row[k] = born[k] /\ born[k] \in Threads
    BY DEF RegInv, StoresFit, TypeOK
  <2>2. thread[row[k]] = "live"
    BY <2>1 DEF RegInv, ThreadFits, TypeOK
  <2>3. \A j \in Keys : row[j] = row[k] => j = k
    BY <2>1 DEF RegInv, StoresFit, BornApart
  <2> QED
    BY <2>1, <2>2, <2>3
<1>2. AcceptingMeansSettled
  BY DEF AcceptingMeansSettled, RegInv, StoresFit, TypeOK, Ops, Running
<1> QED
  BY <1>1, <1>2

(* A creation of which nothing changes, its thread included, fits as before. *)
LEMMA Untouched ==
    ASSUME RegInv, NEW k \in Keys,
           op'[k] = op[k], start'[k] = start[k], writer'[k] = writer[k],
           archive'[k] = archive[k], born'[k] = born[k], row'[k] = row[k],
           born[k] # None => thread'[born[k]] = thread[born[k]],
           accepting' \in {accepting, FALSE}
    PROVE  RequestsFit(k)' /\ StoresFit(k)' /\ ThreadFits(k)'
<1>1. ~accepting => ~accepting'
  OBVIOUS
<1> QED
  BY <1>1 DEF RegInv, RequestsFit, StoresFit, ThreadFits

(* A step of one creation that leaves the threads alone. *)
LEMMA OwnStep ==
    ASSUME RegInv, NEW k \in Keys,
           Create(k) \/ Started(k) \/ (\E acked \in BOOLEAN : WriterCommits(k, acked))
               \/ WriterFails(k) \/ Created(k) \/ Compensate(k) \/ Archived(k) \/ GivesUp(k)
    PROVE  RegInv'
<1> USE DEF RegInv
<1>1. UNCHANGED <<born, thread, restarts>> /\ accepting' \in {accepting, FALSE}
  BY DEF Create, Started, WriterCommits, WriterFails, Created, Compensate, Archived, GivesUp
<1>2. TypeOK'
  <2>1. CASE \E acked \in BOOLEAN : WriterCommits(k, acked)
    BY <2>1 DEF WriterCommits, TypeOK
  <2>2. CASE Create(k) \/ Started(k) \/ WriterFails(k) \/ Created(k)
    BY <2>2 DEF Create, Started, WriterFails, Created, TypeOK, Ops
  <2>3. CASE Compensate(k)
    BY <2>3 DEF Compensate, TypeOK, Ops
  <2>4. CASE Archived(k)
    BY <2>4 DEF Archived, TypeOK, Ops
  <2>5. CASE GivesUp(k)
    BY <2>5 DEF GivesUp, TypeOK, Ops
  <2> QED
    BY <2>1, <2>2, <2>3, <2>4, <2>5
<1>3. BornApart'
  BY <1>1 DEF BornApart
<1>4. ASSUME NEW j \in Keys, j # k
      PROVE  RequestsFit(j)' /\ StoresFit(j)' /\ ThreadFits(j)'
  <2>1. /\ op'[j] = op[j] /\ start'[j] = start[j] /\ writer'[j] = writer[j]
        /\ archive'[j] = archive[j] /\ row'[j] = row[j]
    BY <1>4 DEF Create, Started, WriterCommits, WriterFails, Created, Compensate, Archived,
                GivesUp, TypeOK
  <2> QED
    BY <1>1, <2>1, Untouched
<1>5. RequestsFit(k)' /\ StoresFit(k)' /\ ThreadFits(k)'
  <2>1. CASE Create(k)
    BY <2>1 DEF Create, RequestsFit, StoresFit, ThreadFits, TypeOK
  <2>2. CASE Started(k)
    BY <2>2 DEF Started, RequestsFit, StoresFit, ThreadFits, TypeOK
  <2>3. CASE \E acked \in BOOLEAN : WriterCommits(k, acked)
    BY <2>3 DEF WriterCommits, RequestsFit, StoresFit, ThreadFits, TypeOK
  <2>4. CASE WriterFails(k)
    BY <2>4 DEF WriterFails, RequestsFit, StoresFit, ThreadFits, TypeOK
  <2>5. CASE Created(k)
    BY <2>5 DEF Created, RequestsFit, StoresFit, ThreadFits, TypeOK
  <2>6. CASE Compensate(k)
    BY <2>6 DEF Compensate, RequestsFit, StoresFit, ThreadFits, TypeOK
  <2>7. CASE Archived(k)
    BY <2>7 DEF Archived, RequestsFit, StoresFit, ThreadFits, TypeOK
  <2>8. CASE GivesUp(k)
    BY <2>8 DEF GivesUp, RequestsFit, StoresFit, ThreadFits, TypeOK, Running
  <2> QED
    BY <2>1, <2>2, <2>3, <2>4, <2>5, <2>6, <2>7, <2>8
<1> QED
  BY <1>2, <1>3, <1>4, <1>5

(* The runtime starts a thread nobody has. *)
LEMMA StartStep ==
    ASSUME RegInv, NEW k \in Keys, NEW t \in Threads, RuntimeStarts(k, t)
    PROVE  RegInv'
<1> USE DEF RegInv
<1>1. TypeOK'
  BY DEF RuntimeStarts, TypeOK
<1>2. /\ thread[t] = "none" /\ born[k] = None /\ t # None
      /\ \A j \in Keys : born'[j] = IF j = k THEN t ELSE born[j]
      /\ \A j \in Keys : start'[j] = IF j = k THEN "done" ELSE start[j]
      /\ \A u \in Threads : thread'[u] = IF u = t THEN "live" ELSE thread[u]
  BY RegistrationAssumption DEF RuntimeStarts, RequestsFit, TypeOK
<1>3. \A j \in Keys : born[j] # t
  BY <1>2 DEF ThreadFits, TypeOK
<1>4. BornApart'
  BY <1>2, <1>3 DEF BornApart
<1>5. ASSUME NEW j \in Keys, j # k
      PROVE  RequestsFit(j)' /\ StoresFit(j)' /\ ThreadFits(j)'
  <2>1. born[j] # None => thread'[born[j]] = thread[born[j]]
    BY <1>2, <1>3 DEF TypeOK
  <2> QED
    BY <1>2, <1>5, <2>1, Untouched DEF RuntimeStarts
<1>6. RequestsFit(k)' /\ StoresFit(k)' /\ ThreadFits(k)'
  BY <1>2 DEF RuntimeStarts, RequestsFit, StoresFit, ThreadFits, TypeOK
<1> QED
  BY <1>1, <1>4, <1>5, <1>6

(* The runtime archives the thread of a creation that ended badly. *)
LEMMA ArchiveStep ==
    ASSUME RegInv, NEW k \in Keys, RuntimeArchives(k)
    PROVE  RegInv'
<1> USE DEF RegInv
<1>1. TypeOK' /\ BornApart'
  BY DEF RuntimeArchives, TypeOK, BornApart
<1>2. /\ born[k] # None /\ born[k] \in Threads /\ op[k] \in {"archiving", "failed"}
      /\ \A u \in Threads : thread'[u] = IF u = born[k] THEN "archived" ELSE thread[u]
      /\ \A j \in Keys : archive'[j] = IF j = k THEN "done" ELSE archive[j]
  BY DEF RuntimeArchives, RequestsFit, TypeOK
<1>3. ASSUME NEW j \in Keys, j # k
      PROVE  RequestsFit(j)' /\ StoresFit(j)' /\ ThreadFits(j)'
  <2>1. born[j] # None => thread'[born[j]] = thread[born[j]]
    BY <1>2, <1>3 DEF TypeOK, BornApart
  <2> QED
    BY <1>2, <1>3, <2>1, Untouched DEF RuntimeArchives
<1>4. RequestsFit(k)' /\ StoresFit(k)' /\ ThreadFits(k)'
  BY <1>2 DEF RuntimeArchives, RequestsFit, StoresFit, ThreadFits, TypeOK
<1> QED
  BY <1>1, <1>3, <1>4

(* A restart forgets requests and workers, and what was in hand is lost. *)
LEMMA RestartStep == ASSUME RegInv, Restart PROVE RegInv'
<1> USE DEF RegInv
<1>1. /\ \A k \in Keys : op'[k] = IF op[k] \in Running \cup {"failed"} THEN "lost" ELSE op[k]
      /\ \A k \in Keys : start'[k] = "none" /\ writer'[k] = "none" /\ archive'[k] = "none"
      /\ UNCHANGED <<born, thread, row>>
  BY DEF Restart
<1>2. TypeOK'
  <2>1. op' \in [Keys -> Ops]
    BY DEF Restart, TypeOK, Ops, Running
  <2> QED
    BY <2>1, RegistrationAssumption DEF Restart, TypeOK
<1>3. BornApart'
  BY <1>1 DEF BornApart
<1>4. ASSUME NEW k \in Keys PROVE RequestsFit(k)' /\ StoresFit(k)' /\ ThreadFits(k)'
  BY <1>1 DEF RequestsFit, StoresFit, ThreadFits, Running
<1> QED
  BY <1>2, <1>3, <1>4

(* Every step keeps RegInv. *)
LEMMA RegNextKeeps == RegInv /\ [Next]_vars => RegInv'
<1>1. ASSUME RegInv, UNCHANGED vars PROVE RegInv'
  BY <1>1 DEF RegInv, vars, TypeOK, BornApart, RequestsFit, StoresFit, ThreadFits
<1> QED
  BY <1>1, OwnStep, StartStep, ArchiveStep, RestartStep DEF Next, Step

(* Requests, workers and both stores stay in step in every reachable state. *)
THEOREM RegistrationInvariant == Spec => []RegInv
<1>1. Init => RegInv
  BY RegistrationAssumption
     DEF Init, RegInv, TypeOK, BornApart, RequestsFit, StoresFit, ThreadFits, Ops
<1> QED
  BY <1>1, RegNextKeeps, PTL DEF Spec

(* A conversation id a client was given keeps its row and its own live thread, through
   late answers, late archives and restarts (_create_conversation). *)
THEOREM GivenIdsWork == Spec => []HandedOutIsUsable
BY RegistrationInvariant, RegInvImplies, PTL

(* While admission is open, no creation that ended has left one store without the other
   (execute, _create_conversation). *)
THEOREM OpenMeansSettled == Spec => []AcceptingMeansSettled
BY RegistrationInvariant, RegInvImplies, PTL

(* A stored row is never written again, and a creation that succeeded is settled, whatever
   late workers and restarts do (ConversationRepository.create). *)
THEOREM StoredRowsStay == Spec => StoredForGood
<1> DEFINE Stays(k) == /\ row[k] # None => row'[k] = row[k]
                       /\ op[k] = "created" => op'[k] = "created"
<1>1. ASSUME RegInv, [Next]_vars, NEW k \in Keys PROVE Stays(k)
  <2>1. CASE Restart
    BY <2>1 DEF Restart, Running
  <2>2. ASSUME NEW j \in Keys, Step(j) PROVE Stays(k)
    <3>1. CASE \E acked \in BOOLEAN : WriterCommits(j, acked)
      BY <1>1, <3>1 DEF WriterCommits, RegInv, RequestsFit, StoresFit, TypeOK
    <3>2. CASE ~(\E acked \in BOOLEAN : WriterCommits(j, acked))
      <4>1. UNCHANGED row
        BY <2>2, <3>2 DEF Step, Create, RuntimeStarts, Started, WriterFails, Created,
             Compensate, RuntimeArchives, Archived, GivesUp
      <4>2. op[k] = "created" => op'[k] = "created"
        BY <1>1, <2>2, <3>2 DEF Step, Create, RuntimeStarts, Started, WriterFails, Created,
             Compensate, RuntimeArchives, Archived, GivesUp, Running, RegInv, TypeOK
      <4> QED
        BY <4>1, <4>2
    <3> QED
      BY <3>1, <3>2
  <2>3. CASE UNCHANGED vars
    BY <2>3 DEF vars
  <2> QED
    BY <1>1, <2>1, <2>2, <2>3 DEF Next
<1>2. RegInv /\ [Next]_vars =>
        [\A k \in Keys : /\ row[k] # None => row'[k] = row[k]
                         /\ op[k] = "created" => op'[k] = "created"]_vars
  BY <1>1
<1> QED
  BY <1>2, RegistrationInvariant, PTL DEF Spec, StoredForGood

=============================================================================
