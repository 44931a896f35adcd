---------------------------- MODULE AdmissionProofs ----------------------------
(***************************************************************************)
(* Proofs about Admission for any conversations, any finite set of tasks   *)
(* and any limit: the safety properties, and the lease it implements.      *)
(***************************************************************************)
EXTENDS Admission, FiniteSetTheorems, TLAPS

(* The table shows the tasks that have not ended, and each where it belongs. *)
EntriesAreTasks ==
    /\ \A k \in Keys : table[k] # None =>
           task[table[k]].pc # "idle" /\ task[table[k]].key = k
    /\ \A t \in Tasks : task[t].pc # "idle" =>
           task[t].key \in Keys /\ table[task[t].key] = t

(* A task that ended is spent, unless it left work behind; then admission is closed. *)
LeftoversClose ==
    \A t \in Tasks : task[t].pc = "idle" =>
        IF Live(t) THEN task[t].key \in Keys /\ ~accepting ELSE task[t] = IdleTask

(* No two tasks, ended or not, are on one conversation. *)
KeysApart ==
    \A t, u \in Tasks : task[t].key \in Keys /\ task[u].key = task[t].key => t = u

(* How far the shutdown has come tells what tasks can still be there. *)
ShutdownOrder ==
    /\ phase # "serving" => ~accepting
    /\ phase = "draining" => \A t \in Tasks : task[t].pc # "idle" => t \in pending
    /\ phase \in {"closing", "cancelling", "gathering", "stopped"} =>
           \A t \in Tasks : task[t].pc # "created"
    /\ phase = "stopped" => \A t \in Tasks : task[t].pc = "idle"
    /\ runtime = "closed" => \A t \in Tasks : ~Live(t)

(* Inductive. *)
AdmInv == TypeOK /\ EntriesAreTasks /\ LeftoversClose /\ KeysApart /\ ShutdownOrder

-----------------------------------------------------------------------------
(* AdmInv says all that the invariants of the runs say. *)
LEMMA AdmInvImplies ==
    AdmInv => OneLivePerConversation /\ AcceptingMeansAccountedFor /\ StoppedIsQuiet
<1> SUFFICES ASSUME AdmInv
             PROVE  OneLivePerConversation /\ AcceptingMeansAccountedFor /\ StoppedIsQuiet
  OBVIOUS
<1> USE DEF AdmInv
<1>1. \A t \in Tasks : Live(t) => task[t].key \in Keys
  BY DEF EntriesAreTasks, LeftoversClose
<1>2. OneLivePerConversation
  BY <1>1 DEF OneLivePerConversation, KeysApart
<1>3. AcceptingMeansAccountedFor
  BY DEF AcceptingMeansAccountedFor, EntriesAreTasks, LeftoversClose
<1>4. StoppedIsQuiet
  BY DEF StoppedIsQuiet, EntriesAreTasks, ShutdownOrder, Active, TypeOK
<1> QED
  BY <1>2, <1>3, <1>4

(* The finally block of execute, when nothing is left behind or admission closes. *)
LEMMA FinishKeeps ==
    ASSUME AdmInv, NEW t \in Tasks, task[t].pc # "idle",
           NEW answer \in Clients, Finish(t, answer),
           accepting' \in {accepting, FALSE}, Live(t) => ~accepting',
           UNCHANGED <<runtime, phase, pending>>
    PROVE  AdmInv'
<1> USE DEF AdmInv
<1> DEFINE k == task[t].key
           left == IF Live(t) THEN [task[t] EXCEPT !.pc = "idle"] ELSE IdleTask
<1>1. k \in Keys /\ table[k] = t /\ task[t] \in Task
  BY DEF EntriesAreTasks, TypeOK
<1>2. left \in Task /\ left.pc = "idle" /\ (Live(t) => left.key = k)
      /\ (~Live(t) => left = IdleTask)
  BY <1>1 DEF Task, TaskPcs, IdleTask
<1>3. task' = [task EXCEPT ![t] = left] /\ table' = [table EXCEPT ![k] = None]
  BY DEF Finish
<1> HIDE DEF left
<1>4. \A u \in Tasks : task'[u] = IF u = t THEN left ELSE task[u]
  BY <1>3 DEF TypeOK
<1>5. \A j \in Keys : table'[j] = IF j = k THEN None ELSE table[j]
  BY <1>3 DEF TypeOK
<1>6. \A u \in Tasks : remote'[u] = IF u = t THEN (IF Live(t) THEN "live" ELSE "none")
                                    ELSE remote[u]
  BY DEF Finish, TypeOK
<1>7. TypeOK'
  <2>1. task' \in [Tasks -> Task] /\ table' \in [Keys -> Tasks \cup {None}]
    BY <1>2, <1>3 DEF TypeOK
  <2>2. remote' \in [Tasks -> Remotes] /\ client' \in [Tasks -> Clients]
    BY DEF Finish, TypeOK, Remotes, Clients
  <2> QED
    BY <2>1, <2>2 DEF TypeOK
<1>8. EntriesAreTasks'
  <2>1. \A j \in Keys : table'[j] # None => task'[table'[j]].pc # "idle"
                                            /\ task'[table'[j]].key = j
    <3> TAKE j \in Keys
    <3> HAVE table'[j] # None
    <3>1. j # k /\ table'[j] = table[j] /\ table[j] \in Tasks
      BY <1>5 DEF TypeOK
    <3>2. table[j] # t
      BY <3>1 DEF EntriesAreTasks, TypeOK
    <3> QED
      BY <1>4, <3>1, <3>2 DEF EntriesAreTasks
  <2>2. \A u \in Tasks : task'[u].pc # "idle" => task'[u].key \in Keys
                                                 /\ table'[task'[u].key] = u
    <3> TAKE u \in Tasks
    <3> HAVE task'[u].pc # "idle"
    <3>1. u # t /\ task'[u] = task[u]
      BY <1>2, <1>4
    <3>2. task[u].key \in Keys /\ table[task[u].key] = u
      BY <3>1 DEF EntriesAreTasks
    <3>3. task[u].key # k
      BY <1>1, <3>1, <3>2
    <3> QED
      BY <1>5, <3>1, <3>2, <3>3
  <2> QED
    BY <2>1, <2>2 DEF EntriesAreTasks
<1>9. LeftoversClose'
  <2>1. ASSUME NEW u \in Tasks, u # t
        PROVE  task'[u] = task[u] /\ Live(u)' = Live(u)
    BY <1>4, <1>6, <2>1 DEF Live
  <2>2. task'[t] = left /\ (Live(t)' <=> Live(t))
    BY <1>4, <1>6 DEF Live
  <2>3. ~accepting => ~accepting'
    OBVIOUS
  <2> SUFFICES ASSUME NEW u \in Tasks, task'[u].pc = "idle"
               PROVE  IF Live(u)' THEN task'[u].key \in Keys /\ ~accepting'
                                  ELSE task'[u] = IdleTask
    BY DEF LeftoversClose
  <2>4. CASE u = t
    BY <1>1, <1>2, <2>2, <2>4
  <2>5. CASE u # t
    BY <2>1, <2>3, <2>5 DEF LeftoversClose
  <2> QED
    BY <2>4, <2>5
<1>10. KeysApart'
  <2>1. \A u \in Tasks : task'[u].key \in Keys => task'[u].key = task[u].key
    BY <1>2, <1>4, AdmissionAssumption DEF IdleTask
  <2> QED
    BY <2>1 DEF KeysApart
<1>11. ShutdownOrder'
  <2>1. \A u \in Tasks : task'[u].pc \in {task[u].pc, "idle"}
    BY <1>2, <1>4
  <2>2. \A u \in Tasks : Live(u)' => Live(u)
    BY <1>6 DEF Live
  <2>3. ~accepting => ~accepting'
    OBVIOUS
  <2> QED
    BY <2>1, <2>2, <2>3 DEF ShutdownOrder
<1> QED
  BY <1>7, <1>8, <1>9, <1>10, <1>11

(* A reservation of a free conversation. *)
LEMMA SubmitKeeps ==
    ASSUME AdmInv, NEW t \in Tasks, NEW k \in Keys, Submit(t, k)
    PROVE  AdmInv'
<1> USE DEF AdmInv
<1> DEFINE new == [pc |-> "created", key |-> k]
<1>1. accepting /\ table[k] = None /\ task[t] = IdleTask /\ phase = "serving"
  BY DEF Submit, ShutdownOrder
<1>2. \A u \in Tasks : task'[u] = IF u = t THEN new ELSE task[u]
  BY DEF Submit, TypeOK
<1>3. \A j \in Keys : table'[j] = IF j = k THEN t ELSE table[j]
  BY DEF Submit, TypeOK
<1>4. \A u \in Tasks : task[u].key # k
  BY <1>1, AdmissionAssumption DEF EntriesAreTasks, LeftoversClose, TypeOK, IdleTask
<1>5. TypeOK'
  BY DEF Submit, TypeOK, Task, TaskPcs, Clients
<1>6. EntriesAreTasks'
  <2>1. \A j \in Keys : table[j] # t
    BY <1>1, AdmissionAssumption DEF EntriesAreTasks, IdleTask
  <2> QED
    BY <1>1, <1>2, <1>3, <1>4, <2>1, AdmissionAssumption DEF EntriesAreTasks, TypeOK
<1>7. LeftoversClose'
  BY <1>2 DEF LeftoversClose, Live, Submit
<1>8. KeysApart'
  BY <1>2, <1>4 DEF KeysApart
<1>9. ShutdownOrder'
  BY <1>1 DEF ShutdownOrder, Submit, Live
<1> QED
  BY <1>5, <1>6, <1>7, <1>8, <1>9

(* Steps that move a task on and leave the table alone. *)
LEMMA TaskKeeps ==
    ASSUME AdmInv, NEW t \in Tasks, Start(t) \/ RemoteBegin(t) \/ RemoteEnd(t)
    PROVE  AdmInv'
<1> USE DEF AdmInv
<1>1. CASE Start(t)
  <2>1. \A u \in Tasks : /\ task'[u].key = task[u].key
                         /\ task'[u].pc = IF u = t THEN "running" ELSE task[u].pc
                         /\ u # t => task'[u] = task[u]
    BY <1>1 DEF Start, TypeOK, Task
  <2>2. TypeOK'
    BY <1>1 DEF Start, TypeOK, Task, TaskPcs
  <2>3. task[t].pc = "created"
    BY <1>1 DEF Start
  <2>4. EntriesAreTasks' /\ KeysApart' /\ LeftoversClose'
    BY <1>1, <2>1, <2>3 DEF EntriesAreTasks, KeysApart, LeftoversClose, Start, Live, TypeOK
  <2>5. ShutdownOrder'
    BY <1>1, <2>1, <2>3 DEF ShutdownOrder, Start, Live
  <2> QED
    BY <2>2, <2>4, <2>5
<1>2. CASE RemoteBegin(t)
  <2>1. TypeOK' /\ EntriesAreTasks' /\ KeysApart'
    BY <1>2 DEF RemoteBegin, TypeOK, Remotes, EntriesAreTasks, KeysApart
  <2>2. LeftoversClose'
    BY <1>2 DEF RemoteBegin, TypeOK, LeftoversClose, Live
  <2>3. ShutdownOrder'
    BY <1>2 DEF RemoteBegin, TypeOK, ShutdownOrder, Live
  <2> QED
    BY <2>1, <2>2, <2>3
<1>3. CASE RemoteEnd(t)
  <2>1. \A u \in Tasks : task'[u] = task[u] \/ (u = t /\ task[t].pc = "idle" /\ task'[u] = IdleTask)
    BY <1>3 DEF RemoteEnd, TypeOK
  <2>2. \A u \in Tasks : u # t => remote'[u] = remote[u]
    BY <1>3 DEF RemoteEnd, TypeOK
  <2>3. remote'[t] # "live" /\ (task[t].pc = "idle" => task'[t] = IdleTask)
    BY <1>3 DEF RemoteEnd, TypeOK
  <2>4. TypeOK'
    BY <1>3 DEF RemoteEnd, TypeOK, Remotes, Task, TaskPcs, IdleTask
  <2>5. EntriesAreTasks'
    BY <1>3, <2>1 DEF EntriesAreTasks, RemoteEnd, TypeOK, IdleTask
  <2>6. KeysApart'
    BY <2>1, AdmissionAssumption DEF KeysApart, IdleTask
  <2>7. LeftoversClose'
    BY <1>3, <2>1, <2>2, <2>3 DEF LeftoversClose, Live, RemoteEnd
  <2>8. ShutdownOrder'
    BY <1>3, <2>1, <2>2, <2>3 DEF ShutdownOrder, Live, RemoteEnd, IdleTask
  <2> QED
    BY <2>4, <2>5, <2>6, <2>7, <2>8
<1> QED
  BY <1>1, <1>2, <1>3

(* The shutdown sequence. *)
LEMMA ShutdownKeeps ==
    ASSUME AdmInv, StartDrain \/ Shutdown
    PROVE  AdmInv'
<1> USE DEF AdmInv
<1>1. CASE StartDrain
  <2>1. \A t \in Tasks : task[t].pc # "idle" => t \in pending' /\ Active # {}
    BY <1>1, AdmissionAssumption DEF StartDrain, Active, EntriesAreTasks
  <2>2. TypeOK'
    BY <1>1 DEF StartDrain, TypeOK, Active, Phases
  <2>3. ShutdownOrder'
    BY <1>1, <2>1 DEF StartDrain, ShutdownOrder, Live
  <2>4. EntriesAreTasks' /\ LeftoversClose' /\ KeysApart'
    BY <1>1 DEF StartDrain, EntriesAreTasks, LeftoversClose, KeysApart, Live
  <2> QED
    BY <2>2, <2>3, <2>4
<1>2. CASE DrainDone \/ DrainTimeout \/ CloseFails \/ Gathered
  <2>1. TypeOK'
    BY <1>2 DEF DrainDone, DrainTimeout, CloseFails, Gathered, TypeOK, Phases
  <2>2. EntriesAreTasks' /\ LeftoversClose' /\ KeysApart'
    BY <1>2 DEF DrainDone, DrainTimeout, CloseFails, Gathered, EntriesAreTasks,
                LeftoversClose, KeysApart, Live
  <2>3. ShutdownOrder'
    BY <1>2 DEF DrainDone, DrainTimeout, CloseFails, Gathered, ShutdownOrder, Live, TypeOK
  <2> QED
    BY <2>1, <2>2, <2>3
<1>3. CASE CloseRuntime
  <2>1. \A t \in Tasks : /\ task'[t] = IF task[t].pc = "idle" THEN IdleTask ELSE task[t]
                         /\ remote'[t] # "live"
    BY <1>3 DEF CloseRuntime, TypeOK, Live
  <2>2. TypeOK'
    BY <1>3 DEF CloseRuntime, TypeOK, Phases, Remotes, Task, TaskPcs, IdleTask
  <2>3. EntriesAreTasks'
    BY <1>3, <2>1 DEF EntriesAreTasks, CloseRuntime, TypeOK, IdleTask
  <2>4. LeftoversClose' /\ KeysApart'
    BY <2>1, AdmissionAssumption DEF LeftoversClose, KeysApart, Live, IdleTask
  <2>5. ShutdownOrder'
    BY <1>3, <2>1 DEF ShutdownOrder, CloseRuntime, Live, IdleTask
  <2> QED
    BY <2>2, <2>3, <2>4, <2>5
<1>4. CASE CancelAll
  <2>1. \A t \in Tasks : task[t].pc # "created" /\ task[t] \in Task
    BY <1>4 DEF CancelAll, ShutdownOrder, TypeOK
  <2>2. \A t \in Tasks : /\ task'[t].key = task[t].key
                         /\ task'[t].pc \in {task[t].pc, "cancelling"}
                         /\ task'[t].pc # task[t].pc => task[t].pc = "running"
                         /\ task[t].pc # "running" => task'[t] = task[t]
                         /\ task'[t] \in Task
    <3> TAKE t \in Tasks
    <3>1. task'[t] \in {task[t], [task[t] EXCEPT !.pc = "cancelling"]}
          /\ (task[t].pc # "running" => task'[t] = task[t])
      BY <1>4, <2>1 DEF CancelAll
    <3> QED
      BY <2>1, <3>1 DEF Task, TaskPcs
  <2>3. task' \in [Tasks -> Task]
    <3>1. task' = [t \in Tasks |-> task'[t]]
      BY <1>4 DEF CancelAll
    <3> QED
      BY <2>2, <3>1
  <2>4. TypeOK'
    BY <1>4, <2>3 DEF CancelAll, TypeOK, Phases
  <2>5. \A t \in Tasks : task'[t].pc = "idle" <=> task[t].pc = "idle"
    BY <2>2
  <2>6. EntriesAreTasks'
    <3>1. table' = table /\ \A k \in Keys : table[k] # None => table[k] \in Tasks
      BY <1>4 DEF CancelAll, TypeOK
    <3> QED
      BY <2>2, <2>5, <3>1 DEF EntriesAreTasks
  <2>7. KeysApart'
    BY <2>2 DEF KeysApart
  <2>8. LeftoversClose'
    BY <1>4, <2>2, <2>5 DEF LeftoversClose, CancelAll, Live
  <2>9. ShutdownOrder'
    BY <1>4, <2>1, <2>2 DEF ShutdownOrder, CancelAll, Live
  <2> QED
    BY <2>4, <2>6, <2>7, <2>8, <2>9
<1> QED
  BY <1>1, <1>2, <1>3, <1>4 DEF Shutdown

(* Every step keeps AdmInv. *)
LEMMA AdmNextKeeps == AdmInv /\ [Next]_vars => AdmInv'
<1> SUFFICES ASSUME AdmInv, [Next]_vars PROVE AdmInv'
  OBVIOUS
<1>1. ASSUME NEW t \in Tasks, Disconnect(t) \/ Respond(t) PROVE AdmInv'
  <2>1. TypeOK'
    BY <1>1 DEF AdmInv, Disconnect, Respond, TypeOK, Clients
  <2> QED
    BY <1>1, <2>1 DEF AdmInv, Disconnect, Respond, EntriesAreTasks, LeftoversClose, KeysApart,
                      ShutdownOrder, Live
<1>2. ASSUME NEW t \in Tasks,
             Succeed(t) \/ FailConfirmed(t) \/ FailUnknown(t) \/ Cancelled(t)
      PROVE  AdmInv'
  <2>1. task[t].pc # "idle" /\ (Live(t) => ~accepting') /\ accepting' \in {accepting, FALSE}
        /\ UNCHANGED <<runtime, phase, pending>>
    BY <1>2 DEF Succeed, FailConfirmed, FailUnknown, Cancelled, Live
  <2>2. \E answer \in Clients : Finish(t, answer)
    BY <1>2 DEF Succeed, FailConfirmed, FailUnknown, Cancelled, Clients
  <2> QED
    BY <2>1, <2>2, FinishKeeps
<1>3. CASE UNCHANGED vars
  BY <1>3 DEF AdmInv, vars, TypeOK, EntriesAreTasks, LeftoversClose, KeysApart, ShutdownOrder,
              Live
<1> QED
  BY <1>1, <1>2, <1>3, SubmitKeeps, TaskKeeps, ShutdownKeeps DEF Next, TaskStep

(* The table, the tasks, what the runtime does and the shutdown stay together. *)
THEOREM AdmissionInvariant == Spec => []AdmInv
<1>1. Init => AdmInv
  BY AdmissionAssumption DEF Init, AdmInv, TypeOK, EntriesAreTasks, LeftoversClose, KeysApart, ShutdownOrder,
         Live, Task, TaskPcs, IdleTask, Remotes, Clients, Phases
<1> QED
  BY <1>1, AdmNextKeeps, PTL DEF Spec

(* The runtime never works twice at once on a conversation, not even for tasks that were
   given up (AdmissionController.submit, execute). *)
THEOREM NeverTwiceAtOnce == Spec => []OneLivePerConversation
BY AdmissionInvariant, AdmInvImplies, PTL

(* While admission is open the table accounts for all the runtime does. *)
THEOREM OpenIsAccountedFor == Spec => []AcceptingMeansAccountedFor
BY AdmissionInvariant, AdmInvImplies, PTL

(* A shutdown leaves nothing behind, wherever it met the tasks (lifespan). *)
THEOREM ShutdownIsQuiet == Spec => []StoppedIsQuiet
BY AdmissionInvariant, AdmInvImplies, PTL

-----------------------------------------------------------------------------
(* The tasks that hold each conversation, and the conversations that are held. *)
Held == [k \in Keys |-> {t \in Tasks : task[t].key = k}]

Engaged == {k \in Keys : Held[k] # {}}

(* The lease counts as admission does. *)
LEMMA SameSize == ASSUME NEW S PROVE Lease!Cardinality(S) = Cardinality(S)
BY DEF Cardinality, Lease!Cardinality

(* The same for what is counted. *)
LEMMA SameEngaged == Lease!Engaged = Engaged
BY DEF Lease!Engaged, Engaged, Held

(* A submission engages a conversation nobody held, within the limit. *)
LEMMA SubmitEngages ==
    ASSUME AdmInv, NEW t \in Tasks, NEW k \in Keys, Submit(t, k)
    PROVE  Lease!Engage(k, t)
<1>1. accepting /\ table[k] = None /\ task[t] = IdleTask /\ Cardinality(Active) < Limit
  BY DEF Submit
<1>2. \A u \in Tasks : task[u] # IdleTask =>
          task[u].key \in Keys /\ table[task[u].key] = u
  BY <1>1 DEF AdmInv, EntriesAreTasks, LeftoversClose
<1>3. \A u \in Tasks : task[u].key \in Keys => task[u] # IdleTask
  BY AdmissionAssumption DEF IdleTask
<1>4. Engaged = Active
  <2>1. Engaged \subseteq Active
    BY <1>2, <1>3, AdmissionAssumption DEF Engaged, Held, Active
  <2>2. Active \subseteq Engaged
    BY DEF AdmInv, EntriesAreTasks, TypeOK, Engaged, Held, Active
  <2> QED
    BY <2>1, <2>2
<1>5. Held[k] = {}
  BY <1>1, <1>2, <1>3, AdmissionAssumption DEF Held
<1>6. Held' = [Held EXCEPT ![k] = {t}]
  <2>1. \A u \in Tasks : task'[u] = IF u = t THEN [pc |-> "created", key |-> k] ELSE task[u]
    BY DEF Submit, AdmInv, TypeOK
  <2>2. task[t].key \notin Keys
    BY <1>1, AdmissionAssumption DEF IdleTask
  <2>3. \A u \in Tasks : task'[u].key = IF u = t THEN k ELSE task[u].key
    BY <2>1
  <2>4. {u \in Tasks : task'[u].key = k} = {t}
    BY <1>5, <2>3 DEF Held
  <2>5. \A j \in Keys : j # k =>
            {u \in Tasks : task'[u].key = j} = {u \in Tasks : task[u].key = j}
    BY <2>2, <2>3
  <2> QED
    BY <2>4, <2>5 DEF Held
<1>7. Lease!Cardinality(Lease!Engaged) < Limit
  BY <1>1, <1>4, SameSize, SameEngaged
<1>8. accepting' = accepting
  BY DEF Submit
<1> QED
  BY <1>1, <1>5, <1>6, <1>7, <1>8 DEF Lease!Engage, Held

(* Every other step lets conversations go or leaves them, and never opens the door.  No
   conversation passes to another task, since it had one holder at most. *)
LEMMA OthersRelease ==
    ASSUME AdmInv,
           \A t \in Tasks : task'[t] = IdleTask \/ (task[t] # IdleTask /\ task'[t].key = task[t].key),
           accepting' \in {accepting, FALSE}
    PROVE  Lease!Next
<1> DEFINE K == {k \in Keys : Held'[k] = {}}
<1>1. \A t \in Tasks, k \in Keys : task'[t].key = k => task[t].key = k
  BY AdmissionAssumption DEF IdleTask
<1>2. ASSUME NEW k \in Keys PROVE Held'[k] = IF k \in K THEN {} ELSE Held[k]
  <2> SUFFICES ASSUME Held'[k] # {} PROVE Held'[k] = Held[k]
    OBVIOUS
  <2>1. Held[k] = {t \in Tasks : task[t].key = k} /\ Held'[k] = {t \in Tasks : task'[t].key = k}
    BY DEF Held
  <2>2. Held'[k] \subseteq Held[k]
    BY <1>1, <2>1
  <2>3. \A t, u \in Held[k] : t = u
    BY <2>1 DEF AdmInv, KeysApart
  <2> QED
    BY <2>2, <2>3
<1>3. Held' = [k \in Keys |-> IF k \in K THEN {} ELSE Held[k]]
  BY <1>2 DEF Held
<1>4. PICK L \in SUBSET Keys : Held' = [k \in Keys |-> IF k \in L THEN {} ELSE Held[k]]
  BY <1>3
<1>5. Lease!Release(L)
  BY <1>4 DEF Lease!Release, Held
<1> QED
  BY <1>4, <1>5 DEF Lease!Next

(* Admission with its tasks, clients and shutdown implements the bounded lease: each
   conversation has one operation on it, and no more than max_active have any. *)
THEOREM AdmissionImplementsLease == Spec => ImplementsLease
<1>1. Init => Lease!Init
  BY AdmissionAssumption DEF Init, Lease!Init, IdleTask
<1>2. AdmInv /\ [Next]_vars => [Lease!Next]_(Lease!vars)
  <2> SUFFICES ASSUME AdmInv, [Next]_vars PROVE [Lease!Next]_(Lease!vars)
    OBVIOUS
  <2>1. ASSUME NEW t \in Tasks, NEW k \in Keys, Submit(t, k) PROVE Lease!Next
    BY <2>1, SubmitEngages DEF Lease!Next
  <2> DEFINE Fewer == /\ \A t \in Tasks : task'[t] = IdleTask
                              \/ (task[t] # IdleTask /\ task'[t].key = task[t].key)
                      /\ accepting' \in {accepting, FALSE}
  <2>2. ASSUME NEW t \in Tasks, TaskStep(t) \/ RemoteEnd(t) \/ Disconnect(t) \/ Respond(t)
        PROVE  Fewer
    <3>1. CASE Start(t)
      BY <3>1 DEF Start, AdmInv, TypeOK, Task, IdleTask
    <3>2. CASE RemoteBegin(t) \/ Disconnect(t) \/ Respond(t)
      BY <3>2 DEF RemoteBegin, Disconnect, Respond
    <3>3. CASE RemoteEnd(t)
      BY <3>3 DEF RemoteEnd, AdmInv, TypeOK
    <3>4. CASE Succeed(t) \/ FailConfirmed(t) \/ FailUnknown(t) \/ Cancelled(t)
      <4>1. \E answer : Finish(t, answer)
        BY <3>4 DEF Succeed, FailConfirmed, FailUnknown, Cancelled
      <4>2. task[t] # IdleTask /\ task[t] \in Task
        BY <3>4 DEF Succeed, FailConfirmed, FailUnknown, Cancelled, IdleTask, AdmInv, TypeOK
      <4>3. \A u \in Tasks : task'[u] = IF u # t THEN task[u] ELSE
                IF Live(t) THEN [task[t] EXCEPT !.pc = "idle"] ELSE IdleTask
        BY <4>1 DEF Finish, AdmInv, TypeOK
      <4>4. [task[t] EXCEPT !.pc = "idle"].key = task[t].key
        BY <4>2 DEF Task
      <4>5. accepting' \in {accepting, FALSE}
        BY <3>4 DEF Succeed, FailConfirmed, FailUnknown, Cancelled
      <4> QED
        BY <4>2, <4>3, <4>4, <4>5
    <3> QED
      BY <2>2, <3>1, <3>2, <3>3, <3>4 DEF TaskStep
  <2>3. ASSUME StartDrain \/ Shutdown PROVE Fewer
    <3>1. CASE CancelAll
      <4>1. \A u \in Tasks : task'[u] \in {task[u], IdleTask}
                \/ (task[u].pc = "running" /\ task'[u] = [task[u] EXCEPT !.pc = "cancelling"])
        BY <3>1 DEF CancelAll
      <4>2. \A u \in Tasks : [task[u] EXCEPT !.pc = "cancelling"].key = task[u].key
        BY DEF AdmInv, TypeOK, Task
      <4> QED
        BY <3>1, <4>1, <4>2 DEF CancelAll, IdleTask
    <3>2. CASE StartDrain \/ DrainDone \/ DrainTimeout \/ CloseRuntime \/ CloseFails \/ Gathered
      BY <3>2 DEF StartDrain, DrainDone, DrainTimeout, CloseRuntime, CloseFails, Gathered
    <3> QED
      BY <2>3, <3>1, <3>2 DEF Shutdown
  <2>4. CASE UNCHANGED vars
    BY <2>4 DEF vars, Lease!vars
  <2> QED
    BY <2>1, <2>2, <2>3, <2>4, OthersRelease DEF Next
<1> QED
  BY <1>1, <1>2, AdmissionInvariant, PTL DEF Spec, ImplementsLease, Lease!Spec

-----------------------------------------------------------------------------
(* A lease step keeps the limit: only an engagement adds a conversation, and they have been
   counted before. *)
LEMMA LeaseKeepsLimit ==
    ASSUME Lease!LimitKept, [Lease!Next]_(Lease!vars)
    PROVE  Lease!LimitKept'
<1>1. IsFiniteSet(Engaged) /\ Cardinality(Engaged) <= Limit
  BY SameSize, SameEngaged DEF Lease!LimitKept, IsFiniteSet, Lease!IsFiniteSet
<1>2. Cardinality(Engaged) \in Nat /\ Limit \in Nat
  BY <1>1, FS_CardinalityType, AdmissionAssumption
<1>3. IsFiniteSet(Engaged') /\ Cardinality(Engaged') <= Limit
  <2>1. ASSUME NEW k \in Keys, NEW t \in Tasks, Lease!Engage(k, t)
        PROVE  IsFiniteSet(Engaged') /\ Cardinality(Engaged') <= Limit
    <3>1. Held' = [Held EXCEPT ![k] = {t}] /\ Lease!Cardinality(Lease!Engaged) < Limit
      BY <2>1 DEF Lease!Engage, Held
    <3>2. Engaged' = Engaged \cup {k}
      <4>1. \A j \in Keys : Held'[j] = IF j = k THEN {t} ELSE Held[j]
        BY <3>1 DEF Held
      <4> QED
        BY <4>1 DEF Engaged
    <3>3. Cardinality(Engaged) < Limit
      BY <3>1, SameSize, SameEngaged
    <3> QED
      BY <1>1, <1>2, <3>2, <3>3, FS_AddElement
  <2>2. ASSUME Engaged' \subseteq Engaged
        PROVE  IsFiniteSet(Engaged') /\ Cardinality(Engaged') <= Limit
    <3>1. IsFiniteSet(Engaged') /\ Cardinality(Engaged') <= Cardinality(Engaged)
      BY <1>1, <2>2, FS_Subset
    <3>2. Cardinality(Engaged') \in Nat
      BY <3>1, FS_CardinalityType
    <3> QED
      BY <1>1, <1>2, <3>1, <3>2
  <2>3. ASSUME NEW K \in SUBSET Keys, Lease!Release(K) PROVE Engaged' \subseteq Engaged
    <3>1. Held' = [k \in Keys |-> IF k \in K THEN {} ELSE Held[k]]
      BY <2>3 DEF Lease!Release, Held
    <3> QED
      BY <3>1 DEF Engaged
  <2>4. ASSUME UNCHANGED Lease!vars PROVE Engaged' \subseteq Engaged
    <3>1. Held' = Held
      BY <2>4 DEF Lease!vars, Held
    <3> QED
      BY <3>1 DEF Engaged
  <2> QED
    BY <2>1, <2>2, <2>3, <2>4 DEF Lease!Next
<1> QED
  BY <1>3, SameSize, SameEngaged DEF Lease!LimitKept, IsFiniteSet, Lease!IsFiniteSet, Lease!Engaged, Engaged, Held

(* max_active bounds what the runtime works on, and not only the entries of the table:
   what a task leaves behind when it gives up still counts (AdmissionController). *)
THEOREM RuntimeWithinLimit == Spec => []WithinLimit
<1>1. Lease!Init => Lease!LimitKept
  <2> SUFFICES ASSUME Lease!Init PROVE Lease!LimitKept
    OBVIOUS
  <2>1. Held = [k \in Keys |-> {}]
    BY DEF Lease!Init, Held
  <2>2. Engaged = {}
    BY <2>1 DEF Engaged
  <2>3. IsFiniteSet({}) /\ Cardinality({}) = 0 /\ 0 <= Limit
    BY FS_EmptySet, AdmissionAssumption
  <2> QED
    BY <2>2, <2>3, SameSize, SameEngaged DEF Lease!LimitKept, IsFiniteSet, Lease!IsFiniteSet
<1>2. Lease!Spec => []Lease!LimitKept
  BY <1>1, LeaseKeepsLimit, PTL DEF Lease!Spec
<1>3. AdmInv /\ Lease!LimitKept => WithinLimit
  <2> SUFFICES ASSUME AdmInv, Lease!LimitKept PROVE WithinLimit
    OBVIOUS
  <2> DEFINE Working == {task[t].key : t \in {u \in Tasks : Live(u)}}
  <2>1. IsFiniteSet(Engaged) /\ Cardinality(Engaged) <= Limit
    BY SameSize, SameEngaged DEF Lease!LimitKept, IsFiniteSet, Lease!IsFiniteSet
  <2>2. Working \in SUBSET Engaged
    <3>1. \A t \in Tasks : Live(t) => task[t].key \in Keys
      BY DEF AdmInv, EntriesAreTasks, LeftoversClose
    <3> QED
      BY <3>1 DEF Engaged, Held
  <2>3. IsFiniteSet(Working) /\ Cardinality(Working) <= Cardinality(Engaged)
    BY <2>1, <2>2, FS_Subset
  <2>4. Cardinality(Working) \in Nat /\ Cardinality(Engaged) \in Nat /\ Limit \in Nat
    BY <2>1, <2>3, FS_CardinalityType, AdmissionAssumption
  <2>5. Cardinality(Working) <= Limit
    BY <2>1, <2>3, <2>4
  <2> QED
    BY <2>5 DEF WithinLimit
<1> QED
  BY <1>2, <1>3, AdmissionInvariant, AdmissionImplementsLease, PTL DEF ImplementsLease

=============================================================================
