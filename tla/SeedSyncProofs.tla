---------------------------- MODULE SeedSyncProofs ----------------------------
(***************************************************************************)
(* Proofs about SeedSync for any cases, files, datasets and any number of  *)
(* runs, broken off anywhere, and of changes by people.                    *)
(***************************************************************************)
EXTENDS SeedSync, TLAPS

(* sync_cases refused the file otherwise. *)
OneCaseEach ==
    \A m, n \in DOMAIN run.file : run.file[m].case = run.file[n].case => m = n

(* The case with this id was handled by the run. *)
Handled(k) == \E m \in DOMAIN run.file : m < run.next /\ run.file[m].case = k

(* What the listing still says truly: an example keeps its id and its case, and all the
   rest too if nobody touched it and the run has not come to its case. *)
ListingKept ==
    \A x \in Live(listing) :
        /\ x \notin unread
        /\ remote[x].state # "unused" /\ remote[x].case = listing[x].case
        /\ listing[x].case \notin touched =>
               /\ remote[x].state = "live"
               /\ remote[x].source = listing[x].source /\ remote[x].notes = listing[x].notes
               /\ ~Handled(listing[x].case) => /\ remote[x].inputs = listing[x].inputs
                                               /\ remote[x].outputs = listing[x].outputs

(* An example of the seeder's that the listing does not and will not show was made by
   this run. *)
MadeNow ==
    \A x \in Live(remote) :
        remote[x].made /\ x \notin Live(listing) \cup unread => Handled(remote[x].case)

(* The dataset has the case as the file has it, or people changed it meanwhile. *)
Synced(n) ==
    \/ run.file[n].case \in touched
    \/ \E x \in OfCase(remote, run.file[n].case) :
           /\ remote[x].inputs = run.file[n].inputs
           /\ remote[x].outputs = run.file[n].outputs

SyncedSoFar == \A n \in DOMAIN run.file : n < run.next => Synced(n)

(* Pages are to come while the run lists, and nothing is known outside a run. *)
Unlisted == /\ run.pc # "listing" => unread = {}
            /\ ~UnderWay => listing = Nothing

(* The pages that were read are true while others are still to come ... *)
PagesInv == ListingKept /\ MadeNow /\ \A k : ~Handled(k)

(* ... and when all were, the run works on a listing it may trust. *)
SyncInv == OneCaseEach /\ ListingKept /\ MadeNow /\ SyncedSoFar

(* Inductive. *)
SeedInv == /\ SeedTypeOK /\ NoDuplicates /\ FinishedMeansSynced
           /\ Unlisted
           /\ run.pc = "listing" => PagesInv
           /\ run.pc = "syncing" => SyncInv

-----------------------------------------------------------------------------
(* The values that stand for an id that was never used have their types. *)
LEMMA NothingType == Nothing \in Datasets /\ Live(Nothing) = {}
<1>1. NotYet \in Example /\ NotYet.state = "unused"
  BY SeedAssumption DEF NotYet, Example
<1> QED
  BY <1>1 DEF Nothing, Datasets, Live

(* An element of a sequence is one of the set it is a sequence over. *)
LEMMA ElementType ==
    ASSUME NEW S, NEW s \in Seq(S), NEW n \in 1 .. Len(s)
    PROVE  s[n] \in S
OBVIOUS

(* The case in hand is a case of the file. *)
LEMMA CurrentType ==
    ASSUME SeedTypeOK, Syncing
    PROVE  /\ run.file \in Seq([case : Cases, inputs : Contents, outputs : Contents])
           /\ run.next \in DOMAIN run.file /\ DOMAIN run.file \subseteq Nat
           /\ Current \in [case : Cases, inputs : Contents, outputs : Contents]
<1>1. /\ run.file \in Seq([case : Cases, inputs : Contents, outputs : Contents])
      /\ run.next \in Nat \ {0}
  BY SeedAssumption DEF SeedTypeOK, Run
<1>2. run.next \in 1 .. Len(run.file) /\ DOMAIN run.file = 1 .. Len(run.file)
      /\ Len(run.file) \in Nat
  BY <1>1 DEF Syncing
<1>3. run.file[run.next] \in [case : Cases, inputs : Contents, outputs : Contents]
  BY <1>1, <1>2, ElementType
<1> QED
  BY <1>1, <1>2, <1>3 DEF Current

(* When the case in hand is done, the handled cases are those before and this one. *)
LEMMA NextHandled ==
    ASSUME SeedTypeOK, Syncing, run' = [run EXCEPT !.next = @ + 1], NEW k
    PROVE  /\ run'.pc = "syncing" /\ run'.file = run.file /\ run'.next = run.next + 1
           /\ run' \in Run
           /\ Handled(k)' <=> Handled(k) \/ k = Current.case
           /\ \A n \in DOMAIN run.file : n < run'.next => n < run.next \/ n = run.next
<1>1. /\ run.next \in DOMAIN run.file /\ DOMAIN run.file \subseteq Nat /\ run.next \in Nat
      /\ run \in Run
  BY CurrentType DEF SeedTypeOK
<1>2. /\ run'.pc = "syncing" /\ run'.file = run.file /\ run'.next = run.next + 1
      /\ run' \in Run
  BY <1>1 DEF Run, Syncing
<1>3. \A n \in DOMAIN run.file : n < run'.next <=> n < run.next \/ n = run.next
  BY <1>1, <1>2
<1> QED
  BY <1>1, <1>2, <1>3 DEF Handled, Current

(* A run that stops leaves nothing to be kept but the dataset. *)
LEMMA StopType ==
    ASSUME SeedTypeOK, NEW o \in {"done", "failed"}, Stop(o)
    PROVE  /\ run' \in Run /\ listing' \in Datasets
           /\ listing' = Nothing /\ unread' = {}
           /\ run'.pc = o /\ run'.file = run.file
BY NothingType DEF SeedTypeOK, Stop, Run

(* A run that begins has read nothing, and has the whole dataset to read. *)
LEMMA BeginKeeps ==
    ASSUME SeedInv, NEW f \in Files, Begin(f)
    PROVE  SeedInv'
<1>1. /\ run' = [pc |-> "listing", file |-> f, next |-> 1]
      /\ UNCHANGED <<remote, listing, edits>> /\ touched' = {} /\ unread' = Live(remote)
      /\ listing = Nothing
  BY DEF Begin, SeedInv, Unlisted
<1>2. run'.file = f /\ run'.next = 1 /\ run'.pc = "listing" /\ run' \in Run
  BY <1>1 DEF Run
<1>3. SeedTypeOK' /\ NoDuplicates' /\ FinishedMeansSynced'
  BY <1>1, <1>2 DEF SeedInv, SeedTypeOK, NoDuplicates, FinishedMeansSynced, Live
<1>4. ListingKept' /\ MadeNow'
  BY <1>1, NothingType DEF ListingKept, MadeNow, Live
<1>5. \A k : ~Handled(k)'
  <2>1. f \in Seq([case : Cases, inputs : Contents, outputs : Contents])
    BY SeedAssumption
  <2> QED
    BY <1>2, <2>1 DEF Handled
<1> QED
  BY <1>1, <1>2, <1>3, <1>4, <1>5 DEF SeedInv, PagesInv, Unlisted

(* What a page brings is true when it comes. *)
LEMMA ReadKeeps ==
    ASSUME SeedInv, NEW x \in Examples, ReadExample(x)
    PROVE  SeedInv'
<1>1. /\ run.pc = "listing" /\ unread' = unread \ {x}
      /\ listing' = IF x \in Live(remote) THEN [listing EXCEPT ![x] = remote[x]] ELSE listing
      /\ UNCHANGED <<remote, run, touched, edits>>
      /\ SeedTypeOK /\ PagesInv
  BY DEF ReadExample, SeedInv
<1>2. /\ listing' \in Datasets
      /\ \A y \in Examples : y # x => listing'[y] = listing[y]
      /\ x \in Live(remote) => listing'[x] = remote[x]
      /\ x \notin Live(remote) => listing' = listing
  BY <1>1 DEF SeedTypeOK, Datasets
<1>3. SeedTypeOK' /\ NoDuplicates' /\ FinishedMeansSynced'
  BY <1>1, <1>2 DEF SeedInv, SeedTypeOK, NoDuplicates, FinishedMeansSynced, Live
<1>4. ListingKept'
  BY <1>1, <1>2 DEF PagesInv, ListingKept, Live, Handled
<1>5. MadeNow'
  BY <1>1, <1>2 DEF PagesInv, MadeNow, Live, Handled
<1>6. \A k : ~Handled(k)'
  BY <1>1 DEF PagesInv, Handled
<1> QED
  BY <1>1, <1>3, <1>4, <1>5, <1>6 DEF SeedInv, PagesInv, Unlisted, UnderWay

(* The last page was read: the run stops, or works on what it has read. *)
LEMMA ListedKeeps ==
    ASSUME SeedInv, Listed
    PROVE  SeedInv'
<1>1. /\ run.pc = "listing" /\ unread = {} /\ UNCHANGED <<remote, touched, edits>>
      /\ SeedTypeOK /\ PagesInv
  BY DEF Listed, SeedInv
<1>2. CASE Stop("failed")
  <2>1. run' \in Run /\ listing' \in Datasets /\ unread' = {} /\ run'.pc = "failed"
        /\ listing' = Nothing
    BY <1>1, <1>2, StopType DEF Stop
  <2> QED
    BY <1>1, <2>1 DEF SeedInv, SeedTypeOK, NoDuplicates, FinishedMeansSynced, Live, Unlisted
<1>3. CASE ~Ambiguous /\ run' = [run EXCEPT !.pc = "syncing"] /\ UNCHANGED <<listing, unread>>
  <2>1. run' \in Run /\ run'.pc = "syncing" /\ run'.file = run.file /\ run'.next = run.next
    BY <1>1, <1>3 DEF SeedTypeOK, Run
  <2>2. SeedTypeOK' /\ NoDuplicates' /\ FinishedMeansSynced'
    BY <1>1, <1>3, <2>1 DEF SeedInv, SeedTypeOK, NoDuplicates, FinishedMeansSynced, Live
  <2>3. \A k : Handled(k)' <=> Handled(k)
    BY <2>1 DEF Handled
  <2>4. ListingKept' /\ MadeNow'
    BY <1>1, <1>3, <2>3 DEF PagesInv, ListingKept, MadeNow, Live
  <2>5. OneCaseEach'
    BY <1>3, <2>1 DEF OneCaseEach, Ambiguous
  <2>6. SyncedSoFar'
    BY <1>1, <2>1, <2>3 DEF PagesInv, Handled, SyncedSoFar
  <2> QED
    BY <1>1, <1>3, <2>1, <2>2, <2>4, <2>5, <2>6 DEF SeedInv, SyncInv, Unlisted, UnderWay
<1> QED
  BY <1>2, <1>3 DEF Listed

(* A created example is the only one the seeder has made of its case. *)
LEMMA CreateKeeps ==
    ASSUME SeedInv, CreateExample
    PROVE  SeedInv'
<1>1. /\ Syncing /\ Previous = {} /\ Answered /\ UNCHANGED <<touched, edits>>
      /\ SeedTypeOK /\ NoDuplicates /\ SyncInv /\ unread = {} /\ UnderWay
  BY DEF CreateExample, SeedInv, Syncing, Unlisted, UnderWay
<1>2. PICK x \in Examples :
          /\ remote[x].state = "unused"
          /\ remote' = [remote EXCEPT ![x] =
                 [state |-> "live", case |-> Current.case, inputs |-> Current.inputs,
                  outputs |-> Current.outputs, source |-> "seed", notes |-> FALSE,
                  made |-> TRUE]]
  BY DEF CreateExample
<1>3. /\ Current \in [case : Cases, inputs : Contents, outputs : Contents]
      /\ run.next \in DOMAIN run.file /\ DOMAIN run.file \subseteq Nat
  BY <1>1, CurrentType
<1>4. /\ remote' \in Datasets
      /\ remote'[x].state = "live" /\ remote'[x].case = Current.case
      /\ remote'[x].inputs = Current.inputs /\ remote'[x].outputs = Current.outputs
      /\ \A y \in Examples : y # x => remote'[y] = remote[y]
      /\ Live(remote') = Live(remote) \cup {x} /\ x \notin Live(remote)
  BY <1>1, <1>2, <1>3 DEF SeedTypeOK, Datasets, Example, Live
<1>5. \A y \in Live(remote) : remote[y].made => remote[y].case # Current.case
  <2> SUFFICES ASSUME NEW y \in Live(remote), remote[y].made, remote[y].case = Current.case
               PROVE  FALSE
    OBVIOUS
  <2>1. CASE y \in Live(listing)
    BY <1>1, <2>1 DEF SyncInv, ListingKept, Previous, OfCase
  <2>2. CASE y \notin Live(listing)
    BY <1>1, <1>3, <2>2 DEF SyncInv, MadeNow, Handled, OneCaseEach, Current
  <2> QED
    BY <2>1, <2>2
<1>6. NoDuplicates'
  BY <1>1, <1>4, <1>5 DEF NoDuplicates, Live
<1>7. CASE Stop("failed")
  BY <1>1, <1>4, <1>6, <1>7, StopType DEF SeedInv, SeedTypeOK, FinishedMeansSynced, Unlisted
<1>8. CASE run' = [run EXCEPT !.next = @ + 1] /\ UNCHANGED <<listing, unread>>
  <2>1. SeedTypeOK' /\ FinishedMeansSynced'
    BY <1>1, <1>4, <1>8, NextHandled DEF SeedTypeOK, FinishedMeansSynced
  <2>2. \A k : Handled(k)' <=> Handled(k) \/ k = Current.case
    BY <1>1, <1>8, NextHandled
  <2>3. OneCaseEach'
    BY <1>1, <1>8, NextHandled DEF SyncInv, OneCaseEach
  <2>4. ListingKept'
    <3>1. \A y \in Live(listing) : y \in Examples /\ remote'[y] = remote[y]
      BY <1>1, <1>2, <1>4 DEF SyncInv, ListingKept, Live
    <3>2. UNCHANGED <<listing, unread, touched>>
      BY <1>1, <1>8
    <3> QED
      BY <1>1, <2>2, <3>1, <3>2 DEF SyncInv, ListingKept, Live
  <2>5. MadeNow'
    BY <1>1, <1>4, <1>8, <2>2 DEF SyncInv, MadeNow, Live
  <2>6. SyncedSoFar'
    BY <1>1, <1>4, <1>8, NextHandled DEF SyncInv, SyncedSoFar, Synced, OfCase, Live, Current
  <2>7. Unlisted' /\ run'.pc = "syncing"
    BY <1>1, <1>8, NextHandled DEF Unlisted, UnderWay
  <2> QED
    BY <1>6, <2>1, <2>3, <2>4, <2>5, <2>6, <2>7 DEF SeedInv, SyncInv
<1> QED
  BY <1>1, <1>7, <1>8 DEF Answered

(* An example whose case needs nothing is there as the listing shows it. *)
LEMMA SkipKeeps ==
    ASSUME SeedInv, Skip
    PROVE  SeedInv'
<1>1. /\ Syncing /\ UNCHANGED <<remote, listing, unread, touched, edits>>
      /\ run' = [run EXCEPT !.next = @ + 1]
      /\ SeedTypeOK /\ NoDuplicates /\ SyncInv /\ unread = {}
  BY DEF Skip, SeedInv, Syncing, Unlisted
<1>2. PICK x \in Previous : ~Differs(listing[x], Current)
  BY DEF Skip
<1>3. /\ Current \in [case : Cases, inputs : Contents, outputs : Contents]
      /\ run.next \in DOMAIN run.file /\ DOMAIN run.file \subseteq Nat
  BY <1>1, CurrentType
<1>4. /\ x \in Live(listing) /\ listing[x].case = Current.case
      /\ listing[x].inputs = Current.inputs /\ listing[x].outputs = Current.outputs
  BY <1>2 DEF Previous, OfCase, Differs
<1>5. ~Handled(Current.case)
  BY <1>1, <1>3 DEF SyncInv, OneCaseEach, Handled, Current
<1>6. Synced(run.next)
  BY <1>1, <1>4, <1>5 DEF SyncInv, ListingKept, Synced, OfCase, Live, Current
<1>7. SeedTypeOK' /\ NoDuplicates' /\ FinishedMeansSynced'
  BY <1>1, NextHandled DEF SeedTypeOK, NoDuplicates, Live, FinishedMeansSynced
<1>8. \A k : Handled(k)' <=> Handled(k) \/ k = Current.case
  BY <1>1, NextHandled
<1>9. OneCaseEach'
  BY <1>1, NextHandled DEF SyncInv, OneCaseEach
<1>10. ListingKept' /\ MadeNow'
  BY <1>1, <1>8 DEF SyncInv, ListingKept, MadeNow, Live
<1>11. SyncedSoFar'
  BY <1>1, <1>6, NextHandled DEF SyncInv, SyncedSoFar, Synced, OfCase, Live
<1>12. Unlisted' /\ run'.pc = "syncing"
  BY <1>1, NextHandled DEF Unlisted, UnderWay
<1> QED
  BY <1>7, <1>9, <1>10, <1>11, <1>12 DEF SeedInv, SyncInv

(* An update writes the one example of the case in hand. *)
LEMMA UpdateKeeps ==
    ASSUME SeedInv, UpdateExample
    PROVE  SeedInv'
<1>1. /\ Syncing /\ Answered /\ UNCHANGED <<touched, edits>>
      /\ SeedTypeOK /\ NoDuplicates /\ SyncInv /\ unread = {}
  BY DEF UpdateExample, SeedInv, Syncing, Unlisted
<1>2. PICK x \in Previous :
          /\ listing[x].source = "seed" /\ remote[x].state = "live"
          /\ remote' = [remote EXCEPT ![x] = Updated(x)]
  BY DEF UpdateExample
<1>3. /\ Current \in [case : Cases, inputs : Contents, outputs : Contents]
      /\ run.next \in DOMAIN run.file /\ DOMAIN run.file \subseteq Nat
  BY <1>1, CurrentType
<1>4. x \in Live(listing) /\ x \in Examples /\ listing[x].case = Current.case
      /\ remote[x].case = Current.case
  BY <1>1, <1>2 DEF Previous, OfCase, Live, SyncInv, ListingKept
<1>5. /\ remote[x] \in Example /\ listing[x] \in Example
      /\ remote \in [Examples -> Example]
  BY <1>1, <1>4 DEF SeedTypeOK, Datasets
<1>6. /\ Updated(x) \in Example
      /\ Updated(x).state = "live" /\ Updated(x).case = Current.case
      /\ Updated(x).made = remote[x].made
      /\ Updated(x).inputs = Current.inputs /\ Updated(x).outputs = Current.outputs
      /\ Updated(x).source = listing[x].source /\ Updated(x).notes = listing[x].notes
  BY <1>2, <1>3, <1>4, <1>5 DEF Updated, Example
<1>7. /\ remote' \in Datasets /\ remote'[x] = Updated(x)
      /\ \A y \in Examples : y # x => remote'[y] = remote[y]
  BY <1>2, <1>4, <1>5, <1>6 DEF Datasets
<1>8. Live(remote') = Live(remote)
  BY <1>2, <1>6, <1>7 DEF Live
<1>9. \A y \in Examples : /\ remote'[y].case = remote[y].case
                          /\ remote'[y].made = remote[y].made
                          /\ remote'[y].state = remote[y].state
  BY <1>2, <1>4, <1>6, <1>7
<1>10. NoDuplicates'
  BY <1>1, <1>8, <1>9 DEF NoDuplicates, Live
<1>11. CASE Stop("failed")
  BY <1>1, <1>7, <1>10, <1>11, StopType DEF SeedInv, SeedTypeOK, FinishedMeansSynced, Unlisted
<1>12. CASE run' = [run EXCEPT !.next = @ + 1] /\ UNCHANGED <<listing, unread>>
  <2>1. SeedTypeOK' /\ FinishedMeansSynced'
    BY <1>1, <1>7, <1>12, NextHandled DEF SeedTypeOK, FinishedMeansSynced
  <2>2. \A k : Handled(k)' <=> Handled(k) \/ k = Current.case
    BY <1>1, <1>12, NextHandled
  <2>3. OneCaseEach'
    BY <1>1, <1>12, NextHandled DEF SyncInv, OneCaseEach
  <2>4. ListingKept'
    <3> SUFFICES ASSUME NEW y \in Live(listing)
                 PROVE  /\ remote'[y].state # "unused" /\ remote'[y].case = listing[y].case
                        /\ listing[y].case \notin touched =>
                               /\ remote'[y].state = "live"
                               /\ remote'[y].source = listing[y].source
                               /\ remote'[y].notes = listing[y].notes
                               /\ ~Handled(listing[y].case)' =>
                                      /\ remote'[y].inputs = listing[y].inputs
                                      /\ remote'[y].outputs = listing[y].outputs
      BY <1>1, <1>12 DEF ListingKept, SyncInv
    <3>1. y \in Examples
      BY DEF Live
    <3>2. CASE y = x
      BY <1>4, <1>6, <1>7, <1>12, <2>2, <3>2
    <3>3. CASE y # x
      BY <1>1, <1>7, <1>12, <2>2, <3>1, <3>3 DEF SyncInv, ListingKept
    <3> QED
      BY <3>2, <3>3
  <2>5. MadeNow'
    BY <1>1, <1>8, <1>9, <1>12, <2>2 DEF SyncInv, MadeNow, Live
  <2>6. SyncedSoFar'
    <3> SUFFICES ASSUME NEW n \in DOMAIN run.file, n < run'.next
                 PROVE  Synced(n)'
      BY <1>1, <1>12, NextHandled DEF SyncedSoFar
    <3>0. run'.file = run.file
      BY <1>1, <1>12, NextHandled
    <3>1. CASE n = run.next
      BY <1>1, <1>4, <1>6, <1>7, <3>0, <3>1 DEF Synced, OfCase, Live, Current
    <3>2. CASE n < run.next
      <4>1. Synced(n)
        BY <1>1, <3>2 DEF SyncInv, SyncedSoFar
      <4>2. run.file[n].case # Current.case
        BY <1>1, <1>3, <3>2 DEF SyncInv, OneCaseEach, Current
      <4> QED
        BY <1>1, <1>4, <1>7, <1>8, <3>0, <4>1, <4>2 DEF Synced, OfCase, Live
    <3> QED
      BY <1>1, <1>12, <3>1, <3>2, NextHandled
  <2>7. Unlisted' /\ run'.pc = "syncing"
    BY <1>1, <1>12, NextHandled DEF Unlisted, UnderWay
  <2> QED
    BY <1>10, <2>1, <2>3, <2>4, <2>5, <2>6, <2>7 DEF SeedInv, SyncInv
<1> QED
  BY <1>1, <1>11, <1>12 DEF Answered

(* A run that ends writes nothing; when it ends in peace every case was handled. *)
LEMMA StopKeeps ==
    ASSUME SeedInv, Refuse \/ Break \/ Finish
    PROVE  SeedInv'
<1>1. PICK o \in {"done", "failed"} :
          /\ Stop(o) /\ UNCHANGED <<remote, touched, edits>>
          /\ o = "done" => run.pc = "syncing" /\ run.next > Len(run.file)
  BY DEF Refuse, Break, Finish, Syncing
<1>2. SeedTypeOK' /\ NoDuplicates'
  BY <1>1, StopType DEF SeedInv, SeedTypeOK, NoDuplicates, Live
<1>3. FinishedMeansSynced'
  <2>1. run.file \in Seq([case : Cases, inputs : Contents, outputs : Contents])
        /\ run.next \in Nat /\ SeedTypeOK
    BY SeedAssumption DEF SeedInv, SeedTypeOK, Run
  <2>2. run'.pc = o /\ run'.file = run.file
    BY <1>1, <2>1, StopType
  <2>3. o = "done" => \A n \in DOMAIN run.file : Synced(n)
    BY <1>1, <2>1 DEF SeedInv, SyncInv, SyncedSoFar
  <2> QED
    BY <1>1, <2>2, <2>3 DEF FinishedMeansSynced, Synced, OfCase, Live
<1>4. run'.pc \notin {"listing", "syncing"} /\ Unlisted'
  BY <1>1, StopType DEF SeedInv, Unlisted
<1> QED
  BY <1>2, <1>3, <1>4 DEF SeedInv

-----------------------------------------------------------------------------
(* People change an example: its case counts as touched from then on. *)
LEMMA TouchKeeps ==
    ASSUME SeedInv, NEW x \in Examples, Touch(x)
    PROVE  SeedInv'
<1>1. /\ SeedTypeOK /\ NoDuplicates /\ remote[x].state = "live"
      /\ UNCHANGED <<run, listing, unread>>
      /\ touched' = IF x \in unread THEN touched ELSE touched \cup {remote[x].case}
      /\ edits' = edits + 1 /\ edits < MaxEdits /\ Unlisted
  BY DEF Touch, SeedInv
<1>2. /\ remote[x] \in Example /\ remote \in [Examples -> Example]
  BY <1>1 DEF SeedTypeOK, Datasets
<1>3. /\ remote' \in Datasets
      /\ \A y \in Examples : y # x => remote'[y] = remote[y]
      /\ remote'[x].state # "unused"
      /\ remote'[x].case = remote[x].case /\ remote'[x].made = remote[x].made
  <2>1. CASE remote' = [remote EXCEPT ![x].notes = TRUE]
    BY <1>1, <1>2, <2>1 DEF Datasets, Example
  <2>2. ASSUME NEW c \in Contents, remote' = [remote EXCEPT ![x].outputs = c]
        PROVE  /\ remote' \in Datasets
               /\ \A y \in Examples : y # x => remote'[y] = remote[y]
               /\ remote'[x].state # "unused"
               /\ remote'[x].case = remote[x].case /\ remote'[x].made = remote[x].made
    BY <1>1, <1>2, <2>2 DEF Datasets, Example
  <2>3. CASE remote' = [remote EXCEPT ![x].source = "other"]
    BY <1>1, <1>2, <2>3 DEF Datasets, Example
  <2>4. CASE remote' = [remote EXCEPT ![x].state = "deleted"]
    BY <1>1, <1>2, <2>4 DEF Datasets, Example
  <2> QED
    BY <2>1, <2>2, <2>3, <2>4 DEF Touch
<1>4. Live(remote') \subseteq Live(remote)
  BY <1>1, <1>3 DEF Live
<1>5. SeedTypeOK'
  BY <1>1, <1>2, <1>3, SeedAssumption DEF SeedTypeOK, Example
<1>6. NoDuplicates'
  BY <1>1, <1>3, <1>4 DEF NoDuplicates, Live
<1>7. ASSUME NEW n, Synced(n), unread = {}
      PROVE  Synced(n)'
  BY <1>1, <1>3, <1>7 DEF Synced, OfCase, Live
<1>8. FinishedMeansSynced'
  BY <1>1, <1>7 DEF SeedInv, FinishedMeansSynced, Synced, Unlisted
<1>9. ASSUME ListingKept, MadeNow
      PROVE  ListingKept' /\ MadeNow'
  <2>2. ListingKept'
    <3>1. ASSUME NEW y \in Live(listing), y # x
          PROVE  remote'[y] = remote[y]
      BY <1>3, <3>1 DEF Live
    <3>2. x \in Live(listing) => listing[x].case \in touched'
      BY <1>1, <1>9 DEF ListingKept
    <3>3. \A k : Handled(k)' <=> Handled(k)
      BY <1>1 DEF Handled
    <3>4. touched \subseteq touched'
      BY <1>1
    <3> QED
      BY <1>1, <1>3, <1>9, <3>1, <3>2, <3>3, <3>4 DEF ListingKept, Live
  <2>3. MadeNow'
    BY <1>1, <1>3, <1>4, <1>9 DEF MadeNow, Handled, Live
  <2> QED
    BY <2>2, <2>3
<1>10. ASSUME run.pc = "syncing", SyncInv
       PROVE  OneCaseEach' /\ SyncedSoFar'
  BY <1>1, <1>7, <1>10 DEF SyncInv, OneCaseEach, SyncedSoFar, Unlisted
<1>11. Unlisted' /\ \A k : Handled(k)' <=> Handled(k)
  BY <1>1 DEF Unlisted, UnderWay, Handled
<1> QED
  BY <1>1, <1>5, <1>6, <1>8, <1>9, <1>10, <1>11 DEF SeedInv, SyncInv, PagesInv

(* People add an example, which is none of the seeder's. *)
LEMMA AddKeeps ==
    ASSUME SeedInv, NEW x \in Examples, AddExample(x)
    PROVE  SeedInv'
<1>1. /\ SeedTypeOK /\ NoDuplicates /\ remote[x].state = "unused"
      /\ UNCHANGED <<run, listing, touched>>
      /\ unread' \in IF run.pc = "listing" THEN {unread, unread \cup {x}} ELSE {unread}
      /\ edits' = edits + 1 /\ edits < MaxEdits /\ Unlisted
  BY DEF AddExample, SeedInv
<1>2. PICK g \in Example :
          remote' = [remote EXCEPT ![x] = g] /\ ~g.made /\ g.state = "live"
  <2>1. PICK k \in Cases, c \in Contents, s \in {"seed", "other"} :
            remote' = [remote EXCEPT ![x] =
               [state |-> "live", case |-> k, inputs |-> c, outputs |-> c, source |-> s,
                notes |-> TRUE, made |-> FALSE]]
    BY DEF AddExample
  <2> DEFINE new == [state |-> "live", case |-> k, inputs |-> c, outputs |-> c, source |-> s,
                     notes |-> TRUE, made |-> FALSE]
  <2>2. new \in Example /\ ~new.made /\ new.state = "live"
    BY DEF Example
  <2> QED
    BY <2>1, <2>2
<1>3. /\ remote' \in Datasets /\ remote'[x] = g
      /\ \A y \in Examples : y # x => remote'[y] = remote[y]
      /\ Live(remote') = Live(remote) \cup {x} /\ x \notin Live(remote)
  BY <1>1, <1>2 DEF SeedTypeOK, Datasets, Live
<1>4. SeedTypeOK'
  BY <1>1, <1>3, SeedAssumption DEF SeedTypeOK
<1>5. NoDuplicates'
  BY <1>1, <1>2, <1>3 DEF NoDuplicates, Live
<1>6. ASSUME NEW n, Synced(n)
      PROVE  Synced(n)'
  BY <1>1, <1>3, <1>6 DEF Synced, OfCase, Live
<1>7. FinishedMeansSynced'
  BY <1>1, <1>6 DEF SeedInv, FinishedMeansSynced, Synced
<1>8. ASSUME ListingKept, MadeNow
      PROVE  ListingKept' /\ MadeNow'
  <2>1. ListingKept'
    <3>1. ASSUME NEW y \in Live(listing)
          PROVE  remote'[y] = remote[y] /\ y # x
      BY <1>1, <1>3, <1>8, <3>1 DEF ListingKept, Live
    <3>2. unread' \subseteq unread \cup {x}
      BY <1>1
    <3> QED
      BY <1>1, <1>8, <3>1, <3>2 DEF ListingKept, Live, Handled
  <2>2. MadeNow'
    BY <1>1, <1>2, <1>3, <1>8 DEF MadeNow, Handled, Live
  <2> QED
    BY <2>1, <2>2
<1>9. ASSUME SyncInv
      PROVE  OneCaseEach' /\ SyncedSoFar'
  BY <1>1, <1>6, <1>9 DEF SyncInv, OneCaseEach, SyncedSoFar
<1>10. Unlisted' /\ \A k : Handled(k)' <=> Handled(k)
  BY <1>1 DEF Unlisted, UnderWay, Handled
<1> QED
  BY <1>1, <1>4, <1>5, <1>7, <1>8, <1>9, <1>10 DEF SeedInv, SyncInv, PagesInv

(* Every step keeps SeedInv. *)
LEMMA SeedNextKeeps == SeedInv /\ [SeedNext]_seedVars => SeedInv'
<1>1. CASE UNCHANGED seedVars
  BY <1>1 DEF seedVars, SeedInv, SeedTypeOK, NoDuplicates, FinishedMeansSynced, SyncInv,
     OneCaseEach, ListingKept, MadeNow, SyncedSoFar, Synced, Handled, OfCase, Live,
     PagesInv, Unlisted, UnderWay
<1> QED
  BY <1>1, BeginKeeps, ReadKeeps, ListedKeeps, CreateKeeps, SkipKeeps, UpdateKeeps,
     StopKeeps, TouchKeeps, AddKeeps DEF SeedNext, Seeder, People

(* A new dataset has nothing to keep. *)
LEMMA SeedInitHolds == SeedInit => SeedInv
<1> SUFFICES ASSUME SeedInit
             PROVE  SeedInv
  OBVIOUS
<1>1. SeedTypeOK
  BY NothingType, SeedAssumption DEF SeedInit, SeedTypeOK, Run
<1>2. Live(remote) = {} /\ run.pc = "none" /\ listing = Nothing /\ unread = {}
  BY NothingType DEF SeedInit
<1> QED
  BY <1>1, <1>2 DEF SeedInv, NoDuplicates, FinishedMeansSynced, Unlisted

(* What a run knows of the dataset while it is under way, and what every run leaves
   behind, holds in every reachable state. *)
THEOREM SeedInvariant == SeedSpec => []SeedInv
<1> QED
  BY SeedInitHolds, SeedNextKeeps, PTL DEF SeedSpec

(* sync_cases never makes a second example of a case while its first is there, whatever
   was broken off, lost, taken over or changed before. *)
THEOREM SeederMakesNoDuplicates == SeedSpec => []NoDuplicates
<1>1. SeedInv => NoDuplicates
  BY DEF SeedInv
<1> QED
  BY <1>1, SeedInvariant, PTL

(* A run of sync_cases that ends in peace has brought every case of its file to the
   dataset, except those people were at work on. *)
THEOREM FinishedRunsAreSynced == SeedSpec => []FinishedMeansSynced
<1>1. SeedInv => FinishedMeansSynced
  BY DEF SeedInv
<1> QED
  BY <1>1, SeedInvariant, PTL

(* The seeder writes only what is its own and carries annotations on. *)
LEMMA WritesKeepWork ==
    ASSUME SeedInv, SeedNext, NEW y \in Live(remote),
           remote'[y] # remote[y], edits' = edits, remote[y].case \notin touched
    PROVE  /\ remote[y].source = "seed"
           /\ remote'[y].state = "live" /\ remote'[y].notes = remote[y].notes
<1>1. remote \in [Examples -> Example] /\ y \in Examples /\ remote[y].state = "live"
  BY DEF SeedInv, SeedTypeOK, Datasets, Live
<1>2. ~CreateExample
  BY <1>1 DEF CreateExample
<1>3. \A x \in Examples : ~Touch(x) /\ ~AddExample(x)
  BY DEF Touch, AddExample, SeedInv, SeedTypeOK
<1>4. UpdateExample
  BY <1>2, <1>3 DEF SeedNext, Seeder, People, Begin, ReadExample, Listed, Skip,
     Refuse, Break, Finish
<1>5. PICK x \in Previous :
          /\ listing[x].source = "seed" /\ remote[x].state = "live"
          /\ remote' = [remote EXCEPT ![x] = Updated(x)]
  BY <1>4 DEF UpdateExample
<1>6. y = x /\ remote'[y] = Updated(y)
  BY <1>1, <1>5
<1>7. /\ touched' = touched /\ SyncInv
  BY <1>4 DEF UpdateExample, Syncing, SeedInv
<1>8. y \in Live(listing) /\ listing[y].case = remote[y].case
  BY <1>5, <1>6, <1>7 DEF Previous, OfCase, SyncInv, ListingKept
<1>9. remote[y].source = "seed" /\ remote[y].notes = listing[y].notes
  BY <1>5, <1>6, <1>7, <1>8 DEF SyncInv, ListingKept
<1>10. remote[y] \in Example
  BY <1>1
<1> QED
  BY <1>1, <1>6, <1>9, <1>10 DEF Updated, Example

(* What people did before the listing came to the example is kept (sync_cases): foreign
   examples are not written, none is deleted, and annotations survive an update. *)
THEOREM PeoplesWorkIsKept == SeedSpec => HumanWorkKept
<1>1. SeedInv /\ [SeedNext]_seedVars =>
          [\A x \in Live(remote) :
               remote'[x] # remote[x] /\ edits' = edits /\ remote[x].case \notin touched =>
                   /\ remote[x].source = "seed"
                   /\ remote'[x].state = "live"
                   /\ remote'[x].notes = remote[x].notes]_seedVars
  BY WritesKeepWork
<1> QED
  BY <1>1, SeedInvariant, PTL DEF SeedSpec, HumanWorkKept

=============================================================================
