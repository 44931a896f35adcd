---------------------------- MODULE ApprovalPaging ----------------------------
(***************************************************************************)
(* Walking through the approvals of a tenant page by page: list_approvals  *)
(* asks ApprovalRepository.list_for_tenant for one row more than it shows  *)
(* and gives the place of the last row shown as the cursor of the next     *)
(* page.  Meanwhile rows are inserted, and decisions, consumption and      *)
(* expiry move rows into and out of the filter.                            *)
(*                                                                         *)
(* A row is inserted with the clock its transaction read first, so rows    *)
(* need not appear in the order of their created_at, and two may share it. *)
(***************************************************************************)
EXTENDS Naturals, FiniteSets

CONSTANTS Ids,     \* approval ids, ordered like the strings they stand for
          Times,   \* values of created_at
          limit,   \* rows on a page
          MaxMoves \* BOUND: rows that join or leave the filter during the walk

ASSUME PagingAssumption ==
    /\ Ids \subseteq Nat /\ IsFiniteSet(Ids)
    /\ Times \subseteq Nat \ {0}
    /\ limit \in Nat \ {0} /\ MaxMoves \in Nat

VARIABLES created,  \* created_at of each row; 0: not inserted
          matches,  \* the rows the filter selects
          before,   \* the cursor of the next page, NoCursor for the first one
          listed,   \* how often the walk has shown each row
          steady,   \* the rows that have been selected since the walk began
          walk,     \* "on", or "done" when a page came without next_cursor
          moves     \* rows that joined or left the filter so far

vars == <<created, matches, before, listed, steady, walk, moves>>

-----------------------------------------------------------------------------
NoCursor == [at |-> 0, id |-> 0]
Cursors  == [at : Times, id : Ids]
Key(i)   == [at |-> created[i], id |-> i]

\* tuple_(created_at, id) < (created_at, id).
Older(p, q) == p.at < q.at \/ (p.at = q.at /\ p.id < q.id)

\* MUTANT: the cursor is compared by created_at alone.
Selected_TimeOnly(c) == {i \in matches : c # NoCursor => created[i] < c.at}

\* MUTANT: the row the cursor names is on both pages.
Selected_Inclusive(c) ==
    {i \in matches : c # NoCursor => Older(Key(i), c) \/ Key(i) = c}

Selected(c) == {i \in matches : c # NoCursor => Older(Key(i), c)}

\* ORDER BY created_at DESC, id DESC LIMIT n.
Newest(S, n) == {i \in S : Cardinality({j \in S : Older(Key(i), Key(j))}) < n}
Last(S)      == CHOOSE i \in S : \A j \in S : Older(Key(i), Key(j)) \/ i = j

Init ==
    /\ created \in [Ids -> Times \cup {0}]
    /\ matches \in SUBSET {i \in Ids : created[i] # 0}
    /\ before = NoCursor
    /\ listed = [i \in Ids |-> 0]
    /\ steady = matches
    /\ walk = "on"
    /\ moves = 0

\* prepare_execution or create_pending commits a row.
InsertRow(i, at) ==
    /\ moves < MaxMoves /\ created[i] = 0
    /\ moves' = moves + 1
    /\ created' = [created EXCEPT ![i] = at]
    /\ matches' \in {matches, matches \cup {i}}
    /\ UNCHANGED <<before, listed, steady, walk>>

\* A decision, a consumption or the expiry changes what the filter says of a row.
MoveRow(i) ==
    /\ moves < MaxMoves /\ created[i] # 0
    /\ moves' = moves + 1
    /\ matches' = IF i \in matches THEN matches \ {i} ELSE matches \cup {i}
    /\ steady' = steady \ {i}
    /\ UNCHANGED <<created, before, listed, walk>>

Show(page) == listed' = [i \in Ids |-> IF i \in page THEN listed[i] + 1 ELSE listed[i]]

\* MUTANT: the extra row gives the cursor.
FetchPage_SkipsExtra ==
    /\ walk = "on"
    /\ LET items == Newest(Selected(before), limit + 1)
           page  == Newest(items, limit)
       IN  /\ Show(page)
           /\ IF Cardinality(items) > limit
              THEN before' = Key(Last(items)) /\ UNCHANGED walk
              ELSE walk' = "done" /\ UNCHANGED before
    /\ UNCHANGED <<created, matches, steady, moves>>

\* One GET: the page is shown, and the walk goes on from its last row if there was more.
FetchPage ==
    /\ walk = "on"
    /\ LET items == Newest(Selected(before), limit + 1)
           page  == Newest(items, limit)
       IN  /\ Show(page)
           /\ IF Cardinality(items) > limit
              THEN before' = Key(Last(page)) /\ UNCHANGED walk
              ELSE walk' = "done" /\ UNCHANGED before
    /\ UNCHANGED <<created, matches, steady, moves>>

Next ==
    \/ FetchPage
    \/ \E i \in Ids : MoveRow(i) \/ \E at \in Times : InsertRow(i, at)

Spec == Init /\ [][Next]_vars

-----------------------------------------------------------------------------
\* Every variable has its type.
TypeOK ==
    /\ created \in [Ids -> Times \cup {0}]
    /\ matches \subseteq {i \in Ids : created[i] # 0}
    /\ before \in Cursors \cup {NoCursor}
    /\ listed \in [Ids -> Nat]
    /\ steady \subseteq matches
    /\ walk \in {"on", "done"}
    /\ moves \in 0 .. MaxMoves

\* No approval is shown twice in one walk, whatever moves under it (the cursor test of
\* list_for_tenant is strict and total).
ShownOnce == \A i \in Ids : listed[i] <= 1

\* A walk that ended has shown every approval that was there all the time: none hides
\* between two pages or behind an equal created_at (list_approvals).
NothingSkipped == walk = "done" => \A i \in steady : listed[i] = 1

=============================================================================
