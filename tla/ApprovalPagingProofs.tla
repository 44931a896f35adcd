------------------------- MODULE ApprovalPagingProofs -------------------------
(***************************************************************************)
(* Proofs about ApprovalPaging for any finite table, any page size and any *)
(* rows that join, leave or are inserted during the walk: no approval is   *)
(* shown twice, and a walk that ended has shown every approval that was    *)
(* there all the time.                                                     *)
(*                                                                         *)
(* The argument: the rows shown so far are the ones that are not older     *)
(* than the cursor.  A page is an upper part of the rows older than the    *)
(* cursor, and it is all of them when the extra row did not come.          *)
(***************************************************************************)
EXTENDS ApprovalPaging, FiniteSetTheorems, TLAPS

(* The cursor has been passed by row i. *)
Passed(i) == before # NoCursor /\ ~Older(Key(i), before)

(* What the walk has shown: each row at most once, only rows of the table, while the
   walk is on only rows the cursor has passed, and of the rows that were always there
   all that it has passed; in the end all of them. *)
PageInv ==
    /\ TypeOK
    /\ \A i \in Ids : listed[i] # 0 =>
           /\ listed[i] = 1
           /\ created[i] # 0
           /\ walk = "on" => Passed(i)
    /\ walk = "on" => \A i \in steady : Passed(i) => listed[i] = 1
    /\ NothingSkipped

-----------------------------------------------------------------------------
(* created_at and id are numbers. *)
LEMMA RowTypes ==
    ASSUME created \in [Ids -> Times \cup {0}], NEW i \in Ids
    PROVE  i \in Nat /\ created[i] \in Nat
<1>1. created[i] \in Times \cup {0}
  OBVIOUS
<1>2. Times \subseteq Nat /\ Ids \subseteq Nat /\ 0 \in Nat
  BY PagingAssumption
<1> QED
  BY <1>1, <1>2, Zenon

(* The order of the listing, (created_at, id), is strict and total on rows. *)
LEMMA RowOrder ==
    ASSUME created \in [Ids -> Times \cup {0}], NEW i \in Ids, NEW j \in Ids, NEW k \in Ids
    PROVE  /\ ~Older(Key(i), Key(i))
           /\ Older(Key(i), Key(j)) /\ Older(Key(j), Key(k)) => Older(Key(i), Key(k))
           /\ Older(Key(i), Key(j)) \/ Older(Key(j), Key(i)) \/ i = j
<1>1. i \in Nat /\ j \in Nat /\ k \in Nat
  BY RowTypes
<1>2. created[i] \in Nat /\ created[j] \in Nat /\ created[k] \in Nat
  BY RowTypes
<1> QED
  BY <1>1, <1>2 DEF Older, Key

(* A row that is older than one that is older than the cursor is older than the cursor. *)
LEMMA CursorOrder ==
    ASSUME created \in [Ids -> Times \cup {0}], NEW i \in Ids, NEW j \in Ids,
           NEW c \in Cursors,
           Older(Key(i), Key(j)), Older(Key(j), c)
    PROVE  Older(Key(i), c)
<1>1. i \in Nat /\ j \in Nat /\ created[i] \in Nat /\ created[j] \in Nat
  BY RowTypes
<1>2. c.at \in Nat /\ c.id \in Nat
  BY PagingAssumption DEF Cursors
<1> QED
  BY <1>1, <1>2 DEF Older, Key

(* The rows of S that come before row i in the listing, and those that come after it. *)
Newer(i, S)   == {j \in S : Older(Key(i), Key(j))}
Earlier(i, S) == {j \in S : Older(Key(j), Key(i))}

(* In a set of rows that is not empty one comes first in the listing, and one last. *)
LEMMA FirstAndLast ==
    ASSUME created \in [Ids -> Times \cup {0}], NEW S \in SUBSET Ids, S # {}
    PROVE  /\ \E i \in S : \A j \in S : ~Older(Key(i), Key(j))
           /\ \E i \in S : \A j \in S : Older(Key(i), Key(j)) \/ i = j
<1>1. IsFiniteSet(S)
  BY FS_Subset, PagingAssumption
<1>2. IsWellFoundedOn(StrictSubsetOrdering(S), SUBSET S)
  BY <1>1, FS_StrictSubsetOrderingWellFounded, FS_FiniteSubsetsOfFinite
<1>3. \E i \in S : \A j \in S : ~Older(Key(i), Key(j))
  <2> DEFINE T == {Newer(i, S) : i \in S}
  <2>0. \A i \in S : Newer(i, S) \in SUBSET S
    BY DEF Newer
  <2>1. T \subseteq SUBSET S /\ T # {}
    BY <2>0
  <2>2. PICK x \in T : \A y \in T : <<y, x>> \notin StrictSubsetOrdering(S)
    <3> HIDE DEF T
    <3> QED
      BY <1>2, <2>1, WFMin
  <2>3. PICK i \in S : x = Newer(i, S)
    OBVIOUS
  <2>4. ASSUME NEW j \in S, Older(Key(i), Key(j))
        PROVE  FALSE
    <3>1. Newer(j, S) \subseteq Newer(i, S)
      BY <2>4, RowOrder DEF Newer
    <3>2. j \in Newer(i, S) /\ j \notin Newer(j, S)
      BY <2>4, RowOrder DEF Newer
    <3>3. <<Newer(j, S), x>> \in StrictSubsetOrdering(S)
      <4>1. Newer(j, S) \in SUBSET S /\ x \in SUBSET S
        BY <2>1 DEF Newer
      <4> QED
        BY <4>1, <2>3, <3>1, <3>2 DEF StrictSubsetOrdering
    <3> QED
      BY <2>2, <3>3
  <2> QED
    BY <2>4
<1>4. \E i \in S : \A j \in S : Older(Key(i), Key(j)) \/ i = j
  <2> DEFINE T == {Earlier(i, S) : i \in S}
  <2>0. \A i \in S : Earlier(i, S) \in SUBSET S
    BY DEF Earlier
  <2>1. T \subseteq SUBSET S /\ T # {}
    BY <2>0
  <2>2. PICK x \in T : \A y \in T : <<y, x>> \notin StrictSubsetOrdering(S)
    <3> HIDE DEF T
    <3> QED
      BY <1>2, <2>1, WFMin
  <2>3. PICK i \in S : x = Earlier(i, S)
    OBVIOUS
  <2>4. ASSUME NEW j \in S, Older(Key(j), Key(i))
        PROVE  FALSE
    <3>1. Earlier(j, S) \subseteq Earlier(i, S)
      BY <2>4, RowOrder DEF Earlier
    <3>2. j \in Earlier(i, S) /\ j \notin Earlier(j, S)
      BY <2>4, RowOrder DEF Earlier
    <3>3. <<Earlier(j, S), x>> \in StrictSubsetOrdering(S)
      <4>1. Earlier(j, S) \in SUBSET S /\ x \in SUBSET S
        BY <2>1 DEF Earlier
      <4> QED
        BY <4>1, <2>3, <3>1, <3>2 DEF StrictSubsetOrdering
    <3> QED
      BY <2>2, <3>3
  <2> QED
    BY <2>4, RowOrder
<1> QED
  BY <1>3, <1>4

-----------------------------------------------------------------------------
(* Newest(S, n) is an upper part of S: with a row it has every row of S before it. *)
LEMMA NewestIsUpper ==
    ASSUME created \in [Ids -> Times \cup {0}], NEW S \in SUBSET Ids, NEW n \in Nat,
           NEW i \in Newest(S, n), NEW j \in S, Older(Key(i), Key(j))
    PROVE  j \in Newest(S, n)
<1>1. i \in S /\ Cardinality(Newer(i, S)) < n
  BY DEF Newest, Newer
<1>2. IsFiniteSet(Newer(i, S))
  BY FS_Subset, PagingAssumption DEF Newer
<1>3. Newer(j, S) \in SUBSET Newer(i, S)
  BY <1>1, RowOrder DEF Newer
<1>4. Cardinality(Newer(j, S)) <= Cardinality(Newer(i, S))
  BY <1>2, <1>3, FS_Subset
<1>5. Cardinality(Newer(j, S)) \in Nat /\ Cardinality(Newer(i, S)) \in Nat
  BY <1>2, <1>3, FS_Subset, FS_CardinalityType
<1>6. Cardinality(Newer(j, S)) < n
  BY <1>1, <1>4, <1>5
<1> QED
  BY <1>6 DEF Newest, Newer

(* If LIMIT n + 1 brings at most n rows, it brings them all. *)
LEMMA NoExtraRow ==
    ASSUME created \in [Ids -> Times \cup {0}], NEW S \in SUBSET Ids, NEW n \in Nat,
           Cardinality(Newest(S, n + 1)) <= n
    PROVE  Newest(S, n + 1) = S
<1> DEFINE items == Newest(S, n + 1)
<1>1. items \subseteq S
  BY DEF Newest
<1>2. IsFiniteSet(items) /\ Cardinality(items) \in Nat
  BY <1>1, FS_Subset, FS_CardinalityType, PagingAssumption
<1>3. ASSUME S \ items # {}
      PROVE  FALSE
  <2>1. S \ items \in SUBSET Ids
    OBVIOUS
  <2>2. PICK i \in S \ items : \A j \in S \ items : ~Older(Key(i), Key(j))
    <3> HIDE DEF items
    <3> QED
      BY <1>3, <2>1, FirstAndLast
  <2>3. Newer(i, S) \in SUBSET items
    BY <2>2 DEF Newer
  <2>4. Cardinality(Newer(i, S)) <= Cardinality(items) /\ Cardinality(Newer(i, S)) \in Nat
    BY <1>2, <2>3, FS_Subset, FS_CardinalityType
  <2>5. Cardinality(Newer(i, S)) < n + 1
    BY <1>2, <2>4
  <2>6. i \in items
    BY <2>2, <2>5 DEF Newest, Newer
  <2> QED
    BY <2>2, <2>6
<1> QED
  BY <1>1, <1>3

(* A set of at most n rows is the first n of itself. *)
LEMMA ShortPage ==
    ASSUME created \in [Ids -> Times \cup {0}], NEW S \in SUBSET Ids, NEW n \in Nat,
           Cardinality(S) <= n
    PROVE  Newest(S, n) = S
<1>1. IsFiniteSet(S) /\ Cardinality(S) \in Nat
  BY FS_Subset, FS_CardinalityType, PagingAssumption
<1>2. ASSUME NEW i \in S
      PROVE  Cardinality(Newer(i, S)) < n
  <2>1. Newer(i, S) \in SUBSET S /\ i \notin Newer(i, S)
    BY RowOrder DEF Newer
  <2>2. /\ Cardinality(Newer(i, S)) <= Cardinality(S)
        /\ Cardinality(Newer(i, S)) # Cardinality(S)
        /\ Cardinality(Newer(i, S)) \in Nat
    BY <1>1, <2>1, FS_Subset, FS_CardinalityType
  <2> QED
    BY <1>1, <2>2
<1> QED
  BY <1>2 DEF Newest, Newer

(* A page of a listing that is not empty has a row, and a last one. *)
LEMMA PageHasLast ==
    ASSUME created \in [Ids -> Times \cup {0}], NEW S \in SUBSET Ids, S # {},
           NEW n \in Nat \ {0}
    PROVE  /\ Last(Newest(S, n)) \in Newest(S, n)
           /\ \A j \in Newest(S, n) :
                  Older(Key(Last(Newest(S, n))), Key(j)) \/ Last(Newest(S, n)) = j
<1>1. PICK i \in S : \A j \in S : ~Older(Key(i), Key(j))
  BY FirstAndLast
<1>2. Newer(i, S) = {}
  BY <1>1 DEF Newer
<1>3. Cardinality(Newer(i, S)) < n
  BY <1>2, FS_EmptySet
<1>4. i \in Newest(S, n)
  BY <1>3 DEF Newest, Newer
<1>5. Newest(S, n) \in SUBSET Ids
  BY DEF Newest
<1>6. \E l \in Newest(S, n) : \A j \in Newest(S, n) : Older(Key(l), Key(j)) \/ l = j
  BY <1>4, <1>5, FirstAndLast
<1> QED
  BY <1>6 DEF Last

-----------------------------------------------------------------------------
(* What a GET asks for, the rows of one page and one more, and what it shows. *)
Items == Newest(Selected(before), limit + 1)
Page  == Newest(Items, limit)

(* What a page is: rows not shown before, none left out above its last one, and with
   no further page all that were asked for. *)
LEMMA PageFacts ==
    ASSUME TypeOK
    PROVE  /\ Page \subseteq Selected(before)
           /\ Selected(before) \subseteq Ids
           /\ \A i \in Page, j \in Selected(before) : Older(Key(i), Key(j)) => j \in Page
           /\ Cardinality(Items) > limit =>
                  /\ Last(Page) \in Page
                  /\ \A j \in Page : Older(Key(Last(Page)), Key(j)) \/ Last(Page) = j
           /\ ~(Cardinality(Items) > limit) => Page = Selected(before)
<1> USE DEF TypeOK
<1>1. limit \in Nat /\ limit + 1 \in Nat /\ limit \in Nat \ {0}
  BY PagingAssumption
<1>2. Selected(before) \in SUBSET Ids
  BY DEF Selected
<1>3. Items \subseteq Selected(before) /\ Page \subseteq Items
  BY DEF Items, Page, Newest
<1>4. Items \in SUBSET Ids
  BY <1>2, <1>3
<1>5. IsFiniteSet(Items) /\ Cardinality(Items) \in Nat
  BY <1>4, FS_Subset, FS_CardinalityType, PagingAssumption
<1>6. ASSUME NEW i \in Page, NEW j \in Selected(before), Older(Key(i), Key(j))
      PROVE  j \in Page
  <2>1. j \in Items
    BY <1>1, <1>2, <1>3, <1>6, NewestIsUpper DEF Items
  <2> QED
    BY <2>1, <1>1, <1>4, <1>6, NewestIsUpper DEF Page
<1>7. ASSUME Cardinality(Items) > limit
      PROVE  /\ Last(Page) \in Page
             /\ \A j \in Page : Older(Key(Last(Page)), Key(j)) \/ Last(Page) = j
  <2>1. Items # {}
    BY <1>1, <1>7, FS_EmptySet
  <2> QED
    BY <2>1, <1>1, <1>4, PageHasLast DEF Page
<1>8. ASSUME ~(Cardinality(Items) > limit)
      PROVE  Page = Selected(before)
  <2>1. Cardinality(Items) <= limit
    BY <1>1, <1>5, <1>8
  <2>2. Items = Selected(before)
    BY <2>1, <1>1, <1>2, NoExtraRow DEF Items
  <2>3. Page = Items
    BY <2>1, <1>1, <1>4, ShortPage DEF Page
  <2> QED
    BY <2>2, <2>3
<1> QED
  BY <1>2, <1>3, <1>6, <1>7, <1>8

-----------------------------------------------------------------------------
(* A page of a walk that goes on, or that ends, keeps the invariant. *)
LEMMA FetchKeeps ==
    ASSUME PageInv, FetchPage
    PROVE  PageInv'
<1>1. TypeOK /\ walk = "on"
  BY DEF PageInv, FetchPage
<1>2. /\ listed' = [i \in Ids |-> IF i \in Page THEN listed[i] + 1 ELSE listed[i]]
      /\ Cardinality(Items) > limit => before' = Key(Last(Page)) /\ walk' = walk
      /\ ~(Cardinality(Items) > limit) => walk' = "done" /\ before' = before
      /\ UNCHANGED <<created, matches, steady, moves>>
  BY DEF FetchPage, Show, Items, Page
<1>3. \A i \in Page : i \in Ids /\ i \in matches /\ created[i] # 0 /\ listed[i] = 0
  <2> SUFFICES ASSUME NEW i \in Page
               PROVE  i \in Ids /\ i \in matches /\ created[i] # 0 /\ listed[i] = 0
    OBVIOUS
  <2>1. i \in Selected(before) /\ i \in Ids
    BY <1>1, PageFacts
  <2>2. ~Passed(i) /\ i \in matches
    BY <2>1 DEF Selected, Passed
  <2>3. listed[i] = 0
    BY <1>1, <2>1, <2>2 DEF PageInv
  <2> QED
    BY <1>1, <2>1, <2>2, <2>3 DEF TypeOK
<1>4. \A i \in Ids : listed'[i] = IF i \in Page THEN 1 ELSE listed[i]
  BY <1>2, <1>3
<1>5. \A i \in steady : i \in Ids /\ i \in matches
  BY <1>1 DEF TypeOK
<1>6. CASE Cardinality(Items) > limit
  <2> DEFINE l == Last(Page)
  <2>1. /\ l \in Page /\ l \in Ids /\ created[l] # 0
        /\ \A j \in Page : Older(Key(l), Key(j)) \/ l = j
    BY <1>1, <1>3, <1>6, PageFacts
  <2>2. l \in Selected(before)
    BY <1>1, <2>1, PageFacts
  <2>3. before' = Key(l) /\ walk' = "on" /\ UNCHANGED <<created, matches, steady, moves>>
    BY <1>1, <1>2, <1>6
  <2> HIDE DEF l
  <2>4. before' \in Cursors /\ before' # NoCursor
    BY <1>1, <2>1, <2>3 DEF Key, Cursors, NoCursor, TypeOK
  <2>5. TypeOK'
    <3>1. listed' \in [Ids -> Nat]
      BY <1>1, <1>2 DEF TypeOK
    <3> QED
      BY <1>1, <2>3, <2>4, <3>1 DEF TypeOK
  <2>6. \A i \in Ids : Passed(i)' <=> ~Older(Key(i), Key(l))
    BY <2>3, <2>4 DEF Passed, Key
  <2>7. ASSUME NEW i \in Ids, Passed(i)
        PROVE  Passed(i)'
    <3>1. Older(Key(l), before) /\ before \in Cursors
      BY <1>1, <2>2, <2>7 DEF Selected, Passed, TypeOK
    <3>2. ~Older(Key(i), Key(l))
      BY <1>1, <2>1, <2>7, <3>1, CursorOrder DEF Passed, TypeOK
    <3> QED
      BY <2>6, <3>2
  <2>8. ASSUME NEW i \in Ids, listed'[i] # 0
        PROVE  listed'[i] = 1 /\ created'[i] # 0 /\ Passed(i)'
    <3>1. CASE i \in Page
      <4>1. ~Older(Key(i), Key(l))
        BY <1>1, <2>1, <2>8, <3>1, RowOrder DEF TypeOK
      <4> QED
        BY <1>3, <1>4, <2>3, <2>6, <3>1, <4>1
    <3>2. CASE i \notin Page
      <4>1. listed[i] # 0 /\ listed'[i] = listed[i]
        BY <1>4, <2>8, <3>2
      <4>2. listed[i] = 1 /\ created[i] # 0 /\ Passed(i)
        BY <1>1, <4>1 DEF PageInv
      <4> QED
        BY <2>3, <2>7, <4>1, <4>2
    <3> QED
      BY <3>1, <3>2
  <2>9. ASSUME NEW i \in steady', Passed(i)'
        PROVE  listed'[i] = 1
    <3>1. i \in steady /\ i \in Ids /\ i \in matches /\ ~Older(Key(i), Key(l))
      BY <1>5, <2>3, <2>6, <2>9
    <3>2. CASE Passed(i)
      <4>1. listed[i] = 1
        BY <1>1, <3>1, <3>2 DEF PageInv
      <4> QED
        BY <1>4, <3>1, <4>1
    <3>3. CASE ~Passed(i)
      <4>1. i \in Selected(before)
        BY <3>1, <3>3 DEF Selected, Passed
      <4>2. Older(Key(l), Key(i)) \/ l = i
        BY <1>1, <2>1, <3>1, RowOrder DEF TypeOK
      <4>3. i \in Page
        BY <1>1, <2>1, <4>1, <4>2, PageFacts
      <4> QED
        BY <1>4, <3>1, <4>3
    <3> QED
      BY <3>2, <3>3
  <2>10. NothingSkipped'
    BY <2>3 DEF NothingSkipped
  <2> QED
    BY <2>5, <2>8, <2>9, <2>10 DEF PageInv
<1>7. CASE ~(Cardinality(Items) > limit)
  <2>1. walk' = "done" /\ before' = before /\ UNCHANGED <<created, matches, steady, moves>>
    BY <1>2, <1>7
  <2>2. TypeOK'
    <3>1. listed' \in [Ids -> Nat]
      BY <1>1, <1>2 DEF TypeOK
    <3> QED
      BY <1>1, <2>1, <3>1 DEF TypeOK
  <2>3. ASSUME NEW i \in Ids, listed'[i] # 0
        PROVE  listed'[i] = 1 /\ created'[i] # 0
    <3>1. CASE i \in Page
      BY <1>3, <1>4, <2>1, <3>1
    <3>2. CASE i \notin Page
      BY <1>1, <1>4, <2>1, <2>3, <3>2 DEF PageInv
    <3> QED
      BY <3>1, <3>2
  <2>4. ASSUME NEW i \in steady'
        PROVE  listed'[i] = 1
    <3>1. i \in steady /\ i \in Ids /\ i \in matches
      BY <1>5, <2>1
    <3>2. CASE Passed(i)
      <4>1. listed[i] = 1
        BY <1>1, <3>1, <3>2 DEF PageInv
      <4> QED
        BY <1>4, <3>1, <4>1
    <3>3. CASE ~Passed(i)
      <4>1. i \in Selected(before)
        BY <3>1, <3>3 DEF Selected, Passed
      <4>2. i \in Page
        BY <1>1, <1>7, <4>1, PageFacts
      <4> QED
        BY <1>4, <3>1, <4>2
    <3> QED
      BY <3>2, <3>3
  <2>5. NothingSkipped'
    BY <2>4 DEF NothingSkipped
  <2> QED
    BY <2>1, <2>2, <2>3, <2>5 DEF PageInv
<1> QED
  BY <1>6, <1>7

(* A row that is inserted has not been shown and was not there from the start. *)
LEMMA InsertKeeps ==
    ASSUME PageInv, NEW n \in Ids, NEW at \in Times, InsertRow(n, at)
    PROVE  PageInv'
<1>1. TypeOK /\ created[n] = 0 /\ moves < MaxMoves
  BY DEF PageInv, InsertRow
<1>2. /\ moves' = moves + 1
      /\ created' = [created EXCEPT ![n] = at]
      /\ matches' = matches \/ matches' = matches \cup {n}
      /\ UNCHANGED <<before, listed, steady, walk>>
  BY DEF InsertRow
<1>3. at # 0 /\ at \in Times /\ created'[n] = at
  BY <1>1, <1>2, PagingAssumption DEF TypeOK
<1>4. \A i \in Ids : i # n => created'[i] = created[i]
  BY <1>1, <1>2 DEF TypeOK
<1>5. \A i \in Ids : i # n => (Passed(i)' <=> Passed(i))
  BY <1>2, <1>4 DEF Passed, Key
<1>6. listed[n] = 0 /\ n \notin steady
  BY <1>1 DEF PageInv, TypeOK
<1>7. TypeOK'
  <2>1. created' \in [Ids -> Times \cup {0}]
    BY <1>1, <1>2 DEF TypeOK
  <2>2. matches' \subseteq {i \in Ids : created'[i] # 0} /\ steady' \subseteq matches'
    BY <1>1, <1>2, <1>3, <1>4 DEF TypeOK
  <2>3. moves' \in 0 .. MaxMoves
    BY <1>1, <1>2, PagingAssumption DEF TypeOK
  <2> QED
    BY <1>1, <1>2, <2>1, <2>2, <2>3 DEF TypeOK
<1>8. ASSUME NEW i \in Ids, listed'[i] # 0
      PROVE  listed'[i] = 1 /\ created'[i] # 0 /\ (walk' = "on" => Passed(i)')
  <2>1. i # n /\ listed[i] # 0
    BY <1>2, <1>6, <1>8
  <2> QED
    BY <1>2, <1>4, <1>5, <2>1 DEF PageInv
<1>9. ASSUME walk' = "on", NEW i \in steady', Passed(i)'
      PROVE  listed'[i] = 1
  <2>1. i \in steady /\ i # n /\ i \in Ids
    BY <1>1, <1>2, <1>6, <1>9 DEF TypeOK
  <2> QED
    BY <1>2, <1>5, <1>9, <2>1 DEF PageInv
<1>10. NothingSkipped'
  BY <1>2 DEF PageInv, NothingSkipped
<1> QED
  BY <1>7, <1>8, <1>9, <1>10 DEF PageInv

(* A row that joins or leaves the filter is no longer one that was there all the time. *)
LEMMA MoveKeeps ==
    ASSUME PageInv, NEW n \in Ids, MoveRow(n)
    PROVE  PageInv'
<1>1. TypeOK /\ created[n] # 0 /\ moves < MaxMoves
  BY DEF PageInv, MoveRow
<1>2. /\ moves' = moves + 1
      /\ matches' = IF n \in matches THEN matches \ {n} ELSE matches \cup {n}
      /\ steady' = steady \ {n}
      /\ UNCHANGED <<created, before, listed, walk>>
  BY DEF MoveRow
<1>3. TypeOK'
  <2>1. matches' \subseteq {i \in Ids : created'[i] # 0} /\ steady' \subseteq matches'
    BY <1>1, <1>2 DEF TypeOK
  <2>2. moves' \in 0 .. MaxMoves
    BY <1>1, <1>2, PagingAssumption DEF TypeOK
  <2> QED
    BY <1>1, <1>2, <2>1, <2>2 DEF TypeOK
<1>4. \A i \in Ids : Passed(i)' <=> Passed(i)
  BY <1>2 DEF Passed, Key
<1>5. \A i \in Ids : listed'[i] # 0 =>
          listed'[i] = 1 /\ created'[i] # 0 /\ (walk' = "on" => Passed(i)')
  BY <1>2, <1>4 DEF PageInv
<1>6. ASSUME walk' = "on", NEW i \in steady', Passed(i)'
      PROVE  listed'[i] = 1
  <2>1. i \in steady /\ i \in Ids
    BY <1>1, <1>2 DEF TypeOK
  <2> QED
    BY <1>2, <1>4, <1>6, <2>1 DEF PageInv
<1>7. NothingSkipped'
  BY <1>2 DEF PageInv, NothingSkipped
<1> QED
  BY <1>3, <1>5, <1>6, <1>7 DEF PageInv

(* PageInv is an invariant: at first nothing is shown and the cursor has passed no row. *)
THEOREM WalkInvariant == Spec => []PageInv
<1>1. Init => PageInv
  <2> SUFFICES ASSUME Init
               PROVE  PageInv
    OBVIOUS
  <2>1. TypeOK
    <3>1. MaxMoves \in Nat
      BY PagingAssumption
    <3>2. moves \in 0 .. MaxMoves
      BY <3>1 DEF Init
    <3>3. before \in Cursors \cup {NoCursor} /\ listed \in [Ids -> Nat]
      BY DEF Init
    <3> QED
      BY <3>2, <3>3 DEF Init, TypeOK
  <2>2. \A i \in Ids : listed[i] = 0 /\ ~Passed(i)
    BY DEF Init, Passed
  <2>3. walk = "on" /\ steady \subseteq Ids
    BY DEF Init
  <2> QED
    BY <2>1, <2>2, <2>3 DEF PageInv, NothingSkipped
<1>2. PageInv /\ [Next]_vars => PageInv'
  <2> SUFFICES ASSUME PageInv, [Next]_vars
               PROVE  PageInv'
    OBVIOUS
  <2>1. CASE FetchPage
    BY <2>1, FetchKeeps
  <2>2. CASE \E i \in Ids : MoveRow(i)
    BY <2>2, MoveKeeps
  <2>3. CASE \E i \in Ids : \E at \in Times : InsertRow(i, at)
    BY <2>3, InsertKeeps
  <2>4. CASE UNCHANGED vars
    BY <2>4 DEF vars, PageInv, TypeOK, NothingSkipped, Passed, Key
  <2> QED
    BY <2>1, <2>2, <2>3, <2>4 DEF Next
<1> QED
  BY <1>1, <1>2, PTL DEF Spec

(* ApprovalPaging keeps its types. *)
THEOREM WalkTypes == Spec => []TypeOK
<1>1. PageInv => TypeOK
  BY DEF PageInv
<1> QED
  BY <1>1, WalkInvariant, PTL

(* However rows are inserted and decided under the walk, and whatever share of them has
   one created_at, list_approvals shows no approval twice. *)
THEOREM PagesShowOnce == Spec => []ShownOnce
<1>1. PageInv => ShownOnce
  BY DEF PageInv, ShownOnce
<1> QED
  BY <1>1, WalkInvariant, PTL

(* When list_approvals has given a page without next_cursor, the walk has shown every
   approval that the filter selected from the start to the end of the walk. *)
THEOREM PagesSkipNothing == Spec => []NothingSkipped
<1>1. PageInv => NothingSkipped
  BY DEF PageInv
<1> QED
  BY <1>1, WalkInvariant, PTL

=============================================================================
