---------------------------- MODULE PagingProofs ----------------------------
(* Proofs about Paging, for every page size and every bound on the ids.      *)
EXTENDS Paging, FiniteSetTheorems, TLAPS

-----------------------------------------------------------------------------
(* Arithmetic of pages and ranks *)

\* All rows fit on the pages that are counted.
LEMMA PagesHoldAll ==
  ASSUME NEW n \in Nat PROVE TotalPages(n) \in Nat /\ n <= TotalPages(n) * PageSize
<1>1. PageSize \in Nat /\ PageSize > 0
  BY PagingAssumption
<1>2. ASSUME NEW s \in Nat, s > 0, NEW m \in Nat
      PROVE  m \div s \in Nat /\ m < (m \div s) * s + s
  BY <1>2
<1>3. n + PageSize - 1 \in Nat
  BY <1>1
<1> DEFINE k == (n + PageSize - 1) \div PageSize
<1>4. k \in Nat /\ n + PageSize - 1 < k * PageSize + PageSize
  BY <1>1, <1>2, <1>3
<1>5. k * PageSize \in Nat
  BY <1>1, <1>4
<1> HIDE DEF k
<1>6. n <= k * PageSize
  BY <1>1, <1>4, <1>5
<1> QED BY <1>4, <1>6 DEF TotalPages, k

\* A page begins where the one before it ends.
LEMMA SkipNext ==
  ASSUME NEW p \in Nat \ {0}
  PROVE  /\ Skip(p) \in Nat
         /\ Skip(p) + PageSize = p * PageSize
         /\ Skip(p + 1) = Skip(p) + PageSize
<1>1. PageSize \in Nat
  BY PagingAssumption
<1>2. \A q \in Nat : q * PageSize \in Nat /\ (q + 1) * PageSize = q * PageSize + PageSize
  BY <1>1
<1>3. p - 1 \in Nat /\ (p - 1) + 1 = p /\ (p + 1) - 1 = p
  OBVIOUS
<1> QED BY <1>1, <1>2, <1>3 DEF Skip

LEMMA SkipFirst == Skip(1) = 0
  BY PagingAssumption DEF Skip

\* Monotony of products.
LEMMA TimesPageSize ==
  ASSUME NEW a \in Nat, NEW b \in Nat, a <= b PROVE a * PageSize <= b * PageSize
  BY PagingAssumption

LEMMA SubsetsAreFinite ==
  ASSUME NEW S \in SUBSET Ids
  PROVE  IsFiniteSet(S) /\ Cardinality(S) \in Nat
<1>1. IsFiniteSet(Ids)
  BY PagingAssumption, FS_Interval DEF Ids
<1> QED BY <1>1, FS_Subset, FS_CardinalityType

LEMMA SmallerSet ==
  ASSUME NEW T \in SUBSET Ids, NEW S \in SUBSET T
  PROVE  /\ Cardinality(S) \in Nat /\ Cardinality(T) \in Nat
         /\ Cardinality(S) <= Cardinality(T)
         /\ S # T => Cardinality(S) < Cardinality(T)
  BY SubsetsAreFinite, FS_Subset

\* A row has fewer rows in front of it than the list is long.
LEMMA RankBounded ==
  ASSUME items \subseteq Ids, NEW i \in items
  PROVE  Rank(i) \in Nat /\ Rank(i) < Cardinality(items)
<1> DEFINE S == {j \in items : Precedes(j, i)}
<1>1. i \in Nat /\ i \notin S
  BY DEF Ids, Precedes
<1>2. S \subseteq items /\ S # items
  BY <1>1
<1> HIDE DEF S
<1>3. Cardinality(S) \in Nat /\ Cardinality(S) < Cardinality(items)
  BY <1>2, SmallerSet
<1> QED BY <1>3 DEF Rank, S

LEMMA RankIsNat == /\ items \subseteq Ids => \A i : Rank(i) \in Nat
                   /\ items' \subseteq Ids => \A i : Rank(i)' \in Nat
<1>1. ASSUME items \subseteq Ids, NEW i PROVE Rank(i) \in Nat
  <2>1. {j \in items : Precedes(j, i)} \in SUBSET Ids
    BY <1>1
  <2> QED BY <2>1, SubsetsAreFinite DEF Rank
<1>2. ASSUME items' \subseteq Ids, NEW i PROVE Rank(i)' \in Nat
  <2>1. {j \in items' : Precedes(j, i)'} \in SUBSET Ids
    BY <1>2
  <2> QED BY <2>1, SubsetsAreFinite DEF Rank
<1> QED BY <1>1, <1>2

\* A list that grows moves no row forward, and none back either if nothing
\* came in front of it; one that shrinks moves no row back.
LEMMA RankOfGrowing ==
  ASSUME items' \subseteq Ids, items \subseteq items', list' = list, NEW i
  PROVE  Rank(i) <= Rank(i)'
<1> DEFINE S == {j \in items : Precedes(j, i)}
           T == {j \in items' : Precedes(j, i)}
<1>1. S \subseteq T /\ T \subseteq Ids
  OBVIOUS
<1>2. Rank(i) = Cardinality(S) /\ Rank(i)' = Cardinality(T)
  BY DEF Rank, Precedes
<1> HIDE DEF S, T
<1> QED BY <1>1, <1>2, SmallerSet

LEMMA RankOfShrinking ==
  ASSUME items \subseteq Ids, items' \subseteq items, list' = list, NEW i
  PROVE  Rank(i)' <= Rank(i)
<1> DEFINE S == {j \in items' : Precedes(j, i)}
           T == {j \in items : Precedes(j, i)}
<1>1. S \subseteq T /\ T \subseteq Ids
  OBVIOUS
<1>2. Rank(i)' = Cardinality(S) /\ Rank(i) = Cardinality(T)
  BY DEF Rank, Precedes
<1> HIDE DEF S, T
<1> QED BY <1>1, <1>2, SmallerSet

-----------------------------------------------------------------------------
(* Type correctness *)

TypeInv ==
  /\ TypeOK
  /\ next # None => next \in Nat \ {0}
  /\ pc # "query" => pending = {}

LEMMA TypeInit == Init => TypeInv
<1> SUFFICES ASSUME Init PROVE TypeInv
  OBVIOUS
<1>1. removed \in BOOLEAN /\ torn \in BOOLEAN /\ shifted \in BOOLEAN
  BY Zenon DEF Init
<1> QED BY <1>1 DEF Init, TypeInv, TypeOK, Queries

LEMMA TypeNext == TypeInv /\ [Next]_vars => TypeInv'
<1> SUFFICES ASSUME TypeInv, [Next]_vars PROVE TypeInv'
  OBVIOUS
<1> USE DEF TypeInv, TypeOK
<1>1. CASE Begin
  <2>1. removed' \in BOOLEAN /\ torn' \in BOOLEAN /\ shifted' \in BOOLEAN
    BY <1>1, Zenon DEF Begin
  <2> QED BY <1>1, <2>1 DEF Begin, Get, Queries
<1>2. CASE Follow
  BY <1>2 DEF Follow, Get, Queries, history
<1>3. CASE Count
  <2>1. Cardinality(items) \in Nat
    BY SubsetsAreFinite
  <2> QED BY <1>3, <2>1 DEF Count, history
<1>4. CASE Find
  <2>1. Page(page) \subseteq Ids
    BY DEF Page
  <2> QED BY <1>4, <2>1 DEF Find, history
<1>5. CASE Answer
  <2>1. next' = None \/ next' = page + 1
    BY <1>5 DEF Answer, NextPage
  <2>2. page + 1 \in Nat \ {0}
    OBVIOUS
  <2> QED BY <1>5, <2>1, <2>2 DEF Answer
<1>6. ASSUME NEW i \in Ids, Insert(i) PROVE TypeInv'
  BY <1>6 DEF Insert, request
<1>7. ASSUME NEW i \in Ids, Remove(i) PROVE TypeInv'
  BY <1>7 DEF Remove, request
<1>8. CASE UNCHANGED vars
  BY <1>8 DEF vars, request, history
<1> QED BY <1>1, <1>2, <1>3, <1>4, <1>5, <1>6, <1>7, <1>8 DEF Next

LEMMA TypeAlways == Spec => []TypeInv
  BY TypeInit, TypeNext, PTL DEF Spec

(* The state of a walk through a list always has its type.                   *)
THEOREM TypeCorrect == Spec => []TypeOK
<1>1. TypeInv => TypeOK
  BY DEF TypeInv
<1> QED BY <1>1, TypeAlways, PTL

-----------------------------------------------------------------------------
(* What a walk has got, and the rank from which on it has not looked.  Rows  *)
(* it has not got are at that rank or behind it; rows it has got in front.   *)

Fetched == pc = "query" /\ "find" \notin pending
Got     == IF Fetched THEN seen \cup data ELSE seen
Reached == IF pc = "query" /\ "find" \in pending THEN Skip(page)
                                                 ELSE Skip(page) + PageSize

Ahead == pc # "idle" /\ ~removed =>
           \A i \in start \ Got : i \in items /\ Rank(i) >= Reached

\* What the count says about rows that are still ahead.
Counted ==
  pc = "query" /\ "count" \notin pending /\ ~removed /\ ~torn =>
    IF "find" \in pending THEN total = Cardinality(items)
                          ELSE start \ Got # {} => total > Reached

Ended == pc = "got" /\ ~removed /\ ~torn =>
           IF next = None THEN start \subseteq seen ELSE next = page + 1

NextIsNext == pc = "got" /\ next # None => next = page + 1

Progress == Ahead /\ Counted /\ Ended /\ NextIsNext

LEMMA ProgressInit == Init => Progress
  BY DEF Init, Progress, Ahead, Counted, Ended, NextIsNext

LEMMA ProgressNext == TypeInv /\ TypeInv' /\ Progress /\ [Next]_vars => Progress'
<1> SUFFICES ASSUME TypeInv, TypeInv', Progress, [Next]_vars PROVE Progress'
  OBVIOUS
<1>t. items \subseteq Ids /\ items' \subseteq Ids /\ page \in Nat \ {0}
  BY DEF TypeInv, TypeOK
<1>p. PageSize \in Nat /\ Skip(page) \in Nat /\ Skip(page) + PageSize = page * PageSize
  BY <1>t, PagingAssumption, SkipNext
<1>r. \A i : Rank(i) \in Nat
  BY <1>t, RankIsNat, Zenon
<1>1. CASE Begin
  <2>1. pc' = "query" /\ pending' = {"count", "find"} /\ page' = 1
        /\ start' = items /\ items' = items /\ list' = list
    BY <1>1 DEF Begin, Get, Queries
  <2>2. Reached' = 0
    BY <2>1, SkipFirst DEF Reached, Skip
  <2>3. \A i : Rank(i)' = Rank(i)
    BY <2>1 DEF Rank, Precedes
  <2>4. Ahead'
    BY <1>r, <2>1, <2>2, <2>3 DEF Ahead
  <2> QED BY <2>1, <2>4 DEF Progress, Counted, Ended, NextIsNext
<1>2. CASE Follow
  <2>1. /\ pc = "got" /\ next = page + 1
        /\ pc' = "query" /\ pending' = {"count", "find"} /\ page' = next
        /\ UNCHANGED <<list, items, start, seen, removed>>
    BY <1>2 DEF Follow, Get, Queries, history, Progress, NextIsNext
  <2>2. Reached = Skip(page) + PageSize /\ Got = seen
    BY <2>1 DEF Reached, Got, Fetched
  <2>3. Reached' = Skip(page)' /\ Got' = seen'
    BY <2>1 DEF Reached, Got, Fetched
  <2>4. Skip(page)' = Skip(page + 1)
    BY <2>1 DEF Skip
  <2>5. Reached' = Reached
    BY <1>t, <2>2, <2>3, <2>4, SkipNext
  <2>6. \A i : Rank(i)' = Rank(i)
    BY <2>1 DEF Rank, Precedes
  <2>7. Ahead'
    BY <2>1, <2>2, <2>3, <2>5, <2>6 DEF Progress, Ahead
  <2> QED BY <2>1, <2>7 DEF Progress, Counted, Ended, NextIsNext
<1>3. CASE Count
  <2>1. /\ pc = "query" /\ "count" \in pending
        /\ total' = Cardinality(items) /\ pending' = pending \ {"count"}
        /\ UNCHANGED <<list, items, pc, page, data, next, start, seen, removed, torn>>
    BY <1>3 DEF Count, history, TypeInv
  <2>2. (\A i : Rank(i)' = Rank(i)) /\ Got' = Got /\ Reached' = Reached
        /\ Fetched' = Fetched
    BY <2>1 DEF Rank, Precedes, Got, Fetched, Reached, Skip
  <2>3. Ahead'
    BY <2>1, <2>2 DEF Progress, Ahead
  <2>4. ASSUME ~removed, NEW i \in start \ Got PROVE total' > Reached
    <3>1. i \in items /\ Rank(i) >= Reached
      BY <2>1, <2>4 DEF Progress, Ahead
    <3>2. Rank(i) < Cardinality(items) /\ Cardinality(items) \in Nat
      BY <1>t, <3>1, RankBounded, SubsetsAreFinite
    <3>3. Reached \in Nat
      BY <1>p DEF Reached
    <3> QED BY <1>r, <2>1, <3>1, <3>2, <3>3
  <2>5. Counted'
    BY <2>1, <2>2, <2>4 DEF Counted
  <2> QED BY <2>1, <2>3, <2>5 DEF Progress, Ended, NextIsNext
<1>4. CASE Find
  <2>1. /\ pc = "query" /\ "find" \in pending
        /\ data' = Page(page) /\ pending' = pending \ {"find"}
        /\ UNCHANGED <<list, items, pc, page, total, next, start, seen, removed, torn>>
    BY <1>4 DEF Find, history, TypeInv
  <2>2. \A i : Rank(i)' = Rank(i)
    BY <2>1 DEF Rank, Precedes
  <2>3. Got = seen /\ Reached = Skip(page) /\ Got' = seen \cup Page(page)
        /\ Reached' = Skip(page) + PageSize
    BY <2>1 DEF Got, Fetched, Reached, Skip
  <2>4. ASSUME ~removed, NEW i \in start \ Got'
        PROVE  i \in items /\ Rank(i) >= Reached'
    <3>1. i \in items /\ Rank(i) >= Skip(page)
      BY <2>1, <2>3, <2>4 DEF Progress, Ahead
    <3>2. i \notin Page(page)
      BY <2>3, <2>4
    <3> QED BY <1>p, <1>r, <2>3, <3>1, <3>2 DEF Page
  <2>5. Ahead'
    BY <2>1, <2>2, <2>4 DEF Ahead
  <2>6. Counted'
    <3> SUFFICES ASSUME ~removed, ~torn, "count" \notin pending,
                        NEW i \in start \ Got'
                 PROVE  total > Reached'
      BY <2>1 DEF Counted
    <3>1. total = Cardinality(items)
      BY <2>1 DEF Progress, Counted
    <3>2. Rank(i) < Cardinality(items) /\ Cardinality(items) \in Nat
      BY <1>t, <2>4, RankBounded, SubsetsAreFinite
    <3> QED BY <1>p, <1>r, <2>3, <2>4, <3>1, <3>2
  <2> QED BY <2>1, <2>5, <2>6 DEF Progress, Ended, NextIsNext
<1>5. CASE Answer
  <2>1. /\ pc = "query" /\ pending = {} /\ pc' = "got"
        /\ next' = NextPage(page, total) /\ seen' = seen \cup data
        /\ UNCHANGED <<list, items, page, start, removed, torn>>
    BY <1>5 DEF Answer
  <2>2. \A i : Rank(i)' = Rank(i)
    BY <2>1 DEF Rank, Precedes
  <2>3. Got = seen \cup data /\ Reached = Skip(page) + PageSize
        /\ Got' = seen \cup data /\ Reached' = Skip(page) + PageSize
    BY <2>1 DEF Got, Fetched, Reached, Skip
  <2>4. Ahead'
    BY <2>1, <2>2, <2>3 DEF Progress, Ahead
  <2>5. page + 1 \in Nat /\ page + 1 # None
    BY <1>t, PagingAssumption
  <2>6. next' # None => next' = page + 1
    BY <2>1 DEF NextPage
  <2>7. ASSUME ~removed, ~torn, next' = None PROVE start \subseteq seen'
    <3>1. total \in Nat /\ TotalPages(total) \in Nat
          /\ total <= TotalPages(total) * PageSize
      BY PagesHoldAll DEF TypeInv, TypeOK
    <3>2. TotalPages(total) <= page
      BY <1>t, <2>1, <2>5, <2>7, <3>1 DEF NextPage
    <3>3. TotalPages(total) * PageSize <= page * PageSize
      BY <1>t, <3>1, <3>2, TimesPageSize
    <3>4. TotalPages(total) * PageSize \in Nat /\ page * PageSize \in Nat
      BY <1>t, <1>p, <3>1
    <3>5. total <= Reached /\ Reached \in Nat
      BY <1>p, <2>3, <3>1, <3>3, <3>4
    <3>6. start \ Got = {}
      BY <2>1, <2>7, <3>1, <3>5 DEF Progress, Counted
    <3> QED BY <2>1, <2>3, <3>6
  <2>8. Ended'
    BY <2>1, <2>6, <2>7 DEF Ended
  <2> QED BY <2>1, <2>4, <2>6, <2>8 DEF Progress, Counted, NextIsNext
<1>6. ASSUME NEW i \in Ids, Insert(i) PROVE Progress'
  <2>1. /\ items \subseteq items'
        /\ torn => torn'
        /\ pc = "query" /\ pending \notin {Queries, {}} => torn'
        /\ UNCHANGED <<list, pc, page, pending, total, data, next, start, seen,
                       removed>>
    BY <1>6 DEF Insert, request
  <2>2. \A j : Rank(j) <= Rank(j)'
    BY <1>t, <2>1, RankOfGrowing
  <2>3. Got' = Got /\ Reached' = Reached
    BY <2>1 DEF Got, Fetched, Reached, Skip
  <2>4. Reached \in Nat /\ \A j : Rank(j)' \in Nat
    <3>1. \A j : Rank(j)' \in Nat
      BY <1>t, RankIsNat, Zenon
    <3> QED BY <1>p, <3>1 DEF Reached
  <2>5. Ahead'
    BY <1>r, <2>1, <2>2, <2>3, <2>4 DEF Progress, Ahead
  <2>6. Counted'
    BY <2>1, <2>3 DEF Progress, Counted, Queries
  <2> QED BY <2>1, <2>5, <2>6 DEF Progress, Ended, NextIsNext
<1>7. ASSUME NEW i \in Ids, Remove(i) PROVE Progress'
  BY <1>7 DEF Remove, request, Progress, Ahead, Counted, Ended, NextIsNext
<1>8. CASE UNCHANGED vars
  <2>1. \A i : Rank(i)' = Rank(i)
    BY <1>8 DEF vars, Rank, Precedes
  <2>2. Got' = Got /\ Reached' = Reached
    BY <1>8 DEF vars, request, history, Got, Fetched, Reached, Skip
  <2> QED BY <1>8, <2>1, <2>2
          DEF vars, request, history, Progress, Ahead, Counted, Ended, NextIsNext
<1> QED BY <1>1, <1>2, <1>3, <1>4, <1>5, <1>6, <1>7, <1>8 DEF Next

LEMMA ProgressAlways == Spec => []Progress
<1>1. TypeInv /\ TypeInv' /\ Progress /\ [Next]_vars => Progress'
  BY ProgressNext
<1> QED BY <1>1, ProgressInit, TypeAlways, PTL DEF Spec

(* A client that follows nextPage to its end gets every row that was there   *)
(* when it began, unless a row was removed or came between the two queries   *)
(* of one request.                                                           *)
THEOREM NothingIsSkipped == Spec => []NothingSkipped
<1>1. Progress => NothingSkipped
  BY DEF Progress, Ended, NothingSkipped, Finished
<1> QED BY <1>1, ProgressAlways, PTL

-----------------------------------------------------------------------------
(* As long as nothing came in front of a row, what a walk has got is in      *)
(* front of what it asks for next.                                           *)

Behind ==
  pc # "idle" /\ ~shifted =>
    /\ repeated = {}
    /\ \A i \in Got \cap items : Rank(i) < Reached
    /\ Fetched => seen \cap data = {}

\* What a walk has got was in the list, and is never inserted again.
Once == /\ Behind
        /\ Got \subseteq used
        /\ pc = "idle" => repeated = {}

LEMMA OnceInit == Init => Once
  BY DEF Init, Once, Behind, Got, Fetched

LEMMA OnceNext ==
  TypeInv /\ TypeInv' /\ Progress /\ Once /\ [Next]_vars => Once'
<1> SUFFICES ASSUME TypeInv, TypeInv', Progress, Once, [Next]_vars PROVE Once'
  OBVIOUS
<1>t. items \subseteq Ids /\ items' \subseteq Ids /\ items \subseteq used
      /\ page \in Nat \ {0}
  BY DEF TypeInv, TypeOK
<1>p. PageSize \in Nat /\ PageSize > 0 /\ Skip(page) \in Nat
  BY <1>t, PagingAssumption, SkipNext
<1>r. \A i : Rank(i) \in Nat
  BY <1>t, RankIsNat, Zenon
<1>s. \A i : Rank(i)' \in Nat
  BY <1>t, RankIsNat, Zenon
<1>1. CASE Begin
  <2>1. pc' = "query" /\ "find" \in pending' /\ seen' = {} /\ repeated' = {}
    BY <1>1 DEF Begin, Get, Queries
  <2>2. Got' = {} /\ ~Fetched'
    BY <2>1 DEF Got, Fetched
  <2> QED BY <2>1, <2>2 DEF Once, Behind
<1>2. CASE Follow
  <2>1. /\ pc = "got" /\ next = page + 1
        /\ pc' = "query" /\ "find" \in pending' /\ page' = next
        /\ UNCHANGED <<list, items, used, seen, repeated, shifted>>
    BY <1>2 DEF Follow, Get, Queries, history, Progress, NextIsNext
  <2>2. Reached = Skip(page) + PageSize /\ Got = seen
    BY <2>1 DEF Reached, Got, Fetched
  <2>3. Reached' = Skip(page)' /\ Got' = seen /\ ~Fetched'
    BY <2>1 DEF Reached, Got, Fetched
  <2>4. Skip(page)' = Skip(page + 1)
    BY <2>1 DEF Skip
  <2>5. Reached' = Reached
    BY <1>t, <2>2, <2>3, <2>4, SkipNext
  <2>6. \A i : Rank(i)' = Rank(i)
    BY <2>1 DEF Rank, Precedes
  <2> QED BY <2>1, <2>2, <2>3, <2>5, <2>6 DEF Once, Behind
<1>3. CASE Count
  <2>1. /\ "find" \in pending' <=> "find" \in pending
        /\ UNCHANGED <<list, items, used, pc, page, data, seen, repeated, shifted>>
    BY <1>3 DEF Count, history
  <2>2. (\A i : Rank(i)' = Rank(i)) /\ Got' = Got /\ Reached' = Reached
        /\ (Fetched' <=> Fetched)
    BY <2>1 DEF Rank, Precedes, Got, Fetched, Reached, Skip
  <2> QED BY <2>1, <2>2 DEF Once, Behind
<1>4. CASE Find
  <2>1. /\ pc = "query" /\ "find" \in pending /\ "find" \notin pending'
        /\ data' = Page(page)
        /\ UNCHANGED <<list, items, used, pc, page, seen, repeated, shifted>>
    BY <1>4 DEF Find, history, TypeInv
  <2>2. \A i : Rank(i)' = Rank(i)
    BY <2>1 DEF Rank, Precedes
  <2>3. Got = seen /\ Reached = Skip(page) /\ Got' = seen \cup Page(page)
        /\ Reached' = Skip(page) + PageSize
    BY <2>1 DEF Got, Fetched, Reached, Skip
  <2>4. \A i \in Page(page) : i \in items /\ Skip(page) <= Rank(i)
                              /\ Rank(i) < Skip(page) + PageSize
    BY DEF Page
  <2>5. ASSUME ~shifted
        PROVE  /\ \A i \in Got' \cap items : Rank(i) < Skip(page) + PageSize
               /\ seen \cap Page(page) = {}
    <3>1. \A i \in seen \cap items : Rank(i) < Skip(page)
      BY <2>1, <2>3, <2>5 DEF Once, Behind
    <3> QED BY <1>p, <1>r, <2>3, <2>4, <3>1
  <2>6. Behind'
    BY <2>1, <2>2, <2>3, <2>5 DEF Once, Behind
  <2>7. Got' \subseteq used'
    BY <1>t, <2>1, <2>3, <2>4 DEF Once
  <2> QED BY <2>1, <2>6, <2>7 DEF Once
<1>5. CASE Answer
  <2>1. /\ pc = "query" /\ "find" \notin pending /\ pc' = "got"
        /\ seen' = seen \cup data
        /\ repeated' = repeated \cup (seen \cap data)
        /\ UNCHANGED <<list, items, used, page, shifted>>
    BY <1>5 DEF Answer
  <2>2. \A i : Rank(i)' = Rank(i)
    BY <2>1 DEF Rank, Precedes
  <2>3. Got' = Got /\ Reached' = Reached /\ Fetched /\ ~Fetched'
    BY <2>1 DEF Got, Fetched, Reached, Skip
  <2> QED BY <2>1, <2>2, <2>3 DEF Once, Behind
<1>6. ASSUME NEW i \in Ids, Insert(i) PROVE Once'
  <2>1. /\ i \notin used /\ items' = items \cup {i} /\ used' = used \cup {i}
        /\ UNCHANGED <<list, pc, page, pending, data, seen, repeated>>
    BY <1>6 DEF Insert, request
  <2>2. Got' = Got /\ Reached' = Reached /\ (Fetched' <=> Fetched)
    BY <2>1 DEF Got, Fetched, Reached, Skip
  <2>3. ~shifted' => ~shifted /\ \A j \in items : ~Precedes(i, j)
    BY <1>6 DEF Insert
  <2>4. ASSUME ~shifted', NEW j \in items PROVE Rank(j)' = Rank(j)
    <3>1. {k \in items' : Precedes(k, j)} = {k \in items : Precedes(k, j)}
      BY <2>1, <2>3, <2>4
    <3>2. {k \in items' : Precedes(k, j)'} = {k \in items' : Precedes(k, j)}
      BY <2>1 DEF Precedes
    <3> QED BY <3>1, <3>2 DEF Rank
  <2>5. Got' \cap items' \subseteq Got \cap items
    BY <2>1, <2>2 DEF Once
  <2>6. Behind'
    BY <2>1, <2>2, <2>3, <2>4, <2>5 DEF Once, Behind
  <2> QED BY <2>1, <2>2, <2>6 DEF Once
<1>7. ASSUME NEW i \in Ids, Remove(i) PROVE Once'
  <2>1. /\ items' \subseteq items
        /\ UNCHANGED <<list, used, pc, page, pending, data, seen, repeated, shifted>>
    BY <1>7 DEF Remove, request
  <2>2. Got' = Got /\ Reached' = Reached /\ (Fetched' <=> Fetched)
    BY <2>1 DEF Got, Fetched, Reached, Skip
  <2>3. \A j : Rank(j)' <= Rank(j)
    BY <1>t, <2>1, RankOfShrinking
  <2>4. Reached \in Nat
    BY <1>p DEF Reached
  <2>5. Behind'
    BY <1>r, <1>s, <2>1, <2>2, <2>3, <2>4 DEF Once, Behind
  <2> QED BY <2>1, <2>2, <2>5 DEF Once
<1>8. CASE UNCHANGED vars
  <2>1. (\A i : Rank(i)' = Rank(i)) /\ Got' = Got /\ Reached' = Reached
        /\ (Fetched' <=> Fetched)
    BY <1>8 DEF vars, request, history, Rank, Precedes, Got, Fetched, Reached, Skip
  <2> QED BY <1>8, <2>1 DEF vars, request, history, Once, Behind
<1> QED BY <1>1, <1>2, <1>3, <1>4, <1>5, <1>6, <1>7, <1>8 DEF Next

(* A client that follows nextPage gets a row a second time only if during    *)
(* the walk another row came in front of one of the list.                    *)
THEOREM NothingComesTwice == Spec => []NothingTwice
<1>1. TypeInv /\ TypeInv' /\ Progress /\ Once /\ [Next]_vars => Once'
  BY OnceNext
<1>2. Once => NothingTwice
  BY DEF Once, Behind, NothingTwice
<1> QED BY <1>1, <1>2, OnceInit, TypeAlways, ProgressAlways, PTL DEF Spec

-----------------------------------------------------------------------------
(* The pages of a list that stands still                                     *)

\* Two rows of a list do not have the same rank.
LEMMA RankIsOneToOne ==
  ASSUME items \subseteq Ids, list \in {"messages", "conversations"},
         NEW i \in items, NEW j \in items, i # j
  PROVE  Rank(i) # Rank(j)
<1> DEFINE Front(k) == {l \in items : Precedes(l, k)}
<1>1. ASSUME NEW a \in items, NEW b \in items, Precedes(a, b)
      PROVE  Rank(a) < Rank(b)
  <2>i. items \subseteq Int
    BY PagingAssumption DEF Ids
  <2>1. Front(a) \subseteq Front(b) /\ a \in Front(b) /\ a \notin Front(a)
    <3>1. \A l \in items : Precedes(l, a) => Precedes(l, b)
      BY <1>1, <2>i DEF Precedes
    <3>2. ~Precedes(a, a)
      BY <2>i DEF Precedes
    <3> QED BY <1>1, <3>1, <3>2
  <2>2. Front(b) \in SUBSET Ids
    OBVIOUS
  <2> HIDE DEF Front
  <2>3. Cardinality(Front(a)) < Cardinality(Front(b))
    BY <2>1, <2>2, SmallerSet
  <2> QED BY <2>3 DEF Rank, Front
<1>2. Precedes(i, j) \/ Precedes(j, i)
  BY DEF Precedes, Ids
<1>3. Rank(i) \in Nat /\ Rank(j) \in Nat
  BY RankBounded
<1> QED BY <1>1, <1>2, <1>3

\* Every natural number is on exactly one page of ranks.
LEMMA RankHasPage ==
  ASSUME NEW r \in Nat
  PROVE  \E p \in Nat \ {0} : Skip(p) <= r /\ r < Skip(p) + PageSize
<1>1. PageSize \in Nat /\ PageSize > 0
  BY PagingAssumption
<1>2. ASSUME NEW s \in Nat, s > 0
      PROVE  r \div s \in Nat /\ (r \div s) * s <= r /\ r < (r \div s) * s + s
  BY <1>2
<1> DEFINE q == r \div PageSize
<1>3. q \in Nat /\ q * PageSize <= r /\ r < q * PageSize + PageSize
  BY <1>1, <1>2
<1> HIDE DEF q
<1>4. q + 1 \in Nat \ {0} /\ (q + 1) - 1 = q
  BY <1>3
<1> QED BY <1>3, <1>4 DEF Skip

(* A list that stands still is cut into the pages that its count promises:   *)
(* every row is on exactly one page from 1 to totalPages, and no page has    *)
(* more rows than were asked for.                                            *)
THEOREM PagesPartitionTheList ==
  ASSUME items \subseteq Ids, list \in {"messages", "conversations"}
  PROVE  /\ \A i \in items :
              \E p \in 1 .. TotalPages(Cardinality(items)) :
                \A q \in Nat \ {0} : i \in Page(q) <=> q = p
         /\ \A p \in Nat \ {0} : Cardinality(Page(p)) <= PageSize
<1>s. PageSize \in Nat /\ PageSize > 0
  BY PagingAssumption
<1>c. Cardinality(items) \in Nat
  BY SubsetsAreFinite
<1> DEFINE last == TotalPages(Cardinality(items))
<1>l. last \in Nat /\ Cardinality(items) <= last * PageSize
  BY <1>c, PagesHoldAll
<1> HIDE DEF last
<1>1. ASSUME NEW p \in Nat \ {0}, NEW q \in Nat \ {0}, p < q
      PROVE  Skip(p) + PageSize <= Skip(q)
  <2>1. p <= q - 1 /\ q - 1 \in Nat
    BY <1>1
  <2> QED BY <2>1, SkipNext, TimesPageSize DEF Skip
<1>2. ASSUME NEW i \in items
      PROVE  \E p \in 1 .. last : \A q \in Nat \ {0} : i \in Page(q) <=> q = p
  <2>1. Rank(i) \in Nat /\ Rank(i) < Cardinality(items)
    BY RankBounded
  <2>2. PICK p \in Nat \ {0} : Skip(p) <= Rank(i) /\ Rank(i) < Skip(p) + PageSize
    BY <2>1, RankHasPage
  <2>3. p <= last
    <3> SUFFICES ASSUME last < p PROVE FALSE
      BY <1>l
    <3>1. last <= p - 1 /\ p - 1 \in Nat
      BY <1>l
    <3>2. last * PageSize <= Skip(p)
      BY <1>l, <3>1, TimesPageSize DEF Skip
    <3>3. last * PageSize \in Nat /\ Skip(p) \in Nat
      BY <1>l, <1>s, SkipNext
    <3> QED BY <1>l, <1>c, <2>1, <2>2, <3>2, <3>3
  <2>4. \A q \in Nat \ {0} : Skip(q) \in Nat
    BY SkipNext
  <2>5. \A q \in Nat \ {0} : i \in Page(q) <=> q = p
    BY <1>1, <1>s, <2>1, <2>2, <2>4 DEF Page
  <2> QED BY <1>l, <2>2, <2>3, <2>5
<1>3. ASSUME NEW p \in Nat \ {0} PROVE Cardinality(Page(p)) <= PageSize
  <2> DEFINE Ranks == Skip(p) .. Skip(p) + PageSize - 1
             f == [i \in Page(p) |-> Rank(i)]
  <2>1. Skip(p) \in Nat
    BY SkipNext
  <2>2. IsFiniteSet(Ranks) /\ Cardinality(Ranks) = PageSize
    <3>1. Skip(p) \in Int /\ Skip(p) + PageSize - 1 \in Int
      BY <2>1, <1>s
    <3> QED BY <3>1, <2>1, <1>s, FS_Interval
  <2>3. \A i \in Page(p) : Rank(i) \in Ranks /\ i \in items
    BY <1>s, <2>1, RankBounded DEF Page
  <2>4. f \in Injection(Page(p), Ranks)
    BY <2>3, RankIsOneToOne, Zenon DEF Injection, IsInjective
  <2> HIDE DEF f, Ranks
  <2> QED BY <2>2, <2>4, FS_Injection
<1> QED BY <1>2, <1>3 DEF last

-----------------------------------------------------------------------------
(* How long a walk gets.  A page after the first one is asked for only when  *)
(* a count said that it exists.                                              *)

PageLimit == TotalPages(MaxId)

Bounded ==
  /\ total <= MaxId
  /\ pc # "idle" => page = 1 \/ page <= PageLimit
  /\ pc = "got" /\ next # None => next <= PageLimit /\ next = page + 1

\* A shorter list has no more pages.
LEMMA TotalPagesGrows ==
  ASSUME NEW m \in Nat, NEW n \in Nat, m <= n
  PROVE  /\ TotalPages(m) \in Nat /\ TotalPages(n) \in Nat
         /\ TotalPages(m) <= TotalPages(n)
<1>1. PageSize \in Nat /\ PageSize > 0
  BY PagingAssumption
<1>2. ASSUME NEW s \in Nat, s > 0, NEW a \in Nat, NEW b \in Nat, a <= b
      PROVE  a \div s \in Nat /\ b \div s \in Nat /\ a \div s <= b \div s
  BY <1>2
<1>3. m + PageSize - 1 \in Nat /\ n + PageSize - 1 \in Nat
  BY <1>1
<1>4. m + PageSize - 1 <= n + PageSize - 1
  BY <1>1
<1> QED BY <1>1, <1>2, <1>3, <1>4 DEF TotalPages

LEMMA BoundedInit == Init => Bounded
  BY PagingAssumption DEF Init, Bounded

LEMMA BoundedNext == TypeInv /\ TypeInv' /\ Bounded /\ [Next]_vars => Bounded'
<1> SUFFICES ASSUME TypeInv, TypeInv', Bounded, [Next]_vars PROVE Bounded'
  OBVIOUS
<1>n. MaxId \in Nat /\ None \notin Nat
  BY PagingAssumption
<1>t. items \subseteq Ids /\ page \in Nat \ {0} /\ total \in Nat
  BY DEF TypeInv, TypeOK
<1>1. CASE Begin
  BY <1>1 DEF Begin, Get, Bounded
<1>2. CASE Follow
  BY <1>2 DEF Follow, Get, Bounded
<1>3. CASE Count
  <2>1. Cardinality(items) <= MaxId
    <3>1. Cardinality(Ids) = MaxId
      BY <1>n, FS_Interval DEF Ids
    <3> QED BY <1>t, <3>1, SmallerSet
  <2> QED BY <1>3, <2>1 DEF Count, Bounded
<1>4. CASE Find
  BY <1>4 DEF Find, Bounded
<1>5. CASE Answer
  <2>1. /\ TotalPages(total) \in Nat /\ PageLimit \in Nat
        /\ TotalPages(total) <= PageLimit
    BY <1>n, <1>t, TotalPagesGrows DEF Bounded, PageLimit
  <2>2. next' # None => page < TotalPages(total) /\ next' = page + 1
    BY <1>5, <1>t, <2>1 DEF Answer, NextPage
  <2>3. next' # None => next' <= PageLimit
    BY <1>t, <2>1, <2>2
  <2> QED BY <1>5, <2>2, <2>3 DEF Answer, Bounded
<1>6. ASSUME NEW i \in Ids, Insert(i) PROVE Bounded'
  BY <1>6 DEF Insert, request, Bounded
<1>7. ASSUME NEW i \in Ids, Remove(i) PROVE Bounded'
  BY <1>7 DEF Remove, request, Bounded
<1>8. CASE UNCHANGED vars
  BY <1>8 DEF vars, request, Bounded
<1> HIDE DEF Bounded
<1> QED BY <1>1, <1>2, <1>3, <1>4, <1>5, <1>6, <1>7, <1>8 DEF Next

LEMMA BoundedAlways == Spec => []Bounded
<1>1. TypeInv /\ TypeInv' /\ Bounded /\ [Next]_vars => Bounded'
  BY BoundedNext
<1> QED BY <1>1, BoundedInit, TypeAlways, PTL DEF Spec

(* A walk asks for no page behind those that the longest list has, however   *)
(* the list changes under it: it is as long as the list can get, here MaxId. *)
THEOREM WalksAreBounded ==
  Spec => [](pc # "idle" => page = 1 \/ page <= TotalPages(MaxId))
<1>1. Bounded => (pc # "idle" => page = 1 \/ page <= TotalPages(MaxId))
  BY DEF Bounded, PageLimit
<1> QED BY <1>1, BoundedAlways, PTL

-----------------------------------------------------------------------------
(* Fairness, written out.  The formulas speak of the infinite future, so     *)
(* that the [] before QueriesServed adds nothing.                            *)

CanCount  == "count" \in pending
CanFind   == "find" \in pending /\ (list = "conversations" => "count" \notin pending)
CanAnswer == pc = "query" /\ pending = {}
CanFollow == pc = "got" /\ next # None

QueriesServed ==
  /\ []<>~CanCount  \/ []<><<Count>>_vars
  /\ []<>~CanFind   \/ []<><<Find>>_vars
  /\ []<>~CanAnswer \/ []<><<Answer>>_vars
  /\ []<>~CanFollow \/ []<><<Follow>>_vars

\* A request for page p with the queries qs open, and its answer.
Asked(p, qs) == pc = "query" /\ page = p /\ pending = qs
Told(p)      == pc = "got" /\ page = p /\ (next = None \/ next = p + 1)

WalkInv == TypeInv /\ Progress

\* What a step of the system does to a request.
LEMMA RequestMoves ==
  ASSUME WalkInv, [Next]_vars, NEW p \in Nat, NEW qs \in SUBSET Queries, Asked(p, qs)
  PROVE  \/ Asked(p, qs)'
         \/ Count /\ "count" \in qs /\ Asked(p, qs \ {"count"})'
         \/ Find /\ "find" \in qs /\ Asked(p, qs \ {"find"})'
         \/ Answer /\ qs = {} /\ Told(p)'
<1>1. CASE Begin
  BY <1>1 DEF Begin, Walking, Finished, Asked
<1>2. CASE Follow
  BY <1>2 DEF Follow, Asked
<1>3. CASE Count
  BY <1>3 DEF Count, Asked
<1>4. CASE Find
  BY <1>4 DEF Find, Asked
<1>5. CASE Answer
  BY <1>5 DEF Answer, NextPage, Asked, Told
<1>6. ASSUME NEW i \in Ids, Insert(i) \/ Remove(i) PROVE Asked(p, qs)'
  BY <1>6 DEF Insert, Remove, request, Asked
<1>7. CASE UNCHANGED vars
  BY <1>7 DEF vars, request, Asked
<1> QED BY <1>1, <1>2, <1>3, <1>4, <1>5, <1>6, <1>7 DEF Next

\* What a step does between two requests of a walk.
LEMMA AnswerMoves ==
  ASSUME WalkInv, [Next]_vars, NEW p \in Nat, Told(p), next # None
  PROVE  \/ (Told(p) /\ next # None)'
         \/ Follow /\ Asked(p + 1, Queries)'
<1>1. CASE Begin
  BY <1>1 DEF Begin, Walking, Finished, Told
<1>2. CASE Follow
  BY <1>2 DEF Follow, Get, Asked, Told
<1>3. CASE Count
  BY <1>3 DEF Count, WalkInv, TypeInv, Told
<1>4. CASE Find
  BY <1>4 DEF Find, WalkInv, TypeInv, Told
<1>5. CASE Answer
  BY <1>5 DEF Answer, Told
<1>6. ASSUME NEW i \in Ids, Insert(i) \/ Remove(i) PROVE (Told(p) /\ next # None)'
  BY <1>6 DEF Insert, Remove, request, Told
<1>7. CASE UNCHANGED vars
  BY <1>7 DEF vars, request, Told
<1> QED BY <1>1, <1>2, <1>3, <1>4, <1>5, <1>6, <1>7 DEF Next

(* A walk that is at a page ends there or gets to the page after it, if the  *)
(* database answers and the client goes on.  Whether there is always another *)
(* page is left open: a list that grows for ever has one.                    *)
THEOREM ServedWalksAdvance ==
  ASSUME NEW p \in Nat \ {0}
  PROVE  Spec /\ []QueriesServed =>
           (Walking /\ page = p ~> Finished \/ (pc = "query" /\ page = p + 1))
<1> DEFINE Both == Asked(p, Queries)
           CountOpen == Asked(p, {"count"})
           FindOpen == Asked(p, {"find"})
           Done == Asked(p, {})
           More == Told(p) /\ next # None
           Last == Finished
           Onward == Asked(p + 1, Queries)
<1>q. Queries = {"count", "find"} /\ p \in Nat
  BY DEF Queries
<1>0. Told(p) => More \/ Last
  BY DEF Told, Finished
<1>1. WalkInv /\ Both /\ [Next]_vars => Both' \/ CountOpen' \/ FindOpen'
  <2>1. Queries \ {"count"} = {"find"} /\ Queries \ {"find"} = {"count"} /\ Queries # {}
    BY DEF Queries
  <2> QED BY <1>q, <2>1, RequestMoves
<1>2. WalkInv /\ CountOpen /\ [Next]_vars => CountOpen' \/ Done'
  <2>1. {"count"} \ {"count"} = {} /\ "find" \notin {"count"} /\ {"count"} # {}
    OBVIOUS
  <2>2. {"count"} \in SUBSET Queries
    BY DEF Queries
  <2> QED BY <1>q, <2>1, <2>2, RequestMoves
<1>3. WalkInv /\ FindOpen /\ [Next]_vars => FindOpen' \/ Done'
  <2>1. {"find"} \ {"find"} = {} /\ "count" \notin {"find"} /\ {"find"} # {}
    OBVIOUS
  <2>2. {"find"} \in SUBSET Queries
    BY DEF Queries
  <2> QED BY <1>q, <2>1, <2>2, RequestMoves
<1>4. WalkInv /\ Done /\ [Next]_vars => Done' \/ More' \/ Last'
  <2>1. Told(p)' => More' \/ Last'
    BY DEF Told, Finished
  <2> QED BY <1>q, <2>1, RequestMoves
<1>5. WalkInv /\ More /\ [Next]_vars => More' \/ Onward'
  BY <1>q, AnswerMoves
<1>6. WalkInv /\ Both /\ <<Count>>_vars => ~Both'
  BY DEF Count, Asked, Queries
<1>7. WalkInv /\ CountOpen /\ <<Count>>_vars => ~CountOpen'
  BY DEF Count, Asked
<1>8. WalkInv /\ FindOpen /\ <<Find>>_vars => ~FindOpen'
  BY DEF Find, Asked
<1>9. WalkInv /\ Done /\ <<Answer>>_vars => ~Done'
  BY DEF Answer, Asked
<1>10. WalkInv /\ More /\ <<Follow>>_vars => ~More'
  BY DEF Follow, Get, Told
<1>11. /\ Both => CanCount
       /\ CountOpen => CanCount
       /\ FindOpen => CanFind
       /\ Done => CanAnswer
       /\ More => CanFollow
  BY DEF Asked, Told, Queries, CanCount, CanFind, CanAnswer, CanFollow
<1>12. /\ WalkInv => (Walking /\ page = p =>
                        Both \/ CountOpen \/ FindOpen \/ Done \/ More)
       /\ Onward => pc = "query" /\ page = p + 1
  <2>1. ASSUME WalkInv, pc = "query"
        PROVE  pending \in {Queries, {"count"}, {"find"}, {}}
    BY <2>1 DEF WalkInv, TypeInv, TypeOK, Queries
  <2>2. ASSUME WalkInv, pc = "got", next # None PROVE next = page + 1
    BY <2>2 DEF WalkInv, Progress, NextIsNext
  <2>3. WalkInv => pc \in {"idle", "query", "got"}
    BY DEF WalkInv, TypeInv, TypeOK
  <2> QED BY <2>1, <2>2, <2>3 DEF Walking, Finished, Asked, Told
<1>13. Spec => []WalkInv
  BY TypeAlways, ProgressAlways, PTL DEF WalkInv
<1> DEFINE Here == Walking /\ page = p
           There == pc = "query" /\ page = p + 1
<1>14. /\ WalkInv => (Here => Both \/ CountOpen \/ FindOpen \/ Done \/ More)
       /\ Onward => There
  BY <1>12
<1> HIDE DEF Both, CountOpen, FindOpen, Done, More, Last, Onward, Here, There
<1>15. Spec /\ []QueriesServed => (Here ~> Last \/ There)
  BY <1>1, <1>2, <1>3, <1>4, <1>5, <1>6, <1>7, <1>8, <1>9, <1>10, <1>11, <1>13, <1>14,
     PTL DEF Spec, QueriesServed
<1> QED BY <1>15 DEF Here, There, Last

=============================================================================
