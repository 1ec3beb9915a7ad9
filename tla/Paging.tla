------------------------------- MODULE Paging -------------------------------
(* The lists of the chat backend, the messages of a conversation and the     *)
(* conversations of a user, read page by page by a client that follows       *)
(* nextPage, while the list changes.  An answer takes two queries, one that  *)
(* counts and one that fetches the page, and nothing holds the list still    *)
(* between them.                                                             *)
EXTENDS Integers, FiniteSets

CONSTANTS PageSize,   \* pageSize of the requests
          MaxId,      \* bound on the ids of the rows, and so on the inserts
          None        \* no next page

\* A pageSize of 0, which the pipe lets through, is left out: the answers then
\* hold the whole list, and each has a next page.
ASSUME PagingAssumption ==
  /\ PageSize \in Nat \ {0}
  /\ MaxId \in Nat
  /\ None \notin Nat

VARIABLES list,       \* which of the two lists
          items,      \* ids of the rows that the list's filter selects
          used,       \* ids that were in the list at some time
          pc,         \* "idle", "query" (a request under way) or "got"
          page,       \* the page of the request
          pending,    \* the queries of the request that are not answered yet
          total,      \* what the counting query answered
          data,       \* what the other one answered
          next,       \* nextPage of the last answer
          start,      \* history: the list when the walk began
          seen,       \* history: the rows the walk has got
          repeated,   \* history: the rows it has got more than once
          removed,    \* history: a row left the list during the walk
          torn,       \* history: a row came between two queries of one request
          shifted     \* history: a row came in front of another during the walk

request == <<pc, page, pending, total, data, next>>
history == <<start, seen, repeated, removed, torn, shifted>>
vars    == <<list, items, used, request, history>>

-----------------------------------------------------------------------------
Ids     == 1 .. MaxId
Queries == {"count", "find"}

\* Messages come with the latest first.  For conversations no order is given;
\* the query for a page of joined rows then orders by the id.
Precedes(i, j) == IF list = "messages" THEN i > j ELSE i < j

\* The number of rows in front of row i, and the rows of page p.
Rank(i) == Cardinality({j \in items : Precedes(j, i)})

\* Mutant: the pages count from zero.
SkipFromZero(p) == p * PageSize

\* Mutant: the offset counts pages, not rows.
SkipPages(p) == p - 1

Skip(p) == (p - 1) * PageSize
Page(p) == {i \in items : Skip(p) <= Rank(i) /\ Rank(i) < Skip(p) + PageSize}

\* Math.ceil(n / PageSize)
TotalPages(n) == (n + PageSize - 1) \div PageSize

\* Mutant: the next page is the page again.
NextPageStays(p, n) == IF p >= TotalPages(n) THEN None ELSE p

NextPage(p, n) == IF p >= TotalPages(n) THEN None ELSE p + 1

Init ==
  /\ list \in {"messages", "conversations"}
  /\ items \in SUBSET Ids /\ used = items
  /\ pc = "idle" /\ page = 1 /\ pending = {}
  /\ total = 0 /\ data = {} /\ next = None
  /\ start = {} /\ seen = {} /\ repeated = {}
  /\ removed = FALSE /\ torn = FALSE /\ shifted = FALSE

-----------------------------------------------------------------------------
(* The client and the handler *)

Finished == pc = "got" /\ next = None
Walking  == pc # "idle" /\ ~Finished

Get(p) == pc' = "query" /\ page' = p /\ pending' = Queries

\* Mutant: without a page the first one is page 0.
BeginAtZero ==
  /\ ~Walking
  /\ Get(0)
  /\ start' = items /\ seen' = {} /\ repeated' = {}
  /\ removed' = FALSE /\ torn' = FALSE /\ shifted' = FALSE
  /\ UNCHANGED <<list, items, used, total, data, next>>

\* The first request: without a page the pipe makes it page 1.
Begin ==
  /\ ~Walking
  /\ Get(1)
  /\ start' = items /\ seen' = {} /\ repeated' = {}
  /\ removed' = FALSE /\ torn' = FALSE /\ shifted' = FALSE
  /\ UNCHANGED <<list, items, used, total, data, next>>

\* The client asks for the page that the answer calls the next one.
Follow ==
  /\ pc = "got" /\ next # None
  /\ Get(next)
  /\ UNCHANGED <<list, items, used, total, data, next, history>>

Count ==
  /\ "count" \in pending
  /\ total' = Cardinality(items)
  /\ pending' = pending \ {"count"}
  /\ UNCHANGED <<list, items, used, pc, page, data, next, history>>

\* getMessages starts both queries together, getConversations the page after
\* the count.
Find ==
  /\ "find" \in pending
  /\ list = "conversations" => "count" \notin pending
  /\ data' = Page(page)
  /\ pending' = pending \ {"find"}
  /\ UNCHANGED <<list, items, used, pc, page, total, next, history>>

Answer ==
  /\ pc = "query" /\ pending = {}
  /\ pc' = "got"
  /\ next' = NextPage(page, total)
  /\ seen' = seen \cup data
  /\ repeated' = repeated \cup (seen \cap data)
  /\ UNCHANGED <<list, items, used, page, pending, total, data, start, removed,
                 torn, shifted>>

-----------------------------------------------------------------------------
(* The list *)

\* A message is sent, or the user is put into a conversation.  The ids come
\* from a sequence; the rows get visible when their saves commit.
Insert(i) ==
  /\ i \in Ids \ used
  /\ items' = items \cup {i} /\ used' = used \cup {i}
  /\ torn' = (torn \/ (pc = "query" /\ pending \notin {Queries, {}}))
  /\ shifted' = (shifted \/ \E j \in items : Precedes(i, j))
  /\ UNCHANGED <<list, request, start, seen, repeated, removed>>

\* The messages of an account that is deleted go with it.
Remove(i) ==
  /\ list = "messages"
  /\ i \in items
  /\ items' = items \ {i}
  /\ removed' = TRUE
  /\ UNCHANGED <<list, used, request, start, seen, repeated, torn, shifted>>

Next == \/ Begin \/ Follow \/ Count \/ Find \/ Answer
        \/ \E i \in Ids : Insert(i) \/ Remove(i)

\* The database answers, and the client goes on as long as there is a page.
Fairness == WF_vars(Follow) /\ WF_vars(Count) /\ WF_vars(Find) /\ WF_vars(Answer)

Spec     == Init /\ [][Next]_vars
FairSpec == Spec /\ Fairness

-----------------------------------------------------------------------------
(* Properties *)

TypeOK ==
  /\ list \in {"messages", "conversations"}
  /\ items \subseteq used /\ used \subseteq Ids
  /\ pc \in {"idle", "query", "got"}
  /\ page \in Nat \ {0} /\ pending \subseteq Queries
  /\ total \in Nat /\ data \subseteq Ids /\ next \in Nat \cup {None}
  /\ start \subseteq Ids /\ seen \subseteq Ids /\ repeated \subseteq seen
  /\ removed \in BOOLEAN /\ torn \in BOOLEAN /\ shifted \in BOOLEAN

\* A client that follows nextPage to the end gets every row that was there when
\* it began, whatever is inserted meanwhile, unless a row was removed or came
\* between the two queries of one request.
NothingSkipped == Finished /\ ~removed /\ ~torn => start \subseteq seen

\* A client gets a row twice only if another came in front of one.
NothingTwice == repeated # {} => shifted

\* From some point on nothing comes into the list.  MaxId makes it so here; the
\* code has no such bound.
GrowthStops == <>[][UNCHANGED used]_vars

\* A walk comes to an end if the list does not grow for ever, whatever leaves it
\* and whatever came into it before.  A list that gains a page of rows for every
\* page that is read has a next page for ever.
WalkEnds == GrowthStops => (Walking ~> Finished)

=============================================================================
