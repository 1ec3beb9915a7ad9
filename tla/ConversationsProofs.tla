------------------------- MODULE ConversationsProofs ------------------------
(* Proofs about Conversations, for every set of users and requests and every *)
(* bound on conversations and crashes.                                       *)
EXTENDS Conversations, TLAPS

-----------------------------------------------------------------------------
(* Type correctness.  A creation that has not stored its conversation has a  *)
(* creator, one that has stored it has an id.                                *)

Early == {"find", "check", "store"}

GoodRecord(q) == /\ q \in RequestRecords
                 /\ q.pc \in Early => q.admin \in Users
                 /\ q.pc = "join" => q.id \in Ids
                 /\ q.seen \subseteq Ids

TypeInv == TypeOK /\ \A r \in Requests : GoodRecord(requests[r])

\* The steps that only move a request among the states before "join".
Prepare(r) == \/ Start(r)
              \/ FindGroup(r) \/ FindOther(r) \/ CheckPair(r)

LEMMA IdsAreNumbers == Ids \subseteq Nat /\ MaxConvs \in Nat
  BY ConversationsAssumption DEF Ids

LEMMA IdleIsGood == GoodRecord(Idle)
  BY DEF GoodRecord, Idle, RequestRecords, Kinds, Early

LEMMA MembersAreUsers ==
  ASSUME NEW q, GoodRecord(q), q.pc \in Early
  PROVE  Members(q) \subseteq Users /\ q.admin \in Members(q)
  BY DEF GoodRecord, RequestRecords, Members

LEMMA StepIsGood ==
  ASSUME TypeInv, NEW r \in Requests, NEW rec, GoodRecord(rec), Becomes(r, rec)
  PROVE  /\ requests' \in [Requests -> RequestRecords]
         /\ \A s \in Requests : GoodRecord(requests'[s])
         /\ requests'[r] = rec
         /\ \A s \in Requests \ {r} : requests'[s] = requests[s]
  BY DEF Becomes, GoodRecord, TypeInv, TypeOK

\* What a step of Prepare does: the request gets a good record, which has seen
\* acknowledged conversations only and holds no conversation of its own.
LEMMA PrepareStep ==
  ASSUME TypeInv, NEW r \in Requests, Prepare(r)
  PROVE  /\ UNCHANGED <<users, deleted, conversations, participants, nextId,
                        crashes, history>>
         /\ requests[r].pc \in Early \cup {"idle"}
         /\ \E rec : /\ GoodRecord(rec) /\ Becomes(r, rec)
                     /\ rec.pc \in Early \cup {"idle"}
                     /\ rec.seen \in {{}, acked, requests[r].seen}
                     /\ rec.pc = "store" /\ rec.type = "OneToOne" =>
                          /\ At(r, "check")
                          /\ Existing(Members(requests[r])) = {}
                          /\ Members(rec) = Members(requests[r])
                          /\ rec.seen = requests[r].seen
<1> DEFINE Rec(rec) == /\ GoodRecord(rec) /\ Becomes(r, rec)
                       /\ rec.pc \in Early \cup {"idle"}
                       /\ rec.seen \in {{}, acked, requests[r].seen}
                       /\ rec.pc = "store" /\ rec.type = "OneToOne" =>
                            /\ At(r, "check")
                            /\ Existing(Members(requests[r])) = {}
                            /\ Members(rec) = Members(requests[r])
                            /\ rec.seen = requests[r].seen
<1>q. GoodRecord(requests[r]) /\ requests[r] \in RequestRecords
  BY DEF TypeInv, GoodRecord
<1>a. acked \subseteq Ids /\ acked \subseteq Nat
  BY IdsAreNumbers DEF TypeInv, TypeOK
<1>i. Idle.pc = "idle" /\ Idle.seen = {}
  BY DEF Idle
<1>1. ASSUME NEW u \in Users, NEW others \in SUBSET Users, NEW kind \in Kinds,
             Becomes(r, [Idle EXCEPT !.pc = "find", !.type = kind, !.admin = u,
                                     !.others = others, !.seen = acked])
      PROVE  \E rec : Rec(rec)
  <2> DEFINE rec == [Idle EXCEPT !.pc = "find", !.type = kind, !.admin = u,
                                 !.others = others, !.seen = acked]
  <2>1. GoodRecord(rec) /\ rec.pc = "find" /\ rec.seen = acked
    BY <1>a DEF GoodRecord, Idle, RequestRecords, Early
  <2> QED BY <1>1, <2>1 DEF Early
<1>2. ASSUME NEW u \in Users, NEW others \in SUBSET Users, StartGroup(r, u, others)
      PROVE  requests[r].pc = "idle" /\ \E rec : Rec(rec)
  BY <1>1, <1>2 DEF StartGroup, At, Kinds
<1>3. ASSUME NEW u \in Users, NEW other \in Users, StartOneToOne(r, u, other)
      PROVE  requests[r].pc = "idle" /\ \E rec : Rec(rec)
  BY <1>1, <1>3 DEF StartOneToOne, At, Kinds
<1>4. ASSUME Becomes(r, Idle) PROVE \E rec : Rec(rec)
  BY <1>4, <1>i, IdleIsGood
<1>5. ASSUME FindGroup(r) PROVE \E rec : Rec(rec)
  <2> DEFINE rec == [requests[r] EXCEPT !.pc = "store"]
  <2>1. GoodRecord(rec) /\ rec.pc = "store" /\ rec.seen = requests[r].seen
        /\ rec.type # "OneToOne"
    BY <1>q, <1>5 DEF FindGroup, At, GoodRecord, RequestRecords, Early
  <2>2. Becomes(r, rec) \/ Becomes(r, Idle)
    BY <1>5 DEF FindGroup
  <2> QED BY <1>4, <2>1, <2>2 DEF Early
<1>6. ASSUME FindOther(r) PROVE \E rec : Rec(rec)
  <2> DEFINE rec == [requests[r] EXCEPT !.pc = "check"]
  <2>1. GoodRecord(rec) /\ rec.pc = "check" /\ rec.seen = requests[r].seen
    BY <1>q, <1>6 DEF FindOther, At, GoodRecord, RequestRecords, Early
  <2>2. Becomes(r, rec) \/ Becomes(r, Idle)
    BY <1>6 DEF FindOther
  <2> QED BY <1>4, <2>1, <2>2 DEF Early
<1>7. ASSUME CheckPair(r) PROVE \E rec : Rec(rec)
  <2> DEFINE rec == [requests[r] EXCEPT !.pc = "store"]
  <2>1. GoodRecord(rec) /\ rec.pc = "store" /\ rec.seen = requests[r].seen
        /\ Members(rec) = Members(requests[r]) /\ At(r, "check")
    BY <1>q, <1>7 DEF CheckPair, At, GoodRecord, RequestRecords, Members, Early
  <2>2. \/ Existing(Members(requests[r])) = {} /\ Becomes(r, rec)
        \/ Becomes(r, Idle)
    BY <1>7 DEF CheckPair
  <2> QED BY <1>4, <2>1, <2>2 DEF Early
<1>8. \E rec : Rec(rec)
  BY <1>2, <1>3, <1>5, <1>6, <1>7 DEF Prepare, Start
<1>9. requests[r].pc \in Early \cup {"idle"}
  BY <1>2, <1>3
     DEF Prepare, Start, FindGroup, FindOther, CheckPair, At, Early
<1>10. UNCHANGED <<users, deleted, conversations, participants, nextId,
                   crashes, history>>
  BY DEF Prepare, Start, StartGroup, StartOneToOne, FindGroup, FindOther,
         CheckPair
<1> QED BY <1>8, <1>9, <1>10

\* What a successful Store does.
LEMMA StoreStep ==
  ASSUME TypeInv, NEW r \in Requests, Store(r), requests[r].admin \in users
  PROVE  LET q   == requests[r]
             row == [type |-> q.type, admin |-> q.admin]
             rec == [Idle EXCEPT !.pc = "join", !.id = nextId,
                                 !.todo = Members(q)]
         IN /\ GoodRecord(q) /\ q.pc = "store"
            /\ q.admin \in users \cap Users /\ q.admin \in Members(q)
            /\ Members(q) \subseteq Users
            /\ nextId \in Ids /\ nextId \in Nat
            /\ nextId' = nextId + 1 /\ nextId' \in 1 .. MaxConvs + 1
            /\ row \in Rows /\ row # None
            /\ conversations' = [conversations EXCEPT ![nextId] = row]
            /\ asked' = [asked EXCEPT ![nextId] = Members(q)]
            /\ before' = before \cup (q.seen \X {nextId})
            /\ GoodRecord(rec) /\ Becomes(r, rec)
            /\ rec.pc = "join" /\ rec.id = nextId /\ rec.todo = Members(q)
            /\ rec.seen = {}
            /\ UNCHANGED <<users, deleted, participants, crashes, acked, lost>>
<1> DEFINE q == requests[r]
           row == [type |-> q.type, admin |-> q.admin]
           rec == [Idle EXCEPT !.pc = "join", !.id = nextId, !.todo = Members(q)]
<1>1. GoodRecord(q) /\ q \in RequestRecords /\ q.pc = "store"
  BY DEF TypeInv, GoodRecord, Store, At
<1>2. q.admin \in users \cap Users /\ q.admin \in Members(q)
      /\ Members(q) \subseteq Users
  BY <1>1, MembersAreUsers DEF GoodRecord, Early
<1>3. nextId \in Ids /\ nextId \in Nat /\ nextId' = nextId + 1
      /\ nextId' \in 1 .. MaxConvs + 1
  BY IdsAreNumbers DEF Store, Ids
<1>4. row \in Rows /\ row # None
  BY <1>1, <1>2, NoneIsNoConversation DEF Rows, RequestRecords
<1>5. /\ GoodRecord(rec) /\ rec.pc = "join" /\ rec.id = nextId
      /\ rec.todo = Members(q) /\ rec.seen = {}
  BY <1>2, <1>3 DEF GoodRecord, Idle, RequestRecords, Kinds, Early
<1>6. /\ conversations' = [conversations EXCEPT ![nextId] = row]
      /\ asked' = [asked EXCEPT ![nextId] = Members(q)]
      /\ before' = before \cup (q.seen \X {nextId})
      /\ Becomes(r, rec)
      /\ UNCHANGED <<users, deleted, participants, crashes, acked, lost>>
  BY DEF Store
<1> QED BY <1>1, <1>2, <1>3, <1>4, <1>5, <1>6

\* What a Store that the foreign key refuses does.
LEMMA RefusedStep ==
  ASSUME TypeInv, NEW r \in Requests, Store(r), requests[r].admin \notin users
  PROVE  /\ requests[r].pc = "store"
         /\ nextId \in Nat /\ nextId' = nextId + 1
         /\ nextId' \in 1 .. MaxConvs + 1
         /\ Becomes(r, Idle)
         /\ UNCHANGED <<users, deleted, conversations, participants, crashes,
                        history>>
  BY IdsAreNumbers DEF Store, At, Ids, history

\* What a Join does, with a row or refused.
LEMMA JoinStep ==
  ASSUME TypeInv, NEW r \in Requests, NEW u \in Users, Join(r, u)
  PROVE  LET q == requests[r] IN
         /\ GoodRecord(q) /\ q.pc = "join" /\ q.id \in Ids /\ u \in q.todo
         /\ \/ u \in users /\ participants' = participants \cup {<<q.id, u>>}
            \/ u \notin users /\ UNCHANGED participants
         /\ \E rec : /\ GoodRecord(rec) /\ Becomes(r, rec)
                     /\ rec.pc = "join" /\ rec.id = q.id
                     /\ rec.todo = q.todo \ {u} /\ rec.seen = q.seen
         /\ UNCHANGED <<users, deleted, conversations, nextId, crashes, history>>
<1> DEFINE q == requests[r]
<1>1. GoodRecord(q) /\ q \in RequestRecords /\ q.pc = "join" /\ q.id \in Ids
  BY DEF TypeInv, GoodRecord, Join, At
<1>2. ASSUME NEW f \in BOOLEAN,
             Becomes(r, [q EXCEPT !.todo = q.todo \ {u}, !.failed = f])
      PROVE  \E rec : /\ GoodRecord(rec) /\ Becomes(r, rec)
                      /\ rec.pc = "join" /\ rec.id = q.id
                      /\ rec.todo = q.todo \ {u} /\ rec.seen = q.seen
  <2> DEFINE rec == [q EXCEPT !.todo = q.todo \ {u}, !.failed = f]
  <2>1. GoodRecord(rec) /\ rec.pc = "join" /\ rec.id = q.id
        /\ rec.todo = q.todo \ {u} /\ rec.seen = q.seen
    BY <1>1 DEF GoodRecord, RequestRecords, Early
  <2> QED BY <1>2, <2>1
<1>3. \/ Becomes(r, [q EXCEPT !.todo = q.todo \ {u}])
      \/ Becomes(r, [q EXCEPT !.todo = q.todo \ {u}, !.failed = TRUE])
  BY DEF Join
<1>4. [q EXCEPT !.todo = q.todo \ {u}]
        = [q EXCEPT !.todo = q.todo \ {u}, !.failed = q.failed]
      /\ q.failed \in BOOLEAN
  BY <1>1 DEF RequestRecords
<1>5. \E rec : /\ GoodRecord(rec) /\ Becomes(r, rec)
               /\ rec.pc = "join" /\ rec.id = q.id
               /\ rec.todo = q.todo \ {u} /\ rec.seen = q.seen
  BY <1>2, <1>3, <1>4
<1>6. u \in q.todo
      /\ \/ u \in users /\ participants' = participants \cup {<<q.id, u>>}
         \/ u \notin users /\ UNCHANGED participants
  BY DEF Join
<1>7. UNCHANGED <<users, deleted, conversations, nextId, crashes, history>>
  BY DEF Join
<1> HIDE DEF q
<1> QED BY <1>1, <1>5, <1>6, <1>7 DEF q

\* What an Answer does.
LEMMA AnswerStep ==
  ASSUME TypeInv, NEW r \in Requests, Answer(r)
  PROVE  /\ requests[r].pc = "join" /\ requests[r].todo = {}
         /\ requests[r].id \in Ids
         /\ acked \subseteq acked' /\ acked' \subseteq acked \cup {requests[r].id}
         /\ Becomes(r, Idle)
         /\ UNCHANGED <<users, deleted, conversations, participants, nextId,
                        crashes, asked, lost, before>>
  BY DEF Answer, At, TypeInv, GoodRecord

\* The kinds of steps.
LEMMA StepCases ==
  ASSUME [Next]_vars
  PROVE  \/ \E r \in Requests : \/ Prepare(r) \/ Store(r)
                                \/ \E u \in Users : Join(r, u)
                                \/ Answer(r)
         \/ \E u \in Users : DeleteUser(u) \/ ReviveUser(u)
         \/ Crash
         \/ UNCHANGED vars
  BY DEF Next, Start, Continue, Prepare

LEMMA TypeInit == Init => TypeInv
<1> SUFFICES ASSUME Init PROVE TypeInv
  OBVIOUS
<1>1. requests \in [Requests -> RequestRecords]
      /\ \A r \in Requests : GoodRecord(requests[r])
  BY IdleIsGood DEF Init, GoodRecord
<1>2. nextId \in 1 .. MaxConvs + 1
  BY ConversationsAssumption DEF Init
<1> QED BY <1>1, <1>2 DEF Init, TypeInv, TypeOK

LEMMA TypeNext == TypeInv /\ [Next]_vars => TypeInv'
<1> SUFFICES ASSUME TypeInv, [Next]_vars PROVE TypeInv'
  OBVIOUS
<1>1. ASSUME NEW r \in Requests, Prepare(r) PROVE TypeInv'
  BY <1>1, PrepareStep, StepIsGood DEF TypeInv, TypeOK, history
<1>2. ASSUME NEW r \in Requests, Store(r), requests[r].admin \in users
      PROVE  TypeInv'
  <2> DEFINE q   == requests[r]
             row == [type |-> q.type, admin |-> q.admin]
             rec == [Idle EXCEPT !.pc = "join", !.id = nextId,
                                 !.todo = Members(q)]
  <2>1. /\ nextId \in Ids /\ nextId' \in 1 .. MaxConvs + 1
        /\ row \in Rows /\ Members(q) \subseteq Users /\ q.seen \subseteq Ids
        /\ conversations' = [conversations EXCEPT ![nextId] = row]
        /\ asked' = [asked EXCEPT ![nextId] = Members(q)]
        /\ before' = before \cup (q.seen \X {nextId})
        /\ GoodRecord(rec) /\ Becomes(r, rec)
        /\ UNCHANGED <<users, deleted, participants, crashes, acked, lost>>
    BY <1>2, StoreStep DEF GoodRecord
  <2> HIDE DEF q, row, rec
  <2>2. requests' \in [Requests -> RequestRecords]
        /\ \A s \in Requests : GoodRecord(requests'[s])
    BY <2>1, StepIsGood
  <2> QED BY <2>1, <2>2 DEF TypeInv, TypeOK
<1>3. ASSUME NEW r \in Requests, Store(r), requests[r].admin \notin users
      PROVE  TypeInv'
  BY <1>3, RefusedStep, IdleIsGood, StepIsGood DEF TypeInv, TypeOK, history
<1>4. ASSUME NEW r \in Requests, NEW u \in Users, Join(r, u) PROVE TypeInv'
  <2>1. requests' \in [Requests -> RequestRecords]
        /\ \A s \in Requests : GoodRecord(requests'[s])
    BY <1>4, JoinStep, StepIsGood
  <2> QED BY <1>4, <2>1, JoinStep DEF TypeInv, TypeOK, history
<1>5. ASSUME NEW r \in Requests, Answer(r) PROVE TypeInv'
  BY <1>5, AnswerStep, IdleIsGood, StepIsGood DEF TypeInv, TypeOK
<1>6. ASSUME NEW u \in Users, DeleteUser(u) PROVE TypeInv'
  BY <1>6 DEF DeleteUser, history, TypeInv, TypeOK
<1>7. ASSUME NEW u \in Users, ReviveUser(u) PROVE TypeInv'
  BY <1>7 DEF ReviveUser, history, TypeInv, TypeOK
<1>8. CASE Crash
  <2>1. requests' \in [Requests -> RequestRecords]
        /\ \A s \in Requests : GoodRecord(requests'[s])
    BY <1>8, IdleIsGood DEF Crash, GoodRecord
  <2>2. lost' \subseteq Ids
    BY <1>8 DEF Crash, At, TypeInv, TypeOK, GoodRecord
  <2>3. crashes' \in Nat
    BY <1>8 DEF Crash, TypeInv, TypeOK
  <2> QED BY <1>8, <2>1, <2>2, <2>3 DEF Crash, TypeInv, TypeOK
<1>9. CASE UNCHANGED vars
  BY <1>9 DEF vars, history, TypeInv, TypeOK
<1> QED BY <1>1, <1>2, <1>3, <1>4, <1>5, <1>6, <1>7, <1>8, <1>9, StepCases

LEMMA TypeAlways == Spec => []TypeInv
  BY TypeInit, TypeNext, PTL DEF Spec

(* The state of the component always has its type: rows, requests in flight  *)
(* and history stay within what their fields may hold.                       *)
THEOREM TypeCorrect == Spec => []TypeOK
<1>1. TypeInv => TypeOK
  BY DEF TypeInv
<1> QED BY <1>1, TypeAlways, PTL

-----------------------------------------------------------------------------
(* The rows and the history agree: the ids from nextId on are unused, a      *)
(* stored conversation is for somebody, what was acknowledged is stored, and *)
(* a request joins the people its conversation is for.                       *)

Stored(cs, c) == c \in Ids /\ cs[c] # None

Shelf ==
  /\ \A c \in Ids : c >= nextId => conversations[c] = None
  /\ \A c \in Ids : conversations[c] = None <=> asked[c] = {}
  /\ \A u \in Users : u \in users \/ u \in deleted
  /\ \A c \in acked : Stored(conversations, c)
  /\ \A t \in before : Stored(conversations, t[1]) /\ Stored(conversations, t[2])
  /\ \A r \in Requests : requests[r].seen \subseteq acked
  /\ \A r \in Requests : At(r, "join") =>
       /\ Stored(conversations, requests[r].id)
       /\ requests[r].todo \subseteq asked[requests[r].id]

LEMMA ShelfInit == TypeInv /\ Init => Shelf
  BY IdsAreNumbers DEF Init, Shelf, Idle, At

\* A step that leaves the conversations alone keeps the shelf if the requests
\* stay within it.
LEMMA ShelfQuiet ==
  ASSUME TypeInv, TypeInv', Shelf,
         UNCHANGED <<conversations, asked, before>>, nextId' >= nextId,
         acked \subseteq acked', \A c \in acked' : Stored(conversations, c),
         \A u \in Users : u \in users' \/ u \in deleted',
         \A r \in Requests :
            \/ /\ requests'[r].seen \subseteq acked'
               /\ requests'[r].pc # "join"
            \/ /\ requests'[r].seen \subseteq requests[r].seen
               /\ requests[r].pc = "join"
               /\ requests'[r].id = requests[r].id
               /\ requests'[r].todo \subseteq requests[r].todo
            \/ requests'[r] = requests[r]
  PROVE  Shelf'
<1>1. nextId \in Nat /\ nextId' \in Nat
  BY DEF TypeInv, TypeOK
<1>2. \A c \in Ids : c >= nextId' => conversations'[c] = None
  BY <1>1, IdsAreNumbers DEF Shelf
<1>3. \A c \in Ids : conversations'[c] = None <=> asked'[c] = {}
  BY DEF Shelf
<1>4. \A r \in Requests : requests'[r].seen \subseteq acked'
  BY DEF Shelf
<1>5. \A r \in Requests : requests'[r].pc = "join" =>
        /\ Stored(conversations, requests[r].id) /\ requests'[r].id = requests[r].id
        /\ requests'[r].todo \subseteq asked[requests[r].id]
  BY DEF Shelf, At
<1>6. \A c : Stored(conversations', c) <=> Stored(conversations, c)
  BY DEF Stored
<1> QED BY <1>2, <1>3, <1>4, <1>5, <1>6 DEF Shelf, At, Stored

LEMMA ShelfNext == TypeInv /\ TypeInv' /\ Shelf /\ [Next]_vars => Shelf'
<1> SUFFICES ASSUME TypeInv, TypeInv', Shelf, [Next]_vars PROVE Shelf'
  OBVIOUS
<1>n. nextId \in Nat
  BY DEF TypeInv, TypeOK
<1>i. Idle.pc = "idle" /\ Idle.seen = {}
  BY DEF Idle
<1>a. /\ \A c \in acked : Stored(conversations, c)
      /\ \A u \in Users : u \in users \/ u \in deleted
  BY DEF Shelf
<1>1. ASSUME NEW r \in Requests, Prepare(r) PROVE Shelf'
  <2>1. PICK rec : /\ GoodRecord(rec) /\ Becomes(r, rec)
                   /\ rec.pc \in Early \cup {"idle"}
                   /\ rec.seen \in {{}, acked, requests[r].seen}
    BY <1>1, PrepareStep
  <2>2. rec.seen \subseteq acked /\ rec.pc # "join"
    BY <2>1 DEF Shelf, Early
  <2>3. UNCHANGED <<users, deleted, conversations, nextId, asked, acked, before>>
    BY <1>1, PrepareStep DEF history
  <2>4. \A s \in Requests : IF s = r THEN requests'[s] = rec
                                     ELSE requests'[s] = requests[s]
    BY <2>1, StepIsGood
  <2> QED BY <1>n, <1>a, <2>2, <2>3, <2>4, ShelfQuiet
<1>2. ASSUME NEW r \in Requests, Store(r), requests[r].admin \in users
      PROVE  Shelf'
  <2> DEFINE q   == requests[r]
             row == [type |-> q.type, admin |-> q.admin]
             rec == [Idle EXCEPT !.pc = "join", !.id = nextId,
                                 !.todo = Members(q)]
  <2>1. /\ nextId \in Ids /\ nextId' = nextId + 1
        /\ row # None /\ Members(q) # {}
        /\ conversations' = [conversations EXCEPT ![nextId] = row]
        /\ asked' = [asked EXCEPT ![nextId] = Members(q)]
        /\ before' = before \cup (q.seen \X {nextId})
        /\ GoodRecord(rec) /\ Becomes(r, rec)
        /\ rec.id = nextId /\ rec.todo = Members(q) /\ rec.seen = {}
        /\ UNCHANGED <<users, deleted, acked>>
    BY <1>2, StoreStep
  <2>2. requests'[r] = rec /\ \A s \in Requests \ {r} : requests'[s] = requests[s]
    BY <2>1, StepIsGood
  <2>3. conversations \in [Ids -> Rows \cup {None}] /\ asked \in [Ids -> SUBSET Users]
    BY DEF TypeInv, TypeOK
  <2>4. q.seen \subseteq acked
    BY DEF Shelf
  <2> HIDE DEF q, row, rec
  <2>5. conversations[nextId] = None
    BY <1>n, <2>1 DEF Shelf
  <2>6. /\ conversations'[nextId] = row /\ asked'[nextId] = Members(q)
        /\ \A c \in Ids \ {nextId} :
             conversations'[c] = conversations[c] /\ asked'[c] = asked[c]
    BY <2>1, <2>3
  <2>7. /\ Stored(conversations', nextId)
        /\ \A c : Stored(conversations, c) =>
             Stored(conversations', c) /\ asked'[c] = asked[c]
    BY <2>1, <2>5, <2>6 DEF Stored
  <2>8. \A c \in Ids : c >= nextId' => conversations'[c] = None
    BY <1>n, <2>1, <2>6, IdsAreNumbers DEF Shelf
  <2>9. \A c \in Ids : conversations'[c] = None <=> asked'[c] = {}
    BY <2>1, <2>6 DEF Shelf
  <2>10. (\A u \in Users : u \in users' \/ u \in deleted')
         /\ (\A c \in acked' : Stored(conversations', c))
    BY <2>1, <2>7 DEF Shelf
  <2>11. \A t \in before' : Stored(conversations', t[1]) /\ Stored(conversations', t[2])
    BY <2>1, <2>4, <2>7 DEF Shelf
  <2>12. \A s \in Requests : requests'[s].seen \subseteq acked'
    BY <2>1, <2>2 DEF Shelf
  <2>13. \A s \in Requests : requests'[s].pc = "join" =>
           /\ Stored(conversations', requests'[s].id)
           /\ requests'[s].todo \subseteq asked'[requests'[s].id]
    <3>1. Stored(conversations', requests'[r].id)
          /\ requests'[r].todo \subseteq asked'[requests'[r].id]
      BY <2>1, <2>2, <2>6, <2>7
    <3>2. \A s \in Requests \ {r} : requests'[s].pc = "join" =>
             /\ Stored(conversations, requests[s].id)
             /\ requests[s].todo \subseteq asked[requests[s].id]
      BY <2>2 DEF Shelf, At
    <3> QED BY <2>2, <2>7, <3>1, <3>2
  <2> QED BY <2>8, <2>9, <2>10, <2>11, <2>12, <2>13 DEF Shelf, At, Stored
<1>3. ASSUME NEW r \in Requests, Store(r), requests[r].admin \notin users
      PROVE  Shelf'
  <2>1. \A s \in Requests : IF s = r THEN requests'[s] = Idle
                                     ELSE requests'[s] = requests[s]
    BY <1>3, RefusedStep, IdleIsGood, StepIsGood
  <2>2. nextId' >= nextId
        /\ UNCHANGED <<users, deleted, conversations, asked, acked, before>>
    BY <1>3, <1>n, RefusedStep DEF history
  <2> QED BY <1>i, <1>a, <2>1, <2>2, ShelfQuiet
<1>4. ASSUME NEW r \in Requests, NEW u \in Users, Join(r, u) PROVE Shelf'
  <2>1. PICK rec : /\ GoodRecord(rec) /\ Becomes(r, rec)
                   /\ rec.pc = "join" /\ rec.id = requests[r].id
                   /\ rec.todo = requests[r].todo \ {u}
                   /\ rec.seen = requests[r].seen
    BY <1>4, JoinStep
  <2>2. \A s \in Requests : IF s = r THEN requests'[s] = rec
                                     ELSE requests'[s] = requests[s]
    BY <2>1, StepIsGood
  <2>3. UNCHANGED <<users, deleted, conversations, nextId, asked, acked, before>>
        /\ requests[r].pc = "join"
    BY <1>4, JoinStep DEF history
  <2> QED BY <1>n, <1>a, <2>1, <2>2, <2>3, ShelfQuiet
<1>5. ASSUME NEW r \in Requests, Answer(r) PROVE Shelf'
  <2>1. \A s \in Requests : IF s = r THEN requests'[s] = Idle
                                     ELSE requests'[s] = requests[s]
    BY <1>5, AnswerStep, IdleIsGood, StepIsGood
  <2>2. \A c \in acked' : Stored(conversations, c)
    BY <1>5, AnswerStep DEF Shelf, At
  <2>3. UNCHANGED <<users, deleted, conversations, nextId, asked, before>>
        /\ acked \subseteq acked'
    BY <1>5, AnswerStep
  <2> QED BY <1>n, <1>i, <1>a, <2>1, <2>2, <2>3, ShelfQuiet
<1>6. ASSUME NEW u \in Users, DeleteUser(u) \/ ReviveUser(u) PROVE Shelf'
  <2>1. UNCHANGED <<conversations, nextId, requests, asked, acked, before>>
    BY <1>6 DEF DeleteUser, ReviveUser, history
  <2>2. \A v \in Users : v \in users' \/ v \in deleted'
    BY <1>6 DEF DeleteUser, ReviveUser, Shelf
  <2> QED BY <1>n, <1>a, <2>1, <2>2, ShelfQuiet
<1>7. CASE Crash
  <2>1. \A s \in Requests : requests'[s] = Idle
    BY <1>7 DEF Crash
  <2>2. UNCHANGED <<users, deleted, conversations, nextId, asked, acked, before>>
    BY <1>7 DEF Crash
  <2> QED BY <1>n, <1>i, <1>a, <2>1, <2>2, ShelfQuiet
<1>8. CASE UNCHANGED vars
  BY <1>8 DEF vars, history, Shelf, At, Stored
<1> QED BY <1>1, <1>2, <1>3, <1>4, <1>5, <1>6, <1>7, <1>8, StepCases

LEMMA ShelfAlways == Spec => []Shelf
<1>1. TypeInv /\ TypeInv' /\ Shelf /\ [Next]_vars => Shelf'
  BY ShelfNext
<1> QED BY <1>1, ShelfInit, TypeInit, TypeAlways, PTL DEF Spec

-----------------------------------------------------------------------------
(* Membership.  In a creation whose saves are under way everybody whose save *)
(* is over is a member or was deleted; the admin of a conversation has a row *)
(* and is a member, will be one, or a crash came in between.                 *)

Joined == \A r \in Requests : At(r, "join") =>
            \A u \in asked[requests[r].id] \ requests[r].todo :
              u \in deleted \/ <<requests[r].id, u>> \in participants

AdminJoins ==
  \A c \in Ids : conversations[c] # None =>
    /\ conversations[c].admin \in users
    /\ \/ <<c, conversations[c].admin>> \in participants
       \/ c \in lost
       \/ \E r \in Requests : /\ At(r, "join") /\ requests[r].id = c
                              /\ conversations[c].admin \in requests[r].todo

Membership == AckedIsComplete /\ Joined /\ AdminJoins

LEMMA MembershipInit == Init => Membership
  BY DEF Init, Membership, AckedIsComplete, Joined, AdminJoins, Idle, At

\* A step of one request that is not in the middle of its joins before and
\* after, and leaves the rows alone.
LEMMA MembershipQuiet ==
  ASSUME Membership, NEW r \in Requests, requests[r].pc # "join",
         requests'[r].pc # "join",
         \A s \in Requests \ {r} : requests'[s] = requests[s],
         UNCHANGED <<users, deleted, conversations, participants, asked, acked,
                     lost>>
  PROVE  Membership'
<1>1. AckedIsComplete'
  BY DEF Membership, AckedIsComplete
<1>2. Joined'
  BY DEF Membership, Joined, At
<1>3. AdminJoins'
  BY DEF Membership, AdminJoins, At
<1> QED BY <1>1, <1>2, <1>3 DEF Membership

LEMMA MembershipNext ==
  TypeInv /\ Shelf /\ Membership /\ [Next]_vars => Membership'
<1> SUFFICES ASSUME TypeInv, Shelf, Membership, [Next]_vars PROVE Membership'
  OBVIOUS
<1>i. Idle.pc = "idle"
  BY DEF Idle
<1>1. ASSUME NEW r \in Requests, Prepare(r) PROVE Membership'
  <2>1. PICK rec : /\ GoodRecord(rec) /\ Becomes(r, rec)
                   /\ rec.pc \in Early \cup {"idle"}
    BY <1>1, PrepareStep
  <2>2. requests[r].pc # "join" /\ rec.pc # "join"
    BY <1>1, <2>1, PrepareStep DEF Early
  <2>3. UNCHANGED <<users, deleted, conversations, participants, asked, acked,
                    lost>>
    BY <1>1, PrepareStep DEF history
  <2> QED BY <2>1, <2>2, <2>3, StepIsGood, MembershipQuiet
<1>2. ASSUME NEW r \in Requests, Store(r), requests[r].admin \in users
      PROVE  Membership'
  <2> DEFINE q   == requests[r]
             row == [type |-> q.type, admin |-> q.admin]
             rec == [Idle EXCEPT !.pc = "join", !.id = nextId,
                                 !.todo = Members(q)]
  <2>1. /\ nextId \in Ids /\ nextId \in Nat
        /\ q.pc = "store" /\ row.admin \in users /\ row.admin \in Members(q)
        /\ conversations' = [conversations EXCEPT ![nextId] = row]
        /\ asked' = [asked EXCEPT ![nextId] = Members(q)]
        /\ GoodRecord(rec) /\ Becomes(r, rec)
        /\ rec.pc = "join" /\ rec.id = nextId /\ rec.todo = Members(q)
        /\ UNCHANGED <<users, deleted, participants, acked, lost>>
    BY <1>2, StoreStep
  <2>2. requests'[r] = rec /\ \A s \in Requests \ {r} : requests'[s] = requests[s]
    BY <2>1, StepIsGood
  <2>3. conversations \in [Ids -> Rows \cup {None}] /\ asked \in [Ids -> SUBSET Users]
    BY DEF TypeInv, TypeOK
  <2>4. requests[r].pc # "join"
    BY <2>1
  <2> HIDE DEF q, row, rec
  <2>5. conversations[nextId] = None
    BY <2>1 DEF Shelf
  <2>6. /\ conversations'[nextId] = row /\ asked'[nextId] = Members(q)
        /\ \A c \in Ids \ {nextId} :
             conversations'[c] = conversations[c] /\ asked'[c] = asked[c]
    BY <2>1, <2>3
  <2>7. \A c : Stored(conversations, c) => c # nextId /\ asked'[c] = asked[c]
    BY <2>5, <2>6 DEF Stored
  <2>8. AckedIsComplete'
    BY <2>1, <2>7 DEF Membership, AckedIsComplete, Shelf
  <2>9. Joined'
    <3>1. \A s \in Requests \ {r} : At(s, "join") => Stored(conversations, requests[s].id)
      BY DEF Shelf
    <3> QED BY <2>1, <2>2, <2>6, <2>7, <3>1 DEF Membership, Joined, At
  <2>10. AdminJoins'
    <3>1. ASSUME NEW c \in Ids, c # nextId, conversations'[c] # None
          PROVE  /\ conversations'[c].admin \in users'
                 /\ \/ <<c, conversations'[c].admin>> \in participants'
                    \/ c \in lost'
                    \/ \E s \in Requests :
                         /\ requests'[s].pc = "join" /\ requests'[s].id = c
                         /\ conversations'[c].admin \in requests'[s].todo
      BY <2>1, <2>2, <2>4, <2>6, <3>1 DEF Membership, AdminJoins, At
    <3>2. /\ conversations'[nextId].admin \in users'
          /\ requests'[r].pc = "join" /\ requests'[r].id = nextId
          /\ conversations'[nextId].admin \in requests'[r].todo
      BY <2>1, <2>2, <2>6
    <3> QED BY <3>1, <3>2 DEF AdminJoins, At
  <2> QED BY <2>8, <2>9, <2>10 DEF Membership
<1>3. ASSUME NEW r \in Requests, Store(r), requests[r].admin \notin users
      PROVE  Membership'
  <2>1. Becomes(r, Idle) /\ requests[r].pc # "join"
        /\ UNCHANGED <<users, deleted, conversations, participants, asked,
                       acked, lost>>
    BY <1>3, RefusedStep DEF history
  <2> QED BY <1>i, <2>1, IdleIsGood, StepIsGood, MembershipQuiet
<1>4. ASSUME NEW r \in Requests, NEW u \in Users, Join(r, u) PROVE Membership'
  <2>1. PICK rec : /\ GoodRecord(rec) /\ Becomes(r, rec)
                   /\ rec.pc = "join" /\ rec.id = requests[r].id
                   /\ rec.todo = requests[r].todo \ {u}
    BY <1>4, JoinStep
  <2>2. requests'[r] = rec /\ \A s \in Requests \ {r} : requests'[s] = requests[s]
    BY <2>1, StepIsGood
  <2>3. /\ requests[r].pc = "join" /\ requests[r].id \in Ids
        /\ UNCHANGED <<users, deleted, conversations, asked, acked, lost>>
        /\ \/ u \in users /\ participants' = participants \cup {<<requests[r].id, u>>}
           \/ u \notin users /\ UNCHANGED participants
    BY <1>4, JoinStep DEF history
  <2>4. participants \subseteq participants'
        /\ (u \in deleted \/ <<requests[r].id, u>> \in participants')
    BY <2>3 DEF Shelf
  <2>5. AckedIsComplete'
    BY <2>3, <2>4 DEF Membership, AckedIsComplete
  <2>6. Joined'
    BY <2>1, <2>2, <2>3, <2>4 DEF Membership, Joined, At
  <2>7. AdminJoins'
    <3> SUFFICES ASSUME NEW c \in Ids, conversations[c] # None,
                        <<c, conversations[c].admin>> \notin participants',
                        c \notin lost
                 PROVE  /\ conversations[c].admin \in users
                        /\ \E s \in Requests :
                             /\ requests'[s].pc = "join" /\ requests'[s].id = c
                             /\ conversations[c].admin \in requests'[s].todo
      BY <2>3 DEF Membership, AdminJoins, At
    <3>1. conversations[c].admin \in users
      BY DEF Membership, AdminJoins
    <3>2. PICK s \in Requests : /\ At(s, "join") /\ requests[s].id = c
                                /\ conversations[c].admin \in requests[s].todo
      BY <2>4 DEF Membership, AdminJoins
    <3>3. s = r => conversations[c].admin # u
      BY <2>3, <3>1, <3>2
    <3> QED BY <2>1, <2>2, <3>1, <3>2, <3>3 DEF At
  <2> QED BY <2>5, <2>6, <2>7 DEF Membership
<1>5. ASSUME NEW r \in Requests, Answer(r) PROVE Membership'
  <2>1. /\ requests[r].pc = "join" /\ requests[r].todo = {}
        /\ acked' \subseteq acked \cup {requests[r].id}
        /\ Becomes(r, Idle)
        /\ UNCHANGED <<users, deleted, conversations, participants, asked, lost>>
    BY <1>5, AnswerStep
  <2>2. requests'[r] = Idle /\ \A s \in Requests \ {r} : requests'[s] = requests[s]
    BY <2>1, IdleIsGood, StepIsGood
  <2>3. AckedIsComplete'
    BY <2>1 DEF Membership, AckedIsComplete, Joined, At
  <2>4. Joined'
    BY <1>i, <2>1, <2>2 DEF Membership, Joined, At
  <2>5. AdminJoins'
    BY <1>i, <2>1, <2>2 DEF Membership, AdminJoins, At
  <2> QED BY <2>3, <2>4, <2>5 DEF Membership
<1>6. ASSUME NEW u \in Users, DeleteUser(u) PROVE Membership'
  <2>1. /\ \A c \in Ids : conversations[c] # None => conversations[c].admin # u
        /\ users' = users \ {u} /\ deleted' = deleted \cup {u}
        /\ participants' = {p \in participants : p[2] # u}
        /\ UNCHANGED <<conversations, requests, asked, acked, lost>>
    BY <1>6 DEF DeleteUser, history
  <2>2. \A c, v : <<c, v>> \in participants /\ v # u => <<c, v>> \in participants'
    BY <2>1
  <2>3. AckedIsComplete'
    BY <2>1, <2>2 DEF Membership, AckedIsComplete
  <2>4. Joined'
    BY <2>1, <2>2 DEF Membership, Joined, At
  <2>5. AdminJoins'
    BY <2>1, <2>2 DEF Membership, AdminJoins, At
  <2> QED BY <2>3, <2>4, <2>5 DEF Membership
<1>7. ASSUME NEW u \in Users, ReviveUser(u) PROVE Membership'
  BY <1>7 DEF ReviveUser, history, Membership, AckedIsComplete, Joined,
              AdminJoins, At
<1>8. CASE Crash
  <2>1. /\ \A s \in Requests : requests'[s] = Idle
        /\ \A s \in Requests : At(s, "join") => requests[s].id \in lost'
        /\ lost \subseteq lost'
        /\ UNCHANGED <<users, deleted, conversations, participants, asked, acked>>
    BY <1>8 DEF Crash
  <2>2. AckedIsComplete' /\ Joined'
    BY <1>i, <2>1 DEF Membership, AckedIsComplete, Joined, At
  <2>3. AdminJoins'
    BY <2>1 DEF Membership, AdminJoins
  <2> QED BY <2>2, <2>3 DEF Membership
<1>9. CASE UNCHANGED vars
  BY <1>9 DEF vars, history, Membership, AckedIsComplete, Joined, AdminJoins, At
<1> QED BY <1>1, <1>2, <1>3, <1>4, <1>5, <1>6, <1>7, <1>8, <1>9, StepCases

LEMMA MembershipAlways == Spec => []Membership
<1>1. TypeInv /\ Shelf /\ Membership /\ [Next]_vars => Membership'
  BY MembershipNext
<1> QED BY <1>1, MembershipInit, TypeAlways, ShelfAlways, PTL DEF Spec

(* A conversation whose creator got "Successfully created" has everybody it  *)
(* is for as a member, except those whose account was deleted.               *)
THEOREM AcknowledgedIsComplete == Spec => []AckedIsComplete
<1>1. Membership => AckedIsComplete
  BY DEF Membership
<1> QED BY <1>1, MembershipAlways, PTL

(* Once no creation is joining it, a conversation has its admin as a member, *)
(* unless a crash caught it half made.                                       *)
THEOREM AdminsAreMembers == Spec => []AdminIsMember
<1>1. Membership => AdminIsMember
  BY DEF Membership, AdminJoins, AdminIsMember
<1> QED BY <1>1, MembershipAlways, PTL

-----------------------------------------------------------------------------
(* The check for a pair.  A request that passed it knows that each pair's    *)
(* conversation acknowledged before it began lost one of the two by a        *)
(* deletion: otherwise both would be members, and the check would have       *)
(* found the conversation.                                                   *)

SamePair(c, members) ==
  conversations[c].type = "OneToOne" /\ asked[c] = members

Checked ==
  \A r \in Requests : At(r, "store") /\ requests[r].type = "OneToOne" =>
    \A c \in requests[r].seen :
      SamePair(c, Members(requests[r])) => asked[c] \cap deleted # {}

Pairs == PairIsFound /\ Checked

LEMMA PairsInit == Init => Pairs
  BY DEF Init, Pairs, PairIsFound, Checked, Idle, At

\* A step that leaves the conversations alone keeps the pairs, if a request
\* that passes the check does so rightly.
LEMMA PairsQuiet ==
  ASSUME Pairs, deleted \subseteq deleted',
         UNCHANGED <<conversations, asked, before>>,
         \A r \in Requests :
            \/ requests'[r] = requests[r]
            \/ requests'[r].pc = "store" /\ requests'[r].type = "OneToOne" =>
                 \A c \in requests'[r].seen :
                   SamePair(c, Members(requests'[r])) => asked[c] \cap deleted # {}
  PROVE  Pairs'
<1>1. PairIsFound'
  BY DEF Pairs, PairIsFound
<1>2. Checked'
  BY DEF Pairs, Checked, SamePair, At
<1> QED BY <1>1, <1>2 DEF Pairs

LEMMA PairsNext ==
  TypeInv /\ Shelf /\ Membership /\ Pairs /\ [Next]_vars => Pairs'
<1> SUFFICES ASSUME TypeInv, Shelf, Membership, Pairs, [Next]_vars PROVE Pairs'
  OBVIOUS
<1>i. Idle.pc = "idle"
  BY DEF Idle
<1>1. ASSUME NEW r \in Requests, Prepare(r) PROVE Pairs'
  <2>1. PICK rec : /\ GoodRecord(rec) /\ Becomes(r, rec)
                   /\ rec.pc = "store" /\ rec.type = "OneToOne" =>
                        /\ At(r, "check")
                        /\ Existing(Members(requests[r])) = {}
                        /\ Members(rec) = Members(requests[r])
                        /\ rec.seen = requests[r].seen
    BY <1>1, PrepareStep
  <2>2. requests'[r] = rec /\ \A s \in Requests \ {r} : requests'[s] = requests[s]
    BY <2>1, StepIsGood
  <2>3. UNCHANGED <<deleted, conversations, asked, before>>
    BY <1>1, PrepareStep DEF history
  <2>4. ASSUME rec.pc = "store", rec.type = "OneToOne",
               NEW c \in rec.seen, SamePair(c, Members(rec))
        PROVE  asked[c] \cap deleted # {}
    <3>1. c \in acked /\ Stored(conversations, c)
      BY <2>1, <2>4 DEF Shelf
    <3>2. c \notin Existing(asked[c])
      BY <2>1, <2>4 DEF SamePair
    <3>3. PICK u \in asked[c] : <<c, u>> \notin participants
      BY <2>4, <3>1, <3>2 DEF Existing, SamePair, Stored
    <3> QED BY <3>1, <3>3 DEF Membership, AckedIsComplete
  <2> QED BY <2>2, <2>3, <2>4, PairsQuiet
<1>2. ASSUME NEW r \in Requests, Store(r), requests[r].admin \in users
      PROVE  Pairs'
  <2> DEFINE q   == requests[r]
             row == [type |-> q.type, admin |-> q.admin]
             rec == [Idle EXCEPT !.pc = "join", !.id = nextId,
                                 !.todo = Members(q)]
  <2>1. /\ nextId \in Ids /\ nextId \in Nat
        /\ conversations' = [conversations EXCEPT ![nextId] = row]
        /\ asked' = [asked EXCEPT ![nextId] = Members(q)]
        /\ before' = before \cup (q.seen \X {nextId})
        /\ GoodRecord(rec) /\ Becomes(r, rec) /\ rec.pc = "join"
        /\ UNCHANGED deleted
    BY <1>2, StoreStep
  <2>2. requests'[r] = rec /\ \A s \in Requests \ {r} : requests'[s] = requests[s]
    BY <2>1, StepIsGood
  <2>3. conversations \in [Ids -> Rows \cup {None}] /\ asked \in [Ids -> SUBSET Users]
    BY DEF TypeInv, TypeOK
  <2>4. \A c \in q.seen :
           SamePair(c, Members(q)) /\ row.type = "OneToOne" => asked[c] \cap deleted # {}
    BY <1>2 DEF Pairs, Checked, Store
  <2>5. \A s \in Requests : \A c \in requests[s].seen : Stored(conversations, c)
    BY DEF Shelf
  <2>6. \A c \in q.seen : Stored(conversations, c)
    BY <2>5
  <2> HIDE DEF q, row, rec
  <2>7. /\ conversations'[nextId] = row /\ asked'[nextId] = Members(q)
        /\ \A c : Stored(conversations, c) =>
             conversations'[c] = conversations[c] /\ asked'[c] = asked[c]
    BY <2>1, <2>3 DEF Shelf, Stored
  <2>8. PairIsFound'
    <3> SUFFICES ASSUME NEW t \in before',
                        conversations'[t[1]].type = "OneToOne",
                        conversations'[t[2]].type = "OneToOne",
                        asked'[t[1]] = asked'[t[2]]
                 PROVE  asked'[t[1]] \cap deleted' # {}
      BY DEF PairIsFound
    <3>1. CASE t \in before
      <4>1. Stored(conversations, t[1]) /\ Stored(conversations, t[2])
        BY <3>1 DEF Shelf
      <4> QED BY <2>1, <2>7, <3>1, <4>1 DEF Pairs, PairIsFound
    <3>2. CASE t[1] \in q.seen /\ t[2] = nextId
      BY <2>1, <2>4, <2>6, <2>7, <3>2 DEF SamePair
    <3> QED BY <2>1, <3>1, <3>2
  <2>9. Checked'
    <3> SUFFICES ASSUME NEW s \in Requests, requests'[s].pc = "store",
                        requests'[s].type = "OneToOne", NEW c \in requests'[s].seen,
                        conversations'[c].type = "OneToOne",
                        asked'[c] = Members(requests'[s])
                 PROVE  asked'[c] \cap deleted' # {}
      BY DEF Checked, SamePair, At
    <3>1. s # r /\ requests'[s] = requests[s]
      BY <2>1, <2>2
    <3>2. Stored(conversations, c)
      BY <2>5, <3>1
    <3> QED BY <2>1, <2>7, <3>1, <3>2 DEF Pairs, Checked, SamePair, At
  <2> QED BY <2>8, <2>9 DEF Pairs
<1>3. ASSUME NEW r \in Requests, Store(r), requests[r].admin \notin users
      PROVE  Pairs'
  <2>1. Becomes(r, Idle) /\ UNCHANGED <<deleted, conversations, asked, before>>
    BY <1>3, RefusedStep DEF history
  <2> QED BY <1>i, <2>1, IdleIsGood, StepIsGood, PairsQuiet
<1>4. ASSUME NEW r \in Requests, NEW u \in Users, Join(r, u) PROVE Pairs'
  <2>1. PICK rec : GoodRecord(rec) /\ Becomes(r, rec) /\ rec.pc = "join"
    BY <1>4, JoinStep
  <2>2. UNCHANGED <<deleted, conversations, asked, before>>
    BY <1>4, JoinStep DEF history
  <2> QED BY <2>1, <2>2, StepIsGood, PairsQuiet
<1>5. ASSUME NEW r \in Requests, Answer(r) PROVE Pairs'
  BY <1>i, <1>5, AnswerStep, IdleIsGood, StepIsGood, PairsQuiet
<1>6. ASSUME NEW u \in Users, DeleteUser(u) \/ ReviveUser(u) PROVE Pairs'
  <2>1. deleted \subseteq deleted'
        /\ UNCHANGED <<conversations, requests, asked, before>>
    BY <1>6 DEF DeleteUser, ReviveUser, history
  <2> QED BY <2>1, PairsQuiet
<1>7. CASE Crash
  <2>1. (\A s \in Requests : requests'[s] = Idle)
        /\ UNCHANGED <<deleted, conversations, asked, before>>
    BY <1>7 DEF Crash
  <2> QED BY <1>i, <2>1, PairsQuiet
<1>8. CASE UNCHANGED vars
  BY <1>8, PairsQuiet DEF vars, history
<1> QED BY <1>1, <1>2, <1>3, <1>4, <1>5, <1>6, <1>7, <1>8, StepCases

(* A pair gets no second one-to-one conversation from a request that began   *)
(* after the first was acknowledged, unless one of the two was deleted.      *)
THEOREM PairsAreFound == Spec => []PairIsFound
<1>1. TypeInv /\ Shelf /\ Membership /\ Pairs /\ [Next]_vars => Pairs'
  BY PairsNext
<1>2. Pairs => PairIsFound
  BY DEF Pairs
<1> QED BY <1>1, <1>2, PairsInit, TypeAlways, ShelfAlways, MembershipAlways, PTL
        DEF Spec

-----------------------------------------------------------------------------
(* The conversations implement the abstract book.                            *)

LEMMA BookInit == Init => Book!Init
  BY DEF Init, Book!Init, Admins

LEMMA BookNext ==
  TypeInv /\ Shelf /\ [Next]_vars => [Book!Next]_(Book!vars)
<1> SUFFICES ASSUME TypeInv, Shelf, [Next]_vars PROVE [Book!Next]_(Book!vars)
  OBVIOUS
<1>q. ASSUME UNCHANGED <<conversations, asked, participants>>
      PROVE  UNCHANGED Book!vars
  BY <1>q DEF Book!vars, Admins
<1>1. ASSUME NEW r \in Requests, Prepare(r) PROVE UNCHANGED Book!vars
  BY <1>1, <1>q, PrepareStep DEF history
<1>2. ASSUME NEW r \in Requests, Store(r), requests[r].admin \in users
      PROVE  Book!Next
  <2> DEFINE q   == requests[r]
             row == [type |-> q.type, admin |-> q.admin]
  <2>1. /\ nextId \in Ids /\ nextId \in Nat
        /\ q.admin \in Users /\ q.admin \in Members(q) /\ Members(q) \subseteq Users
        /\ row # None
        /\ conversations' = [conversations EXCEPT ![nextId] = row]
        /\ asked' = [asked EXCEPT ![nextId] = Members(q)]
        /\ UNCHANGED participants
    BY <1>2, StoreStep
  <2>2. row.admin = q.admin
    OBVIOUS
  <2>3. conversations \in [Ids -> Rows \cup {None}]
    BY DEF TypeInv, TypeOK
  <2> HIDE DEF q, row
  <2>4. Admins' = [Admins EXCEPT ![nextId] = q.admin]
    BY <2>1, <2>2, <2>3 DEF Admins
  <2>5. \A d \in Ids : asked[d] # {} => d < nextId
    BY <2>1, IdsAreNumbers DEF Shelf
  <2>6. Book!Open(nextId, q.admin, Members(q))
    BY <2>1, <2>4, <2>5 DEF Book!Open, Book!Opened
  <2> QED BY <2>1, <2>6 DEF Book!Next
<1>3. ASSUME NEW r \in Requests, Store(r), requests[r].admin \notin users
      PROVE  UNCHANGED Book!vars
  BY <1>3, <1>q, RefusedStep DEF history
<1>4. ASSUME NEW r \in Requests, NEW u \in Users, Join(r, u)
      PROVE  [Book!Next]_(Book!vars)
  <2>1. /\ requests[r].id \in Ids /\ u \in asked[requests[r].id]
        /\ UNCHANGED <<conversations, asked>>
    BY <1>4, JoinStep DEF Shelf, At, history
  <2>2. \/ participants' = participants \cup {<<requests[r].id, u>>}
        \/ UNCHANGED participants
    BY <1>4, JoinStep
  <2>3. CASE participants' = participants \cup {<<requests[r].id, u>>}
    <3>1. Admins' = Admins
      BY <2>1 DEF Admins
    <3>2. Book!Enter(requests[r].id, u)
      BY <2>1, <2>3, <3>1 DEF Book!Enter, Book!Opened
    <3> QED BY <2>1, <3>2 DEF Book!Next
  <2>4. CASE UNCHANGED participants
    BY <1>q, <2>1, <2>4
  <2> QED BY <2>2, <2>3, <2>4
<1>5. ASSUME NEW r \in Requests, Answer(r) PROVE UNCHANGED Book!vars
  BY <1>5, <1>q, AnswerStep
<1>6. ASSUME NEW u \in Users, DeleteUser(u) PROVE Book!Next
  <2>1. /\ \A c \in Ids : conversations[c] # None => conversations[c].admin # u
        /\ participants' = {p \in participants : p[2] # u}
        /\ UNCHANGED <<conversations, asked>>
    BY <1>6 DEF DeleteUser, history
  <2>2. (\A c \in Ids : Admins[c] # u) /\ Admins' = Admins
    BY <2>1, ConversationsAssumption DEF Admins
  <2>3. Book!Leave(u)
    BY <2>1, <2>2 DEF Book!Leave
  <2> QED BY <2>3 DEF Book!Next
<1>7. ASSUME NEW u \in Users, ReviveUser(u) PROVE UNCHANGED Book!vars
  BY <1>7, <1>q DEF ReviveUser, history
<1>8. CASE Crash
  BY <1>8, <1>q DEF Crash
<1>9. CASE UNCHANGED vars
  BY <1>9, <1>q DEF vars, history
<1> QED BY <1>1, <1>2, <1>3, <1>4, <1>5, <1>6, <1>7, <1>8, <1>9, StepCases

(* Every step of the creations, deletions and crashes opens a conversation   *)
(* under the next id, lets one of the people asked for in, lets a user who   *)
(* owns nothing leave, or changes nothing in the abstract book.              *)
THEOREM ImplementsBook == Spec => BookRefinement
<1>1. TypeInv /\ Shelf /\ [Next]_vars => [Book!Next]_(Book!vars)
  BY BookNext
<1> QED BY <1>1, BookInit, TypeAlways, ShelfAlways, PTL
        DEF Spec, BookRefinement, Book!Spec

-----------------------------------------------------------------------------
(* Everybody joins.  Whoever a stored conversation is for is a member, was   *)
(* deleted, or has a save under way, unless a crash caught the creation half *)
(* made.                                                                     *)

Settled(c, u)   == <<c, u>> \in participants \/ u \in deleted \/ c \in lost
Awaits(r, c, u) == /\ At(r, "join")
                   /\ requests[r].id = c /\ u \in requests[r].todo
UnderWay(c, u)  == \E r \in Requests : Awaits(r, c, u)
NobodyForgotten == \A c \in Ids : \A u \in asked[c] : Settled(c, u) \/ UnderWay(c, u)

\* A member leaves with its account only.
LEMMA SettledKeeps ==
  ASSUME TypeInv, [Next]_vars, NEW c \in Ids, NEW u \in Users, Settled(c, u)
  PROVE  Settled(c, u)'
<1>1. ASSUME NEW r \in Requests, Prepare(r) \/ Store(r) \/ Answer(r)
      PROVE  UNCHANGED <<participants, deleted, lost>>
  BY <1>1, PrepareStep, StoreStep, RefusedStep, AnswerStep DEF history
<1>2. ASSUME NEW r \in Requests, NEW v \in Users, Join(r, v)
      PROVE  participants \subseteq participants' /\ UNCHANGED <<deleted, lost>>
  BY <1>2, JoinStep DEF history
<1>3. ASSUME NEW v \in Users, DeleteUser(v) \/ ReviveUser(v) PROVE Settled(c, u)'
  BY <1>3 DEF DeleteUser, ReviveUser, history, Settled
<1>4. CASE Crash \/ UNCHANGED vars
  BY <1>4 DEF Crash, vars, history, Settled
<1> QED BY <1>1, <1>2, <1>3, <1>4, StepCases DEF Settled

\* A save stays under way until it takes effect or the process dies.
LEMMA AwaitsKeeps ==
  ASSUME TypeInv, Shelf, [Next]_vars, NEW r \in Requests, NEW c \in Ids,
         NEW u \in Users, Awaits(r, c, u)
  PROVE  Awaits(r, c, u)' \/ Settled(c, u)'
<1>1. ASSUME NEW s \in Requests, Prepare(s) \/ Store(s) \/ Answer(s)
      PROVE  requests'[r] = requests[r]
  <2>1. s # r /\ \E rec : GoodRecord(rec) /\ Becomes(s, rec)
    BY <1>1, PrepareStep, StoreStep, RefusedStep, AnswerStep, IdleIsGood
       DEF Awaits, At, Early
  <2> QED BY <2>1, StepIsGood
<1>2. ASSUME NEW s \in Requests, NEW v \in Users, Join(s, v)
      PROVE  Awaits(r, c, u)' \/ Settled(c, u)'
  <2>1. PICK rec : /\ GoodRecord(rec) /\ Becomes(s, rec)
                   /\ rec.pc = "join" /\ rec.id = requests[s].id
                   /\ rec.todo = requests[s].todo \ {v}
    BY <1>2, JoinStep
  <2>2. requests'[s] = rec /\ \A q \in Requests \ {s} : requests'[q] = requests[q]
    BY <2>1, StepIsGood
  <2>3. s = r /\ v = u => <<c, u>> \in participants' \/ u \in deleted'
    BY <1>2, JoinStep DEF history, Awaits, Shelf
  <2> QED BY <2>1, <2>2, <2>3 DEF Awaits, At, Settled
<1>3. CASE \E v \in Users : DeleteUser(v) \/ ReviveUser(v)
  BY <1>3 DEF DeleteUser, ReviveUser, Awaits, At
<1>4. CASE Crash
  BY <1>4 DEF Crash, Awaits, Settled
<1>5. CASE UNCHANGED vars
  BY <1>5 DEF vars, Awaits, At
<1> QED BY <1>1, <1>2, <1>3, <1>4, <1>5, StepCases DEF Awaits, At

LEMMA AskedKeeps ==
  ASSUME TypeInv, Shelf, [Next]_vars, NEW c \in Ids, NEW u \in asked'[c]
  PROVE  \/ asked'[c] = asked[c]
         \/ UnderWay(c, u)'
<1>1. ASSUME NEW r \in Requests, Prepare(r) \/ Answer(r) PROVE asked' = asked
  BY <1>1, PrepareStep, AnswerStep DEF history
<1>2. ASSUME NEW r \in Requests, NEW v \in Users, Join(r, v) PROVE asked' = asked
  BY <1>2, JoinStep DEF history
<1>3. ASSUME NEW r \in Requests, Store(r), requests[r].admin \notin users
      PROVE  asked' = asked
  BY <1>3, RefusedStep DEF history
<1>4. ASSUME NEW r \in Requests, Store(r), requests[r].admin \in users
      PROVE  asked'[c] = asked[c] \/ UnderWay(c, u)'
  <2> DEFINE rec == [Idle EXCEPT !.pc = "join", !.id = nextId,
                                 !.todo = Members(requests[r])]
  <2>1. /\ GoodRecord(rec) /\ Becomes(r, rec) /\ nextId \in Ids
        /\ rec.pc = "join" /\ rec.id = nextId /\ rec.todo = Members(requests[r])
        /\ asked' = [asked EXCEPT ![nextId] = Members(requests[r])]
    BY <1>4, StoreStep
  <2> HIDE DEF rec
  <2>2. requests'[r] = rec
    BY <2>1, StepIsGood
  <2>3. asked'[nextId] = Members(requests[r])
        /\ \A d \in Ids \ {nextId} : asked'[d] = asked[d]
    BY <2>1 DEF TypeInv, TypeOK
  <2> QED BY <2>1, <2>2, <2>3 DEF UnderWay, Awaits, At
<1>5. CASE \/ \E v \in Users : DeleteUser(v) \/ ReviveUser(v)
           \/ Crash \/ UNCHANGED vars
  BY <1>5 DEF DeleteUser, ReviveUser, Crash, vars, history
<1> QED BY <1>1, <1>2, <1>3, <1>4, <1>5, StepCases

LEMMA NobodyForgottenAlways == Spec => []NobodyForgotten
<1>1. Init => NobodyForgotten
  BY DEF Init, NobodyForgotten
<1>2. TypeInv /\ TypeInv' /\ Shelf /\ NobodyForgotten /\ [Next]_vars => NobodyForgotten'
  <2> SUFFICES ASSUME TypeInv, TypeInv', Shelf, NobodyForgotten, [Next]_vars,
                      NEW c \in Ids, NEW u \in asked'[c], ~UnderWay(c, u)'
               PROVE  Settled(c, u)'
    BY DEF NobodyForgotten
  <2>1. u \in asked[c] /\ u \in Users
    BY AskedKeeps DEF TypeInv, TypeOK
  <2>2. CASE Settled(c, u)
    BY <2>1, <2>2, SettledKeeps
  <2>3. CASE UnderWay(c, u)
    BY <2>1, <2>3, AwaitsKeeps DEF UnderWay
  <2> QED BY <2>1, <2>2, <2>3 DEF NobodyForgotten
<1> QED BY <1>1, <1>2, TypeAlways, ShelfAlways, PTL DEF Spec

(* Fairness, written out: SaveServed(r, u) is weak fairness of Join(r, u),   *)
(* which can be taken while the save for u is under way: the database        *)
(* answers each of the saves that Promise.all started, whatever the others   *)
(* do.  It speaks of the infinite future, so that the [] before it in the    *)
(* theorems adds nothing to it.                                              *)
Saving(r, u)     == At(r, "join") /\ u \in requests[r].todo
SaveServed(r, u) == []<>~Saving(r, u) \/ []<><<Join(r, u)>>_vars
SavesServed      == \A r \in Requests, u \in Users : SaveServed(r, u)

\* Everybody a stored conversation is for gets into it, has had the account
\* deleted, or the process died while it was created.
EverybodyJoinsOrLost ==
  \A c \in Ids, u \in Users : u \in asked[c] ~> Settled(c, u)

(* Whatever the other members' saves, deletions and other creations do.      *)
THEOREM ServedMembersJoinOrLost == Spec /\ []SavesServed => EverybodyJoinsOrLost
<1> SUFFICES ASSUME NEW c \in Ids, NEW u \in Users
             PROVE  Spec /\ []SavesServed => (u \in asked[c] ~> Settled(c, u))
  BY DEF EverybodyJoinsOrLost
<1> DEFINE Inv  == TypeInv /\ Shelf /\ NobodyForgotten
           P    == u \in asked[c]
           D    == Settled(c, u)
           W(r) == Awaits(r, c, u)
           Rest == []Inv /\ [][Next]_vars /\ []SavesServed
<1>1. Spec => []Inv
  BY TypeAlways, ShelfAlways, NobodyForgottenAlways, PTL DEF Spec
<1>2. ASSUME NEW r \in Requests PROVE Rest => (W(r) ~> D)
  <2>1. Inv /\ W(r) /\ [Next]_vars => W(r)' \/ D'
    BY AwaitsKeeps
  <2>2. Inv /\ W(r) /\ <<Join(r, u)>>_vars => D'
    BY JoinStep DEF history, Awaits, Shelf, Settled
  <2>3. W(r) => Saving(r, u)
    BY DEF Awaits, Saving
  <2>4. SavesServed => SaveServed(r, u)
    BY DEF SavesServed
  <2> HIDE DEF Inv, W, D
  <2>5. Rest => []<>~Saving(r, u) \/ []<><<Join(r, u)>>_vars
    BY <2>4, PTL DEF SaveServed
  <2> QED BY <2>1, <2>2, <2>3, <2>5, PTL
<1>3. Rest => \A r \in Requests : W(r) ~> D
  BY <1>2
<1>4. (\A r \in Requests : W(r) ~> D) => ((\E r \in Requests : W(r)) => <>D)
  <2> SUFFICES ASSUME NEW r \in Requests PROVE (W(r) ~> D) => (W(r) => <>D)
    OBVIOUS
  <2> HIDE DEF W, D
  <2> QED BY PTL
<1>5. Inv /\ P => D \/ \E r \in Requests : W(r)
  BY DEF NobodyForgotten, UnderWay
<1> HIDE DEF Inv, P, D, W
<1>6. Rest => []Rest
  BY PTL
<1>7. Rest => (P ~> D)
  BY <1>3, <1>4, <1>5, <1>6, PTL
<1>8. Spec /\ []SavesServed => (P ~> D)
  BY <1>1, <1>7, PTL DEF Spec
<1> QED BY <1>8 DEF P, D

\* A process that does not die loses no conversation.
LEMMA NothingIsLost ==
  ASSUME MaxCrashes = 0
  PROVE  Spec => [](lost = {})
<1>1. Init => lost = {}
  BY DEF Init
<1>2. TypeInv /\ lost = {} /\ [Next]_vars => (lost = {})'
  <2> SUFFICES ASSUME TypeInv, [Next]_vars PROVE lost' = lost
    OBVIOUS
  <2>1. ~Crash
    BY DEF Crash, TypeInv, TypeOK
  <2>2. ASSUME NEW r \in Requests, Prepare(r) \/ Store(r) \/ Answer(r)
        PROVE  lost' = lost
    BY <2>2, PrepareStep, StoreStep, RefusedStep, AnswerStep DEF history
  <2>3. ASSUME NEW r \in Requests, NEW v \in Users, Join(r, v) PROVE lost' = lost
    BY <2>3, JoinStep DEF history
  <2>4. CASE \/ \E v \in Users : DeleteUser(v) \/ ReviveUser(v)
             \/ UNCHANGED vars
    BY <2>4 DEF DeleteUser, ReviveUser, vars, history
  <2> QED BY <2>1, <2>2, <2>3, <2>4, StepCases
<1> QED BY <1>1, <1>2, TypeAlways, PTL DEF Spec

(* Everybody a stored conversation is for gets into it or is deleted, if the *)
(* saves are served and the process does not die.                            *)
THEOREM ServedMembersJoin ==
  ASSUME MaxCrashes = 0
  PROVE  Spec /\ []SavesServed => EverybodyJoins
<1> SUFFICES ASSUME NEW c \in Ids, NEW u \in Users
             PROVE  Spec /\ []SavesServed =>
                      (u \in asked[c] ~> (<<c, u>> \in participants \/ u \in deleted))
  BY DEF EverybodyJoins
<1>1. Spec /\ []SavesServed => (u \in asked[c] ~> Settled(c, u))
  BY ServedMembersJoinOrLost DEF EverybodyJoinsOrLost
<1>2. lost = {} /\ Settled(c, u) => <<c, u>> \in participants \/ u \in deleted
  BY DEF Settled
<1>3. Spec => [](lost = {})
  BY NothingIsLost
<1> QED BY <1>1, <1>2, <1>3, PTL

-----------------------------------------------------------------------------
(* What the abstract book promises, of the conversations.                    *)

\* Whoever takes part in a conversation is on its list, and so is its admin.
OnTheList == /\ \A p \in participants : p[2] \in asked[p[1]]
             /\ \A c \in Ids : Admins[c] # None => Admins[c] \in asked[c]

\* A conversation that is opened gets no other admin and no other list.
LEMMA OpenedKeeps ==
  ASSUME TypeInv, OnTheList, [Book!Next]_(Book!vars), NEW c \in Ids, asked[c] # {}
  PROVE  asked'[c] = asked[c] /\ Admins'[c] = Admins[c]
<1>1. ASSUME NEW d \in Ids, NEW p \in Users, NEW list \in SUBSET Users,
             Book!Open(d, p, list)
      PROVE  asked'[c] = asked[c] /\ Admins'[c] = Admins[c]
  <2>1. c < d
    BY <1>1 DEF Book!Open, Book!Opened
  <2>2. c # d
    BY <2>1, IdsAreNumbers
  <2> QED BY <1>1, <2>2 DEF Book!Open, TypeInv, TypeOK, Admins
<1> QED BY <1>1 DEF Book!Next, Book!Enter, Book!Leave, Book!vars

LEMMA OnTheListNext ==
  ASSUME TypeInv, TypeInv', OnTheList, [Book!Next]_(Book!vars)
  PROVE  OnTheList'
<1>t. /\ asked \in [Ids -> SUBSET Users] /\ participants \subseteq Ids \X Users
      /\ Admins = [c \in Ids |-> Admins[c]]
  BY DEF TypeInv, TypeOK, Admins
<1>1. ASSUME NEW c \in Ids, NEW p \in Users, NEW list \in SUBSET Users,
             Book!Open(c, p, list)
      PROVE  OnTheList'
  <2>1. /\ p \in list /\ UNCHANGED participants
        /\ asked' = [asked EXCEPT ![c] = list] /\ Admins' = [Admins EXCEPT ![c] = p]
    BY <1>1 DEF Book!Open
  <2>2. asked[c] = {}
    <3> SUFFICES ASSUME asked[c] # {} PROVE FALSE
      OBVIOUS
    <3>1. c < c
      BY <1>1 DEF Book!Open, Book!Opened
    <3> QED BY <3>1, IdsAreNumbers
  <2>3. ASSUME NEW i \in participants PROVE i[2] \in asked'[i[1]]
    <3>1. i[2] \in asked[i[1]] /\ i[1] \in Ids
      BY <1>t DEF OnTheList
    <3>2. i[1] # c
      BY <2>2, <3>1
    <3> QED BY <1>t, <2>1, <3>1, <3>2
  <2>4. ASSUME NEW d \in Ids, Admins'[d] # None PROVE Admins'[d] \in asked'[d]
    <3>1. CASE d = c
      BY <1>t, <2>1, <3>1
    <3>2. CASE d # c
      BY <1>t, <2>1, <2>4, <3>2 DEF OnTheList
    <3> QED BY <3>1, <3>2
  <2> QED BY <2>1, <2>3, <2>4 DEF OnTheList
<1>2. ASSUME NEW c \in Ids, NEW p \in Users, Book!Enter(c, p) PROVE OnTheList'
  BY <1>2 DEF Book!Enter, OnTheList
<1>3. ASSUME NEW p \in Users, Book!Leave(p) PROVE OnTheList'
  BY <1>3 DEF Book!Leave, OnTheList
<1>4. CASE UNCHANGED Book!vars
  BY <1>4 DEF Book!vars, OnTheList
<1> QED BY <1>1, <1>2, <1>3, <1>4 DEF Book!Next

(* Nobody takes part in a conversation who was not on the list it was opened *)
(* with, whichever creations overlap and whatever is deleted meanwhile.      *)
THEOREM OnlyTheAskedTakePart == Spec => []OnTheList
<1>1. Init => OnTheList
  BY DEF Init, OnTheList, Admins
<1>2. TypeInv /\ TypeInv' /\ Shelf /\ OnTheList /\ [Next]_vars => OnTheList'
  BY BookNext, OnTheListNext
<1> QED BY <1>1, <1>2, TypeAlways, ShelfAlways, PTL DEF Spec

(* The admin of a conversation who has got into it is its admin and takes    *)
(* part in it ever after: the foreign key on the admin keeps the account.    *)
THEOREM AdminsStay ==
  ASSUME NEW c \in Ids, NEW u \in Users
  PROVE  Spec => [](Admins[c] = u /\ <<c, u>> \in participants
                      => [](Admins[c] = u /\ <<c, u>> \in participants))
<1> DEFINE Presides == Admins[c] = u /\ <<c, u>> \in participants
<1>1. TypeInv /\ OnTheList /\ Shelf /\ Presides /\ [Next]_vars => Presides'
  <2> SUFFICES ASSUME TypeInv, OnTheList, Shelf, Presides, [Next]_vars PROVE Presides'
    OBVIOUS
  <2>1. [Book!Next]_(Book!vars) /\ u # None
    BY BookNext, ConversationsAssumption
  <2>2. Admins'[c] = u
    BY <2>1, OpenedKeeps DEF OnTheList
  <2>3. ASSUME NEW p \in Users, Book!Leave(p) PROVE <<c, u>> \in participants'
    BY <2>3 DEF Book!Leave
  <2>4. <<c, u>> \in participants'
    BY <2>1, <2>3 DEF Book!Next, Book!Open, Book!Enter, Book!vars
  <2> QED BY <2>2, <2>4
<1> HIDE DEF Presides
<1>2. Spec => [](Presides => []Presides)
  BY <1>1, TypeAlways, ShelfAlways, OnlyTheAskedTakePart, PTL DEF Spec
<1> QED BY <1>2 DEF Presides

=============================================================================
