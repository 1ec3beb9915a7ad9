-------------------------- MODULE PasswordResetProofs --------------------------
(* Proofs about PasswordReset, for every number of accounts, addresses and   *)
(* requests and every bound on codes, faults and writes by other handlers.   *)
EXTENDS PasswordReset, TLAPS

-----------------------------------------------------------------------------
(* Type correctness.  What a request carries goes with where it is.          *)

Shape(q) ==
  \/ q = Idle
  \/ /\ q.op = "forgot" /\ q.pc = "find"
     /\ q.user \in Users /\ q.email \in Emails /\ q.seen = None
     /\ q.row = 0 /\ q.save = "done" /\ q.second = "done"
  \/ /\ q.op = "forgot" /\ q.pc = "act"
     /\ q.user \in Users /\ q.email \in Emails /\ q.code \in Codes /\ q.seen = None
     /\ q.save = "load" => q.row # 0
  \/ /\ q.op = "reset" /\ q.pc = "read"
     /\ q.email \in Emails /\ q.code \in Codes
     /\ q.save = "done" /\ ~q.failed /\ q.reads # {}
     /\ "user" \in q.reads => q.user = None
     /\ q.user = None <=> q.seen = None
     /\ "row" \notin q.reads => q.row \in Codes
  \/ /\ q.op = "reset" /\ q.pc = "act"
     /\ q.code \in Codes /\ q.row \in Codes
     /\ q.seen # None => q.user # None
     /\ q.save # "done" => q.seen # None
  \/ /\ q.op = "change" /\ q.pc = "act"
     /\ q.user \in Users /\ q.code = 0 /\ q.second = "done"
     /\ q.save # "done" => q.seen # None

Base == TypeOK /\ \A r \in Requests : Shape(requests[r])

LEMMA NumbersAreNat == /\ Codes \subseteq Nat /\ 0 \notin Codes /\ MaxCodes \in Nat
                       /\ None \notin Codes /\ None # 0
  BY ResetAssumption DEF Codes

LEMMA IdleRecord ==
  /\ Idle \in RequestRecords /\ Shape(Idle)
  /\ Idle.pc = "idle" /\ Idle.op = "none" /\ Idle.seen = None
  BY NumbersAreNat DEF Idle, RequestRecords, Shape

\* What a request keeps while its effects take place.
Same(q, n) == /\ n.op = q.op /\ n.pc = q.pc /\ n.user = q.user /\ n.email = q.email
              /\ n.code = q.code /\ n.row = q.row /\ n.reads = q.reads
              /\ n.earlier = q.earlier
              /\ q.failed => n.failed

LEMMA SaveOverRecord ==
  ASSUME NEW q \in RequestRecords, Shape(q), q.pc = "act"
  PROVE  /\ SaveOver(q) \in RequestRecords /\ Shape(SaveOver(q))
         /\ Same(q, SaveOver(q))
         /\ SaveOver(q).save = "done" /\ SaveOver(q).second = q.second
         /\ SaveOver(q).seen = None
<1>1. SaveOver(q) \in RequestRecords
  BY DEF RequestRecords, SaveOver
<1>2. /\ Same(q, SaveOver(q))
      /\ SaveOver(q).save = "done" /\ SaveOver(q).second = q.second
      /\ SaveOver(q).seen = None
  BY DEF RequestRecords, SaveOver, Same
<1>3. q # Idle
  BY DEF Idle
<1> HIDE DEF SaveOver
<1> QED BY <1>1, <1>2, <1>3 DEF Shape, Same

LEMMA FailedRecord ==
  ASSUME NEW q \in RequestRecords, Shape(q), q.pc = "act"
  PROVE  LET n == [q EXCEPT !.failed = TRUE]
         IN /\ n \in RequestRecords /\ Shape(n) /\ Same(q, n) /\ n.failed
            /\ n.save = q.save /\ n.second = q.second /\ n.seen = q.seen
            /\ n.found = q.found
<1> DEFINE n == [q EXCEPT !.failed = TRUE]
<1>1. n \in RequestRecords
  BY DEF RequestRecords
<1>2. /\ Same(q, n) /\ n.failed
      /\ n.save = q.save /\ n.second = q.second /\ n.seen = q.seen /\ n.found = q.found
  BY DEF RequestRecords, Same
<1>3. q # Idle
  BY DEF Idle
<1> HIDE DEF n
<1>4. Shape(n)
  BY <1>1, <1>2, <1>3 DEF Shape, Same
<1> QED BY <1>1, <1>2, <1>4 DEF n

LEMMA SecondRecord ==
  ASSUME NEW q \in RequestRecords, Shape(q), q.pc = "act"
  PROVE  LET n == [q EXCEPT !.second = "done"]
         IN /\ n \in RequestRecords /\ Shape(n) /\ Same(q, n)
            /\ n.save = q.save /\ n.second = "done" /\ n.seen = q.seen
            /\ n.found = q.found
<1> DEFINE n == [q EXCEPT !.second = "done"]
<1>1. n \in RequestRecords
  BY DEF RequestRecords
<1>2. /\ Same(q, n)
      /\ n.save = q.save /\ n.second = "done" /\ n.seen = q.seen /\ n.found = q.found
  BY DEF RequestRecords, Same
<1>3. q # Idle
  BY DEF Idle
<1> HIDE DEF n
<1>4. Shape(n)
  BY <1>1, <1>2, <1>3 DEF Shape, Same
<1> QED BY <1>1, <1>2, <1>4 DEF n

LEMMA SecondFailedRecord ==
  ASSUME NEW q \in RequestRecords, Shape(q), q.pc = "act"
  PROVE  LET n == [q EXCEPT !.second = "done", !.failed = TRUE]
         IN /\ n \in RequestRecords /\ Shape(n) /\ Same(q, n) /\ n.failed
            /\ n.save = q.save /\ n.second = "done" /\ n.seen = q.seen
            /\ n.found = q.found
<1> DEFINE n == [q EXCEPT !.second = "done", !.failed = TRUE]
<1>1. n \in RequestRecords
  BY DEF RequestRecords
<1>2. /\ Same(q, n) /\ n.failed
      /\ n.save = q.save /\ n.second = "done" /\ n.seen = q.seen /\ n.found = q.found
  BY DEF RequestRecords, Same
<1>3. q # Idle
  BY DEF Idle
<1> HIDE DEF n
<1>4. Shape(n)
  BY <1>1, <1>2, <1>3 DEF Shape, Same
<1> QED BY <1>1, <1>2, <1>4 DEF n

\* The SELECT of a save.
LEMMA ForgotLoadRecord ==
  ASSUME NEW q \in RequestRecords, Shape(q), q.pc = "act", q.save = "load",
         NEW found \in BOOLEAN
  PROVE  LET n == [q EXCEPT !.save = "write", !.found = found]
         IN /\ n \in RequestRecords /\ Shape(n) /\ Same(q, n)
            /\ n.save = "write" /\ n.second = q.second /\ n.seen = q.seen
            /\ n.found <=> found
<1> DEFINE n == [q EXCEPT !.save = "write", !.found = found]
<1>1. n \in RequestRecords
  BY DEF RequestRecords
<1>2. /\ Same(q, n)
      /\ n.save = "write" /\ n.second = q.second /\ n.seen = q.seen
      /\ n.found <=> found
  BY DEF RequestRecords, Same
<1>3. q # Idle
  BY DEF Idle
<1> HIDE DEF n
<1>4. Shape(n)
  BY <1>1, <1>2, <1>3 DEF Shape, Same
<1> QED BY <1>1, <1>2, <1>4 DEF n

\* Requests that begin.
\* A forgot that has a code and knows where to save it.
LEMMA ForgotNewRecord ==
  ASSUME NEW q \in RequestRecords, Shape(q), q.op = "forgot", q.pc = "find",
         NEW c \in Codes
  PROVE  LET acts == [q EXCEPT !.pc = "act", !.code = c, !.second = "todo"]
             n    == [acts EXCEPT !.save = "write"]
         IN /\ n \in RequestRecords /\ Shape(n)
            /\ n.op = "forgot" /\ n.pc = "act" /\ n.user = q.user
            /\ n.code = c /\ n.row = 0 /\ n.save = "write" /\ n.seen = q.seen
            /\ n.earlier = q.earlier
<1> DEFINE n == [[q EXCEPT !.pc = "act", !.code = c, !.second = "todo"]
                    EXCEPT !.save = "write"]
<1>1. n \in RequestRecords
  BY DEF RequestRecords
<1>2. /\ n.op = "forgot" /\ n.pc = "act" /\ n.user = q.user /\ n.email = q.email
      /\ n.code = c /\ n.row = q.row /\ n.save = "write" /\ n.seen = q.seen
      /\ n.earlier = q.earlier
  BY DEF RequestRecords
<1>3. q # Idle /\ q.row = 0
  BY DEF Idle, Shape
<1> HIDE DEF n
<1>4. Shape(n)
  BY <1>1, <1>2, <1>3 DEF Shape
<1> QED BY <1>1, <1>2, <1>3, <1>4 DEF n

\* A reset that has one more answer to its queries.
Reading(q) == /\ q.op = "reset" /\ q.pc = "read"
              /\ q.email \in Emails /\ q.code \in Codes
              /\ q.save = "done" /\ ~q.failed
              /\ "user" \in q.reads => q.user = None
              /\ q.user = None <=> q.seen = None
              /\ "row" \notin q.reads => q.row \in Codes

LEMMA UnknownRecord ==
  ASSUME NEW x \in RequestRecords
  PROVE  LET n == [x EXCEPT !.pc = "act", !.second = "todo", !.save = "done", !.failed = TRUE]
         IN /\ n \in RequestRecords
            /\ n.op = x.op /\ n.code = x.code /\ n.email = x.email /\ n.row = x.row
            /\ n.user = x.user /\ n.seen = x.seen /\ n.reads = x.reads
            /\ n.pc = "act" /\ n.second = "todo" /\ n.save = "done" /\ n.failed
  BY DEF RequestRecords

LEMMA KnownRecord ==
  ASSUME NEW x \in RequestRecords
  PROVE  LET n == [x EXCEPT !.pc = "act", !.second = "todo", !.save = "load", !.failed = FALSE]
         IN /\ n \in RequestRecords
            /\ n.op = x.op /\ n.code = x.code /\ n.email = x.email /\ n.row = x.row
            /\ n.user = x.user /\ n.seen = x.seen /\ n.reads = x.reads
            /\ n.pc = "act" /\ n.second = "todo" /\ n.save = "load"
  BY DEF RequestRecords

LEMMA StartedRecord ==
  ASSUME NEW x \in RequestRecords, Reading(x)
  PROVE  /\ Started(x) \in RequestRecords /\ Shape(Started(x))
         /\ Started(x).op = "reset" /\ Started(x).code = x.code
         /\ Started(x).email = x.email
         /\ Started(x).row = x.row /\ Started(x).user = x.user /\ Started(x).seen = x.seen
         /\ Started(x).reads = x.reads
         /\ Started(x).pc = IF x.reads = {} THEN "act" ELSE "read"
         /\ x.reads = {} => Started(x).second = "todo"
<1>1. CASE x.reads # {}
  <2>1. Started(x) = x
    BY <1>1 DEF Started
  <2> QED BY <1>1, <2>1 DEF Reading, Shape
<1>2. CASE x.reads = {} /\ x.user = None
  <2> DEFINE n == [x EXCEPT !.pc = "act", !.second = "todo", !.save = "done", !.failed = TRUE]
  <2>1. Started(x) = n
    BY <1>2 DEF Started
  <2>2. /\ n \in RequestRecords
        /\ n.op = x.op /\ n.code = x.code /\ n.email = x.email /\ n.row = x.row
        /\ n.user = x.user /\ n.seen = x.seen /\ n.reads = x.reads
        /\ n.pc = "act" /\ n.second = "todo" /\ n.save = "done" /\ n.failed
    BY UnknownRecord
  <2> HIDE DEF n
  <2>3. Shape(n)
    BY <1>2, <2>2 DEF Reading, Shape
  <2> QED BY <1>2, <2>1, <2>2, <2>3 DEF Reading
<1>3. CASE x.reads = {} /\ x.user # None
  <2> DEFINE n == [x EXCEPT !.pc = "act", !.second = "todo", !.save = "load", !.failed = FALSE]
  <2>1. Started(x) = n
    BY <1>3 DEF Started
  <2>2. /\ n \in RequestRecords
        /\ n.op = x.op /\ n.code = x.code /\ n.email = x.email /\ n.row = x.row
        /\ n.user = x.user /\ n.seen = x.seen /\ n.reads = x.reads
        /\ n.pc = "act" /\ n.second = "todo" /\ n.save = "load"
    BY KnownRecord
  <2> HIDE DEF n
  <2>3. Shape(n)
    BY <1>3, <2>2 DEF Reading, Shape
  <2> QED BY <1>3, <2>1, <2>2, <2>3 DEF Reading
<1> QED BY <1>1, <1>2, <1>3

LEMMA NoUserRecord ==
  ASSUME NEW q \in RequestRecords, Shape(q), q.op = "reset", q.pc = "read",
         "user" \in q.reads
  PROVE  LET x == [q EXCEPT !.reads = @ \ {"user"}]
         IN /\ x \in RequestRecords /\ Reading(x)
            /\ x.code = q.code /\ x.email = q.email /\ x.row = q.row
            /\ x.user = None /\ x.seen = None /\ x.reads = q.reads \ {"user"}
<1> DEFINE x == [q EXCEPT !.reads = @ \ {"user"}]
<1>1. x \in RequestRecords
  BY DEF RequestRecords
<1>2. /\ x.op = "reset" /\ x.pc = "read" /\ x.save = q.save /\ x.failed = q.failed
      /\ x.code = q.code /\ x.email = q.email /\ x.row = q.row
      /\ x.user = q.user /\ x.seen = q.seen /\ x.reads = q.reads \ {"user"}
  BY DEF RequestRecords
<1>3. q # Idle
  BY DEF Idle
<1> HIDE DEF x
<1>4. Reading(x) /\ x.user = None /\ x.seen = None
  BY <1>2, <1>3 DEF Shape, Reading
<1> QED BY <1>1, <1>2, <1>4 DEF x

LEMMA FoundRowRecord ==
  ASSUME NEW q \in RequestRecords, Shape(q), q.op = "reset", q.pc = "read",
         "row" \in q.reads, NEW i \in Codes
  PROVE  LET x == [q EXCEPT !.row = i, !.reads = @ \ {"row"}]
         IN /\ x \in RequestRecords /\ Reading(x)
            /\ x.code = q.code /\ x.email = q.email /\ x.row = i
            /\ x.user = q.user /\ x.seen = q.seen /\ x.reads = q.reads \ {"row"}
<1> DEFINE x == [q EXCEPT !.row = i, !.reads = @ \ {"row"}]
<1>1. x \in RequestRecords
  BY DEF RequestRecords
<1>2. /\ x.op = "reset" /\ x.pc = "read" /\ x.save = q.save /\ x.failed = q.failed
      /\ x.code = q.code /\ x.email = q.email /\ x.row = i
      /\ x.user = q.user /\ x.seen = q.seen /\ x.reads = q.reads \ {"row"}
  BY DEF RequestRecords
<1>3. q # Idle
  BY DEF Idle
<1> HIDE DEF x
<1>4. Reading(x)
  BY <1>2, <1>3 DEF Shape, Reading
<1> QED BY <1>1, <1>2, <1>4 DEF x

\* A step of request r leaves the others alone.
Moved(r) == /\ requests' \in [Requests -> RequestRecords]
            /\ \A s \in Requests : Shape(requests'[s])
            /\ \A s \in Requests : s # r => requests'[s] = requests[s]

LEMMA Moving ==
  ASSUME Base, NEW r \in Requests, NEW n \in RequestRecords, Shape(n), Becomes(r, n)
  PROVE  Moved(r) /\ requests'[r] = n
  BY DEF Base, TypeOK, Becomes, Moved

LEMMA ForgotStartMoves ==
  ASSUME Base, NEW r \in Requests, NEW u \in Users, ForgotStart(r, u)
  PROVE  /\ Moved(r)
         /\ requests'[r].op = "forgot" /\ requests'[r].pc = "find"
         /\ requests'[r].user = u /\ requests'[r].seen = None
         /\ requests'[r].earlier = {c \in acked : owner[c] = u}
<1> DEFINE E == {c \in acked : owner[c] = u}
           e == users[u].email
           n == [Idle EXCEPT !.op = "forgot", !.pc = "find", !.user = u,
                             !.email = e, !.earlier = E]
<1>1. e \in Emails /\ E \in SUBSET Codes
  BY DEF Base, TypeOK, ForgotStart, UserRows
<1>2. Becomes(r, n)
  BY DEF ForgotStart
<1> HIDE DEF E, e
<1>3. /\ n \in RequestRecords /\ Shape(n)
      /\ n.op = "forgot" /\ n.pc = "find" /\ n.user = u /\ n.seen = None
      /\ n.earlier = E
  BY <1>1, NumbersAreNat DEF Idle, RequestRecords, Shape
<1> HIDE DEF n
<1>4. Moved(r) /\ requests'[r] = n
  BY <1>2, <1>3, Moving
<1> QED BY <1>3, <1>4 DEF E

LEMMA ChangeStartMoves ==
  ASSUME Base, NEW r \in Requests, NEW u \in Users, ChangeStart(r, u)
  PROVE  /\ Moved(r)
         /\ requests'[r].op = "change" /\ requests'[r].pc = "act"
         /\ requests'[r].user = u
         /\ requests'[r].seen = [email |-> users[u].email, verified |-> users[u].verified]
<1> DEFINE p == [email |-> users[u].email, verified |-> users[u].verified]
           n == [Idle EXCEPT !.op = "change", !.pc = "act", !.user = u, !.save = "load",
                             !.seen = p]
<1>1. p \in Profiles /\ p # None
  <2>1. p \in Profiles
    BY DEF Base, TypeOK, ChangeStart, UserRows, Profiles
  <2> QED BY <2>1, NoneIsNoAccount DEF Profiles
<1>2. Becomes(r, n)
  BY DEF ChangeStart
<1> HIDE DEF p
<1>3. /\ n \in RequestRecords /\ Shape(n)
      /\ n.op = "change" /\ n.pc = "act" /\ n.user = u /\ n.seen = p
  BY <1>1, NumbersAreNat DEF Idle, RequestRecords, Shape
<1> HIDE DEF n
<1>4. Moved(r) /\ requests'[r] = n
  BY <1>2, <1>3, Moving
<1> QED BY <1>3, <1>4 DEF p

LEMMA ForgotFindMoves ==
  ASSUME Base, NEW r \in Requests, ForgotFind(r)
  PROVE  /\ Moved(r)
         /\ requests'[r].op = "forgot" /\ requests'[r].pc = "act"
         /\ requests'[r].user = requests[r].user /\ requests'[r].code = nextCode
         /\ requests'[r].seen = None
         /\ requests'[r].earlier = requests[r].earlier
         /\ \/ /\ requests'[r].row \in RowsOf(requests[r].user)
               /\ requests'[r].save = "load"
            \/ /\ RowsOf(requests[r].user) = {}
               /\ requests'[r].row = 0 /\ requests'[r].save = "write"
<1> DEFINE q    == requests[r]
           acts == [q EXCEPT !.pc = "act", !.code = nextCode, !.second = "todo"]
<1>1. /\ q \in RequestRecords /\ Shape(q) /\ q.op = "forgot" /\ q.pc = "find"
      /\ nextCode \in Codes
  BY DEF ForgotFind, At, Base, TypeOK
<1>2. q.seen = None
  BY <1>1, IdleRecord DEF Shape
<1>3. ASSUME NEW i \in RowsOf(q.user), Becomes(r, [acts EXCEPT !.row = i, !.save = "load"])
      PROVE  /\ Moved(r)
             /\ requests'[r].op = "forgot" /\ requests'[r].pc = "act"
             /\ requests'[r].user = q.user /\ requests'[r].code = nextCode
             /\ requests'[r].seen = None /\ requests'[r].earlier = q.earlier
             /\ requests'[r].row = i /\ requests'[r].save = "load"
  <2> DEFINE n == [acts EXCEPT !.row = i, !.save = "load"]
  <2>1. i \in Codes
    BY DEF RowsOf
  <2> HIDE DEF q
  <2>3. /\ n \in RequestRecords /\ Shape(n)
        /\ n.op = "forgot" /\ n.pc = "act" /\ n.user = q.user
        /\ n.code = nextCode /\ n.row = i /\ n.save = "load" /\ n.seen = q.seen
        /\ n.earlier = q.earlier
    <3> DEFINE c == nextCode
               m == [q EXCEPT !.pc = "act", !.code = c, !.second = "todo"]
    <3> HIDE DEF c
    <3>1. /\ m \in RequestRecords
          /\ m.op = "forgot" /\ m.pc = "act" /\ m.user = q.user /\ m.email = q.email
          /\ m.code = c /\ m.seen = q.seen /\ m.earlier = q.earlier
      BY <1>1 DEF RequestRecords, c
    <3>2. n = [m EXCEPT !.row = i, !.save = "load"]
      BY DEF c
    <3> HIDE DEF m, n
    <3>3. /\ n \in RequestRecords
          /\ n.op = m.op /\ n.pc = m.pc /\ n.user = m.user /\ n.email = m.email
          /\ n.code = m.code /\ n.seen = m.seen /\ n.earlier = m.earlier
          /\ n.row = i /\ n.save = "load"
      BY <2>1, <3>1, <3>2 DEF RequestRecords
    <3>4. q # Idle /\ i # 0 /\ c \in Codes
      BY <1>1, <2>1, NumbersAreNat DEF Idle, c
    <3>5. Shape(n)
      BY <1>1, <2>1, <3>1, <3>3, <3>4 DEF Shape
    <3> QED BY <3>1, <3>3, <3>5 DEF c
  <2>4. Becomes(r, n)
    BY <1>3
  <2> HIDE DEF n
  <2> QED BY <1>2, <2>3, <2>4, Moving
<1>4. ASSUME Becomes(r, [acts EXCEPT !.save = "write"])
      PROVE  /\ Moved(r)
             /\ requests'[r].op = "forgot" /\ requests'[r].pc = "act"
             /\ requests'[r].user = q.user /\ requests'[r].code = nextCode
             /\ requests'[r].seen = None /\ requests'[r].earlier = q.earlier
             /\ requests'[r].row = 0 /\ requests'[r].save = "write"
  <2> DEFINE n == [acts EXCEPT !.save = "write"]
  <2> HIDE DEF q
  <2>3. /\ n \in RequestRecords /\ Shape(n)
        /\ n.op = "forgot" /\ n.pc = "act" /\ n.user = q.user
        /\ n.code = nextCode /\ n.row = 0 /\ n.save = "write" /\ n.seen = q.seen
        /\ n.earlier = q.earlier
    BY <1>1, ForgotNewRecord
  <2>4. Becomes(r, n)
    BY <1>4
  <2> HIDE DEF n
  <2> QED BY <1>2, <2>3, <2>4, Moving
<1>5. \/ \E i \in RowsOf(q.user) : Becomes(r, [acts EXCEPT !.row = i, !.save = "load"])
      \/ RowsOf(q.user) = {} /\ Becomes(r, [acts EXCEPT !.save = "write"])
  BY DEF ForgotFind
<1> HIDE DEF acts
<1> QED BY <1>3, <1>4, <1>5

LEMMA Acting ==
  ASSUME Base, NEW r \in Requests, requests[r].pc = "act"
  PROVE  requests[r] \in RequestRecords /\ Shape(requests[r])
  BY DEF Base, TypeOK

LEMMA ForgotLoadMoves ==
  ASSUME Base, NEW r \in Requests, ForgotLoad(r)
  PROVE  /\ Moved(r) /\ Same(requests[r], requests'[r])
         /\ requests'[r].save = "write" /\ requests'[r].second = requests[r].second
         /\ requests'[r].seen = requests[r].seen
         /\ requests'[r].found <=> rows[requests[r].row] # None
<1> DEFINE q == requests[r]
           f == rows[q.row] # None
           n == [q EXCEPT !.save = "write", !.found = f]
<1>1. /\ q \in RequestRecords /\ Shape(q) /\ q.pc = "act" /\ q.save = "load"
      /\ Becomes(r, n) /\ f \in BOOLEAN
  BY Acting DEF ForgotLoad, At
<1> HIDE DEF q, f
<1>2. /\ n \in RequestRecords /\ Shape(n) /\ Same(q, n)
      /\ n.save = "write" /\ n.second = q.second /\ n.seen = q.seen
      /\ n.found <=> f
  BY <1>1, ForgotLoadRecord
<1> HIDE DEF n
<1>3. Moved(r) /\ requests'[r] = n
  BY <1>1, <1>2, Moving
<1> QED BY <1>2, <1>3 DEF q, f

LEMMA SaveOverMoves ==
  ASSUME Base, NEW r \in Requests, requests[r].pc = "act",
         Becomes(r, SaveOver(requests[r]))
  PROVE  /\ Moved(r) /\ Same(requests[r], requests'[r])
         /\ requests'[r].save = "done" /\ requests'[r].second = requests[r].second
         /\ requests'[r].seen = None
<1> DEFINE n == SaveOver(requests[r])
<1>1. /\ n \in RequestRecords /\ Shape(n) /\ Same(requests[r], n)
      /\ n.save = "done" /\ n.second = requests[r].second /\ n.seen = None
  BY Acting, SaveOverRecord
<1>2. Becomes(r, n)
  OBVIOUS
<1> HIDE DEF n
<1>3. Moved(r) /\ requests'[r] = n
  BY <1>1, <1>2, Moving
<1> QED BY <1>1, <1>3

LEMMA SaveFailsMoves ==
  ASSUME Base, NEW r \in Requests, requests[r].pc = "act",
         Becomes(r, [SaveOver(requests[r]) EXCEPT !.failed = TRUE])
  PROVE  /\ Moved(r) /\ Same(requests[r], requests'[r]) /\ requests'[r].failed
         /\ requests'[r].save = "done" /\ requests'[r].second = requests[r].second
         /\ requests'[r].seen = None
<1> DEFINE q == requests[r]
           d == SaveOver(q)
           n == [d EXCEPT !.failed = TRUE]
<1>1. q \in RequestRecords /\ Shape(q) /\ q.pc = "act"
  BY Acting
<1>2. /\ d \in RequestRecords /\ Shape(d) /\ Same(q, d)
      /\ d.save = "done" /\ d.second = q.second /\ d.seen = None
  BY <1>1, SaveOverRecord
<1>3. Becomes(r, n)
  OBVIOUS
<1>4. d.pc = "act"
  BY <1>1, <1>2 DEF Same
<1> HIDE DEF d
<1>5. /\ n \in RequestRecords /\ Shape(n) /\ Same(d, n) /\ n.failed
      /\ n.save = d.save /\ n.second = d.second /\ n.seen = d.seen
  BY <1>2, <1>4, FailedRecord
<1> HIDE DEF n
<1>6. Moved(r) /\ requests'[r] = n
  BY <1>3, <1>5, Moving
<1>7. Same(q, n)
  BY <1>2, <1>5 DEF Same
<1> QED BY <1>2, <1>5, <1>6, <1>7

LEMMA SecondMoves ==
  ASSUME Base, NEW r \in Requests, requests[r].pc = "act",
         Becomes(r, [requests[r] EXCEPT !.second = "done"])
  PROVE  /\ Moved(r) /\ Same(requests[r], requests'[r])
         /\ requests'[r].save = requests[r].save /\ requests'[r].second = "done"
         /\ requests'[r].seen = requests[r].seen
         /\ requests'[r].found = requests[r].found
<1> DEFINE q == requests[r]
           n == [q EXCEPT !.second = "done"]
<1>1. q \in RequestRecords /\ Shape(q) /\ q.pc = "act" /\ Becomes(r, n)
  BY Acting
<1> HIDE DEF q
<1>2. /\ n \in RequestRecords /\ Shape(n) /\ Same(q, n)
      /\ n.save = q.save /\ n.second = "done" /\ n.seen = q.seen /\ n.found = q.found
  BY <1>1, SecondRecord
<1> HIDE DEF n
<1>3. Moved(r) /\ requests'[r] = n
  BY <1>1, <1>2, Moving
<1> QED BY <1>2, <1>3 DEF q

LEMMA SecondFailsMoves ==
  ASSUME Base, NEW r \in Requests, requests[r].pc = "act",
         Becomes(r, [requests[r] EXCEPT !.second = "done", !.failed = TRUE])
  PROVE  /\ Moved(r) /\ Same(requests[r], requests'[r]) /\ requests'[r].failed
         /\ requests'[r].save = requests[r].save /\ requests'[r].second = "done"
         /\ requests'[r].seen = requests[r].seen
         /\ requests'[r].found = requests[r].found
<1> DEFINE q == requests[r]
           n == [q EXCEPT !.second = "done", !.failed = TRUE]
<1>1. q \in RequestRecords /\ Shape(q) /\ q.pc = "act" /\ Becomes(r, n)
  BY Acting
<1> HIDE DEF q
<1>2. /\ n \in RequestRecords /\ Shape(n) /\ Same(q, n) /\ n.failed
      /\ n.save = q.save /\ n.second = "done" /\ n.seen = q.seen /\ n.found = q.found
  BY <1>1, SecondFailedRecord
<1> HIDE DEF n
<1>3. Moved(r) /\ requests'[r] = n
  BY <1>1, <1>2, Moving
<1> QED BY <1>2, <1>3 DEF q

LEMMA ForgotWriteMoves ==
  ASSUME Base, NEW r \in Requests, ForgotWrite(r)
  PROVE  /\ Moved(r) /\ Same(requests[r], requests'[r])
         /\ requests'[r].save = "done" /\ requests'[r].second = requests[r].second
         /\ requests'[r].seen = None
         /\ \/ /\ requests[r].row = 0 /\ users[requests[r].user] # None
               /\ RowsOf(requests[r].user) = {}
               /\ rows' = [rows EXCEPT ![requests[r].code] =
                             [user |-> requests[r].user, code |-> requests[r].code]]
            \/ /\ requests[r].row # 0 /\ requests[r].found /\ rows[requests[r].row] # None
               /\ rows' = [rows EXCEPT ![requests[r].row] =
                             [user |-> @.user, code |-> requests[r].code]]
            \/ /\ requests[r].row # 0 /\ requests[r].found /\ rows[requests[r].row] = None
               /\ UNCHANGED rows
            \/ /\ requests[r].row # 0 /\ ~requests[r].found /\ rows[requests[r].row] = None
               /\ rows' = [rows EXCEPT ![requests[r].row] =
                             [user |-> None, code |-> requests[r].code]]
            \/ requests'[r].failed /\ UNCHANGED rows
<1>1. requests[r].pc = "act"
  BY DEF ForgotWrite, At
<1>2. CASE Becomes(r, SaveOver(requests[r]))
  <2>1. /\ Moved(r) /\ Same(requests[r], requests'[r])
        /\ requests'[r].save = "done" /\ requests'[r].second = requests[r].second
        /\ requests'[r].seen = None
    BY <1>1, <1>2, SaveOverMoves
  <2>2. Becomes(r, [SaveOver(requests[r]) EXCEPT !.failed = TRUE])
          => requests'[r].failed
    BY <1>1, SaveFailsMoves
  <2> QED BY <2>1, <2>2 DEF ForgotWrite
<1>3. CASE Becomes(r, [SaveOver(requests[r]) EXCEPT !.failed = TRUE])
  <2>1. /\ Moved(r) /\ Same(requests[r], requests'[r]) /\ requests'[r].failed
        /\ requests'[r].save = "done" /\ requests'[r].second = requests[r].second
        /\ requests'[r].seen = None
    BY <1>1, <1>3, SaveFailsMoves
  <2> QED BY <2>1 DEF ForgotWrite
<1> QED BY <1>2, <1>3 DEF ForgotWrite

LEMMA ResetStartMoves ==
  ASSUME Base, NEW r \in Requests, NEW m \in mails, ResetStart(r, m)
  PROVE  /\ Moved(r)
         /\ requests'[r].op = "reset" /\ requests'[r].pc = "read"
         /\ requests'[r].code = m.code /\ requests'[r].email = m.email
         /\ requests'[r].user = None /\ requests'[r].seen = None
         /\ requests'[r].reads = {"user", "row"}
<1> DEFINE c == m.code
           e == m.email
           n == [Idle EXCEPT !.op = "reset", !.pc = "read", !.code = c,
                             !.email = e, !.reads = {"user", "row"}]
<1>1. c \in Codes /\ e \in Emails
  BY DEF Base, TypeOK, Links
<1>2. Becomes(r, n)
  BY DEF ResetStart
<1> HIDE DEF c, e
<1>3. /\ n \in RequestRecords /\ Shape(n)
      /\ n.op = "reset" /\ n.pc = "read" /\ n.code = c /\ n.email = e
      /\ n.user = None /\ n.seen = None /\ n.reads = {"user", "row"}
  BY <1>1, NumbersAreNat DEF Idle, RequestRecords, Shape
<1> HIDE DEF n
<1>4. Moved(r) /\ requests'[r] = n
  BY <1>2, <1>3, Moving
<1> QED BY <1>3, <1>4 DEF c, e

\* What the answer to a query of a reset leaves as it was.
Reads(q, n) == /\ n.op = "reset" /\ n.code = q.code /\ n.email = q.email
               /\ n.pc = IF n.reads = {} THEN "act" ELSE "read"
               /\ n.pc = "act" => n.second = "todo"

LEMMA ResetFindUserMoves ==
  ASSUME Base, NEW r \in Requests, ResetFindUser(r)
  PROVE  /\ Moved(r) /\ Reads(requests[r], requests'[r])
         /\ requests'[r].row = requests[r].row
         /\ requests'[r].reads = requests[r].reads \ {"user"}
         /\ \/ \E u \in Users : /\ users[u] # None /\ users[u].email = requests[r].email
                                /\ requests'[r].user = u
                                /\ requests'[r].seen = [email    |-> users[u].email,
                                                        verified |-> users[u].verified]
            \/ requests'[r].user = None /\ requests'[r].seen = None
<1> DEFINE q    == requests[r]
           rest == [q EXCEPT !.reads = @ \ {"user"}]
<1>1. /\ q \in RequestRecords /\ Shape(q) /\ q.op = "reset" /\ q.pc = "read"
      /\ "user" \in q.reads
  BY DEF ResetFindUser, At, Base, TypeOK
<1>2. ASSUME NEW u \in Users, users[u] # None, users[u].email = q.email,
             Becomes(r, Started([rest EXCEPT !.user = u,
                  !.seen = [email |-> users[u].email, verified |-> users[u].verified]]))
      PROVE  /\ Moved(r) /\ Reads(q, requests'[r])
             /\ requests'[r].row = q.row /\ requests'[r].reads = q.reads \ {"user"}
             /\ requests'[r].user = u
             /\ requests'[r].seen = [email    |-> users[u].email,
                                     verified |-> users[u].verified]
  <2> DEFINE p == [email |-> users[u].email, verified |-> users[u].verified]
             x == [rest EXCEPT !.user = u, !.seen = p]
  <2>1. p \in Profiles
    BY <1>2 DEF Base, TypeOK, UserRows, Profiles
  <2>2. Becomes(r, Started(x))
    BY <1>2
  <2> HIDE DEF p, q
  <2>3. /\ x \in RequestRecords /\ Reading(x)
        /\ x.code = q.code /\ x.email = q.email /\ x.row = q.row
        /\ x.user = u /\ x.seen = p /\ x.reads = q.reads \ {"user"}
    <3>1. x \in RequestRecords
      BY <1>1, <2>1 DEF RequestRecords
    <3>2. /\ x.op = "reset" /\ x.pc = "read" /\ x.save = q.save /\ x.failed = q.failed
          /\ x.code = q.code /\ x.email = q.email /\ x.row = q.row
          /\ x.user = u /\ x.seen = p /\ x.reads = q.reads \ {"user"}
      BY <1>1 DEF RequestRecords
    <3>3. q # Idle /\ u # None /\ p # None
      BY <1>1, <2>1, ResetAssumption, NoneIsNoAccount DEF Idle, Profiles
    <3> HIDE DEF x
    <3>4. Reading(x)
      BY <1>1, <3>2, <3>3 DEF Shape, Reading
    <3> QED BY <3>1, <3>2, <3>4
  <2> HIDE DEF x
  <2> DEFINE n == Started(x)
  <2>4. /\ n \in RequestRecords /\ Shape(n)
        /\ n.op = "reset" /\ n.code = x.code /\ n.email = x.email
        /\ n.row = x.row /\ n.user = x.user /\ n.seen = x.seen /\ n.reads = x.reads
        /\ n.pc = IF x.reads = {} THEN "act" ELSE "read"
        /\ x.reads = {} => n.second = "todo"
    BY <2>3, StartedRecord
  <2> HIDE DEF n
  <2>5. Moved(r) /\ requests'[r] = n
    BY <2>2, <2>4, Moving DEF n
  <2>6. Reads(q, n)
    BY <2>3, <2>4 DEF Reads
  <2> QED BY <2>3, <2>4, <2>5, <2>6 DEF p
<1>3. ASSUME Becomes(r, Started(rest))
      PROVE  /\ Moved(r) /\ Reads(q, requests'[r])
             /\ requests'[r].row = q.row /\ requests'[r].reads = q.reads \ {"user"}
             /\ requests'[r].user = None /\ requests'[r].seen = None
  <2> DEFINE x == rest
  <2>2. Becomes(r, Started(x))
    BY <1>3
  <2> HIDE DEF q
  <2>3. /\ x \in RequestRecords /\ Reading(x)
        /\ x.code = q.code /\ x.email = q.email /\ x.row = q.row
        /\ x.user = None /\ x.seen = None /\ x.reads = q.reads \ {"user"}
    BY <1>1, NoUserRecord
  <2> HIDE DEF x
  <2> DEFINE n == Started(x)
  <2>4. /\ n \in RequestRecords /\ Shape(n)
        /\ n.op = "reset" /\ n.code = x.code /\ n.email = x.email
        /\ n.row = x.row /\ n.user = x.user /\ n.seen = x.seen /\ n.reads = x.reads
        /\ n.pc = IF x.reads = {} THEN "act" ELSE "read"
        /\ x.reads = {} => n.second = "todo"
    BY <2>3, StartedRecord
  <2> HIDE DEF n
  <2>5. Moved(r) /\ requests'[r] = n
    BY <2>2, <2>4, Moving DEF n
  <2>6. Reads(q, n)
    BY <2>3, <2>4 DEF Reads
  <2> QED BY <2>3, <2>4, <2>5, <2>6
<1>4. \/ \E u \in Users : /\ users[u] # None /\ users[u].email = q.email
                          /\ Becomes(r, Started([rest EXCEPT !.user = u,
                               !.seen = [email    |-> users[u].email,
                                         verified |-> users[u].verified]]))
      \/ Becomes(r, Started(rest))
  BY DEF ResetFindUser
<1> HIDE DEF rest
<1> QED BY <1>2, <1>3, <1>4

LEMMA ResetFindRowMoves ==
  ASSUME Base, NEW r \in Requests, ResetFindRow(r)
  PROVE  \/ /\ Moved(r) /\ Reads(requests[r], requests'[r])
            /\ requests'[r].user = requests[r].user
            /\ requests'[r].seen = requests[r].seen
            /\ requests'[r].reads = requests[r].reads \ {"row"}
            /\ \E i \in Codes : Matches(i, requests[r]) /\ requests'[r].row = i
            /\ passed' = passed \cup {requests[r].code}
         \/ Moved(r) /\ requests'[r] = Idle /\ UNCHANGED passed
<1> DEFINE q == requests[r]
<1>1. /\ q \in RequestRecords /\ Shape(q) /\ q.op = "reset" /\ q.pc = "read"
      /\ "row" \in q.reads
  BY DEF ResetFindRow, At, Base, TypeOK
<1>2. ASSUME NEW i \in Codes,
             Becomes(r, Started([q EXCEPT !.row = i, !.reads = @ \ {"row"}]))
      PROVE  /\ Moved(r) /\ Reads(q, requests'[r])
             /\ requests'[r].user = q.user /\ requests'[r].seen = q.seen
             /\ requests'[r].reads = q.reads \ {"row"}
             /\ requests'[r].row = i
  <2> DEFINE x == [q EXCEPT !.row = i, !.reads = @ \ {"row"}]
  <2>2. Becomes(r, Started(x))
    BY <1>2
  <2> HIDE DEF q
  <2>3. /\ x \in RequestRecords /\ Reading(x)
        /\ x.code = q.code /\ x.email = q.email /\ x.row = i
        /\ x.user = q.user /\ x.seen = q.seen /\ x.reads = q.reads \ {"row"}
    BY <1>1, FoundRowRecord
  <2> HIDE DEF x
  <2> DEFINE n == Started(x)
  <2>4. /\ n \in RequestRecords /\ Shape(n)
        /\ n.op = "reset" /\ n.code = x.code /\ n.email = x.email
        /\ n.row = x.row /\ n.user = x.user /\ n.seen = x.seen /\ n.reads = x.reads
        /\ n.pc = IF x.reads = {} THEN "act" ELSE "read"
        /\ x.reads = {} => n.second = "todo"
    BY <2>3, StartedRecord
  <2> HIDE DEF n
  <2>5. Moved(r) /\ requests'[r] = n
    BY <2>2, <2>4, Moving DEF n
  <2>6. Reads(q, n)
    BY <2>3, <2>4 DEF Reads
  <2> QED BY <2>3, <2>4, <2>5, <2>6
<1>3. \/ \E i \in Codes :
           /\ Matches(i, q)
           /\ Becomes(r, Started([q EXCEPT !.row = i, !.reads = @ \ {"row"}]))
           /\ passed' = passed \cup {q.code}
      \/ Becomes(r, Idle) /\ UNCHANGED passed
  BY DEF ResetFindRow
<1>4. Becomes(r, Idle) => Moved(r) /\ requests'[r] = Idle
  BY IdleRecord, Moving
<1> QED BY <1>2, <1>3, <1>4

LEMMA UserLoadMoves ==
  ASSUME Base, NEW r \in Requests, UserLoad(r)
  PROVE  /\ Moved(r) /\ Same(requests[r], requests'[r])
         /\ requests'[r].save = "write" /\ requests'[r].second = requests[r].second
         /\ requests'[r].seen = requests[r].seen
<1> DEFINE q == requests[r]
           f == users[q.user] # None
           d == IF users[q.user] = None THEN {}
                ELSE {k \in {"email", "verified"} :
                        IF k = "email" THEN users[q.user].email # q.seen.email
                        ELSE users[q.user].verified # q.seen.verified}
           n == [q EXCEPT !.save = "write", !.found = f, !.differs = d]
<1>1. /\ q \in RequestRecords /\ Shape(q) /\ q.pc = "act" /\ q.save = "load"
      /\ Becomes(r, n) /\ f \in BOOLEAN
  BY Acting DEF UserLoad, SavesUser, At
<1>2. d \in SUBSET {"email", "verified"}
  OBVIOUS
<1> HIDE DEF q, f, d
<1>3. /\ n \in RequestRecords /\ Shape(n) /\ Same(q, n)
      /\ n.save = "write" /\ n.second = q.second /\ n.seen = q.seen
  <2>1. n \in RequestRecords
    BY <1>1, <1>2 DEF RequestRecords
  <2>2. /\ Same(q, n)
        /\ n.save = "write" /\ n.second = q.second /\ n.seen = q.seen
    BY <1>1 DEF RequestRecords, Same
  <2>3. q # Idle
    BY <1>1 DEF Idle
  <2> HIDE DEF n
  <2>4. Shape(n)
    BY <1>1, <2>1, <2>2, <2>3 DEF Shape, Same
  <2> QED BY <2>1, <2>2, <2>4
<1> HIDE DEF n
<1>4. Moved(r) /\ requests'[r] = n
  BY <1>1, <1>3, Moving
<1> QED BY <1>3, <1>4 DEF q

LEMMA UserWriteMoves ==
  ASSUME Base, NEW r \in Requests, UserWrite(r)
  PROVE  /\ Moved(r) /\ Same(requests[r], requests'[r])
         /\ requests'[r].save = "done" /\ requests'[r].second = requests[r].second
         /\ requests'[r].seen = None
<1>1. requests[r].pc = "act"
  BY DEF UserWrite, SavesUser, At
<1>2. \/ Becomes(r, SaveOver(requests[r]))
      \/ Becomes(r, [SaveOver(requests[r]) EXCEPT !.failed = TRUE])
  BY DEF UserWrite
<1> QED BY <1>1, <1>2, SaveOverMoves, SaveFailsMoves

LEMMA EffectFailsMoves ==
  ASSUME Base, NEW r \in Requests, EffectFails(r)
  PROVE  /\ Moved(r) /\ Same(requests[r], requests'[r]) /\ requests'[r].failed
         /\ \/ /\ requests[r].save # "done"
               /\ requests'[r].save = "done" /\ requests'[r].second = requests[r].second
               /\ requests'[r].seen = None
            \/ /\ requests[r].second # "done"
               /\ requests'[r].save = requests[r].save /\ requests'[r].second = "done"
               /\ requests'[r].seen = requests[r].seen
               /\ requests'[r].found = requests[r].found
<1>1. requests[r].pc = "act"
  BY DEF EffectFails
<1>2. \/ /\ requests[r].save # "done"
         /\ Becomes(r, [SaveOver(requests[r]) EXCEPT !.failed = TRUE])
      \/ /\ requests[r].second # "done"
         /\ Becomes(r, [requests[r] EXCEPT !.second = "done", !.failed = TRUE])
  BY DEF EffectFails
<1> QED BY <1>1, <1>2, SaveFailsMoves, SecondFailsMoves

LEMMA AnswerMoves ==
  ASSUME Base, NEW r \in Requests, ForgotAnswer(r) \/ ResetAnswer(r) \/ ChangeAnswer(r)
  PROVE  Moved(r) /\ requests'[r] = Idle
<1>1. Becomes(r, Idle)
  BY DEF ForgotAnswer, ResetAnswer, ChangeAnswer
<1> QED BY <1>1, IdleRecord, Moving

LEMMA SavedTyped ==
  ASSUME Base, NEW r \in Requests, SavesUser(r), requests[r].save = "write",
         requests[r].found <=> users[requests[r].user] # None
  PROVE  requests[r].user \in Users /\ Saved(requests[r]) \in UserRows
<1> DEFINE q == requests[r]
<1>1. q \in RequestRecords /\ Shape(q) /\ q.op \in {"reset", "change"} /\ q.pc = "act"
  BY DEF SavesUser, At, Base, TypeOK
<1>2. q.seen \in Profiles /\ q.user \in Users /\ q.code \in Codes \cup {0}
  BY <1>1 DEF Shape, Idle, RequestRecords
<1>3. q.found => users[q.user] \in UserRows
  BY <1>2 DEF Base, TypeOK
<1>4. /\ q.seen.email \in Emails /\ q.seen.verified \in BOOLEAN
      /\ q.found => users[q.user].email \in Emails /\ users[q.user].verified \in BOOLEAN
  BY <1>2, <1>3 DEF Profiles, UserRows
<1> HIDE DEF q
<1>5. ~q.found => Saved(q) = [email |-> q.seen.email, password |-> q.code,
                              verified |-> q.seen.verified]
  BY DEF Saved
<1>6. q.found => Saved(q) \in UserRows
  <2>1. /\ (IF ~q.found \/ "email" \in q.differs THEN q.seen.email
            ELSE users[q.user].email) \in Emails
        /\ q.code \in Codes \cup {0}
    BY <1>2, <1>4
  <2>2. q.found => (IF ~q.found \/ "verified" \in q.differs THEN q.seen.verified
                    ELSE users[q.user].verified) \in BOOLEAN
    BY <1>4
  <2> QED BY <2>1, <2>2 DEF Saved, UserRows
<1>7. ~q.found => Saved(q) \in UserRows
  BY <1>2, <1>4, <1>5 DEF UserRows
<1> QED BY <1>2, <1>6, <1>7 DEF q

\* What a step keeps of the types of everything but the requests.
Typed == /\ users \in [Users -> UserRows \cup {None}]
         /\ rows \in [Codes -> TokenRows \cup {None}]
         /\ mails \subseteq Links
         /\ nextCode \in 1..(MaxCodes + 1)
         /\ faults \in Nat /\ edits \in Nat
         /\ owner \in [Codes -> Users \cup {None}]
         /\ acked \subseteq Codes /\ superseded \subseteq Codes
         /\ passed \subseteq Codes /\ shaken \subseteq Codes
         /\ redeemed \subseteq Codes

LEMMA TypedHere ==
  Base => /\ Typed
          /\ \A r \in Requests : requests[r] \in RequestRecords /\ Shape(requests[r])
  BY DEF Base, TypeOK, Typed

LEMMA RewritesTyped ==
  ASSUME Base, NEW us, Rewrites(us)
  PROVE  shaken' \subseteq Codes
<1>1. {requests[r].code : r \in {q \in Requests : At(q, "reset", "read")}} \subseteq Codes
  <2>1. ASSUME NEW r \in Requests, At(r, "reset", "read")
        PROVE  requests[r].code \in Codes
    BY <2>1, TypedHere DEF At, Shape, Idle
  <2> QED BY <2>1
<1> QED BY <1>1 DEF Base, TypeOK, Rewrites

LEMMA BaseInit == Init => Base
<1> SUFFICES ASSUME Init
             PROVE  Base
  OBVIOUS
<1>1. users \in [Users -> UserRows \cup {None}]
  <2>1. [email : Emails, password : {0}, verified : BOOLEAN] \subseteq UserRows
    BY DEF UserRows
  <2> QED BY <2>1 DEF Init
<1>2. nextCode \in 1..(MaxCodes + 1)
  BY NumbersAreNat DEF Init
<1> QED BY <1>1, <1>2, IdleRecord DEF Init, Base, TypeOK

LEMMA BaseNext == Base /\ [Next]_vars => Base'
<1> SUFFICES ASSUME Base, [Next]_vars
             PROVE  Base'
  OBVIOUS
<1> USE TypedHere
<1>0. /\ (\E r \in Requests : Moved(r)) /\ Typed' => Base'
      /\ UNCHANGED requests /\ Typed' => Base'
  BY DEF Base, TypeOK, Typed, Moved
<1>1. ASSUME NEW r \in Requests, NEW u \in Users, ForgotStart(r, u)
      PROVE  Base'
  BY <1>0, <1>1, ForgotStartMoves DEF ForgotStart, Typed, history
<1>2. ASSUME NEW r \in Requests, ForgotFind(r)
      PROVE  Base'
  <2>1. nextCode \in Codes /\ requests[r].user \in Users
    <3>1. nextCode \in Codes /\ requests[r].op = "forgot" /\ requests[r].pc = "find"
      BY <1>2 DEF ForgotFind, At
    <3> QED BY <3>1 DEF Shape, Idle
  <2>2. nextCode + 1 \in 1..(MaxCodes + 1)
    BY <2>1, NumbersAreNat DEF Codes
  <2>3. owner' \in [Codes -> Users \cup {None}] /\ nextCode' = nextCode + 1
    BY <1>2, <2>1 DEF ForgotFind, Typed
  <2> QED BY <1>0, <1>2, <2>2, <2>3, ForgotFindMoves DEF ForgotFind, Typed
<1>3. ASSUME NEW r \in Requests, ForgotLoad(r)
      PROVE  Base'
  BY <1>0, <1>3, ForgotLoadMoves DEF ForgotLoad, Typed, history
<1>4. ASSUME NEW r \in Requests, ForgotWrite(r)
      PROVE  Base'
  <2>1. /\ requests[r].user \in Users /\ requests[r].code \in Codes
        /\ requests[r].row \in Codes \cup {0}
    BY <1>4 DEF ForgotWrite, At, Shape, Idle, RequestRecords
  <2>2. \A v \in Users \cup {None} :
          [user |-> v, code |-> requests[r].code] \in TokenRows \cup {None}
    BY <2>1 DEF TokenRows
  <2>3. requests[r].row \in Codes /\ rows[requests[r].row] # None
          => rows[requests[r].row].user \in Users \cup {None}
    BY DEF Typed, TokenRows
  <2>4. rows' \in [Codes -> TokenRows \cup {None}]
    <3>1. CASE rows' = [rows EXCEPT ![requests[r].code] =
                          [user |-> requests[r].user, code |-> requests[r].code]]
      BY <2>1, <2>2, <3>1 DEF Typed
    <3>2. CASE /\ requests[r].row # 0 /\ rows[requests[r].row] # None
               /\ rows' = [rows EXCEPT ![requests[r].row] =
                             [user |-> @.user, code |-> requests[r].code]]
      BY <2>1, <2>2, <2>3, <3>2 DEF Typed
    <3>3. CASE rows' = [rows EXCEPT ![requests[r].row] =
                          [user |-> None, code |-> requests[r].code]]
      BY <2>2, <3>3 DEF Typed
    <3>4. CASE UNCHANGED rows
      BY <3>4 DEF Typed
    <3> QED BY <1>4, <3>1, <3>2, <3>3, <3>4, ForgotWriteMoves
  <2> QED BY <1>0, <1>4, <2>4, ForgotWriteMoves DEF ForgotWrite, Typed, history
<1>5. ASSUME NEW r \in Requests, ForgotMail(r)
      PROVE  Base'
  <2>1. [code |-> requests[r].code, email |-> requests[r].email] \in Links
    BY <1>5 DEF ForgotMail, At, Shape, Idle, Links
  <2>2. mails' \subseteq Links
    BY <1>5, <2>1 DEF ForgotMail, Typed
  <2> QED BY <1>0, <1>5, <2>2, SecondMoves DEF ForgotMail, At, Typed, history
<1>6. ASSUME NEW r \in Requests, ForgotAnswer(r)
      PROVE  Base'
  <2>1. requests[r].code \in Codes /\ requests[r].earlier \subseteq Codes
    BY <1>6 DEF ForgotAnswer, At, Shape, Idle, RequestRecords
  <2>2. acked' \subseteq Codes /\ superseded' \subseteq Codes
    BY <1>6, <2>1 DEF ForgotAnswer, Typed
  <2> QED BY <1>0, <1>6, <2>2, AnswerMoves DEF ForgotAnswer, Typed
<1>7. ASSUME NEW r \in Requests, NEW m \in mails, ResetStart(r, m)
      PROVE  Base'
  BY <1>0, <1>7, ResetStartMoves DEF ResetStart, Typed, history
<1>8. ASSUME NEW r \in Requests, ResetFindUser(r)
      PROVE  Base'
  BY <1>0, <1>8, ResetFindUserMoves DEF ResetFindUser, Typed, history
<1>9. ASSUME NEW r \in Requests, ResetFindRow(r)
      PROVE  Base'
  <2>1. requests[r].code \in Codes
    <3>1. requests[r].op = "reset" /\ requests[r].pc = "read"
      BY <1>9 DEF ResetFindRow, At
    <3> QED BY <3>1 DEF Shape, Idle
  <2>2. passed' \subseteq Codes
    BY <1>9, <2>1, ResetFindRowMoves DEF Typed
  <2> QED BY <1>0, <1>9, <2>2, ResetFindRowMoves DEF ResetFindRow, Typed
<1>10. ASSUME NEW r \in Requests, UserLoad(r)
       PROVE  Base'
  BY <1>0, <1>10, UserLoadMoves DEF UserLoad, Typed, history
<1>11. ASSUME NEW r \in Requests, UserWrite(r)
       PROVE  Base'
  <2>1. users' \in [Users -> UserRows \cup {None}] /\ shaken' \subseteq Codes
    <3>1. CASE /\ requests[r].found = (users[requests[r].user] # None)
               /\ Rewrites([users EXCEPT ![requests[r].user] = Saved(requests[r])])
      <4>1. requests[r].user \in Users /\ Saved(requests[r]) \in UserRows
        <5>1. requests[r].found <=> users[requests[r].user] # None
          BY <3>1
        <5> QED BY <1>11, <5>1, SavedTyped DEF UserWrite
      <4>2. users' = [users EXCEPT ![requests[r].user] = Saved(requests[r])]
        BY <3>1 DEF Rewrites
      <4>3. users' \in [Users -> UserRows \cup {None}]
        BY <4>1, <4>2 DEF Typed
      <4> QED BY <3>1, <4>3, RewritesTyped
    <3>2. CASE UNCHANGED <<users, shaken>>
      BY <3>2 DEF Typed
    <3> QED BY <1>11, <3>1, <3>2 DEF UserWrite
  <2> QED BY <1>0, <1>11, <2>1, UserWriteMoves DEF UserWrite, Typed
<1>12. ASSUME NEW r \in Requests, ResetRemove(r)
       PROVE  Base'
  BY <1>0, <1>12, SecondMoves DEF ResetRemove, At, Typed, history
<1>13. ASSUME NEW r \in Requests, ResetAnswer(r)
       PROVE  Base'
  <2>1. requests[r].code \in Codes
    BY <1>13 DEF ResetAnswer, At, Shape, Idle
  <2>2. redeemed' \subseteq Codes
    BY <1>13, <2>1 DEF ResetAnswer, Typed
  <2> QED BY <1>0, <1>13, <2>2, AnswerMoves DEF ResetAnswer, Typed
<1>14. ASSUME NEW r \in Requests, EffectFails(r)
       PROVE  Base'
  <2>1. /\ UNCHANGED <<users, rows, mails, nextCode, edits, history>>
        /\ faults' = faults + 1
    BY <1>14 DEF EffectFails
  <2>2. Typed'
    BY <2>1 DEF Typed, history
  <2> QED BY <1>0, <1>14, <2>2, EffectFailsMoves
<1>15. ASSUME Crash
       PROVE  Base'
  BY <1>15, IdleRecord DEF Crash, Base, TypeOK, history
<1>16. ASSUME NEW u \in Users, NEW row \in UserRows, Update(u, row)
       PROVE  Base'
  <2>1. users' = [users EXCEPT ![u] = row]
    BY <1>16 DEF Update, Rewrites
  <2>2. users' \in [Users -> UserRows \cup {None}] /\ shaken' \subseteq Codes
    BY <1>16, <2>1, RewritesTyped DEF Update, Typed
  <2> QED BY <1>0, <1>16, <2>2 DEF Update, Typed
<1>17. ASSUME NEW u \in Users, VerifyUser(u)
       PROVE  Base'
  <2>1. users[u] \in UserRows
    BY <1>17 DEF VerifyUser, Typed
  <2>2. [users[u] EXCEPT !.verified = TRUE] \in UserRows
    BY <2>1 DEF UserRows
  <2>3. users' = [users EXCEPT ![u].verified = TRUE]
    BY <1>17 DEF VerifyUser, Rewrites
  <2>4. users' \in [Users -> UserRows \cup {None}] /\ shaken' \subseteq Codes
    BY <1>17, <2>2, <2>3, RewritesTyped DEF VerifyUser, Typed
  <2> QED BY <1>0, <1>17, <2>4 DEF VerifyUser, Typed
<1>18. ASSUME NEW u \in Users, DeleteUser(u)
       PROVE  Base'
  <2>1. users' = [users EXCEPT ![u] = None]
    BY <1>18 DEF DeleteUser, Rewrites
  <2>2. users' \in [Users -> UserRows \cup {None}] /\ shaken' \subseteq Codes
    BY <1>18, <2>1, RewritesTyped DEF DeleteUser, Typed
  <2>3. rows' \in [Codes -> TokenRows \cup {None}]
    BY <1>18 DEF DeleteUser, Typed
  <2> QED BY <1>0, <1>18, <2>2, <2>3 DEF DeleteUser, Typed
<1>19. ASSUME NEW r \in Requests, NEW u \in Users, ChangeStart(r, u)
       PROVE  Base'
  BY <1>0, <1>19, ChangeStartMoves DEF ChangeStart, Typed, history
<1>20. ASSUME NEW r \in Requests, ChangeAnswer(r)
       PROVE  Base'
  BY <1>0, <1>20, AnswerMoves DEF ChangeAnswer, Typed, history
<1>21. CASE UNCHANGED vars
  BY <1>0, <1>21 DEF vars, history, Typed
<1> QED BY <1>1, <1>2, <1>3, <1>4, <1>5, <1>6, <1>7, <1>8, <1>9, <1>10, <1>11, <1>12,
           <1>13, <1>14, <1>15, <1>16, <1>17, <1>18, <1>19, <1>20, <1>21
        DEF Next, Arrive, Continue

\* Every variable stays in its type, whatever the accounts, the requests, the
\* faults and the bounds.
THEOREM TypeCorrect == Spec => []TypeOK
<1>1. Base => TypeOK
  BY DEF Base
<1> QED BY BaseInit, BaseNext, <1>1, PTL DEF Spec

-----------------------------------------------------------------------------
(* One link per account.  What matters of a step is what it writes to the    *)
(* token rows.                                                               *)

\* Request q stores its code in a new row of its account.
Creates(q) == /\ RowsOf(q.user) = {}
              /\ rows' = [rows EXCEPT ![q.code] = [user |-> q.user, code |-> q.code]]

\* Request q stores its code in the row that it found.
Overwrites(q) == /\ q.row # 0 /\ rows[q.row] # None
                 /\ rows' = [rows EXCEPT ![q.row] = [user |-> @.user, code |-> q.code]]

\* Request q stores its code under the id of a row that was gone.
Recreates(q) == /\ q.row # 0 /\ ~q.found /\ rows[q.row] = None
                /\ rows' = [rows EXCEPT ![q.row] = [user |-> None, code |-> q.code]]

Saves(r) == /\ At(r, "forgot", "act") /\ requests[r].save = "write"
            /\ \/ Creates(requests[r]) /\ requests[r].row = 0
               \/ Overwrites(requests[r])
               \/ Recreates(requests[r])

\* Rows go.
Removes == /\ DOMAIN rows' = Codes
           /\ \A i \in Codes : rows'[i] \in {rows[i], None}

LEMMA RowsNext ==
  ASSUME Base, [Next]_vars
  PROVE  (\E r \in Requests : ForgotWrite(r) /\ Saves(r)) \/ Removes
<1> USE TypedHere
<1>0. UNCHANGED rows => Removes
  BY DEF Removes, Typed
<1>1. ASSUME NEW r \in Requests, ForgotWrite(r)
      PROVE  Saves(r) \/ UNCHANGED rows
  <2>1. At(r, "forgot", "act") /\ requests[r].save = "write"
    BY <1>1 DEF ForgotWrite
  <2> QED BY <1>1, <2>1, ForgotWriteMoves DEF Saves, Creates, Overwrites, Recreates
<1>2. ASSUME NEW r \in Requests, ResetRemove(r)
      PROVE  Removes
  BY <1>2 DEF ResetRemove, Removes, Typed
<1>3. ASSUME NEW u \in Users, DeleteUser(u)
      PROVE  Removes
  BY <1>3 DEF DeleteUser, Removes, Typed
<1>4. ASSUME NEW r \in Requests, NEW u \in Users, ForgotStart(r, u) \/ ChangeStart(r, u)
      PROVE  UNCHANGED rows
  BY <1>4 DEF ForgotStart, ChangeStart
<1>5. ASSUME NEW r \in Requests,
             \/ ForgotFind(r) \/ ForgotLoad(r) \/ ForgotMail(r) \/ ForgotAnswer(r)
             \/ ResetFindUser(r) \/ ResetFindRow(r) \/ UserLoad(r) \/ UserWrite(r)
             \/ ResetAnswer(r) \/ ChangeAnswer(r) \/ EffectFails(r)
      PROVE  UNCHANGED rows
  BY <1>5 DEF ForgotFind, ForgotLoad, ForgotMail, ForgotAnswer, ResetFindUser, ResetFindRow,
              UserLoad, UserWrite, ResetAnswer, ChangeAnswer, EffectFails
<1>6. ASSUME NEW r \in Requests, NEW m \in mails, ResetStart(r, m)
      PROVE  UNCHANGED rows
  BY <1>6 DEF ResetStart
<1>7. ASSUME NEW u \in Users, VerifyUser(u) \/ \E row \in UserRows : Update(u, row)
      PROVE  UNCHANGED rows
  BY <1>7 DEF VerifyUser, Update
<1>8. Crash => UNCHANGED rows
  BY DEF Crash
<1>9. UNCHANGED vars => UNCHANGED rows
  BY DEF vars
<1> QED BY <1>0, <1>1, <1>2, <1>3, <1>4, <1>5, <1>6, <1>7, <1>8, <1>9
        DEF Next, Arrive, Continue

LEMMA SavingRecord ==
  ASSUME Base, NEW r \in Requests, At(r, "forgot", "act")
  PROVE  /\ requests[r].user \in Users /\ requests[r].code \in Codes
         /\ requests[r].row \in Codes \cup {0}
         /\ requests[r].row # 0 => requests[r].row \in Codes
         /\ requests[r].earlier \subseteq Codes
  BY TypedHere DEF At, Shape, Idle, RequestRecords

LEMMA OneLinkInit == Init => OneLinkPerUser
  BY DEF Init, OneLinkPerUser, RowsOf

LEMMA OneLinkNext == Base /\ OneLinkPerUser /\ [Next]_vars => OneLinkPerUser'
<1> SUFFICES ASSUME Base, OneLinkPerUser, [Next]_vars
             PROVE  OneLinkPerUser'
  OBVIOUS
<1>0. (\A u \in Users : RowsOf(u)' \subseteq RowsOf(u)) => OneLinkPerUser'
  BY DEF OneLinkPerUser
<1>1. CASE Removes
  BY <1>0, <1>1, TypedHere DEF Removes, RowsOf, Typed
<1>2. ASSUME NEW r \in Requests, Saves(r)
      PROVE  OneLinkPerUser'
  <2> DEFINE q == requests[r]
  <2>1. /\ q.user \in Users /\ q.code \in Codes /\ q.row \in Codes \cup {0}
        /\ q.row # 0 => q.row \in Codes
    BY <1>2, SavingRecord DEF Saves
  <2>2. rows \in [Codes -> TokenRows \cup {None}] /\ None \notin Users
    BY TypedHere, ResetAssumption DEF Typed
  <2> HIDE DEF q
  <2>3. CASE Creates(q)
    <3>1. \A u \in Users : RowsOf(u)' \subseteq RowsOf(u) \cup (IF u = q.user THEN {q.code} ELSE {})
      BY <2>1, <2>2, <2>3 DEF Creates, RowsOf
    <3>2. RowsOf(q.user) = {}
      BY <2>3 DEF Creates
    <3> QED BY <3>1, <3>2 DEF OneLinkPerUser
  <2>4. CASE Overwrites(q)
    <3>1. \A u \in Users : RowsOf(u)' \subseteq RowsOf(u)
      BY <2>1, <2>2, <2>4 DEF Overwrites, RowsOf
    <3> QED BY <1>0, <3>1
  <2>5. CASE Recreates(q)
    <3>1. \A u \in Users : RowsOf(u)' \subseteq RowsOf(u)
      BY <2>1, <2>2, <2>5 DEF Recreates, RowsOf
    <3> QED BY <1>0, <3>1
  <2> QED BY <1>2, <2>3, <2>4, <2>5 DEF Saves, q
<1> QED BY <1>1, <1>2, RowsNext

\* At most one link of an account works at a time: forgotPassword either takes
\* over the row of the account or, where several requests found none, all but
\* one of the inserts are refused.
THEOREM OneLinkWorks == Spec => []OneLinkPerUser
<1>1. Init => Base /\ OneLinkPerUser
  BY BaseInit, OneLinkInit
<1>2. Base /\ OneLinkPerUser /\ [Next]_vars => (Base /\ OneLinkPerUser)'
  BY BaseNext, OneLinkNext
<1> QED BY <1>1, <1>2, PTL DEF Spec

-----------------------------------------------------------------------------
(* Verified accounts.  What a reset or a change saves is what it saw.        *)

\* What request s knows of an account it knew before, or just read there.
Sees(s) ==
  \/ requests'[s].seen = None
  \/ requests'[s].seen = requests[s].seen /\ requests'[s].user = requests[s].user
  \/ \E u \in Users : /\ users[u] # None
                      /\ requests'[s].user = u
                      /\ requests'[s].seen = [email    |-> users[u].email,
                                              verified |-> users[u].verified]

LEMMA SeenNext ==
  ASSUME Base, [Next]_vars
  PROVE  \A s \in Requests : Sees(s)
<1>0. ASSUME NEW r \in Requests, Moved(r), Sees(r)
      PROVE  \A s \in Requests : Sees(s)
  BY <1>0 DEF Moved, Sees
<1>1. ASSUME NEW r \in Requests,
             \/ ForgotFind(r) \/ ForgotLoad(r) \/ ForgotWrite(r)
             \/ ForgotAnswer(r) \/ ResetFindUser(r)
             \/ UserLoad(r) \/ UserWrite(r) \/ ResetAnswer(r) \/ ChangeAnswer(r)
             \/ EffectFails(r)
      PROVE  Moved(r) /\ Sees(r)
  <2>1. CASE ForgotFind(r)
    BY <2>1, ForgotFindMoves DEF Sees
  <2>2. CASE ForgotLoad(r)
    BY <2>2, ForgotLoadMoves DEF Sees, Same
  <2>3. CASE ForgotWrite(r)
    BY <2>3, ForgotWriteMoves DEF Sees
  <2>4. CASE ForgotAnswer(r) \/ ResetAnswer(r) \/ ChangeAnswer(r)
    BY <2>4, AnswerMoves, IdleRecord DEF Sees
  <2>5. CASE ResetFindUser(r)
    BY <2>5, ResetFindUserMoves DEF Sees
  <2>6. CASE UserLoad(r)
    BY <2>6, UserLoadMoves DEF Sees, Same
  <2>7. CASE UserWrite(r)
    BY <2>7, UserWriteMoves DEF Sees
  <2>8. CASE EffectFails(r)
    BY <2>8, EffectFailsMoves DEF Sees, Same
  <2> QED BY <1>1, <2>1, <2>2, <2>3, <2>4, <2>5, <2>6, <2>7, <2>8
<1>2. ASSUME NEW r \in Requests, ForgotMail(r) \/ ResetRemove(r)
      PROVE  Moved(r) /\ Sees(r)
  <2>1. /\ requests[r].pc = "act"
        /\ Becomes(r, [requests[r] EXCEPT !.second = "done"])
    BY <1>2 DEF ForgotMail, ResetRemove, At
  <2> QED BY <2>1, SecondMoves DEF Sees, Same
<1>3. ASSUME NEW r \in Requests, ResetFindRow(r)
      PROVE  Moved(r) /\ Sees(r)
  BY <1>3, ResetFindRowMoves, IdleRecord DEF Sees
<1>4. ASSUME NEW r \in Requests, Arrive(r)
      PROVE  Moved(r) /\ Sees(r)
  <2>1. ASSUME NEW u \in Users, ChangeStart(r, u)
        PROVE  Moved(r) /\ Sees(r)
    BY <2>1, ChangeStartMoves DEF ChangeStart, Sees
  <2> QED BY <1>4, <2>1, ForgotStartMoves, ResetStartMoves DEF Arrive, Sees
<1>5. CASE Crash
  BY <1>5, IdleRecord DEF Crash, Sees
<1>6. CASE UNCHANGED requests
  BY <1>6 DEF Sees
<1>7. ASSUME NEW u \in Users,
             VerifyUser(u) \/ DeleteUser(u) \/ \E row \in UserRows : Update(u, row)
      PROVE  UNCHANGED requests
  BY <1>7 DEF VerifyUser, DeleteUser, Update
<1>8. UNCHANGED vars => UNCHANGED requests
  BY DEF vars
<1> QED BY <1>0, <1>1, <1>2, <1>3, <1>4, <1>5, <1>6, <1>7, <1>8 DEF Next, Continue

\* What a step does to the row of account u.
Writes(u) ==
  \/ users'[u] = users[u]
  \/ users'[u] = None
  \/ /\ users[u] # None /\ users'[u] # None
     /\ users'[u].password = users[u].password
     /\ users[u].verified => users'[u].verified
  \/ \E row \in UserRows : Update(u, row) /\ users'[u] = row
  \/ \E r \in Requests : /\ SavesUser(r) /\ requests[r].save = "write"
                         /\ requests[r].user = u
                         /\ requests[r].found <=> users[u] # None
                         /\ users'[u] = Saved(requests[r])

LEMMA NoneIsNoRow == None \notin UserRows
<1>1. SUFFICES ASSUME None \in UserRows
               PROVE  FALSE
  OBVIOUS
<1>2. Codes \cup {0} \subseteq Nat
  BY NumbersAreNat
<1>3. UserRows \subseteq [email : Emails, password : Nat, verified : BOOLEAN]
  <2> DEFINE P == Codes \cup {0}
  <2>1. P \subseteq Nat
    BY <1>2
  <2>2. UserRows = [email : Emails, password : P, verified : BOOLEAN]
    BY DEF UserRows
  <2> HIDE DEF P
  <2> QED BY <2>1, <2>2
<1> QED BY <1>1, <1>3, NoneIsNoAccount

LEMMA WritesNext ==
  ASSUME Base, [Next]_vars
  PROVE  \A u \in Users : Writes(u)
<1> USE TypedHere
<1>0. ASSUME UNCHANGED users
      PROVE  \A u \in Users : Writes(u)
  BY <1>0 DEF Writes
<1>1. ASSUME NEW r \in Requests, UserWrite(r)
      PROVE  \A u \in Users : Writes(u)
  <2>1. CASE /\ requests[r].found = (users[requests[r].user] # None)
             /\ Rewrites([users EXCEPT ![requests[r].user] = Saved(requests[r])])
    <3>1. SavesUser(r) /\ requests[r].save = "write"
      BY <1>1 DEF UserWrite
    <3>2. requests[r].found <=> users[requests[r].user] # None
      BY <2>1
    <3>3. requests[r].user \in Users
      BY <3>1, <3>2, SavedTyped
    <3>4. users' = [users EXCEPT ![requests[r].user] = Saved(requests[r])]
      BY <2>1 DEF Rewrites
    <3> QED BY <3>1, <3>2, <3>3, <3>4 DEF Writes, Typed
  <2>2. CASE UNCHANGED users
    BY <1>0, <2>2
  <2> QED BY <1>1, <2>1, <2>2 DEF UserWrite
<1>2. ASSUME NEW v \in Users, NEW row \in UserRows, Update(v, row)
      PROVE  \A u \in Users : Writes(u)
  <2>1. users' = [users EXCEPT ![v] = row]
    BY <1>2 DEF Update, Rewrites
  <2>2. users'[v] = row /\ \A u \in Users : u # v => users'[u] = users[u]
    BY <2>1 DEF Typed
  <2> QED BY <1>2, <2>2 DEF Writes
<1>3. ASSUME NEW v \in Users, VerifyUser(v)
      PROVE  \A u \in Users : Writes(u)
  <2>1. users[v] \in UserRows /\ users[v] # None /\ users' = [users EXCEPT ![v].verified = TRUE]
    BY <1>3 DEF VerifyUser, Rewrites, Typed
  <2> DEFINE n == [users[v] EXCEPT !.verified = TRUE]
  <2>2. n \in UserRows /\ n.password = users[v].password /\ n.verified
    BY <2>1 DEF UserRows
  <2>3. users'[v] = n /\ \A u \in Users : u # v => users'[u] = users[u]
    BY <2>1 DEF Typed
  <2>4. n # None
    BY <2>2, NoneIsNoRow
  <2> HIDE DEF n
  <2> QED BY <2>1, <2>2, <2>3, <2>4 DEF Writes
<1>4. ASSUME NEW v \in Users, DeleteUser(v)
      PROVE  \A u \in Users : Writes(u)
  BY <1>4 DEF DeleteUser, Rewrites, Writes, Typed
<1>5. ASSUME NEW r \in Requests, Arrive(r)
      PROVE  UNCHANGED users
  BY <1>5 DEF Arrive, ForgotStart, ResetStart, ChangeStart
<1>6. ASSUME NEW r \in Requests,
             \/ ForgotFind(r) \/ ForgotLoad(r) \/ ForgotWrite(r) \/ ForgotMail(r)
             \/ ForgotAnswer(r) \/ ResetFindUser(r) \/ ResetFindRow(r) \/ UserLoad(r)
             \/ ResetRemove(r) \/ ResetAnswer(r) \/ ChangeAnswer(r) \/ EffectFails(r)
      PROVE  UNCHANGED users
  BY <1>6 DEF ForgotFind, ForgotLoad, ForgotWrite, ForgotMail, ForgotAnswer, ResetFindUser,
              ResetFindRow, UserLoad, ResetRemove, ResetAnswer, ChangeAnswer, EffectFails
<1>7. Crash => UNCHANGED users
  BY DEF Crash
<1>8. UNCHANGED vars => UNCHANGED users
  BY DEF vars
<1> QED BY <1>0, <1>1, <1>2, <1>3, <1>4, <1>5, <1>6, <1>7, <1>8 DEF Next, Continue

LEMMA SettledNext ==
  ASSUME Base, [Next]_vars, NEW u \in Users, Settled(u)
  PROVE  Settled(u)' \/ Revokes(u)
<1>1. users[u] # None => users[u].verified
  BY DEF Settled
<1>2. \A r \in Requests : requests[r].user = u /\ requests[r].seen # None
                            => requests[r].seen.verified
  BY DEF Settled, Unverifying
<1>3. \A r \in Requests : requests'[r].user = u /\ requests'[r].seen # None
                            => requests'[r].seen.verified
  <2> TAKE r \in Requests
  <2>1. HAVE requests'[r].user = u /\ requests'[r].seen # None
  <2>2. CASE /\ requests'[r].seen = requests[r].seen
             /\ requests'[r].user = requests[r].user
    BY <1>2, <2>1, <2>2
  <2>3. ASSUME NEW v \in Users, users[v] # None, requests'[r].user = v,
               requests'[r].seen = [email |-> users[v].email, verified |-> users[v].verified]
        PROVE  requests'[r].seen.verified
    <3>1. users[u].verified /\ v = u
      BY <1>1, <2>1, <2>3
    <3>2. [email |-> users[u].email, verified |-> users[u].verified].verified
            = users[u].verified
      OBVIOUS
    <3> QED BY <2>3, <3>1, <3>2
  <2> QED BY <2>1, <2>2, <2>3, SeenNext DEF Sees
<1>4. (users'[u] # None => users'[u].verified) \/ Revokes(u)
  <2>1. ASSUME NEW r \in Requests, SavesUser(r), requests[r].save = "write",
               requests[r].user = u, requests[r].found <=> users[u] # None
        PROVE  Saved(requests[r]).verified
    <3>1. requests[r].seen # None
      BY <2>1, TypedHere DEF SavesUser, At, Shape, Idle
    <3>2. requests[r].seen.verified
      BY <1>2, <2>1, <3>1
    <3> QED BY <1>1, <2>1, <3>2 DEF Saved
  <2>2. ASSUME NEW row \in UserRows, Update(u, row), users'[u] = row
        PROVE  users'[u].verified \/ Revokes(u)
    BY <2>2 DEF Revokes
  <2> QED BY <1>1, <2>1, <2>2, WritesNext DEF Writes
<1>5. Unverifying(u)' = {}
  BY <1>3 DEF Unverifying
<1> QED BY <1>4, <1>5 DEF Settled

\* A verified account stays verified, or a PATCH takes the flag back, once no
\* reset or change is under way that loaded it before: whatever overlaps, deletes
\* or edits it, only the save of such a request undoes the verification.
THEOREM VerifiedAccountsStay == Spec => VerifiedStays
<1>1. Base /\ [Next]_vars => [\A u \in Users : Settled(u) => Settled(u)' \/ Revokes(u)]_vars
  BY SettledNext
<1> QED BY BaseInit, BaseNext, <1>1, PTL DEF Spec, VerifiedStays

-----------------------------------------------------------------------------
(* The steps that leave the ledger alone: no code is generated, stored or    *)
(* found, and no request begins.                                             *)

\* Request s stands still, ends, or goes on with its effects.
Keeps(s) ==
  \/ requests'[s] = requests[s]
  \/ requests'[s] = Idle
  \/ /\ requests[s].pc = "act" /\ Same(requests[s], requests'[s])
     /\ requests[s].save = "done" => requests'[s].save = "done"
     /\ requests'[s].second = "done" /\ requests[s].op = "reset"
          => requests[s].second = "done" \/ requests'[s].failed
     /\ requests[s].op = "forgot" =>
          \/ requests'[s].failed
          \/ /\ requests[s].save = "load" /\ requests'[s].save = "write"
             /\ requests'[s].found <=> rows[requests[s].row] # None
          \/ /\ requests'[s].save = requests[s].save
             /\ requests'[s].found = requests[s].found

Quiet == /\ \A s \in Requests : Keeps(s)
         /\ Removes
         /\ UNCHANGED <<nextCode, owner, passed>>
         /\ \/ UNCHANGED mails
            \/ \E r \in Requests : /\ At(r, "forgot", "act")
                                   /\ mails' = mails \cup {[code  |-> requests[r].code,
                                                            email |-> requests[r].email]}
         /\ UNCHANGED <<acked, superseded>> \/ \E r \in Requests : ForgotAnswer(r)
         /\ UNCHANGED redeemed \/ \E r \in Requests : ResetAnswer(r)

\* The steps that do not.
Loud(r) == \/ \E u \in Users : ForgotStart(r, u) \/ ChangeStart(r, u)
           \/ ForgotFind(r)
           \/ ForgotWrite(r)
           \/ \E m \in mails : ResetStart(r, m)
           \/ ResetFindUser(r)
           \/ ResetFindRow(r)
           \/ ResetRemove(r)

LEMMA QuietNext ==
  ASSUME Base, [Next]_vars
  PROVE  Quiet \/ \E r \in Requests : Loud(r)
<1> USE TypedHere
<1>0. UNCHANGED rows => Removes
  BY DEF Removes, Typed
<1>1. ASSUME NEW r \in Requests, Moved(r), Keeps(r)
      PROVE  \A s \in Requests : Keeps(s)
  BY <1>1 DEF Moved, Keeps
<1>2. UNCHANGED requests => \A s \in Requests : Keeps(s)
  BY DEF Keeps
<1>3. ASSUME NEW r \in Requests, ForgotLoad(r)
      PROVE  Quiet
  <2>1. Keeps(r) /\ Moved(r)
    <3>1. requests[r].pc = "act" /\ requests[r].op = "forgot" /\ requests[r].save = "load"
      BY <1>3 DEF ForgotLoad, At
    <3> QED BY <1>3, <3>1, ForgotLoadMoves DEF Keeps
  <2> QED BY <1>0, <1>1, <1>3, <2>1 DEF ForgotLoad, Quiet, history
<1>4. ASSUME NEW r \in Requests, ForgotMail(r)
      PROVE  Quiet
  <2>1. Keeps(r) /\ Moved(r)
    <3>1. /\ requests[r].pc = "act" /\ requests[r].op = "forgot"
          /\ Becomes(r, [requests[r] EXCEPT !.second = "done"])
      BY <1>4 DEF ForgotMail, At
    <3> QED BY <3>1, SecondMoves DEF Keeps
  <2>2. /\ At(r, "forgot", "act")
        /\ mails' = mails \cup {[code |-> requests[r].code, email |-> requests[r].email]}
        /\ UNCHANGED <<rows, nextCode, history>>
    BY <1>4 DEF ForgotMail
  <2> QED BY <1>0, <1>1, <2>1, <2>2 DEF Quiet, history
<1>5. ASSUME NEW r \in Requests, ForgotAnswer(r)
      PROVE  Quiet
  <2>1. Keeps(r) /\ Moved(r)
    BY <1>5, AnswerMoves DEF Keeps
  <2> QED BY <1>0, <1>1, <1>5, <2>1 DEF ForgotAnswer, Quiet
<1>6. ASSUME NEW r \in Requests, ResetAnswer(r)
      PROVE  Quiet
  <2>1. Keeps(r) /\ Moved(r)
    BY <1>6, AnswerMoves DEF Keeps
  <2>2. UNCHANGED <<rows, mails, nextCode, owner, acked, superseded, passed>>
    BY <1>6 DEF ResetAnswer
  <2> QED BY <1>0, <1>1, <1>6, <2>1, <2>2 DEF Quiet
<1>7. ASSUME NEW r \in Requests, UserLoad(r)
      PROVE  Quiet
  <2>1. /\ requests[r].pc = "act" /\ requests[r].op \in {"reset", "change"}
        /\ requests[r].save = "load"
    BY <1>7 DEF UserLoad, SavesUser, At
  <2>2. Keeps(r) /\ Moved(r)
    BY <1>7, <2>1, UserLoadMoves DEF Keeps
  <2>3. UNCHANGED <<rows, mails, nextCode, history>>
    BY <1>7 DEF UserLoad
  <2> QED BY <1>0, <1>1, <2>2, <2>3 DEF Quiet, history
<1>8. ASSUME NEW r \in Requests, UserWrite(r)
      PROVE  Quiet
  <2>1. /\ requests[r].pc = "act" /\ requests[r].op \in {"reset", "change"}
        /\ requests[r].save = "write"
    BY <1>8 DEF UserWrite, SavesUser, At
  <2>2. Keeps(r) /\ Moved(r)
    BY <1>8, <2>1, UserWriteMoves DEF Keeps
  <2>3. UNCHANGED <<rows, mails, nextCode, owner, acked, superseded, passed, redeemed>>
    BY <1>8 DEF UserWrite
  <2> QED BY <1>0, <1>1, <2>2, <2>3 DEF Quiet
<1>9. ASSUME NEW r \in Requests, EffectFails(r)
      PROVE  Quiet
  <2>1. requests[r].pc = "act"
    BY <1>9 DEF EffectFails
  <2>2. Keeps(r) /\ Moved(r)
    BY <1>9, <2>1, EffectFailsMoves DEF Keeps
  <2>3. UNCHANGED <<rows, mails, nextCode, history>>
    BY <1>9 DEF EffectFails
  <2> QED BY <1>0, <1>1, <2>2, <2>3 DEF Quiet, history
<1>10. CASE Crash
  <2>1. \A s \in Requests : Keeps(s)
    BY <1>10 DEF Crash, Keeps
  <2> QED BY <1>0, <1>10, <2>1 DEF Crash, Quiet, history
<1>11. ASSUME NEW u \in Users, VerifyUser(u) \/ \E row \in UserRows : Update(u, row)
       PROVE  Quiet
  <2>1. UNCHANGED <<requests, rows, mails, nextCode, owner, acked, superseded, passed,
                    redeemed>>
    BY <1>11 DEF VerifyUser, Update
  <2> QED BY <1>0, <1>2, <2>1 DEF Quiet
<1>12. ASSUME NEW u \in Users, DeleteUser(u)
       PROVE  Quiet
  <2>1. UNCHANGED <<requests, mails, nextCode, owner, acked, superseded, passed, redeemed>>
    BY <1>12 DEF DeleteUser
  <2>2. Removes
    BY <1>12 DEF DeleteUser, Removes, Typed
  <2> QED BY <1>2, <2>1, <2>2 DEF Quiet
<1>13. ASSUME NEW r \in Requests, ChangeAnswer(r)
       PROVE  Quiet
  <2>1. Keeps(r) /\ Moved(r)
    BY <1>13, AnswerMoves DEF Keeps
  <2>2. UNCHANGED <<rows, mails, nextCode, history>>
    BY <1>13 DEF ChangeAnswer
  <2> QED BY <1>0, <1>1, <2>1, <2>2 DEF Quiet, history
<1>14. CASE UNCHANGED vars
  <2>1. UNCHANGED <<requests, rows, mails, nextCode, owner, acked, superseded, passed,
                    redeemed>>
    BY <1>14 DEF vars, history
  <2> QED BY <1>0, <1>2, <2>1 DEF Quiet
<1> QED BY <1>3, <1>4, <1>5, <1>6, <1>7, <1>8, <1>9, <1>10, <1>11, <1>12, <1>13, <1>14
        DEF Next, Arrive, Continue, Loud

\* What a loud step leaves alone.
Calm == UNCHANGED <<rows, mails, nextCode, owner, acked, superseded, passed, redeemed>>

LEMMA LoudLeaves ==
  ASSUME NEW r \in Requests
  PROVE  /\ (\E u \in Users : ForgotStart(r, u) \/ ChangeStart(r, u)) => Calm
         /\ (\E m \in mails : ResetStart(r, m)) => Calm
         /\ ResetFindUser(r) => Calm
         /\ ForgotFind(r) => /\ UNCHANGED <<rows, mails, acked, superseded, passed, redeemed>>
                             /\ At(r, "forgot", "find")
                             /\ nextCode \in Codes /\ nextCode' = nextCode + 1
                             /\ owner' = [owner EXCEPT ![nextCode] = requests[r].user]
         /\ ForgotWrite(r)
              => /\ At(r, "forgot", "act") /\ requests[r].save = "write"
                 /\ UNCHANGED <<mails, nextCode, owner, acked, superseded, passed, redeemed>>
         /\ ResetFindRow(r)
              => /\ At(r, "reset", "read") /\ "row" \in requests[r].reads
                 /\ UNCHANGED <<rows, mails, nextCode, owner, acked, superseded, redeemed>>
         /\ ResetRemove(r)
              => /\ At(r, "reset", "act")
                 /\ Becomes(r, [requests[r] EXCEPT !.second = "done"])
                 /\ rows' = [rows EXCEPT ![requests[r].row] = None]
                 /\ UNCHANGED <<mails, nextCode, owner, acked, superseded, passed, redeemed>>
<1>1. /\ (\E u \in Users : ForgotStart(r, u) \/ ChangeStart(r, u)) => Calm
      /\ (\E m \in mails : ResetStart(r, m)) => Calm
      /\ ResetFindUser(r) => Calm
  BY DEF ForgotStart, ChangeStart, ResetStart, ResetFindUser, Calm, history
<1>2. ForgotFind(r) => /\ UNCHANGED <<rows, mails, acked, superseded, passed, redeemed>>
                       /\ At(r, "forgot", "find")
                       /\ nextCode \in Codes /\ nextCode' = nextCode + 1
                       /\ owner' = [owner EXCEPT ![nextCode] = requests[r].user]
  BY DEF ForgotFind
<1>3. ForgotWrite(r)
        => /\ At(r, "forgot", "act") /\ requests[r].save = "write"
           /\ UNCHANGED <<mails, nextCode, owner, acked, superseded, passed, redeemed>>
  BY DEF ForgotWrite, history
<1>4. ResetFindRow(r)
        => /\ At(r, "reset", "read") /\ "row" \in requests[r].reads
           /\ UNCHANGED <<rows, mails, nextCode, owner, acked, superseded, redeemed>>
  BY DEF ResetFindRow
<1>5. ResetRemove(r)
        => /\ At(r, "reset", "act")
           /\ Becomes(r, [requests[r] EXCEPT !.second = "done"])
           /\ rows' = [rows EXCEPT ![requests[r].row] = None]
           /\ UNCHANGED <<mails, nextCode, owner, acked, superseded, passed, redeemed>>
  BY DEF ResetRemove, history
<1> QED BY <1>1, <1>2, <1>3, <1>4, <1>5

-----------------------------------------------------------------------------
(* Whose codes are where.                                                    *)

\* The code in row i, and the row itself, are of the account it belongs to.
RowOwned(i) == rows[i] # None =>
                 /\ owner[i] # None /\ owner[rows[i].code] # None
                 /\ rows[i].user # None => /\ rows[i].user = owner[i]
                                           /\ rows[i].user = owner[rows[i].code]

\* A request works with a code that was generated, a forgot with one of its
\* account, and with the row of it.
RequestOwned(r) == /\ At(r, "forgot", "act") =>
                        /\ owner[requests[r].code] = requests[r].user
                        /\ requests[r].row # 0 => owner[requests[r].row] = requests[r].user
                   /\ requests[r].op = "reset" => owner[requests[r].code] # None

Owned == /\ \A c \in Codes : c >= nextCode => owner[c] = None
         /\ \A i \in Codes : RowOwned(i)
         /\ \A m \in mails : owner[m.code] # None
         /\ \A r \in Requests : RequestOwned(r)
         /\ \A c \in acked \cup passed : owner[c] # None

LEMMA OwnedInit == Init => Owned
<1> SUFFICES ASSUME Init
             PROVE  Owned
  OBVIOUS
<1>1. \A r \in Requests : RequestOwned(r)
  BY IdleRecord DEF Init, RequestOwned, At
<1> QED BY <1>1 DEF Init, Owned, RowOwned

\* No code becomes another account's.
Grows == \A c \in Codes : owner[c] # None => owner'[c] = owner[c]

LEMMA OwnedGrows ==
  ASSUME Base, Owned, [Next]_vars
  PROVE  Grows
<1>1. Quiet => Grows
  BY DEF Quiet, Grows
<1>2. ASSUME NEW r \in Requests, Loud(r)
      PROVE  Grows
  <2>1. ForgotFind(r) => Grows
    <3>1. owner[nextCode] = None \/ nextCode \notin Codes
      BY TypedHere, NumbersAreNat DEF Owned, Typed
    <3> QED BY <3>1, LoudLeaves, TypedHere DEF Grows, Typed
  <2>2. Calm => Grows
    BY DEF Calm, Grows
  <2>3. ForgotWrite(r) \/ ResetFindRow(r) \/ ResetRemove(r) => Grows
    BY LoudLeaves DEF Grows
  <2> QED BY <1>2, <2>1, <2>2, <2>3, LoudLeaves DEF Loud
<1> QED BY <1>1, <1>2, QuietNext

LEMMA OwnedRequestKept ==
  ASSUME Base, Owned, Grows, NEW s \in Requests, Keeps(s)
  PROVE  RequestOwned(s)'
<1> USE TypedHere
<1>1. CASE requests'[s] = requests[s]
  <2>1. /\ requests[s].op = "reset" => requests[s].code \in Codes
        /\ At(s, "forgot", "act") => /\ requests[s].user \in Users
                                     /\ requests[s].code \in Codes
                                     /\ requests[s].row # 0 => requests[s].row \in Codes
    BY DEF At, Shape, Idle, RequestRecords
  <2> QED BY <1>1, <2>1, ResetAssumption DEF Owned, RequestOwned, Grows, At
<1>2. CASE requests'[s] = Idle
  BY <1>2, IdleRecord DEF RequestOwned, At
<1>3. CASE requests[s].pc = "act" /\ Same(requests[s], requests'[s])
  <2>1. /\ requests[s].op = "reset" => requests[s].code \in Codes
        /\ At(s, "forgot", "act") => /\ requests[s].user \in Users
                                     /\ requests[s].code \in Codes
                                     /\ requests[s].row # 0 => requests[s].row \in Codes
    BY DEF At, Shape, Idle, RequestRecords
  <2> QED BY <1>3, <2>1, ResetAssumption DEF Owned, RequestOwned, Grows, At, Same
<1> QED BY <1>1, <1>2, <1>3 DEF Keeps

LEMMA OwnedRowKept ==
  ASSUME Base, Owned, Grows, NEW i \in Codes, rows'[i] \in {rows[i], None}
  PROVE  RowOwned(i)'
<1>1. rows[i] # None => rows[i].code \in Codes
  BY TypedHere DEF Typed, TokenRows
<1> QED BY <1>1 DEF Owned, RowOwned, Grows

LEMMA OwnedNext == Base /\ Owned /\ [Next]_vars => Owned'
<1> SUFFICES ASSUME Base, Owned, [Next]_vars
             PROVE  Owned'
  OBVIOUS
<1> USE TypedHere
<1>0. Grows
  BY OwnedGrows
<1>1. ASSUME UNCHANGED <<nextCode, owner>>
      PROVE  \A c \in Codes : c >= nextCode' => owner'[c] = None
  BY <1>1 DEF Owned
<1>2. ASSUME acked' \cup passed' \subseteq acked \cup passed
      PROVE  \A c \in acked' \cup passed' : owner'[c] # None
  BY <1>0, <1>2 DEF Owned, Grows, Typed
<1>3. ASSUME UNCHANGED mails
      PROVE  \A m \in mails' : owner'[m.code] # None
  BY <1>0, <1>3 DEF Owned, Grows, Typed, Links
<1>4. ASSUME NEW r \in Requests, Moved(r), RequestOwned(r)'
      PROVE  \A s \in Requests : RequestOwned(s)'
  BY <1>0, <1>4, OwnedRequestKept DEF Moved, Keeps
<1>5. ASSUME UNCHANGED rows
      PROVE  \A i \in Codes : RowOwned(i)'
  BY <1>0, <1>5, OwnedRowKept
<1>6. CASE Quiet
  <2>1. \A s \in Requests : RequestOwned(s)'
    BY <1>0, <1>6, OwnedRequestKept DEF Quiet
  <2>2. \A i \in Codes : RowOwned(i)'
    BY <1>0, <1>6, OwnedRowKept DEF Quiet, Removes
  <2>3. \A m \in mails' : owner'[m.code] # None
    <3>1. ASSUME NEW r \in Requests, At(r, "forgot", "act"),
                 mails' = mails \cup {[code  |-> requests[r].code,
                                       email |-> requests[r].email]}
          PROVE  \A m \in mails' : owner'[m.code] # None
      <4>1. owner[requests[r].code] # None /\ requests[r].code \in Codes
        BY <3>1, ResetAssumption DEF Owned, RequestOwned, At, Shape, Idle
      <4>2. \A m \in mails : owner'[m.code] # None
        BY <1>0 DEF Owned, Grows, Typed, Links
      <4> QED BY <1>0, <3>1, <4>1, <4>2 DEF Grows
    <3> QED BY <1>3, <1>6, <3>1 DEF Quiet
  <2>4. \A c \in acked' \cup passed' : owner'[c] # None
    <3>1. ASSUME NEW r \in Requests, ForgotAnswer(r)
          PROVE  owner[requests[r].code] # None /\ requests[r].code \in Codes
      <4>1. At(r, "forgot", "act")
        BY <3>1 DEF ForgotAnswer
      <4> QED BY <4>1, ResetAssumption DEF Owned, RequestOwned, At, Shape, Idle
    <3>2. ASSUME NEW r \in Requests, ForgotAnswer(r)
          PROVE  acked' \subseteq acked \cup {requests[r].code}
      BY <3>2 DEF ForgotAnswer
    <3>3. passed' = passed
      BY <1>6 DEF Quiet
    <3>4. CASE UNCHANGED acked
      BY <1>2, <3>3, <3>4
    <3>5. CASE \E r \in Requests : ForgotAnswer(r)
      <4>1. \A c \in acked \cup passed : owner'[c] # None
        BY <1>0 DEF Owned, Grows, Typed
      <4> QED BY <1>0, <3>1, <3>2, <3>3, <3>5, <4>1 DEF Grows
    <3> QED BY <1>6, <3>4, <3>5 DEF Quiet
  <2>5. \A c \in Codes : c >= nextCode' => owner'[c] = None
    BY <1>1, <1>6 DEF Quiet
  <2> QED BY <2>1, <2>2, <2>3, <2>4, <2>5 DEF Owned
<1>7. ASSUME NEW r \in Requests, Loud(r)
      PROVE  Owned'
  <2>0. ASSUME Calm, Moved(r), RequestOwned(r)'
        PROVE  Owned'
    BY <1>1, <1>2, <1>3, <1>4, <1>5, <2>0 DEF Calm, Owned
  <2>1. ASSUME NEW u \in Users, ForgotStart(r, u)
        PROVE  Owned'
    <3>1. Calm
      BY <2>1, LoudLeaves
    <3> QED BY <2>0, <2>1, <3>1, ForgotStartMoves DEF RequestOwned, At
  <2>2. CASE ForgotFind(r)
    <3>1. /\ nextCode \in Codes /\ nextCode' = nextCode + 1
          /\ owner' = [owner EXCEPT ![nextCode] = requests[r].user]
          /\ UNCHANGED <<rows, mails, acked, superseded, passed, redeemed>>
          /\ requests[r].user \in Users
      <4>1. At(r, "forgot", "find")
        BY <2>2, LoudLeaves
      <4>2. requests[r].user \in Users
        BY <4>1 DEF At, Shape, Idle
      <4> QED BY <2>2, <4>2, LoudLeaves
    <3>2. owner'[nextCode] = requests[r].user
      BY <3>1 DEF Typed
    <3>3. \A c \in Codes : c >= nextCode' => owner'[c] = None
      <4>1. \A c \in Codes : c >= nextCode + 1 => c >= nextCode /\ c # nextCode
        BY <3>1, NumbersAreNat
      <4> QED BY <3>1, <4>1 DEF Owned, Typed
    <3>4. RequestOwned(r)'
      <4>1. CASE requests'[r].row = 0
        BY <2>2, <3>2, <4>1, ForgotFindMoves DEF RequestOwned, At
      <4>2. CASE requests'[r].row \in RowsOf(requests[r].user)
        <5>1. /\ requests'[r].row \in Codes
              /\ owner[requests'[r].row] = requests[r].user
          BY <3>1, <4>2, ResetAssumption DEF Owned, RowOwned, RowsOf
        <5>2. owner'[requests'[r].row] = requests[r].user
          BY <1>0, <3>1, <5>1, ResetAssumption DEF Grows
        <5> QED BY <2>2, <3>2, <5>2, ForgotFindMoves DEF RequestOwned, At
      <4> QED BY <2>2, <4>1, <4>2, ForgotFindMoves
    <3>5. Moved(r)
      BY <2>2, ForgotFindMoves
    <3> QED BY <1>2, <1>3, <1>4, <1>5, <3>1, <3>3, <3>4, <3>5 DEF Owned
  <2>3. CASE ForgotWrite(r)
    <3>1. /\ At(r, "forgot", "act") /\ requests[r].save = "write"
          /\ UNCHANGED <<mails, nextCode, owner, acked, superseded, passed, redeemed>>
      BY <2>3, LoudLeaves
    <3>2. Moved(r) /\ RequestOwned(r)'
      <4>1. Moved(r) /\ Same(requests[r], requests'[r])
        BY <2>3, ForgotWriteMoves
      <4> QED BY <3>1, <4>1 DEF Owned, RequestOwned, At, Same
    <3>3. \A i \in Codes : RowOwned(i)'
      <4> DEFINE q == requests[r]
      <4>1. /\ q.user \in Users /\ q.code \in Codes
            /\ q.row # 0 => q.row \in Codes
            /\ owner[q.code] = q.user
            /\ q.row # 0 => owner[q.row] = q.user
        BY <3>1, SavingRecord DEF Owned, RequestOwned
      <4>2. owner' = owner /\ q.user # None /\ None \notin Users
        BY <3>1, <4>1, ResetAssumption
      <4>3. rows \in [Codes -> TokenRows \cup {None}]
        BY DEF Typed
      <4>4. \A i \in Codes : rows'[i] = rows[i] => RowOwned(i)'
        BY <1>0, OwnedRowKept
      <4>5. \A v : [user |-> v, code |-> q.code].user = v
                   /\ [user |-> v, code |-> q.code].code = q.code
        OBVIOUS
      <4> HIDE DEF q
      <4>6. CASE Creates(q)
        <5>1. rows'[q.code] = [user |-> q.user, code |-> q.code]
              /\ \A i \in Codes : i # q.code => rows'[i] = rows[i]
          BY <4>1, <4>3, <4>6 DEF Creates
        <5>2. PICK c \in Codes : c = q.code
          BY <4>1
        <5>3. RowOwned(c)'
          BY <4>1, <4>2, <4>5, <5>1, <5>2 DEF RowOwned
        <5> QED BY <4>4, <5>1, <5>2, <5>3
      <4>7. CASE Overwrites(q)
        <5>1. /\ q.row \in Codes /\ rows[q.row] # None /\ owner[q.row] = q.user
              /\ rows'[q.row] = [user |-> rows[q.row].user, code |-> q.code]
              /\ \A i \in Codes : i # q.row => rows'[i] = rows[i]
          BY <4>1, <4>3, <4>7 DEF Overwrites
        <5>2. RowOwned(q.row)
          BY <5>1 DEF Owned
        <5>3. PICK i \in Codes : i = q.row
          BY <5>1
        <5>4. RowOwned(i)'
          <6>1. rows'[i].user = rows[i].user /\ rows'[i].code = q.code
            BY <4>5, <5>1, <5>3
          <6>2. owner[i] = q.user /\ owner[q.code] = q.user
            BY <4>1, <5>1, <5>3
          <6>3. rows[i].user # None => rows[i].user = q.user
            BY <5>1, <5>2, <5>3, <6>2 DEF RowOwned
          <6> QED BY <4>1, <4>2, <6>1, <6>2, <6>3 DEF RowOwned
        <5> QED BY <4>4, <5>1, <5>3, <5>4
      <4>8. CASE Recreates(q)
        <5>1. /\ q.row \in Codes
              /\ rows'[q.row] = [user |-> None, code |-> q.code]
              /\ owner[q.row] = q.user
              /\ \A i \in Codes : i # q.row => rows'[i] = rows[i]
          BY <4>1, <4>3, <4>8 DEF Recreates
        <5>2. PICK i \in Codes : i = q.row
          BY <5>1
        <5>3. RowOwned(i)'
          BY <4>1, <4>2, <4>5, <5>1, <5>2 DEF RowOwned
        <5> QED BY <4>4, <5>1, <5>2, <5>3
      <4>9. CASE UNCHANGED rows
        BY <1>5, <4>9
      <4> QED BY <2>3, <4>6, <4>7, <4>8, <4>9, ForgotWriteMoves
              DEF Creates, Overwrites, Recreates, q
    <3> QED BY <1>1, <1>2, <1>3, <1>4, <3>1, <3>2, <3>3 DEF Owned
  <2>4. ASSUME NEW m \in mails, ResetStart(r, m)
        PROVE  Owned'
    <3>1. Calm
      BY <2>4, LoudLeaves
    <3>2. owner[m.code] # None
      BY DEF Owned
    <3>3. RequestOwned(r)'
      BY <2>4, <3>1, <3>2, ResetStartMoves DEF RequestOwned, At, Calm
    <3> QED BY <2>0, <2>4, <3>1, <3>3, ResetStartMoves
  <2>5. CASE ResetFindUser(r)
    <3>1. Calm /\ requests[r].op = "reset"
      BY <2>5, LoudLeaves DEF ResetFindUser, At
    <3>2. RequestOwned(r)'
      BY <2>5, <3>1, ResetFindUserMoves DEF RequestOwned, At, Calm, Reads, Owned
    <3> QED BY <2>0, <2>5, <3>1, <3>2, ResetFindUserMoves
  <2>6. CASE ResetFindRow(r)
    <3>1. /\ UNCHANGED <<rows, mails, nextCode, owner, acked, superseded, redeemed>>
          /\ requests[r].op = "reset"
      BY <2>6, LoudLeaves DEF At
    <3>2. owner[requests[r].code] # None
      BY <3>1 DEF Owned, RequestOwned
    <3>3. Moved(r) /\ RequestOwned(r)'
      BY <2>6, <3>1, <3>2, ResetFindRowMoves, IdleRecord DEF RequestOwned, At, Reads
    <3>4. passed' \subseteq passed \cup {requests[r].code}
      BY <2>6, ResetFindRowMoves
    <3>5. \A c \in acked' \cup passed' : owner'[c] # None
      BY <3>1, <3>2, <3>4 DEF Owned
    <3> QED BY <1>1, <1>3, <1>4, <1>5, <3>1, <3>3, <3>5 DEF Owned
  <2>7. CASE ResetRemove(r)
    <3>1. /\ At(r, "reset", "act")
          /\ Becomes(r, [requests[r] EXCEPT !.second = "done"])
          /\ rows' = [rows EXCEPT ![requests[r].row] = None]
          /\ UNCHANGED <<mails, nextCode, owner, acked, superseded, passed, redeemed>>
      BY <2>7, LoudLeaves
    <3>2. Moved(r) /\ Same(requests[r], requests'[r])
      BY <3>1, SecondMoves DEF At
    <3>3. RequestOwned(r)'
      BY <3>1, <3>2 DEF RequestOwned, At, Same, Owned
    <3>4. \A i \in Codes : RowOwned(i)'
      BY <1>0, <3>1, OwnedRowKept DEF Typed
    <3> QED BY <1>1, <1>2, <1>3, <1>4, <3>1, <3>2, <3>3, <3>4 DEF Owned
  <2>8. ASSUME NEW u \in Users, ChangeStart(r, u)
        PROVE  Owned'
    <3>1. Calm
      BY <2>8, LoudLeaves
    <3> QED BY <2>0, <2>8, <3>1, ChangeStartMoves DEF RequestOwned, At
  <2> QED BY <1>7, <2>1, <2>2, <2>3, <2>4, <2>5, <2>6, <2>7, <2>8 DEF Loud
<1> QED BY <1>6, <1>7, QuietNext

-----------------------------------------------------------------------------
(* Where a code can be, from when it is generated until it is used.          *)

\* Row i holds code c, whether or not it belongs to an account.
Holds(i, c) == rows[i] # None /\ rows[i].code = c

\* A code that is still to be saved is nowhere yet, and no reset found it.
Fresh(r) == At(r, "forgot", "act") /\ requests[r].save # "done" =>
              /\ requests[r].code \notin passed
              /\ \A i \in Codes : ~Holds(i, requests[r].code)

Apart(r, s) == At(r, "forgot", "act") /\ At(s, "forgot", "act") /\ r # s
                 => requests[r].code # requests[s].code

\* A reset that found its row: the code is nowhere else, and nowhere at all
\* once the row is removed.
Reached(r) == (At(r, "reset", "act") \/ (At(r, "reset", "read") /\ "row" \notin requests[r].reads)) =>
                /\ requests[r].code \in passed
                /\ \A i \in Codes : Holds(i, requests[r].code) => i = requests[r].row

Cleared(r) == At(r, "reset", "act") /\ requests[r].second = "done" /\ ~requests[r].failed
                => \A i \in Codes : ~Holds(i, requests[r].code)

Ledger == /\ \A r \in Requests : Fresh(r) /\ Reached(r) /\ Cleared(r)
          /\ \A r, s \in Requests : Apart(r, s)
          /\ \A i, j, c \in Codes : Holds(i, c) /\ Holds(j, c) => i = j
          /\ redeemed \subseteq passed
          /\ \A c \in redeemed : \A i \in Codes : ~Holds(i, c)

LEMMA LedgerInit == Init => Ledger
<1> SUFFICES ASSUME Init
             PROVE  Ledger
  OBVIOUS
<1>1. /\ \A r \in Requests : Fresh(r) /\ Reached(r) /\ Cleared(r)
      /\ \A r, s \in Requests : Apart(r, s)
  BY IdleRecord DEF Init, Fresh, Reached, Cleared, Apart, At
<1> QED BY <1>1 DEF Init, Ledger, Holds

\* Every row that is not new holds what it held.
Fewer == \A i, c \in Codes : Holds(i, c)' => Holds(i, c)

LEMMA FewerRows == Base /\ Removes => Fewer
  BY DEF Removes, Fewer, Holds

LEMMA CodesTyped ==
  ASSUME Base, NEW r \in Requests, requests[r].op \in {"forgot", "reset"},
         requests[r].pc # "idle", requests[r].pc # "find"
  PROVE  requests[r].code \in Codes
  BY TypedHere DEF Shape, Idle

LEMMA KeptCode ==
  ASSUME Base, NEW s \in Requests, Keeps(s), requests'[s] # Idle
  PROVE  /\ requests'[s].op = requests[s].op /\ requests'[s].pc = requests[s].pc
         /\ requests'[s].code = requests[s].code /\ requests'[s].row = requests[s].row
         /\ requests'[s].reads = requests[s].reads
  BY DEF Keeps, Same

LEMMA FreshKept ==
  ASSUME Base, Ledger, Fewer, UNCHANGED passed, NEW s \in Requests, Keeps(s)
  PROVE  Fresh(s)'
<1>1. CASE requests'[s] = Idle
  BY <1>1, IdleRecord DEF Fresh, At
<1>2. CASE ~(At(s, "forgot", "act")' /\ requests'[s].save # "done")
  BY <1>2 DEF Fresh
<1>3. CASE requests'[s] # Idle /\ At(s, "forgot", "act")' /\ requests'[s].save # "done"
  <2>1. /\ At(s, "forgot", "act") /\ requests[s].save # "done"
        /\ requests'[s].code = requests[s].code
    BY <1>3, KeptCode DEF At, Keeps
  <2>2. PICK c \in Codes : c = requests[s].code
    BY <2>1, CodesTyped DEF At
  <2>3. c \notin passed /\ \A i \in Codes : ~Holds(i, c)
    BY <2>1, <2>2 DEF Ledger, Fresh
  <2>4. c \notin passed' /\ \A i \in Codes : ~Holds(i, c)'
    BY <2>3 DEF Fewer
  <2> QED BY <2>1, <2>2, <2>4 DEF Fresh, Holds
<1> QED BY <1>1, <1>2, <1>3

LEMMA ReachedKept ==
  ASSUME Base, Ledger, Fewer, passed \subseteq passed', NEW s \in Requests, Keeps(s)
  PROVE  Reached(s)' /\ Cleared(s)'
<1>1. CASE requests'[s] = Idle
  BY <1>1, IdleRecord DEF Reached, Cleared, At
<1>2. CASE requests'[s].op # "reset" \/ requests'[s].pc \notin {"read", "act"}
  BY <1>2 DEF Reached, Cleared, At
<1>3. CASE requests'[s] # Idle /\ requests'[s].op = "reset" /\ requests'[s].pc \in {"read", "act"}
  <2>1. /\ requests'[s].op = requests[s].op /\ requests'[s].pc = requests[s].pc
        /\ requests'[s].code = requests[s].code /\ requests'[s].row = requests[s].row
        /\ requests'[s].reads = requests[s].reads
    BY <1>3, KeptCode
  <2>2. PICK c \in Codes : c = requests[s].code
    BY <1>3, <2>1, CodesTyped
  <2>3. \A i \in Codes : Holds(i, c)' => Holds(i, c)
    BY DEF Fewer
  <2>4. Reached(s)'
    BY <2>1, <2>2, <2>3 DEF Ledger, Reached, At, Holds
  <2>5. Cleared(s)'
    <3>1. requests'[s].pc = "act" /\ requests'[s].second = "done" /\ ~requests'[s].failed
            => requests[s].second = "done" /\ ~requests[s].failed
      BY <1>3, <2>1 DEF Keeps, Same
    <3> QED BY <1>3, <2>1, <2>2, <2>3, <3>1 DEF Ledger, Cleared, At, Holds
  <2> QED BY <2>4, <2>5
<1> QED BY <1>1, <1>2, <1>3

\* A request that begins or has no code to save changes nothing for the others.
LEMMA ApartKept ==
  ASSUME Base, Ledger, \A s \in Requests : At(s, "forgot", "act")' =>
                         At(s, "forgot", "act") /\ requests'[s].code = requests[s].code
  PROVE  \A r, s \in Requests : Apart(r, s)'
  BY DEF Ledger, Apart

LEMMA KeptApart ==
  ASSUME Base, NEW s \in Requests, Keeps(s), At(s, "forgot", "act")'
  PROVE  At(s, "forgot", "act") /\ requests'[s].code = requests[s].code
<1>1. requests'[s] # Idle
  BY IdleRecord DEF At
<1> QED BY <1>1, KeptCode DEF At

\* What holds of the rows alone goes on to hold when there are fewer.
LEMMA RowsKept ==
  ASSUME Base, Ledger, Fewer
  PROVE  /\ \A i, j, c \in Codes : Holds(i, c)' /\ Holds(j, c)' => i = j
         /\ \A c \in redeemed : \A i \in Codes : ~Holds(i, c)'
<1>1. redeemed \subseteq Codes
  BY TypedHere DEF Typed
<1> QED BY <1>1 DEF Ledger, Fewer

\* Code c is stored in row k, whatever was there.
StoresIn(k, c) == /\ rows'[k] # None /\ rows'[k].code = c
                  /\ \A i \in Codes : i # k => rows'[i] = rows[i]

LEMMA SavesStore ==
  ASSUME Base, NEW r \in Requests, ForgotWrite(r)
  PROVE  \/ /\ UNCHANGED rows
            /\ \/ requests'[r].failed
               \/ requests[r].row # 0 /\ rows[requests[r].row] = None
         \/ \E k, c \in Codes : /\ c = requests[r].code /\ StoresIn(k, c)
                                /\ requests[r].row # 0 => k = requests[r].row
<1> DEFINE q == requests[r]
<1>1. /\ q.user \in Users /\ q.code \in Codes
      /\ q.row # 0 => q.row \in Codes
  BY SavingRecord DEF ForgotWrite
<1>2. rows \in [Codes -> TokenRows \cup {None}]
  BY TypedHere DEF Typed
<1>3. \A v \in Users \cup {None} : [user |-> v, code |-> q.code] # None
  <2>1. q.code \in Nat
    BY <1>1, NumbersAreNat
  <2> HIDE DEF q
  <2> QED BY <2>1, NoneIsNoAccount
<1>4. \A v : [user |-> v, code |-> q.code].code = q.code
  OBVIOUS
<1> HIDE DEF q
<1>5. CASE Creates(q) /\ q.row = 0
  <2>1. rows'[q.code] = [user |-> q.user, code |-> q.code]
        /\ \A i \in Codes : i # q.code => rows'[i] = rows[i]
    BY <1>1, <1>2, <1>5 DEF Creates
  <2>2. StoresIn(q.code, q.code)
    BY <1>1, <1>3, <1>4, <2>1 DEF StoresIn
  <2> QED BY <1>1, <1>5, <2>2 DEF q
<1>6. CASE Overwrites(q)
  <2>1. /\ q.row \in Codes /\ rows[q.row].user \in Users \cup {None}
        /\ rows'[q.row] = [user |-> rows[q.row].user, code |-> q.code]
        /\ \A i \in Codes : i # q.row => rows'[i] = rows[i]
    BY <1>1, <1>2, <1>6 DEF Overwrites, TokenRows
  <2>2. StoresIn(q.row, q.code)
    BY <1>1, <1>3, <1>4, <2>1 DEF StoresIn
  <2> QED BY <1>1, <2>1, <2>2 DEF q
<1>7. CASE Recreates(q)
  <2>1. /\ q.row \in Codes
        /\ rows'[q.row] = [user |-> None, code |-> q.code]
        /\ \A i \in Codes : i # q.row => rows'[i] = rows[i]
    BY <1>1, <1>2, <1>7 DEF Recreates
  <2>2. StoresIn(q.row, q.code)
    BY <1>1, <1>3, <1>4, <2>1 DEF StoresIn
  <2> QED BY <1>1, <2>1, <2>2 DEF q
<1> QED BY <1>5, <1>6, <1>7, ForgotWriteMoves DEF Creates, Overwrites, Recreates, q

LEMMA LedgerNext == Base /\ Owned /\ Ledger /\ [Next]_vars => Ledger'
<1> SUFFICES ASSUME Base, Owned, Ledger, [Next]_vars
             PROVE  Ledger'
  OBVIOUS
<1>1. CASE Quiet
  <2>1. Fewer /\ UNCHANGED passed /\ \A s \in Requests : Keeps(s)
    BY <1>1, FewerRows DEF Quiet
  <2>2. \A r \in Requests : Fresh(r)' /\ Reached(r)' /\ Cleared(r)'
    BY <2>1, FreshKept, ReachedKept
  <2>3. \A r, s \in Requests : Apart(r, s)'
    BY <2>1, ApartKept, KeptApart
  <2>4. redeemed' \subseteq passed' /\ \A c \in redeemed' : \A i \in Codes : ~Holds(i, c)'
    <3>1. CASE UNCHANGED redeemed
      BY <2>1, <3>1, RowsKept DEF Ledger
    <3>2. ASSUME NEW r \in Requests, ResetAnswer(r)
          PROVE  redeemed' \subseteq passed' /\ \A c \in redeemed' : \A i \in Codes : ~Holds(i, c)'
      <4>1. At(r, "reset", "act") /\ requests[r].second = "done"
        BY <3>2 DEF ResetAnswer
      <4>2. PICK c \in Codes : c = requests[r].code
        BY <4>1, CodesTyped DEF At
      <4>3. CASE requests[r].failed
        <5>1. UNCHANGED redeemed
          BY <3>2, <4>3 DEF ResetAnswer
        <5> QED BY <3>1, <5>1
      <4>4. CASE ~requests[r].failed
        <5>1. redeemed' = redeemed \cup {c}
          BY <3>2, <4>2, <4>4 DEF ResetAnswer
        <5>2. c \in passed /\ \A i \in Codes : ~Holds(i, c)
          BY <4>1, <4>2, <4>4 DEF Ledger, Reached, Cleared
        <5>3. \A i \in Codes : ~Holds(i, c)'
          BY <2>1, <5>2 DEF Fewer
        <5> QED BY <2>1, <5>1, <5>2, <5>3, RowsKept DEF Ledger
      <4> QED BY <4>3, <4>4
    <3> QED BY <1>1, <3>1, <3>2 DEF Quiet
  <2> QED BY <2>1, <2>2, <2>3, <2>4, RowsKept DEF Ledger
<1>2. ASSUME NEW r \in Requests, Loud(r)
      PROVE  Ledger'
  <2>1. Moved(r)
    <3>1. ResetRemove(r) => Moved(r)
      BY LoudLeaves, SecondMoves DEF At
    <3> QED BY <1>2, <3>1, ForgotStartMoves, ChangeStartMoves, ForgotFindMoves, ForgotWriteMoves,
               ResetStartMoves,
               ResetFindUserMoves, ResetFindRowMoves DEF Loud
  <2>2. \A s \in Requests : s # r => Keeps(s)
    BY <2>1 DEF Moved, Keeps
  <2>3. UNCHANGED rows => Fewer
    BY DEF Fewer, Holds
  <2>4. ASSUME Calm, Fresh(r)' /\ Reached(r)' /\ Cleared(r)',
               ~At(r, "forgot", "act")'
        PROVE  Ledger'
    <3>1. Fewer /\ UNCHANGED <<passed, redeemed>>
      BY <2>3, <2>4 DEF Calm
    <3>2. \A s \in Requests : Fresh(s)' /\ Reached(s)' /\ Cleared(s)'
      BY <2>2, <2>4, <3>1, FreshKept, ReachedKept
    <3>3. \A s, t \in Requests : Apart(s, t)'
      BY <2>2, <2>4, ApartKept, KeptApart
    <3> QED BY <3>1, <3>2, <3>3, RowsKept DEF Ledger
  <2>5. ASSUME NEW u \in Users, ForgotStart(r, u)
        PROVE  Ledger'
    <3>1. requests'[r].op = "forgot" /\ requests'[r].pc = "find" /\ Calm
      BY <2>5, ForgotStartMoves, LoudLeaves
    <3> QED BY <2>4, <3>1 DEF Fresh, Reached, Cleared, At
  <2>6. ASSUME NEW m \in mails, ResetStart(r, m)
        PROVE  Ledger'
    <3>1. /\ requests'[r].op = "reset" /\ requests'[r].pc = "read" /\ Calm
          /\ requests'[r].reads = {"user", "row"}
      BY <2>6, ResetStartMoves, LoudLeaves
    <3> QED BY <2>4, <3>1 DEF Fresh, Reached, Cleared, At
  <2>7. CASE ResetFindUser(r)
    <3>1. /\ Calm /\ Reads(requests[r], requests'[r])
          /\ requests'[r].row = requests[r].row
          /\ requests'[r].reads = requests[r].reads \ {"user"}
      BY <2>7, ResetFindUserMoves, LoudLeaves
    <3>2. At(r, "reset", "read")
      BY <2>7 DEF ResetFindUser
    <3>3. Reached(r)'
      BY <3>1, <3>2 DEF Ledger, Reached, Reads, Calm, At, Holds
    <3> QED BY <2>4, <3>1, <3>3 DEF Fresh, Cleared, Reads, At
  <2>8. CASE ForgotFind(r)
    <3>1. /\ UNCHANGED <<rows, mails, acked, superseded, passed, redeemed>>
          /\ nextCode \in Codes
      BY <2>8, LoudLeaves
    <3>2. /\ requests'[r].op = "forgot" /\ requests'[r].pc = "act"
          /\ requests'[r].code = nextCode
      BY <2>8, ForgotFindMoves
    <3>3. owner[nextCode] = None
      BY <3>1, NumbersAreNat DEF Owned
    <3>4. nextCode \notin passed /\ \A i \in Codes : ~Holds(i, nextCode)
      BY <3>1, <3>3 DEF Owned, RowOwned, Holds
    <3>5. \A s \in Requests : At(s, "forgot", "act") => requests[s].code # nextCode
      <4>1. ASSUME NEW s \in Requests, At(s, "forgot", "act")
            PROVE  requests[s].code # nextCode
        BY <3>3, <4>1, SavingRecord, ResetAssumption DEF Owned, RequestOwned
      <4> QED BY <4>1
    <3>6. Fresh(r)' /\ Reached(r)' /\ Cleared(r)'
      BY <3>1, <3>2, <3>4 DEF Fresh, Reached, Cleared, At, Holds
    <3>7. \A s \in Requests : Fresh(s)' /\ Reached(s)' /\ Cleared(s)'
      BY <2>2, <2>3, <3>1, <3>6, FreshKept, ReachedKept
    <3>8. \A s \in Requests \ {r} : At(s, "forgot", "act")' =>
             At(s, "forgot", "act") /\ requests'[s].code = requests[s].code
      BY <2>2, KeptApart
    <3>9. \A s, t \in Requests : Apart(s, t)'
      BY <3>2, <3>5, <3>8 DEF Apart, Ledger
    <3> QED BY <2>3, <3>1, <3>7, <3>9, RowsKept DEF Ledger
  <2>9. CASE ForgotWrite(r)
    <3>1. /\ At(r, "forgot", "act") /\ requests[r].save = "write"
          /\ UNCHANGED <<mails, nextCode, owner, acked, superseded, passed, redeemed>>
      BY <2>9, LoudLeaves
    <3>2. Same(requests[r], requests'[r]) /\ requests'[r].save = "done"
      BY <2>9, ForgotWriteMoves
    <3>3. Fresh(r)' /\ Reached(r)' /\ Cleared(r)'
      BY <3>1, <3>2 DEF Fresh, Reached, Cleared, At, Same
    <3>4. \A s, t \in Requests : Apart(s, t)'
      <4>1. At(r, "forgot", "act") /\ requests'[r].code = requests[r].code
        BY <3>1, <3>2 DEF Same
      <4> QED BY <2>2, <4>1, ApartKept, KeptApart
    <3>5. CASE UNCHANGED rows
      <4>1. \A s \in Requests : Fresh(s)' /\ Reached(s)' /\ Cleared(s)'
        BY <2>2, <2>3, <3>1, <3>3, <3>5, FreshKept, ReachedKept
      <4> QED BY <2>3, <3>1, <3>4, <3>5, <4>1, RowsKept DEF Ledger
    <3>6. ASSUME NEW k \in Codes, NEW c \in Codes, c = requests[r].code, StoresIn(k, c)
          PROVE  Ledger'
      <4>1. c \notin passed /\ \A i \in Codes : ~Holds(i, c)
        BY <3>1, <3>6 DEF Ledger, Fresh
      <4>2. \A i, d \in Codes : Holds(i, d)' => Holds(i, d) \/ (i = k /\ d = c)
        BY <3>6 DEF StoresIn, Holds
      <4>3. ASSUME NEW s \in Requests, s # r
            PROVE  Fresh(s)' /\ Reached(s)' /\ Cleared(s)'
        <5>1. requests'[s] = requests[s]
          BY <2>1, <4>3 DEF Moved
        <5>2. Fresh(s)'
          <6>1. CASE ~(At(s, "forgot", "act") /\ requests[s].save # "done")
            BY <5>1, <6>1 DEF Fresh, At
          <6>2. CASE At(s, "forgot", "act") /\ requests[s].save # "done"
            <7>1. PICK d \in Codes : d = requests[s].code
              BY <6>2, CodesTyped DEF At
            <7>2. d # c /\ d \notin passed /\ \A i \in Codes : ~Holds(i, d)
              BY <3>1, <3>6, <4>3, <6>2, <7>1 DEF Ledger, Apart, Fresh
            <7>3. \A i \in Codes : ~Holds(i, d)'
              BY <4>2, <7>2
            <7> QED BY <3>1, <5>1, <7>1, <7>2, <7>3 DEF Fresh, Holds
          <6> QED BY <6>1, <6>2
        <5>3. CASE ~(At(s, "reset", "act") \/ (At(s, "reset", "read") /\ "row" \notin requests[s].reads))
          BY <5>1, <5>2, <5>3 DEF Reached, Cleared, At
        <5>4. CASE At(s, "reset", "act") \/ (At(s, "reset", "read") /\ "row" \notin requests[s].reads)
          <6>1. PICK d \in Codes : d = requests[s].code
            BY <5>4, CodesTyped DEF At
          <6>2. d \in passed /\ d # c
            BY <4>1, <5>4, <6>1 DEF Ledger, Reached
          <6>3. \A i \in Codes : Holds(i, d)' => Holds(i, d)
            BY <4>2, <6>2
          <6>4. Reached(s)'
            BY <3>1, <5>1, <5>4, <6>1, <6>3 DEF Ledger, Reached, At, Holds
          <6>5. Cleared(s)'
            BY <3>1, <5>1, <6>1, <6>3 DEF Ledger, Cleared, At, Holds
          <6> QED BY <5>2, <6>4, <6>5
        <5> QED BY <5>3, <5>4
      <4>4. \A i, j, d \in Codes : Holds(i, d)' /\ Holds(j, d)' => i = j
        BY <4>1, <4>2 DEF Ledger
      <4>5. redeemed' \subseteq passed' /\ \A d \in redeemed' : \A i \in Codes : ~Holds(i, d)'
        <5>1. redeemed \subseteq Codes /\ c \notin redeemed
          BY <4>1, TypedHere DEF Typed, Ledger
        <5> QED BY <3>1, <4>2, <5>1 DEF Ledger
      <4> QED BY <3>3, <3>4, <4>3, <4>4, <4>5 DEF Ledger
    <3> QED BY <2>9, <3>5, <3>6, SavesStore
  <2>10. CASE ResetFindRow(r)
    <3>1. /\ At(r, "reset", "read") /\ "row" \in requests[r].reads
          /\ UNCHANGED <<rows, mails, nextCode, owner, acked, superseded, redeemed>>
      BY <2>10, LoudLeaves
    <3>2. CASE requests'[r] = Idle /\ UNCHANGED passed
      <4>1. \A s \in Requests : Keeps(s)
        BY <2>2, <3>2 DEF Keeps
      <4>2. \A s \in Requests : Fresh(s)' /\ Reached(s)' /\ Cleared(s)'
        BY <2>3, <3>1, <3>2, <4>1, FreshKept, ReachedKept
      <4>3. \A s, t \in Requests : Apart(s, t)'
        BY <4>1, ApartKept, KeptApart
      <4> QED BY <2>3, <3>1, <3>2, <4>2, <4>3, RowsKept DEF Ledger
    <3>3. ASSUME Reads(requests[r], requests'[r]), NEW i \in Codes,
                 Matches(i, requests[r]), requests'[r].row = i,
                 passed' = passed \cup {requests[r].code}
          PROVE  Ledger'
      <4>1. PICK c \in Codes : c = requests[r].code
        BY <3>1, CodesTyped DEF At
      <4>2. Holds(i, c) /\ requests'[r].code = c /\ requests'[r].op = "reset"
            /\ passed' = passed \cup {c}
        BY <3>3, <4>1 DEF Matches, Holds, Reads
      <4>3. Reached(r)'
        <5>1. \A j \in Codes : Holds(j, c)' => j = i
          BY <3>1, <4>2 DEF Ledger, Holds
        <5> QED BY <3>3, <4>2, <5>1 DEF Reached, Holds
      <4>4. Fresh(r)' /\ Cleared(r)'
        BY <3>3 DEF Fresh, Cleared, Reads, At
      <4>5. ASSUME NEW s \in Requests, s # r
            PROVE  Fresh(s)' /\ Reached(s)' /\ Cleared(s)'
        <5>1. requests'[s] = requests[s]
          BY <2>1, <4>5 DEF Moved
        <5>2. Reached(s)' /\ Cleared(s)'
          BY <2>2, <2>3, <3>1, <4>2, <4>5, ReachedKept
        <5>3. At(s, "forgot", "act") /\ requests[s].save # "done" => requests[s].code # c
          BY <4>2 DEF Ledger, Fresh
        <5>4. Fresh(s)'
          BY <3>1, <4>2, <5>1, <5>3 DEF Ledger, Fresh, At, Holds
        <5> QED BY <5>2, <5>4
      <4>6. \A s, t \in Requests : Apart(s, t)'
        <5>1. ~At(r, "forgot", "act")'
          BY <4>2 DEF At
        <5> QED BY <2>2, <5>1, ApartKept, KeptApart
      <4> QED BY <2>3, <3>1, <4>2, <4>3, <4>4, <4>5, <4>6, RowsKept DEF Ledger
    <3> QED BY <2>10, <3>2, <3>3, ResetFindRowMoves
  <2>11. CASE ResetRemove(r)
    <3>1. /\ At(r, "reset", "act")
          /\ Becomes(r, [requests[r] EXCEPT !.second = "done"])
          /\ rows' = [rows EXCEPT ![requests[r].row] = None]
          /\ UNCHANGED <<mails, nextCode, owner, acked, superseded, passed, redeemed>>
      BY <2>11, LoudLeaves
    <3>2. Same(requests[r], requests'[r])
      BY <3>1, SecondMoves DEF At
    <3>3. rows \in [Codes -> TokenRows \cup {None}]
      BY TypedHere DEF Typed
    <3>4. Fewer
      BY <3>1, <3>3 DEF Fewer, Holds
    <3>5. PICK c \in Codes : c = requests[r].code
      BY <3>1, CodesTyped DEF At
    <3>6. /\ c \in passed
          /\ \A i \in Codes : Holds(i, c) => i = requests[r].row
      BY <3>1, <3>5 DEF Ledger, Reached
    <3>7. \A i \in Codes : ~Holds(i, c)'
      BY <3>1, <3>3, <3>4, <3>6 DEF Fewer, Holds
    <3>8. Fresh(r)' /\ Reached(r)' /\ Cleared(r)'
      BY <3>1, <3>2, <3>5, <3>6, <3>7 DEF Fresh, Reached, Cleared, At, Same, Holds
    <3>9. \A s \in Requests : Fresh(s)' /\ Reached(s)' /\ Cleared(s)'
      BY <2>2, <3>1, <3>4, <3>8, FreshKept, ReachedKept
    <3>10. \A s, t \in Requests : Apart(s, t)'
      <4>1. ~At(r, "forgot", "act")'
        BY <3>1, <3>2 DEF At, Same
      <4> QED BY <2>2, <4>1, ApartKept, KeptApart
    <3> QED BY <3>1, <3>4, <3>9, <3>10, RowsKept DEF Ledger
  <2>12. ASSUME NEW u \in Users, ChangeStart(r, u)
         PROVE  Ledger'
    <3>1. requests'[r].op = "change" /\ Calm
      BY <2>12, ChangeStartMoves, LoudLeaves
    <3> QED BY <2>4, <3>1 DEF Fresh, Reached, Cleared, At
  <2> QED BY <1>2, <2>5, <2>6, <2>7, <2>8, <2>9, <2>10, <2>11, <2>12 DEF Loud
<1> QED BY <1>1, <1>2, QuietNext

\* A code of a reset that succeeded is in no row any more: what could bring it
\* back is a save, and a save only stores a code that no reset has found.
THEOREM CodesAreUsedOnce == Spec => []UsedOnce
<1>1. Init => Base /\ Owned /\ Ledger
  BY BaseInit, OwnedInit, LedgerInit
<1>2. Base /\ Owned /\ Ledger /\ [Next]_vars => (Base /\ Owned /\ Ledger)'
  BY BaseNext, OwnedNext, LedgerNext
<1>3. Base /\ Ledger => UsedOnce
  BY DEF Ledger, UsedOnce, Stored, Holds
<1> QED BY <1>1, <1>2, <1>3, PTL DEF Spec

-----------------------------------------------------------------------------
(* What an answered forgotPassword replaces.                                 *)

\* A reset can find code c in row i.
Live(i, c) == Holds(i, c) /\ rows[i].user # None

\* A forgot knows the acknowledged codes of its account; its own is not one.
Later(r) == requests[r].op = "forgot" =>
              \A c \in requests[r].earlier : c \in acked /\ owner[c] = requests[r].user

Unanswered(r) == At(r, "forgot", "act") => requests[r].code \notin acked

\* What is live of them is in the row that the forgot is about to overwrite.
Replaces(r) ==
  At(r, "forgot", "act") =>
    \A i \in Codes : \A c \in requests[r].earlier :
      Live(i, c) => \/ requests[r].failed
                    \/ /\ requests[r].row = i
                       /\ requests[r].save # "done"
                       /\ requests[r].save = "write" => requests[r].found

Retired == /\ \A r \in Requests : Later(r) /\ Unanswered(r) /\ Replaces(r)
           /\ superseded \subseteq acked
           /\ \A c \in superseded : \A i \in Codes : ~Live(i, c)

LEMMA RetiredInit == Init => Retired
<1> SUFFICES ASSUME Init
             PROVE  Retired
  OBVIOUS
<1>1. \A r \in Requests : Later(r) /\ Unanswered(r) /\ Replaces(r)
  BY IdleRecord DEF Init, Later, Unanswered, Replaces, At
<1> QED BY <1>1 DEF Init, Retired

LEMMA RetiredKept ==
  ASSUME Base, Owned, Retired, Grows, acked \subseteq acked',
         \A i, c \in Codes : Live(i, c)' => Live(i, c), NEW s \in Requests, Keeps(s)
  PROVE  Later(s)' /\ Replaces(s)'
<1>1. CASE requests'[s].op # "forgot"
  BY <1>1 DEF Later, Replaces, At
<1>2. CASE requests'[s].op = "forgot"
  <2>1. /\ requests'[s] # Idle /\ requests[s].op = "forgot"
        /\ requests'[s].user = requests[s].user /\ requests'[s].earlier = requests[s].earlier
        /\ requests'[s].row = requests[s].row /\ requests'[s].pc = requests[s].pc
    BY <1>2, IdleRecord DEF Keeps, Same
  <2>2. PICK E \in SUBSET Codes : E = requests[s].earlier
    BY TypedHere DEF RequestRecords
  <2>3. Later(s)'
    <3>1. \A c \in E : c \in acked /\ owner[c] = requests[s].user
      BY <2>1, <2>2 DEF Retired, Later
    <3>2. \A c \in E : c \in acked' /\ owner'[c] = requests[s].user
      BY <3>1 DEF Owned, Grows
    <3> QED BY <2>1, <2>2, <3>2 DEF Later
  <2>4. ASSUME At(s, "forgot", "act"), NEW i \in Codes, NEW c \in E, Live(i, c)'
        PROVE  \/ requests'[s].failed
               \/ /\ requests'[s].row = i
                  /\ requests'[s].save # "done"
                  /\ requests'[s].save = "write" => requests'[s].found
    <3>1. Live(i, c)
      BY <2>4
    <3>2. \/ requests[s].failed
          \/ /\ requests[s].row = i
             /\ requests[s].save # "done"
             /\ requests[s].save = "write" => requests[s].found
      BY <2>2, <2>4, <3>1 DEF Retired, Replaces
    <3>3. rows[i] # None
      BY <3>1 DEF Live, Holds
    <3>4. CASE requests'[s] = requests[s]
      BY <3>2, <3>4
    <3>5. CASE requests'[s] # requests[s]
      <4>1. /\ requests[s].failed => requests'[s].failed
            /\ \/ requests'[s].failed
               \/ /\ requests[s].save = "load" /\ requests'[s].save = "write"
                  /\ requests'[s].found <=> rows[requests[s].row] # None
               \/ /\ requests'[s].save = requests[s].save
                  /\ requests'[s].found = requests[s].found
        BY <2>1, <3>5 DEF Keeps, Same
      <4> QED BY <2>1, <3>2, <3>3, <4>1
    <3> QED BY <3>4, <3>5
  <2>5. Replaces(s)'
    BY <2>1, <2>2, <2>4 DEF Replaces, At
  <2> QED BY <2>3, <2>5
<1> QED BY <1>1, <1>2

LEMMA RetiredNext ==
  Base /\ OneLinkPerUser /\ Owned /\ Ledger /\ Retired /\ [Next]_vars => Retired'
<1> SUFFICES ASSUME Base, OneLinkPerUser, Owned, Ledger, Retired, [Next]_vars
             PROVE  Retired'
  OBVIOUS
<1>0. Grows
  BY OwnedGrows
<1>1. Removes => \A i, c \in Codes : Live(i, c)' => Live(i, c)
  BY DEF Removes, Live, Holds
<1>2. UNCHANGED rows => \A i, c \in Codes : Live(i, c)' => Live(i, c)
  BY DEF Live, Holds
<1>3. superseded \subseteq Codes /\ acked \subseteq Codes
  BY TypedHere DEF Typed
<1>4. CASE Quiet
  <2>1. /\ \A i, c \in Codes : Live(i, c)' => Live(i, c)
        /\ \A s \in Requests : Keeps(s)
    BY <1>1, <1>4 DEF Quiet
  <2>2. ASSUME acked \subseteq acked'
        PROVE  \A s \in Requests : Later(s)' /\ Replaces(s)'
    BY <1>0, <2>1, <2>2, RetiredKept
  <2>3. \A s \in Requests : At(s, "forgot", "act")' =>
           At(s, "forgot", "act") /\ requests'[s].code = requests[s].code
    BY <2>1, KeptApart
  <2>4. CASE UNCHANGED <<acked, superseded>>
    <3>1. \A s \in Requests : Unanswered(s)'
      BY <2>3, <2>4 DEF Retired, Unanswered
    <3> QED BY <1>3, <2>1, <2>2, <2>4, <3>1 DEF Retired
  <2>5. ASSUME NEW r \in Requests, ForgotAnswer(r)
        PROVE  Retired'
    <3>1. /\ At(r, "forgot", "act") /\ requests[r].save = "done"
          /\ IF requests[r].failed
             THEN UNCHANGED <<acked, superseded>>
             ELSE /\ acked' = acked \cup {requests[r].code}
                  /\ superseded' = superseded \cup requests[r].earlier
      BY <2>5 DEF ForgotAnswer
    <3>2. CASE requests[r].failed
      BY <2>4, <3>1, <3>2
    <3>3. CASE ~requests[r].failed
      <4>1. requests'[r] = Idle
        BY <2>5, AnswerMoves
      <4>2. \A s \in Requests : Unanswered(s)'
        <5>1. ASSUME NEW s \in Requests, At(s, "forgot", "act")'
              PROVE  requests'[s].code \notin acked'
          <6>1. s # r
            BY <4>1, <5>1, IdleRecord DEF At
          <6>2. At(s, "forgot", "act") /\ requests'[s].code = requests[s].code
            BY <2>3, <5>1
          <6>3. requests[s].code # requests[r].code /\ requests[s].code \notin acked
            BY <3>1, <6>1, <6>2 DEF Ledger, Apart, Retired, Unanswered
          <6> QED BY <3>1, <3>3, <6>2, <6>3
        <5> QED BY <5>1 DEF Unanswered
      <4>3. \A c \in requests[r].earlier : \A i \in Codes : ~Live(i, c)
        BY <3>1, <3>3 DEF Retired, Replaces
      <4>4. requests[r].earlier \subseteq acked
        BY <3>1 DEF Retired, Later, At
      <4>5. \A c \in superseded' : \A i \in Codes : ~Live(i, c)'
        BY <1>3, <2>1, <3>1, <3>3, <4>3, <4>4 DEF Retired
      <4>6. superseded' \subseteq acked' /\ acked \subseteq acked'
        BY <3>1, <3>3, <4>4 DEF Retired
      <4> QED BY <2>2, <4>2, <4>5, <4>6 DEF Retired
    <3> QED BY <3>2, <3>3
  <2> QED BY <1>4, <2>4, <2>5 DEF Quiet
<1>5. ASSUME NEW r \in Requests, Loud(r)
      PROVE  Retired'
  <2>1. Moved(r)
    <3>1. ResetRemove(r) => Moved(r)
      BY LoudLeaves, SecondMoves DEF At
    <3> QED BY <1>5, <3>1, ForgotStartMoves, ChangeStartMoves, ForgotFindMoves, ForgotWriteMoves,
               ResetStartMoves,
               ResetFindUserMoves, ResetFindRowMoves DEF Loud
  <2>2. \A s \in Requests : s # r => Keeps(s) /\ requests'[s] = requests[s]
    BY <2>1 DEF Moved, Keeps
  <2>3. ASSUME UNCHANGED <<acked, superseded>>,
               \A i, c \in Codes : Live(i, c)' => Live(i, c),
               Later(r)' /\ Unanswered(r)' /\ Replaces(r)'
        PROVE  Retired'
    <3>1. \A s \in Requests : Later(s)' /\ Replaces(s)'
      BY <1>0, <2>2, <2>3, RetiredKept
    <3>2. \A s \in Requests : Unanswered(s)'
      BY <2>2, <2>3 DEF Retired, Unanswered, At
    <3> QED BY <1>3, <2>3, <3>1, <3>2 DEF Retired
  <2>4. ASSUME UNCHANGED <<acked, superseded>>,
               \A i, c \in Codes : Live(i, c)' => Live(i, c),
               requests'[r].op # "forgot"
        PROVE  Retired'
    BY <2>3, <2>4 DEF Later, Unanswered, Replaces, At
  <2>5. ASSUME NEW u \in Users, ForgotStart(r, u)
        PROVE  Retired'
    <3>1. /\ Calm /\ requests'[r].pc = "find" /\ requests'[r].user = u
          /\ requests'[r].earlier = {c \in acked : owner[c] = u}
      BY <2>5, ForgotStartMoves, LoudLeaves
    <3>2. Later(r)' /\ Unanswered(r)' /\ Replaces(r)'
      BY <3>1 DEF Calm, Later, Unanswered, Replaces, At
    <3> QED BY <1>2, <2>3, <3>1, <3>2 DEF Calm
  <2>6. ASSUME NEW m \in mails, ResetStart(r, m)
        PROVE  Retired'
    BY <1>2, <2>4, <2>6, ResetStartMoves, LoudLeaves DEF Calm
  <2>7. CASE ResetFindUser(r)
    BY <1>2, <2>4, <2>7, ResetFindUserMoves, LoudLeaves DEF Calm, Reads
  <2>8. CASE ResetFindRow(r)
    <3>1. UNCHANGED <<rows, acked, superseded>>
      BY <2>8, LoudLeaves
    <3>2. requests'[r].op # "forgot"
      BY <2>8, ResetFindRowMoves, IdleRecord DEF Reads
    <3> QED BY <1>2, <2>4, <3>1, <3>2
  <2>9. CASE ResetRemove(r)
    <3>1. /\ At(r, "reset", "act")
          /\ Becomes(r, [requests[r] EXCEPT !.second = "done"])
          /\ rows' = [rows EXCEPT ![requests[r].row] = None]
          /\ UNCHANGED <<acked, superseded>>
      BY <2>9, LoudLeaves
    <3>2. requests'[r].op # "forgot"
      BY <3>1, SecondMoves DEF At, Same
    <3>3. Removes
      BY <3>1, TypedHere DEF Removes, Typed
    <3> QED BY <1>1, <2>4, <3>1, <3>2, <3>3
  <2>10. CASE ForgotFind(r)
    <3>1. /\ UNCHANGED <<rows, acked, superseded>> /\ nextCode \in Codes
          /\ At(r, "forgot", "find")
      BY <2>10, LoudLeaves
    <3>2. /\ requests'[r].op = "forgot" /\ requests'[r].code = nextCode
          /\ requests'[r].user = requests[r].user
          /\ requests'[r].earlier = requests[r].earlier
          /\ \/ /\ requests'[r].row \in RowsOf(requests[r].user)
                /\ requests'[r].save = "load"
             \/ RowsOf(requests[r].user) = {}
      BY <2>10, ForgotFindMoves
    <3>3. Unanswered(r)'
      <4>1. owner[nextCode] = None
        BY <3>1, NumbersAreNat DEF Owned
      <4> QED BY <3>1, <3>2, <4>1 DEF Owned, Unanswered
    <3>4. PICK E \in SUBSET Codes : E = requests[r].earlier
      BY TypedHere DEF RequestRecords
    <3>5. \A c \in E : c \in acked /\ owner[c] = requests[r].user
      BY <3>1, <3>4 DEF Retired, Later, At
    <3>6. Later(r)'
      <4>1. \A c \in E : c \in acked' /\ owner'[c] = requests[r].user
        BY <1>0, <3>1, <3>5 DEF Owned, Grows
      <4> QED BY <3>2, <3>4, <4>1 DEF Later
    <3>7. Replaces(r)'
      <4>1. ASSUME NEW i \in Codes, NEW c \in E, Live(i, c)
            PROVE  requests'[r].row = i /\ requests'[r].save = "load"
        <5>1. i \in RowsOf(requests[r].user)
          BY <3>5, <4>1 DEF Live, Holds, Owned, RowOwned, RowsOf
        <5>2. requests[r].user \in Users
          BY <3>1, TypedHere DEF At, Shape, Idle
        <5> QED BY <3>2, <5>1, <5>2 DEF OneLinkPerUser
      <4> QED BY <1>2, <3>1, <3>2, <3>4, <4>1 DEF Replaces
    <3> QED BY <1>2, <2>3, <3>1, <3>3, <3>6, <3>7
  <2>11. CASE ForgotWrite(r)
    <3>1. /\ At(r, "forgot", "act") /\ requests[r].save = "write"
          /\ UNCHANGED <<owner, acked, superseded>>
      BY <2>11, LoudLeaves
    <3>2. Same(requests[r], requests'[r]) /\ requests'[r].save = "done"
      BY <2>11, ForgotWriteMoves
    <3>3. PICK E \in SUBSET Codes : E = requests[r].earlier
      BY TypedHere DEF RequestRecords
    <3>4. /\ E \subseteq acked /\ requests[r].code \notin acked
          /\ \A c \in E : owner[c] = requests[r].user
      BY <3>1, <3>3 DEF Retired, Later, Unanswered, At
    <3>5. \A i \in Codes : \A c \in E : Live(i, c) =>
             requests[r].failed \/ (requests[r].row = i /\ requests[r].found)
      BY <3>1, <3>3 DEF Retired, Replaces
    <3>6. Later(r)' /\ Unanswered(r)'
      BY <3>1, <3>2, <3>3, <3>4 DEF Later, Unanswered, Same, At
    <3>7. (\A i \in Codes : \A c \in E : Live(i, c)' => requests'[r].failed) => Replaces(r)'
      BY <3>2, <3>3 DEF Replaces, Same
    <3>8. CASE /\ UNCHANGED rows
               /\ \/ requests'[r].failed
                  \/ requests[r].row # 0 /\ rows[requests[r].row] = None
      <4>1. \A i \in Codes : \A c \in E : Live(i, c)' => requests'[r].failed
        BY <3>2, <3>5, <3>8 DEF Live, Holds, Same
      <4> QED BY <1>2, <2>3, <3>1, <3>6, <3>7, <3>8, <4>1
    <3>9. ASSUME NEW k \in Codes, NEW c \in Codes, c = requests[r].code, StoresIn(k, c),
                 requests[r].row # 0 => k = requests[r].row
          PROVE  Retired'
      <4>1. \A i, d \in Codes : Live(i, d)' /\ d # c => Live(i, d) /\ i # k
        BY <3>9 DEF StoresIn, Live, Holds
      <4>2. c \notin acked
        BY <3>4, <3>9
      <4>3. Replaces(r)'
        <5>1. ASSUME NEW i \in Codes, NEW d \in E, Live(i, d)'
              PROVE  requests'[r].failed
          <6>1. Live(i, d) /\ i # k
            BY <3>4, <4>1, <4>2, <5>1
          <6>2. i # 0
            BY NumbersAreNat
          <6> QED BY <3>2, <3>5, <3>9, <6>1, <6>2 DEF Same
        <5> QED BY <3>7, <5>1
      <4>4. ASSUME NEW s \in Requests, s # r
            PROVE  Later(s)' /\ Unanswered(s)' /\ Replaces(s)'
        <5>1. requests'[s] = requests[s]
          BY <2>2, <4>4
        <5>2. Later(s)' /\ Unanswered(s)'
          BY <3>1, <5>1 DEF Retired, Later, Unanswered, At
        <5>3. PICK F \in SUBSET Codes : F = requests[s].earlier
          BY TypedHere DEF RequestRecords
        <5>4. Replaces(s)'
          <6>1. ASSUME At(s, "forgot", "act")
                PROVE  \A i \in Codes : \A d \in F : Live(i, d)' => Live(i, d)
            <7>1. F \subseteq acked
              BY <5>3, <6>1 DEF Retired, Later, At
            <7> QED BY <4>1, <4>2, <7>1
          <6> QED BY <5>1, <5>3, <6>1 DEF Retired, Replaces, At
        <5> QED BY <5>2, <5>4
      <4>5. \A d \in superseded' : \A i \in Codes : ~Live(i, d)'
        BY <1>3, <3>1, <4>1, <4>2 DEF Retired
      <4> QED BY <3>1, <3>6, <4>3, <4>4, <4>5 DEF Retired
    <3> QED BY <2>11, <3>8, <3>9, SavesStore
  <2>12. ASSUME NEW u \in Users, ChangeStart(r, u)
         PROVE  Retired'
    <3>1. Calm /\ requests'[r].op = "change"
      BY <2>12, ChangeStartMoves, LoudLeaves
    <3> QED BY <1>2, <2>4, <3>1 DEF Calm
  <2> QED BY <1>5, <2>5, <2>6, <2>7, <2>8, <2>9, <2>10, <2>11, <2>12 DEF Loud
<1> QED BY <1>4, <1>5, QuietNext

\* After an answered forgotPassword the codes that the account had been sent
\* before are dead: they were in the row that its save wrote, or in none.
THEOREM LaterLinksRetireEarlier == Spec => []LaterRetiresEarlier
<1>1. Init => Base /\ OneLinkPerUser /\ Owned /\ Ledger /\ Retired
  BY BaseInit, OneLinkInit, OwnedInit, LedgerInit, RetiredInit
<1>2. Base /\ OneLinkPerUser /\ Owned /\ Ledger /\ Retired /\ [Next]_vars
        => (Base /\ OneLinkPerUser /\ Owned /\ Ledger /\ Retired)'
  BY BaseNext, OneLinkNext, OwnedNext, LedgerNext, RetiredNext
<1>3. Base /\ Retired => LaterRetiresEarlier
  BY DEF Retired, LaterRetiresEarlier, Stored, Live, Holds
<1> QED BY <1>1, <1>2, <1>3, PTL DEF Spec

-----------------------------------------------------------------------------
(* Whose password a reset sets.                                              *)

\* Addresses are unique.
Unique == \A u \in Users : users[u] # None => Free(users[u].email, u)

LEMMA SameAddress ==
  ASSUME Unique, NEW u \in Users, NEW v \in Users, users[u] # None, users[v] # None,
         users[u].email = users[v].email
  PROVE  u = v
  BY DEF Unique, Free

\* Account v gets the row x, with an address that is free.
Rewriting(v, x) == /\ users' = [users EXCEPT ![v] = x]
                   /\ Rewrites([users EXCEPT ![v] = x])
                   /\ x # None => Free(x.email, v)

LEMMA RewritingNext ==
  ASSUME Base, Unique, [Next]_vars
  PROVE  \/ UNCHANGED <<users, shaken>>
         \/ /\ Quiet
            /\ \E v \in Users : \E x \in UserRows \cup {None} : Rewriting(v, x)
<1> USE TypedHere
<1>1. ASSUME NEW r \in Requests, UserWrite(r)
      PROVE  \/ UNCHANGED <<users, shaken>>
             \/ \E v \in Users : \E x \in UserRows \cup {None} : Rewriting(v, x)
  <2>1. CASE /\ requests[r].found = (users[requests[r].user] # None)
             /\ Free(Saved(requests[r]).email, requests[r].user)
             /\ Rewrites([users EXCEPT ![requests[r].user] = Saved(requests[r])])
    <3>1. SavesUser(r) /\ requests[r].save = "write"
      BY <1>1 DEF UserWrite
    <3>2. requests[r].found <=> users[requests[r].user] # None
      BY <2>1
    <3>3. requests[r].user \in Users /\ Saved(requests[r]) \in UserRows
      BY <3>1, <3>2, SavedTyped
    <3> QED BY <2>1, <3>3 DEF Rewriting, Rewrites
  <2> QED BY <1>1, <2>1 DEF UserWrite
<1>2. ASSUME NEW u \in Users, NEW row \in UserRows, Update(u, row)
      PROVE  \E v \in Users : \E x \in UserRows \cup {None} : Rewriting(v, x)
  BY <1>2 DEF Update, Rewriting, Rewrites
<1>3. ASSUME NEW u \in Users, VerifyUser(u)
      PROVE  \E v \in Users : \E x \in UserRows \cup {None} : Rewriting(v, x)
  <2> DEFINE x == [users[u] EXCEPT !.verified = TRUE]
  <2>1. /\ users[u] \in UserRows /\ users[u] # None
        /\ Rewrites([users EXCEPT ![u].verified = TRUE])
    BY <1>3 DEF VerifyUser, Typed
  <2>2. x \in UserRows /\ x.email = users[u].email
    BY <2>1 DEF UserRows
  <2>3. [users EXCEPT ![u].verified = TRUE] = [users EXCEPT ![u] = x]
    BY DEF Typed
  <2> HIDE DEF x
  <2>4. Rewriting(u, x)
    BY <2>1, <2>2, <2>3 DEF Rewriting, Rewrites, Unique
  <2> QED BY <2>2, <2>4
<1>4. ASSUME NEW u \in Users, DeleteUser(u)
      PROVE  \E v \in Users : \E x \in UserRows \cup {None} : Rewriting(v, x)
  BY <1>4 DEF DeleteUser, Rewriting, Rewrites
<1>5. ASSUME NEW r \in Requests, Loud(r)
      PROVE  UNCHANGED <<users, shaken>>
  BY <1>5 DEF Loud, ForgotStart, ChangeStart, ForgotFind, ForgotWrite, ResetStart, ResetFindUser,
              ResetFindRow, ResetRemove, history
<1>6. ASSUME NEW r \in Requests,
             \/ ForgotLoad(r) \/ ForgotMail(r) \/ ForgotAnswer(r) \/ UserLoad(r)
             \/ ResetAnswer(r) \/ ChangeAnswer(r) \/ EffectFails(r)
      PROVE  UNCHANGED <<users, shaken>>
  BY <1>6 DEF ForgotLoad, ForgotMail, ForgotAnswer, UserLoad, ResetAnswer, ChangeAnswer,
              EffectFails, history
<1>7. Crash => UNCHANGED <<users, shaken>>
  BY DEF Crash, history
<1>8. UNCHANGED vars => UNCHANGED <<users, shaken>>
  BY DEF vars, history
<1>9. \/ UNCHANGED <<users, shaken>>
      \/ \E v \in Users : \E x \in UserRows \cup {None} : Rewriting(v, x)
  BY <1>1, <1>2, <1>3, <1>4, <1>5, <1>6, <1>7, <1>8 DEF Next, Arrive, Continue, Loud
<1> QED BY <1>5, <1>9, QuietNext

LEMMA UniqueInit == Init => Unique
  BY DEF Init, Unique

LEMMA UniqueNext == Base /\ Unique /\ [Next]_vars => Unique'
<1> SUFFICES ASSUME Base, Unique, [Next]_vars
             PROVE  Unique'
  OBVIOUS
<1>1. CASE UNCHANGED users
  BY <1>1 DEF Unique, Free
<1>2. ASSUME NEW v \in Users, NEW x, Rewriting(v, x)
      PROVE  Unique'
  <2>1. /\ x # None => \A u \in Users \ {v} : users[u] # None => users[u].email # x.email
        /\ \A u \in Users : u # v => users'[u] = users[u]
    BY <1>2, TypedHere DEF Rewriting, Typed, Free
  <2>2. users'[v] = x
    BY <1>2, TypedHere DEF Rewriting, Typed
  <2> QED BY <2>1, <2>2 DEF Unique, Free
<1> QED BY <1>1, <1>2, RewritingNext

\* A reset that found its row, or its account, found the account of its
\* address, until the address changes hands.
RowPersonal(r) ==
  At(r, "reset", "read") /\ "row" \notin requests[r].reads =>
    \/ requests[r].code \in shaken
    \/ /\ owner[requests[r].code] \in Users
       /\ users[owner[requests[r].code]] # None
       /\ users[owner[requests[r].code]].email = requests[r].email

UserPersonal(r) ==
  At(r, "reset", "read") /\ requests[r].user # None =>
    \/ requests[r].code \in shaken
    \/ /\ users[requests[r].user] # None
       /\ users[requests[r].user].email = requests[r].email

Personal(r) ==
  At(r, "reset", "act") /\ requests[r].user # None =>
    requests[r].code \in shaken \/ owner[requests[r].code] = requests[r].user

Personals == \A r \in Requests : RowPersonal(r) /\ UserPersonal(r) /\ Personal(r)

LEMMA PersonalsInit == Init => Personals
  BY IdleRecord DEF Init, Personals, RowPersonal, UserPersonal, Personal, At

\* Either no address changes hands, or every reset that reads is noted.
LEMMA Shaking ==
  ASSUME Base, Unique, [Next]_vars
  PROVE  /\ shaken \subseteq shaken'
         /\ \/ \A u \in Users : users[u] # None =>
                 users'[u] # None /\ users'[u].email = users[u].email
            \/ \A r \in Requests : At(r, "reset", "read") => requests[r].code \in shaken'
<1>1. CASE UNCHANGED <<users, shaken>>
  BY <1>1
<1>2. ASSUME NEW v \in Users, NEW x \in UserRows \cup {None}, Rewriting(v, x)
      PROVE  /\ shaken \subseteq shaken'
             /\ \/ \A u \in Users : users[u] # None =>
                     users'[u] # None /\ users'[u].email = users[u].email
                \/ \A r \in Requests : At(r, "reset", "read") => requests[r].code \in shaken'
  <2> DEFINE us == [users EXCEPT ![v] = x]
  <2>1. Rewrites(us) /\ users' = us
    BY <1>2 DEF Rewriting
  <2>2. users' \in [Users -> UserRows \cup {None}]
    BY <1>2, TypedHere DEF Rewriting, Typed
  <2> HIDE DEF us
  <2>3. CASE Address(us) = Address(users)
    <3>1. \A u \in Users : (IF us[u] = None THEN None ELSE us[u].email)
                         = (IF users[u] = None THEN None ELSE users[u].email)
      BY <2>3 DEF Address
    <3>2. \A u \in Users : /\ users[u] # None => users[u].email # None
                           /\ users'[u] # None => users'[u].email # None
      BY <2>2, TypedHere, ResetAssumption DEF Typed, UserRows
    <3> QED BY <2>1, <2>3, <3>1, <3>2 DEF Rewrites
  <2>4. CASE Address(us) # Address(users)
    BY <2>1, <2>4 DEF Rewrites
  <2> QED BY <2>3, <2>4
<1> QED BY <1>1, <1>2, RewritingNext

LEMMA PersonalsNext ==
  Base /\ Owned /\ Unique /\ Personals /\ [Next]_vars => Personals'
<1> SUFFICES ASSUME Base, Owned, Unique, Personals, [Next]_vars
             PROVE  Personals'
  OBVIOUS
<1>0. Grows
  BY OwnedGrows
<1>1. ASSUME NEW s \in Requests, requests'[s] = requests[s]
      PROVE  RowPersonal(s)' /\ UserPersonal(s)' /\ Personal(s)'
  <2>1. CASE requests[s].op # "reset" \/ requests[s].pc \notin {"read", "act"}
    BY <1>1, <2>1 DEF RowPersonal, UserPersonal, Personal, At
  <2>2. CASE requests[s].op = "reset" /\ requests[s].pc \in {"read", "act"}
    <3>1. PICK c \in Codes : c = requests[s].code
      BY <2>2, CodesTyped
    <3>2. owner[c] # None /\ owner'[c] = owner[c]
      BY <1>0, <2>2, <3>1 DEF Owned, RequestOwned, Grows
    <3>3. requests[s].user # None => requests[s].user \in Users
      BY TypedHere DEF RequestRecords
    <3> QED BY <1>1, <3>1, <3>2, <3>3, Shaking
            DEF Personals, RowPersonal, UserPersonal, Personal, At
  <2> QED BY <2>1, <2>2
<1>2. ASSUME NEW s \in Requests, requests[s].pc = "act", Same(requests[s], requests'[s])
      PROVE  RowPersonal(s)' /\ UserPersonal(s)' /\ Personal(s)'
  <2>1. CASE requests[s].op # "reset"
    BY <1>2, <2>1 DEF RowPersonal, UserPersonal, Personal, At, Same
  <2>2. CASE requests[s].op = "reset"
    <3>1. PICK c \in Codes : c = requests[s].code
      BY <1>2, <2>2, CodesTyped
    <3>2. owner[c] # None /\ owner'[c] = owner[c]
      BY <1>0, <2>2, <3>1 DEF Owned, RequestOwned, Grows
    <3> QED BY <1>2, <3>1, <3>2, Shaking
            DEF Personals, RowPersonal, UserPersonal, Personal, At, Same
  <2> QED BY <2>1, <2>2
<1>3. ASSUME NEW s \in Requests, requests'[s] = Idle
      PROVE  RowPersonal(s)' /\ UserPersonal(s)' /\ Personal(s)'
  BY <1>3, IdleRecord DEF RowPersonal, UserPersonal, Personal, At
<1>4. CASE Quiet
  BY <1>1, <1>2, <1>3, <1>4 DEF Quiet, Keeps, Personals
<1>5. ASSUME NEW r \in Requests, Loud(r)
      PROVE  Personals'
  <2>1. Moved(r)
    <3>1. ResetRemove(r) => Moved(r)
      BY LoudLeaves, SecondMoves DEF At
    <3> QED BY <1>5, <3>1, ForgotStartMoves, ChangeStartMoves, ForgotFindMoves, ForgotWriteMoves,
               ResetStartMoves,
               ResetFindUserMoves, ResetFindRowMoves DEF Loud
  <2>2. ASSUME RowPersonal(r)' /\ UserPersonal(r)' /\ Personal(r)'
        PROVE  Personals'
    BY <1>1, <2>1, <2>2 DEF Moved, Personals
  <2>3. ASSUME requests'[r].op = "forgot"
        PROVE  Personals'
    BY <2>2, <2>3 DEF RowPersonal, UserPersonal, Personal, At
  <2>4. CASE (\E u \in Users : ForgotStart(r, u)) \/ ForgotFind(r) \/ ForgotWrite(r)
    <3>1. ForgotWrite(r) => requests'[r].op = "forgot"
      BY ForgotWriteMoves, LoudLeaves DEF Same, At
    <3> QED BY <2>3, <2>4, <3>1, ForgotStartMoves, ForgotFindMoves
  <2>5. ASSUME NEW m \in mails, ResetStart(r, m)
        PROVE  Personals'
    BY <2>2, <2>5, ResetStartMoves DEF RowPersonal, UserPersonal, Personal, At
  <2>6. CASE ResetRemove(r)
    BY <1>2, <2>2, <2>6, LoudLeaves, SecondMoves DEF At
  <2>7. CASE ResetFindUser(r)
    <3>1. /\ At(r, "reset", "read") /\ UNCHANGED <<users, owner, shaken>>
          /\ Reads(requests[r], requests'[r])
          /\ requests'[r].reads = requests[r].reads \ {"user"}
          /\ \/ \E u \in Users : /\ users[u] # None /\ users[u].email = requests[r].email
                                 /\ requests'[r].user = u
             \/ requests'[r].user = None
      BY <2>7, ResetFindUserMoves DEF ResetFindUser, history
    <3>2. RowPersonal(r)'
      BY <3>1 DEF Personals, RowPersonal, At, Reads
    <3>3. UserPersonal(r)'
      BY <3>1 DEF UserPersonal, At, Reads
    <3>4. Personal(r)'
      BY <3>1, SameAddress DEF Personals, RowPersonal, Personal, At, Reads
    <3> QED BY <2>2, <3>2, <3>3, <3>4
  <2>8. CASE ResetFindRow(r)
    <3>1. At(r, "reset", "read") /\ UNCHANGED <<users, owner, shaken>>
      BY <2>8 DEF ResetFindRow
    <3>2. ASSUME Reads(requests[r], requests'[r]), NEW i \in Codes,
                 Matches(i, requests[r]), requests'[r].user = requests[r].user,
                 requests'[r].reads = requests[r].reads \ {"row"}
          PROVE  Personals'
      <4>1. /\ owner[requests[r].code] \in Users
            /\ users[owner[requests[r].code]] # None
            /\ users[owner[requests[r].code]].email = requests[r].email
        <5>1. rows[i].user = owner[requests[r].code]
          BY <3>2 DEF Matches, Owned, RowOwned
        <5>2. rows[i].user \in Users
          BY <3>2, TypedHere DEF Matches, Typed, TokenRows
        <5> QED BY <3>2, <5>1, <5>2 DEF Matches
      <4>2. RowPersonal(r)'
        BY <3>1, <3>2, <4>1 DEF RowPersonal, At, Reads
      <4>3. UserPersonal(r)'
        BY <3>1, <3>2 DEF Personals, UserPersonal, At, Reads
      <4>4. Personal(r)'
        <5>1. requests[r].user # None => requests[r].user \in Users
          BY TypedHere DEF RequestRecords
        <5> QED BY <3>1, <3>2, <4>1, <5>1, SameAddress
                DEF Personals, UserPersonal, Personal, At, Reads
      <4> QED BY <2>2, <4>2, <4>3, <4>4
    <3> QED BY <1>3, <2>2, <2>8, <3>2, ResetFindRowMoves
  <2>9. ASSUME NEW u \in Users, ChangeStart(r, u)
        PROVE  Personals'
    BY <2>2, <2>9, ChangeStartMoves DEF RowPersonal, UserPersonal, Personal, At
  <2> QED BY <1>5, <2>4, <2>5, <2>6, <2>7, <2>8, <2>9 DEF Loud
<1> QED BY <1>4, <1>5, QuietNext

LEMMA CodeIsPersonalNext ==
  Base /\ Owned /\ Ledger /\ Unique /\ Personals /\ CodeIsPersonal /\ [Next]_vars
    => CodeIsPersonal'
<1> SUFFICES ASSUME Base, Owned, Ledger, Unique, Personals, CodeIsPersonal, [Next]_vars,
                    NEW u \in Users, (users[u] # None /\ users[u].password # 0)'
             PROVE  /\ users'[u].password \in passed'
                    /\ owner'[users'[u].password] = u \/ users'[u].password \in shaken'
  BY DEF CodeIsPersonal
<1>0. Grows /\ shaken \subseteq shaken' /\ u # None
  BY OwnedGrows, Shaking, ResetAssumption
<1>1. passed \subseteq passed'
  <2>1. ASSUME NEW r \in Requests, Loud(r)
        PROVE  passed \subseteq passed'
    BY <2>1, LoudLeaves, ResetFindRowMoves DEF Loud, Calm
  <2> QED BY <2>1, QuietNext DEF Quiet
<1>2. CASE users[u] # None /\ users'[u].password = users[u].password
  <2>1. PICK c \in Codes : c = users[u].password
    BY <1>2, TypedHere DEF Typed, UserRows
  <2> QED BY <1>0, <1>1, <1>2, <2>1 DEF CodeIsPersonal, Grows
<1>3. ASSUME NEW r \in Requests, At(r, "reset", "act"), requests[r].user = u,
             users'[u] = Saved(requests[r])
      PROVE  /\ users'[u].password \in passed'
             /\ owner'[users'[u].password] = u \/ users'[u].password \in shaken'
  <2>1. PICK c \in Codes : c = requests[r].code
    BY <1>3, CodesTyped DEF At
  <2>2. users'[u].password = c
    BY <1>3, <2>1 DEF Saved
  <2>3. c \in passed /\ (owner[c] = u \/ c \in shaken)
    BY <1>0, <1>3, <2>1 DEF Ledger, Reached, Personals, Personal
  <2> QED BY <1>0, <1>1, <2>1, <2>2, <2>3 DEF Grows
<1>4. ASSUME NEW r \in Requests, At(r, "change", "act"), users'[u] = Saved(requests[r])
      PROVE  FALSE
  <2>1. requests[r].code = 0
    BY <1>4, TypedHere DEF At, Shape, Idle
  <2> QED BY <1>4, <2>1 DEF Saved
<1>5. ASSUME NEW row \in UserRows, Update(u, row), users'[u] = row
      PROVE  users[u] # None /\ users'[u].password = users[u].password
  BY <1>5 DEF Update
<1> QED BY <1>2, <1>3, <1>4, <1>5, WritesNext DEF Writes, SavesUser

\* The password of an account was set with a code of this account, unless an
\* address changed hands between the two queries of the reset.
THEOREM CodesArePersonal == Spec => []CodeIsPersonal
<1>1. Init => /\ Base /\ Owned /\ OneLinkPerUser /\ Ledger /\ Unique /\ Personals
              /\ CodeIsPersonal
  <2>1. Init => CodeIsPersonal
    BY DEF Init, CodeIsPersonal
  <2> QED BY <2>1, BaseInit, OwnedInit, OneLinkInit, LedgerInit, UniqueInit, PersonalsInit
<1>2. Base /\ Owned /\ Ledger /\ Unique /\ Personals /\ CodeIsPersonal /\ [Next]_vars
        => (Base /\ Owned /\ Ledger /\ Unique /\ Personals /\ CodeIsPersonal)'
  BY BaseNext, OwnedNext, LedgerNext, UniqueNext, PersonalsNext, CodeIsPersonalNext
<1> QED BY <1>1, <1>2, PTL DEF Spec

-----------------------------------------------------------------------------
(* The reset codes are one-time codes: every step is a step of OneTimeCodes. *)

\* A forgot is about to store code c.
Issuing(c) == \E r \in Requests : /\ At(r, "forgot", "act") /\ requests[r].code = c
                                  /\ requests[r].save # "done"

LEMMA StageOf ==
  ASSUME NEW c \in Codes
  PROVE  Stage[c] = IF c >= nextCode THEN "fresh"
                    ELSE IF c \in Stored THEN "live"
                    ELSE IF Issuing(c) THEN "issued"
                    ELSE "dead"
  BY DEF Stage, Issuing

LEMMA StageOfNext ==
  ASSUME NEW c \in Codes
  PROVE  Stage'[c] = IF c >= nextCode' THEN "fresh"
                     ELSE IF c \in Stored' THEN "live"
                     ELSE IF Issuing(c)' THEN "issued"
                     ELSE "dead"
  BY DEF Stage, Issuing

\* Where codes are, in terms of what is known of them.
LEMMA StageFacts ==
  ASSUME Base, Owned, Ledger, NEW c \in Codes
  PROVE  /\ c \in Nat /\ nextCode \in Nat
         /\ owner[c] # None => c < nextCode
         /\ c \in Stored => c < nextCode /\ ~Issuing(c)
         /\ Issuing(c) => c < nextCode /\ c \notin passed
         /\ c \in redeemed => c \in passed
<1>1. c \in Nat /\ nextCode \in Nat
  BY NumbersAreNat, TypedHere DEF Typed
<1>2. owner[c] # None => c < nextCode
  BY <1>1 DEF Owned
<1>3. c \in Stored => owner[c] # None
  BY DEF Stored, Owned, RowOwned
<1>4. Issuing(c) => owner[c] # None /\ c \notin passed /\ \A i \in Codes : ~Holds(i, c)
  BY SavingRecord, ResetAssumption DEF Issuing, Owned, RequestOwned, Ledger, Fresh
<1>5. c \in Stored => ~Issuing(c)
  BY <1>4 DEF Stored, Holds
<1> QED BY <1>1, <1>2, <1>3, <1>4, <1>5 DEF Ledger

\* Codes are given up, and nothing else happens to them.
LEMMA StageRetires ==
  ASSUME Base, Owned, Ledger, UNCHANGED <<nextCode, passed, redeemed>>,
         \A c \in Codes : /\ c \in Stored' => c \in Stored
                          /\ Issuing(c)' => Issuing(c)
  PROVE  OneTime!Next
<1> DEFINE out == {c \in Codes : Stage'[c] # Stage[c]}
<1>1. ASSUME NEW c \in out
      PROVE  Stage[c] \in {"issued", "live"} /\ Stage'[c] = "dead"
  BY <1>1, StageOf, StageOfNext, StageFacts
<1>2. Stage' = [c \in Codes |-> IF c \in out THEN "dead" ELSE Stage[c]]
  BY <1>1 DEF Stage
<1>3. out \in SUBSET Codes
  OBVIOUS
<1> HIDE DEF out
<1>4. OneTime!Retire(out)
  BY <1>1, <1>2 DEF OneTime!Retire
<1> QED BY <1>3, <1>4 DEF OneTime!Next

\* Nothing happens to the stages.
LEMMA StageStays ==
  ASSUME UNCHANGED nextCode,
         \A c \in Codes : /\ c \in Stored' <=> c \in Stored
                          /\ Issuing(c)' <=> Issuing(c)
  PROVE  UNCHANGED Stage
<1>1. \A c \in Codes : Stage'[c] = Stage[c]
  BY StageOf, StageOfNext
<1>2. Stage' = [c \in Codes |-> Stage'[c]] /\ Stage = [c \in Codes |-> Stage[c]]
  BY DEF Stage
<1> QED BY <1>1, <1>2

LEMMA StageNext ==
  Base /\ Owned /\ Ledger /\ [Next]_vars => [OneTime!Next]_(OneTime!vars)
<1> SUFFICES ASSUME Base, Owned, Ledger, [Next]_vars
             PROVE  OneTime!Next \/ UNCHANGED OneTime!vars
  OBVIOUS
<1>0. UNCHANGED rows => \A c \in Codes : c \in Stored' <=> c \in Stored
  BY DEF Stored
<1>1. CASE Quiet
  <2>1. /\ \A c \in Codes : c \in Stored' => c \in Stored
        /\ \A s \in Requests : Keeps(s)
        /\ UNCHANGED <<nextCode, passed>>
    BY <1>1 DEF Quiet, Removes, Stored
  <2>2. \A s \in Requests : At(s, "forgot", "act")' =>
           At(s, "forgot", "act") /\ requests'[s].code = requests[s].code
    BY <2>1, KeptApart
  <2>3. \A s \in Requests : At(s, "forgot", "act")' /\ requests[s].save = "done"
           => requests'[s].save = "done"
    BY <2>1, IdleRecord DEF Keeps, At
  <2>4. ASSUME NEW c \in Codes
        PROVE  Issuing(c)' => Issuing(c)
    BY <2>2, <2>3 DEF Issuing
  <2>5. CASE UNCHANGED redeemed
    BY <2>1, <2>4, <2>5, StageRetires
  <2>6. ASSUME NEW r \in Requests, ResetAnswer(r), redeemed' # redeemed
        PROVE  OneTime!Next
    <3>1. /\ At(r, "reset", "act") /\ requests[r].second = "done"
          /\ ~requests[r].failed /\ redeemed' = redeemed \cup {requests[r].code}
          /\ UNCHANGED rows
      BY <2>6 DEF ResetAnswer
    <3>2. PICK c \in Codes : c = requests[r].code
      BY <3>1, CodesTyped DEF At
    <3>3. c \in passed /\ \A i \in Codes : ~Holds(i, c)
      BY <3>1, <3>2 DEF Ledger, Reached, Cleared
    <3>4. c < nextCode /\ c \notin Stored /\ ~Issuing(c)
      BY <3>3, StageFacts DEF Owned, Stored, Holds
    <3>5. Stage[c] = "dead"
      BY <3>4, StageOf, StageFacts
    <3>6. \A s \in Requests : s # r => requests'[s] = requests[s]
      BY <2>6, AnswerMoves DEF Moved
    <3>7. ASSUME NEW d \in Codes, Issuing(d)
          PROVE  Issuing(d)'
      <4>1. PICK s \in Requests : /\ At(s, "forgot", "act") /\ requests[s].code = d
                                  /\ requests[s].save # "done"
        BY <3>7 DEF Issuing
      <4>2. s # r
        BY <3>1, <4>1 DEF At
      <4> QED BY <3>6, <4>1, <4>2 DEF Issuing, At
    <3>8. UNCHANGED Stage
      BY <1>0, <2>1, <2>4, <3>1, <3>7, StageStays
    <3>9. OneTime!Redeem(c)
      BY <2>1, <3>1, <3>2, <3>3, <3>5, <3>8 DEF OneTime!Redeem
    <3> QED BY <3>9 DEF OneTime!Next
  <2> QED BY <1>1, <2>5, <2>6 DEF Quiet
<1>2. ASSUME NEW r \in Requests, Loud(r)
      PROVE  OneTime!Next
  <2>1. Moved(r)
    <3>1. ResetRemove(r) => Moved(r)
      BY LoudLeaves, SecondMoves DEF At
    <3> QED BY <1>2, <3>1, ForgotStartMoves, ChangeStartMoves, ForgotFindMoves, ForgotWriteMoves,
               ResetStartMoves,
               ResetFindUserMoves, ResetFindRowMoves DEF Loud
  <2>2. ASSUME NEW c \in Codes, Issuing(c)', ~(At(r, "forgot", "act") /\ requests[r].code = c
                                                /\ requests[r].save # "done")'
        PROVE  Issuing(c)
    BY <2>1, <2>2 DEF Moved, Issuing, At
  <2>3. ASSUME UNCHANGED <<nextCode, passed, redeemed>>,
               \A c \in Codes : c \in Stored' => c \in Stored,
               ~(At(r, "forgot", "act") /\ requests[r].save # "done")'
        PROVE  OneTime!Next
    BY <2>2, <2>3, StageRetires
  <2>4. CASE \/ \E u \in Users : ForgotStart(r, u) \/ ChangeStart(r, u)
             \/ \E m \in mails : ResetStart(r, m)
             \/ ResetFindUser(r)
    <3>1. Calm
      BY <2>4, LoudLeaves
    <3>2. ~At(r, "forgot", "act")'
      BY <2>4, ForgotStartMoves, ChangeStartMoves, ResetStartMoves, ResetFindUserMoves
         DEF Reads, At
    <3> QED BY <1>0, <2>3, <3>1, <3>2 DEF Calm
  <2>5. CASE ResetRemove(r)
    <3>1. /\ At(r, "reset", "act")
          /\ Becomes(r, [requests[r] EXCEPT !.second = "done"])
          /\ rows' = [rows EXCEPT ![requests[r].row] = None]
          /\ UNCHANGED <<nextCode, passed, redeemed>>
      BY <2>5, LoudLeaves
    <3>2. ~At(r, "forgot", "act")'
      BY <3>1, SecondMoves DEF At, Same
    <3>3. \A c \in Codes : c \in Stored' => c \in Stored
      BY <3>1, TypedHere DEF Stored, Typed
    <3> QED BY <2>3, <3>1, <3>2, <3>3
  <2>6. CASE ForgotFind(r)
    <3>1. /\ UNCHANGED <<rows, passed, redeemed>>
          /\ nextCode \in Codes /\ nextCode' = nextCode + 1
          /\ At(r, "forgot", "find")
      BY <2>6, LoudLeaves
    <3>2. PICK n \in Codes : n = nextCode
      BY <3>1
    <3>3. /\ At(r, "forgot", "act")' /\ requests'[r].code = n /\ requests'[r].save # "done"
      BY <2>6, <3>2, ForgotFindMoves DEF At
    <3>4. \A c \in Codes : c # n => (Issuing(c)' <=> Issuing(c))
      BY <2>1, <3>1, <3>3 DEF Issuing, Moved, At
    <3>5. Issuing(n)' /\ n \notin Stored
      BY <3>2, <3>3, StageFacts DEF Issuing
    <3>6. \A c \in Codes : Stage'[c] = IF c = n THEN "issued" ELSE Stage[c]
      <4>1. ASSUME NEW c \in Codes
            PROVE  Stage'[c] = IF c = n THEN "issued" ELSE Stage[c]
        <5>1. c \in Nat /\ n \in Nat /\ nextCode' = n + 1
          BY <3>1, <3>2, NumbersAreNat
        <5>2. CASE c = n
          <6>1. ~(c >= nextCode')
            BY <5>1, <5>2
          <6> QED BY <1>0, <3>1, <3>5, <5>2, <6>1, StageOfNext
        <5>3. CASE c # n
          <6>1. c >= nextCode' <=> c >= nextCode
            BY <3>2, <5>1, <5>3
          <6> QED BY <1>0, <3>1, <3>4, <5>3, <6>1, StageOf, StageOfNext
        <5> QED BY <5>2, <5>3
      <4> QED BY <4>1
    <3>7. Stage' = [Stage EXCEPT ![n] = "issued"]
      BY <3>6 DEF Stage
    <3>8. Stage[n] = "fresh"
      BY <3>2, StageOf, StageFacts
    <3>9. OneTime!Issue(n)
      BY <3>1, <3>7, <3>8 DEF OneTime!Issue
    <3> QED BY <3>9 DEF OneTime!Next
  <2>7. CASE ForgotWrite(r)
    <3>1. /\ At(r, "forgot", "act") /\ requests[r].save = "write"
          /\ UNCHANGED <<nextCode, passed, redeemed>>
      BY <2>7, LoudLeaves
    <3>2. requests'[r].save = "done"
      BY <2>7, ForgotWriteMoves
    <3>3. CASE UNCHANGED rows
      BY <1>0, <2>3, <3>1, <3>2, <3>3
    <3>4. ASSUME NEW k \in Codes, NEW c \in Codes, c = requests[r].code, StoresIn(k, c)
          PROVE  OneTime!Next
      <4>1. \A d \in Codes : d \in Stored' /\ d # c => d \in Stored
        BY <3>4 DEF StoresIn, Stored
      <4>2. CASE c \notin Stored'
        BY <2>3, <3>1, <3>2, <4>1, <4>2
      <4>3. CASE c \in Stored'
        <5> DEFINE out == {d \in Codes : d # c /\ Stage'[d] # Stage[d]}
        <5>1. Issuing(c)
          BY <3>1, <3>4 DEF Issuing
        <5>2. Stage[c] = "issued" /\ Stage'[c] = "live"
          BY <3>1, <4>3, <5>1, StageOf, StageOfNext, StageFacts
        <5>3. \A d \in Codes : d # c => (Issuing(d)' <=> Issuing(d))
          BY <2>1, <3>1, <3>2, <3>4 DEF Issuing, Moved, At
        <5>4. ASSUME NEW d \in out
              PROVE  Stage[d] = "live" /\ Stage'[d] = "dead"
          BY <3>1, <4>1, <5>3, <5>4, StageOf, StageOfNext, StageFacts
        <5>5. Stage' = [d \in Codes |-> IF d = c THEN "live"
                                        ELSE IF d \in out THEN "dead" ELSE Stage[d]]
          BY <5>2, <5>4 DEF Stage
        <5>6. out \in SUBSET Codes
          OBVIOUS
        <5> HIDE DEF out
        <5>7. OneTime!Publish(c, out)
          BY <3>1, <5>2, <5>4, <5>5 DEF OneTime!Publish
        <5> QED BY <5>6, <5>7 DEF OneTime!Next
      <4> QED BY <4>2, <4>3
    <3> QED BY <2>7, <3>3, <3>4, SavesStore
  <2>8. CASE ResetFindRow(r)
    <3>1. /\ At(r, "reset", "read")
          /\ UNCHANGED <<rows, nextCode, redeemed>>
      BY <2>8, LoudLeaves
    <3>2. CASE requests'[r] = Idle /\ UNCHANGED passed
      BY <1>0, <2>3, <3>1, <3>2, IdleRecord DEF At
    <3>3. ASSUME Reads(requests[r], requests'[r]), NEW i \in Codes,
                 Matches(i, requests[r]),
                 passed' = passed \cup {requests[r].code}
          PROVE  OneTime!Next
      <4>1. PICK c \in Codes : c = requests[r].code
        BY <3>1, CodesTyped DEF At
      <4>2. c \in Stored
        BY <3>3, <4>1 DEF Matches, Stored
      <4>3. Stage[c] = "live"
        BY <4>2, StageOf, StageFacts
      <4>4. \A d \in Codes : Issuing(d)' <=> Issuing(d)
        BY <2>1, <3>1, <3>3 DEF Issuing, Moved, At, Reads
      <4>5. UNCHANGED Stage
        BY <1>0, <3>1, <4>4, StageStays
      <4>6. OneTime!Pass(c)
        BY <3>1, <3>3, <4>1, <4>3, <4>5 DEF OneTime!Pass
      <4> QED BY <4>6 DEF OneTime!Next
    <3> QED BY <2>8, <3>2, <3>3, ResetFindRowMoves
  <2> QED BY <1>2, <2>4, <2>5, <2>6, <2>7, <2>8 DEF Loud
<1> QED BY <1>1, <1>2, QuietNext

\* The reset codes are one-time codes: whatever overlaps, fails or dies, a code
\* is stored once, found only while it is stored, and dead when its use is
\* acknowledged.
THEOREM ImplementsOneTimeCodes == Spec => CodesRefinement
<1>1. Init => OneTime!Init
  BY NumbersAreNat, IdleRecord DEF Init, OneTime!Init, Stage, Codes
<1>2. Init => Base /\ Owned /\ Ledger
  BY BaseInit, OwnedInit, LedgerInit
<1>3. Base /\ Owned /\ Ledger /\ [Next]_vars => (Base /\ Owned /\ Ledger)'
  BY BaseNext, OwnedNext, LedgerNext
<1> QED BY <1>1, <1>2, <1>3, StageNext, PTL DEF Spec, CodesRefinement, OneTime!Spec

-----------------------------------------------------------------------------
(* What the one-time codes promise, of the reset codes.               *)

Promise == INSTANCE OneTimeCodesProofs WITH stage <- Stage

(* Once POST reset-password was answered with success for a code, no row     *)
(* that a reset can find ever holds it again, so the link works no more.     *)
THEOREM AcknowledgedResetsAreTheLast ==
  ASSUME NEW c \in Codes
  PROVE  Spec => [](c \in redeemed => c \in passed /\ [](c \notin Stored))
<1>1. Promise!Spec => [](c \in redeemed => c \in passed /\ [](Stage[c] = "dead"))
  BY Promise!AcknowledgedUseIsTheLast
<1>2. OneTime!Spec => Promise!Spec
  <2>1. OneTime!Init => Promise!Init
    BY DEF OneTime!Init, Promise!Init
  <2>2. [OneTime!Next]_(OneTime!vars) => [Promise!Next]_(Promise!vars)
    BY DEF OneTime!Next, OneTime!Issue, OneTime!Pass, OneTime!Redeem, OneTime!Publish,
           OneTime!Retire, OneTime!vars,
           Promise!Next, Promise!Issue, Promise!Pass, Promise!Redeem, Promise!Publish,
           Promise!Retire, Promise!vars
  <2> QED BY <2>1, <2>2, PTL DEF OneTime!Spec, Promise!Spec
<1>3. Stage[c] = "dead" => c \notin Stored
  BY DEF Stage
<1> QED BY <1>1, <1>2, <1>3, ImplementsOneTimeCodes, PTL DEF CodesRefinement

=============================================================================
