--------------------------- MODULE SessionsProofs ---------------------------
(* Proofs about Sessions, for every number of users, requests and passwords, *)
(* every lifetime of the tokens and every bound on clock and crashes.        *)
EXTENDS Sessions, TLAPS

-----------------------------------------------------------------------------
(* Type correctness.  What the pc of a request implies strengthens TypeOK:   *)
(* whose request it is, and that a password change carries its passwords.    *)

GoodRecord(q) ==
  /\ q \in RequestRecords
  /\ q.pc # "idle" => q.user \in Users
  /\ q.op = "change" /\ q.pc # "idle" => q.new \in Passwords
  /\ q.pc \in {"select", "write"} => q.op = "change"
  /\ q.pc = "grant" => q.op = "refresh"
  /\ q.pc = "find" => q.op \in {"logout", "change", "delete", "refresh"}

TypeInv == TypeOK /\ \A r \in Requests : GoodRecord(requests[r])

\* The record fields of a request, for the provers.
LEMMA RequestFields ==
  ASSUME NEW q \in RequestRecords
  PROVE  /\ q.op \in Ops
         /\ q.pc \in Pcs
         /\ q.user \in Users \cup {None}
         /\ q.iat \in Nat
         /\ q.old \in Passwords \cup {None}
         /\ q.new \in Passwords \cup {None}
         /\ q.row \in Passwords \cup {None}
         /\ q.found \in BOOLEAN
         /\ q.alone \in BOOLEAN
  BY DEF RequestRecords

LEMMA IdleIsGood == GoodRecord(Idle)
  BY DEF GoodRecord, Idle, RequestRecords, Ops, Pcs

\* Clearing the flag of a request keeps its record good.
LEMMA ClearedIsGood ==
  ASSUME NEW q, GoodRecord(q)
  PROVE  GoodRecord([q EXCEPT !.alone = FALSE])
<1> DEFINE c == [q EXCEPT !.alone = FALSE]
<1>1. c \in RequestRecords
  BY DEF GoodRecord, RequestRecords
<1>2. c.pc = q.pc /\ c.user = q.user /\ c.op = q.op /\ c.new = q.new
  BY DEF GoodRecord, RequestRecords
<1> HIDE DEF c
<1>3. GoodRecord(c)
  BY <1>1, <1>2 DEF GoodRecord
<1> QED BY <1>3 DEF c

\* Both ways a request goes on keep all the requests good.
LEMMA StepIsGood ==
  ASSUME TypeInv, NEW r \in Requests, NEW rec, GoodRecord(rec), NEW u,
         Becomes(r, rec) \/ Disturbs(r, rec, u)
  PROVE  requests' \in [Requests -> RequestRecords]
         /\ \A q \in Requests : GoodRecord(requests'[q])
<1>1. \A q \in Requests : GoodRecord([requests[q] EXCEPT !.alone = FALSE])
  BY ClearedIsGood DEF TypeInv
<1>2. CASE Becomes(r, rec)
  BY <1>2 DEF Becomes, GoodRecord, TypeInv, TypeOK
<1>3. CASE Disturbs(r, rec, u)
  BY <1>1, <1>3 DEF Disturbs, GoodRecord, TypeInv, TypeOK
<1> QED BY <1>2, <1>3

\* A write to the cache, of a token signed now or of none, keeps its type.
LEMMA CacheWriteType ==
  ASSUME TypeInv, NEW u \in Users, NEW e \in Nat \cup {None}, CacheWrite(u, e)
  PROVE  cache' \in [Users -> Nat \cup {None}] /\ retired' \subseteq Users \X Nat
  BY DEF CacheWrite, TakenOut, TypeInv, TypeOK

\* The user of a request in flight.
LEMMA RequestUser ==
  ASSUME TypeInv, NEW r \in Requests, ~At(r, "idle")
  PROVE  requests[r].user \in Users
  BY DEF TypeInv, GoodRecord, At

LEMMA TypeInit == Init => TypeInv
<1> SUFFICES ASSUME Init PROVE TypeInv
  OBVIOUS
<1>1. GoodRecord(Idle)
  BY IdleIsGood
<1>2. \A r \in Requests : requests[r] = Idle
  BY DEF Init
<1>3. requests \in [Requests -> RequestRecords]
  BY <1>1 DEF Init, GoodRecord
<1>4. TypeOK
  BY <1>3, SessionsAssumption DEF Init, TypeOK
<1> QED BY <1>1, <1>2, <1>4 DEF TypeInv

\* The steps that start or continue a request.
LEMMA TypeArrive ==
  ASSUME TypeInv, NEW r \in Requests, Arrive(r)
  PROVE  TypeInv'
<1>1. ASSUME NEW u \in Users, LoginStart(r, u)
      PROVE  TypeInv'
  <2> DEFINE rec == [Idle EXCEPT !.op = "login", !.pc = "sign", !.user = u]
  <2>1. GoodRecord(rec)
    BY DEF GoodRecord, Idle, RequestRecords, Ops, Pcs
  <2>2. Becomes(r, rec)
    BY <1>1 DEF LoginStart
  <2> HIDE DEF rec
  <2> QED BY <1>1, <2>1, <2>2, StepIsGood DEF LoginStart, TypeInv, TypeOK
<1>2. ASSUME NEW t \in delivered, NEW op \in {"logout", "change", "delete"},
             NEW old \in Passwords \cup {None}, NEW new \in Passwords \cup {None},
             op = "change" => new \in Passwords,
             Present(r, t, op, old, new)
      PROVE  TypeInv'
  <2> DEFINE rec == [Idle EXCEPT !.op = op, !.pc = "find", !.user = t.user,
                                 !.old = old, !.new = new]
  <2>0. t.user \in Users
    BY DEF TypeInv, TypeOK, Tokens
  <2>1. GoodRecord(rec)
    BY <1>2, <2>0 DEF GoodRecord, Idle, RequestRecords, Ops, Pcs
  <2>2. Becomes(r, rec)
    BY <1>2 DEF Present
  <2> HIDE DEF rec
  <2> QED BY <1>2, <2>1, <2>2, StepIsGood DEF Present, TypeInv, TypeOK
<1>3. ASSUME NEW t \in delivered, PresentRefresh(r, t)
      PROVE  TypeInv'
  <2> DEFINE rec == [Idle EXCEPT !.op = "refresh", !.pc = "find", !.user = t.user]
  <2>0. t.user \in Users
    BY DEF TypeInv, TypeOK, Tokens
  <2>1. GoodRecord(rec)
    BY <2>0 DEF GoodRecord, Idle, RequestRecords, Ops, Pcs
  <2>2. Becomes(r, rec)
    BY <1>3 DEF PresentRefresh
  <2> HIDE DEF rec
  <2> QED BY <1>3, <2>1, <2>2, StepIsGood DEF PresentRefresh, TypeInv, TypeOK
<1> QED BY <1>1, <1>2, <1>3 DEF Arrive

\* The steps of a request in flight.
LEMMA TypeContinue ==
  ASSUME TypeInv, NEW r \in Requests, Continue(r)
  PROVE  TypeInv'
<1> DEFINE q == requests[r]
           u == q.user
<1>q. GoodRecord(q) /\ q \in RequestRecords
  BY DEF TypeInv, GoodRecord
<1>n. now \in Nat
  BY DEF TypeInv, TypeOK
<1>u. ~At(r, "idle") => u \in Users
  BY RequestUser
<1>i. GoodRecord(Idle)
  BY IdleIsGood
<1>1. CASE LoginSign(r)
  <2> DEFINE rec == [q EXCEPT !.pc = "store", !.iat = now, !.alone = TRUE]
  <2>1. GoodRecord(rec)
    BY <1>q, <1>n, <1>u, <1>1 DEF GoodRecord, RequestRecords, Pcs, LoginSign, At
  <2>2. Disturbs(r, rec, u) /\ CacheWrite(u, now) /\ u \in Users
    BY <1>1, <1>u DEF LoginSign, At
  <2> HIDE DEF rec, q, u
  <2> QED BY <1>1, <1>n, <2>1, <2>2, StepIsGood, CacheWriteType
          DEF LoginSign, TypeInv, TypeOK
<1>2. CASE LoginStore(r)
  <2> DEFINE rec == [q EXCEPT !.pc = "reply"]
             row == [digest |-> Digest(q.iat), until |-> q.iat + RefreshTTL]
  <2>1. GoodRecord(rec)
    BY <1>q, <1>u, <1>2 DEF GoodRecord, RequestRecords, Pcs, LoginStore, At
  <2>2. row \in RefreshRows
    <3>1. q.iat \in Nat
      BY <1>q DEF RequestRecords
    <3>2. Digest(q.iat) \in Nat /\ q.iat + RefreshTTL \in Nat
      BY <3>1, SessionsAssumption DEF Digest
    <3> QED BY <3>2 DEF RefreshRows
  <2>3. CASE users[u] # None
    <3>1. Disturbs(r, rec, u) /\ refreshRows' = [refreshRows EXCEPT ![u] = row]
      BY <1>2, <2>3 DEF LoginStore
    <3> HIDE DEF rec, row, q, u
    <3> QED BY <1>2, <2>1, <2>2, <3>1, StepIsGood DEF LoginStore, TypeInv, TypeOK
  <2>4. CASE users[u] = None
    <3>1. Becomes(r, Idle) /\ UNCHANGED refreshRows
      BY <1>2, <2>4 DEF LoginStore
    <3> HIDE DEF rec, row, q, u
    <3> QED BY <1>2, <1>i, <3>1, StepIsGood DEF LoginStore, TypeInv, TypeOK
  <2> QED BY <2>3, <2>4
<1>3. CASE Reply(r)
  <2>1. u \in Users /\ q.iat \in Nat
    BY <1>q, <1>u, <1>3 DEF Reply, At, RequestRecords
  <2>2. delivered' \subseteq Tokens
    BY <1>3, <2>1 DEF Reply, TypeInv, TypeOK, Tokens
  <2> HIDE DEF q, u
  <2> QED BY <1>3, <1>i, <2>2, StepIsGood DEF Reply, TypeInv, TypeOK
<1>4. CASE FindUser(r)
  <2> DEFINE rec == [q EXCEPT !.row = users[u], !.pc = HandlerPc(q.op)]
  <2>1. users[u] \in Passwords \cup {None}
    BY <1>u, <1>4 DEF FindUser, At, TypeInv, TypeOK
  <2>2. GoodRecord(rec)
    BY <1>q, <1>u, <1>4, <2>1
       DEF GoodRecord, RequestRecords, Pcs, FindUser, At, HandlerPc
  <2>3. Becomes(r, rec) \/ Becomes(r, Idle)
    BY <1>4 DEF FindUser
  <2> HIDE DEF rec, q, u
  <2> QED BY <1>4, <1>i, <2>2, <2>3, StepIsGood DEF FindUser, TypeInv, TypeOK
<1>5. CASE RefreshGrant(r)
  <2> DEFINE rec == [q EXCEPT !.pc = "reply", !.iat = now]
  <2>1. GoodRecord(rec)
    BY <1>q, <1>n, <1>u, <1>5 DEF GoodRecord, RequestRecords, Pcs, RefreshGrant, At
  <2>2. Disturbs(r, rec, u) /\ CacheWrite(u, now) /\ u \in Users
    BY <1>5, <1>u DEF RefreshGrant, At
  <2> HIDE DEF rec, q, u
  <2> QED BY <1>5, <1>n, <2>1, <2>2, StepIsGood, CacheWriteType
          DEF RefreshGrant, TypeInv, TypeOK
<1>6. CASE Logout(r)
  <2>1. Disturbs(r, Idle, u) /\ CacheWrite(u, None) /\ u \in Users
    BY <1>6, <1>u DEF Logout, At
  <2> HIDE DEF q, u
  <2> QED BY <1>6, <1>i, <2>1, StepIsGood, CacheWriteType
          DEF Logout, TypeInv, TypeOK
<1>7. CASE ChangeSelect(r)
  <2> DEFINE rec == [q EXCEPT !.pc = "write", !.found = users[u] # None]
  <2>1. GoodRecord(rec)
    BY <1>q, <1>u, <1>7 DEF GoodRecord, RequestRecords, Pcs, ChangeSelect, At
  <2>2. Becomes(r, rec) \/ Becomes(r, Idle)
    BY <1>7 DEF ChangeSelect
  <2> HIDE DEF rec, q, u
  <2> QED BY <1>7, <1>i, <2>1, <2>2, StepIsGood DEF ChangeSelect, TypeInv, TypeOK
<1>8. CASE ChangeWrite(r)
  <2> DEFINE rec == [q EXCEPT !.pc = "drop"]
  <2>1. GoodRecord(rec)
    BY <1>q, <1>u, <1>8 DEF GoodRecord, RequestRecords, Pcs, ChangeWrite, At
  <2>2. Becomes(r, rec) \/ Becomes(r, Idle)
    BY <1>8 DEF ChangeWrite
  <2>3. q.new \in Passwords
    BY <1>q, <1>8 DEF GoodRecord, ChangeWrite, At
  <2>4. users' = [users EXCEPT ![u] = q.new] \/ users' = users
    BY <1>8 DEF ChangeWrite
  <2>5. users' \in [Users -> Passwords \cup {None}]
    BY <2>3, <2>4 DEF TypeInv, TypeOK
  <2> HIDE DEF rec, q, u
  <2> QED BY <1>8, <1>i, <2>1, <2>2, <2>5, StepIsGood
          DEF ChangeWrite, TypeInv, TypeOK
<1>9. CASE ChangeDrop(r)
  <2>1. Disturbs(r, Idle, u) /\ CacheWrite(u, None) /\ u \in Users
    BY <1>9, <1>u DEF ChangeDrop, At
  <2> HIDE DEF q, u
  <2> QED BY <1>9, <1>i, <2>1, StepIsGood, CacheWriteType
          DEF ChangeDrop, TypeInv, TypeOK
<1>10. CASE DeleteUncache(r)
  <2> DEFINE rec == [q EXCEPT !.pc = "confirm"]
  <2>1. GoodRecord(rec)
    BY <1>q, <1>n, <1>u, <1>10 DEF GoodRecord, RequestRecords, Pcs, DeleteUncache, At
  <2>2. Disturbs(r, rec, u) /\ CacheWrite(u, None) /\ u \in Users
    BY <1>10, <1>u DEF DeleteUncache, At
  <2> HIDE DEF rec, q, u
  <2> QED BY <1>10, <2>1, <2>2, StepIsGood, CacheWriteType
          DEF DeleteUncache, TypeInv, TypeOK
<1>11. CASE DeleteConfirm(r)
  <2> DEFINE rec == [q EXCEPT !.pc = "erase"]
  <2>1. GoodRecord(rec)
    BY <1>q, <1>n, <1>u, <1>11 DEF GoodRecord, RequestRecords, Pcs, DeleteConfirm, At
  <2>2. Becomes(r, rec) \/ Becomes(r, Idle)
    BY <1>11 DEF DeleteConfirm
  <2> HIDE DEF rec, q, u
  <2> QED BY <1>11, <1>i, <2>1, <2>2, StepIsGood DEF DeleteConfirm, TypeInv, TypeOK
<1>12. CASE DeleteErase(r)
  <2>1. Disturbs(r, Idle, u)
    BY <1>12 DEF DeleteErase
  <2> HIDE DEF q
  <2> QED BY <1>12, <1>i, <2>1, StepIsGood DEF DeleteErase, TypeInv, TypeOK
<1>13. CASE DeleteRefused(r)
  BY <1>13, <1>i, StepIsGood DEF DeleteRefused, TypeInv, TypeOK
<1> QED BY <1>1, <1>2, <1>3, <1>4, <1>5, <1>6, <1>7, <1>8, <1>9, <1>10, <1>11,
           <1>12, <1>13 DEF Continue

LEMMA TypeNext == TypeInv /\ [Next]_vars => TypeInv'
<1> SUFFICES ASSUME TypeInv, [Next]_vars PROVE TypeInv'
  OBVIOUS
<1>1. ASSUME NEW r \in Requests, Arrive(r) \/ Continue(r) PROVE TypeInv'
  BY <1>1, TypeArrive, TypeContinue
<1>2. CASE Crash
  BY <1>2, IdleIsGood DEF Crash, TypeInv, TypeOK, GoodRecord
<1>3. CASE Tick
  BY <1>3 DEF Tick, TypeInv, TypeOK
<1>4. CASE UNCHANGED vars
  BY <1>4 DEF vars, TypeInv, TypeOK
<1> QED BY <1>1, <1>2, <1>3, <1>4 DEF Next

LEMMA TypeInvariant == Spec => []TypeInv
  BY TypeInit, TypeNext, PTL DEF Spec

\* Every variable keeps its type.
THEOREM TypeCorrect == Spec => []TypeOK
<1>1. TypeInv => TypeOK
  BY DEF TypeInv
<1> QED BY <1>1, TypeInvariant, PTL

-----------------------------------------------------------------------------
(* The access-token cache.  Every step leaves it alone, or writes one slot   *)
(* with a token signed now or with none.                                     *)

LEMMA CacheSteps ==
  ASSUME TypeInv, [Next]_vars
  PROVE  \/ \E u \in Users, e \in {now, None} : CacheWrite(u, e) /\ UNCHANGED now
         \/ Tick
         \/ UNCHANGED <<now, cache, retired>>
<1>1. ASSUME NEW r \in Requests, Arrive(r)
      PROVE  UNCHANGED <<now, cache, retired>>
  BY <1>1 DEF Arrive, LoginStart, Present, PresentRefresh
<1>2. ASSUME NEW r \in Requests, Continue(r)
      PROVE  \/ UNCHANGED <<now, cache, retired>>
             \/ \E u \in Users, e \in {now, None} :
                   CacheWrite(u, e) /\ UNCHANGED now
  <2>1. CASE LoginSign(r) \/ RefreshGrant(r)
    <3>1. requests[r].user \in Users
      BY <2>1, RequestUser DEF LoginSign, RefreshGrant, At
    <3>2. CacheWrite(requests[r].user, now) /\ UNCHANGED now
      BY <2>1 DEF LoginSign, RefreshGrant
    <3> QED BY <3>1, <3>2
  <2>2. CASE Logout(r) \/ ChangeDrop(r) \/ DeleteUncache(r)
    <3>1. requests[r].user \in Users
      BY <2>2, RequestUser DEF Logout, ChangeDrop, DeleteUncache, At
    <3>2. CacheWrite(requests[r].user, None) /\ UNCHANGED now
      BY <2>2 DEF Logout, ChangeDrop, DeleteUncache
    <3> QED BY <3>1, <3>2
  <2>3. CASE \/ LoginStore(r) \/ Reply(r) \/ FindUser(r) \/ ChangeSelect(r)
             \/ ChangeWrite(r) \/ DeleteConfirm(r) \/ DeleteErase(r)
             \/ DeleteRefused(r)
    BY <2>3 DEF LoginStore, Reply, FindUser, ChangeSelect, ChangeWrite,
                DeleteConfirm, DeleteErase, DeleteRefused
  <2> QED BY <1>2, <2>1, <2>2, <2>3 DEF Continue
<1>3. CASE Crash \/ UNCHANGED vars
  BY <1>3 DEF Crash, vars
<1> QED BY <1>1, <1>2, <1>3 DEF Next

\* A retired token is of an earlier second, and so is never signed again.
RetiredInv ==
  /\ \A u \in Users : cache[u] # None => cache[u] <= now
  /\ \A t \in retired : t[2] < now /\ cache[t[1]] # t[2]

LEMMA RetiredStep == TypeInv /\ RetiredInv /\ [Next]_vars => RetiredInv'
<1> SUFFICES ASSUME TypeInv, RetiredInv, [Next]_vars PROVE RetiredInv'
  OBVIOUS
<1>t. /\ now \in Nat
      /\ cache \in [Users -> Nat \cup {None}]
      /\ retired \subseteq Users \X Nat
  BY DEF TypeInv, TypeOK
<1>1. ASSUME NEW u \in Users, NEW e \in {now, None},
             CacheWrite(u, e), UNCHANGED now
      PROVE  RetiredInv'
  <2>1. \A v \in Users : cache'[v] # None => cache'[v] <= now'
    BY <1>1, <1>t DEF CacheWrite, RetiredInv
  <2>2. ASSUME NEW t \in retired
        PROVE  t[2] < now' /\ cache'[t[1]] # t[2]
    <3>1. t[1] \in Users /\ t[2] \in Nat /\ t[2] < now /\ cache[t[1]] # t[2]
      BY <1>t DEF RetiredInv
    <3>2. e # t[2]
      BY <1>t, <3>1, SessionsAssumption
    <3> QED BY <1>1, <1>t, <3>1, <3>2 DEF CacheWrite
  <2>3. ASSUME NEW t \in TakenOut(u, e)
        PROVE  t[2] < now' /\ cache'[t[1]] # t[2]
    <3>1. t[1] = u /\ t[2] = cache[u] /\ t[2] # None /\ t[2] # e /\ t[2] # now
      BY DEF TakenOut
    <3>2. t[2] < now
      BY <1>t, <3>1 DEF RetiredInv
    <3> QED BY <1>1, <1>t, <3>1, <3>2 DEF CacheWrite
  <2> QED BY <1>1, <2>1, <2>2, <2>3 DEF CacheWrite, RetiredInv
<1>2. CASE Tick
  BY <1>2, <1>t DEF Tick, RetiredInv
<1>3. CASE UNCHANGED <<now, cache, retired>>
  BY <1>3 DEF RetiredInv
<1> QED BY <1>1, <1>2, <1>3, CacheSteps

\* An access token taken out of the cache after its second stays dead.
THEOREM RetiredTokensStayDead == Spec => []RetiredStaysDead
<1>1. Init => RetiredInv
  BY DEF Init, RetiredInv
<1>2. RetiredInv => RetiredStaysDead
  BY DEF RetiredInv, RetiredStaysDead
<1> QED BY <1>1, <1>2, RetiredStep, TypeInvariant, PTL DEF Spec

\* The token cache implements the abstract slot.
THEOREM ImplementsSlot == Spec => SlotRefinement
<1>1. Init => Slot!Init
  BY DEF Init, Slot!Init
<1>2. TypeInv /\ [Next]_vars => [Slot!Next]_(Slot!vars)
  <2> SUFFICES ASSUME TypeInv, [Next]_vars PROVE [Slot!Next]_(Slot!vars)
    OBVIOUS
  <2>1. ASSUME NEW u \in Users, NEW e \in {now, None},
               CacheWrite(u, e), UNCHANGED now
        PROVE  Slot!Next
    <3>1. Slot!Write(u, e)
      BY <2>1 DEF CacheWrite, TakenOut, Slot!Write, Slot!TakenOut
    <3> QED BY <3>1 DEF Slot!Next, Slot!Issue, Slot!Drop
  <2>2. CASE Tick
    BY <2>2 DEF Tick, Slot!Next, Slot!Pass
  <2>3. CASE UNCHANGED <<now, cache, retired>>
    BY <2>3 DEF Slot!vars
  <2> QED BY <2>1, <2>2, <2>3, CacheSteps
<1> QED BY <1>1, <1>2, TypeInvariant, PTL DEF Spec, SlotRefinement, Slot!Spec

-----------------------------------------------------------------------------
(* The refresh rows.  A request that may write the account back holds a      *)
(* password to write (TypeInv), so only an erasure takes an account away,    *)
(* and it takes the row with it.                                             *)

\* Only these four steps change the accounts or the refresh rows.
LEMMA RowSteps ==
  ASSUME [Next]_vars
  PROVE  \/ UNCHANGED <<users, refreshRows>>
         \/ \E r \in Requests : LoginStore(r) \/ ChangeWrite(r) \/ DeleteErase(r)
<1>1. ASSUME NEW r \in Requests, Arrive(r)
      PROVE  UNCHANGED <<users, refreshRows>>
  BY <1>1 DEF Arrive, LoginStart, Present, PresentRefresh
<1>2. ASSUME NEW r \in Requests, Continue(r)
      PROVE  \/ UNCHANGED <<users, refreshRows>>
             \/ LoginStore(r) \/ ChangeWrite(r) \/ DeleteErase(r)
  BY <1>2 DEF Continue, LoginSign, RefreshGrant, Logout, ChangeDrop, Reply,
              FindUser, DeleteUncache, ChangeSelect, DeleteConfirm, DeleteRefused
<1>3. CASE Crash \/ Tick \/ UNCHANGED vars
  BY <1>3 DEF Crash, Tick, vars
<1> QED BY <1>1, <1>2, <1>3 DEF Next

LEMMA OwnerStep ==
  TypeInv /\ RefreshRowHasOwner /\ [Next]_vars => RefreshRowHasOwner'
<1> SUFFICES ASSUME TypeInv, RefreshRowHasOwner, [Next]_vars
             PROVE  RefreshRowHasOwner'
  OBVIOUS
<1>t. /\ users \in [Users -> Passwords \cup {None}]
      /\ refreshRows \in [Users -> RefreshRows \cup {None}]
  BY DEF TypeInv, TypeOK
<1>1. ASSUME NEW r \in Requests, LoginStore(r) PROVE RefreshRowHasOwner'
  BY <1>1, <1>t DEF LoginStore, RefreshRowHasOwner
<1>2. ASSUME NEW r \in Requests, ChangeWrite(r) PROVE RefreshRowHasOwner'
  <2>1. requests[r].new \in Passwords
    BY <1>2 DEF ChangeWrite, At, TypeInv, GoodRecord
  <2>2. requests[r].new # None
    BY <2>1, SessionsAssumption
  <2> QED BY <1>2, <1>t, <2>2 DEF ChangeWrite, RefreshRowHasOwner
<1>3. ASSUME NEW r \in Requests, DeleteErase(r) PROVE RefreshRowHasOwner'
  BY <1>3, <1>t DEF DeleteErase, RefreshRowHasOwner
<1>4. CASE UNCHANGED <<users, refreshRows>>
  BY <1>4 DEF RefreshRowHasOwner
<1> QED BY <1>1, <1>2, <1>3, <1>4, RowSteps

\* No refresh row outlives its account.
THEOREM RefreshRowsHaveOwners == Spec => []RefreshRowHasOwner
<1>1. Init => RefreshRowHasOwner
  BY DEF Init, RefreshRowHasOwner
<1> QED BY <1>1, OwnerStep, TypeInvariant, PTL DEF Spec

-----------------------------------------------------------------------------
(* The answer of a login.  While a login that signed its tokens is alone,    *)
(* the slot holds its token, and once it stored its row the row is its own.  *)

Held(q, slots, rows) ==
  q.op = "login" /\ q.pc \in {"store", "reply"} /\ q.alone =>
    /\ slots[q.user] = q.iat
    /\ q.pc = "reply" => rows[q.user] =
         [digest |-> Digest(q.iat), until |-> q.iat + RefreshTTL]

HeldInv == \A r \in Requests : Held(requests[r], cache, refreshRows)

\* A step that leaves the session stores alone and puts its own request
\* neither in front of the store nor of the answer.
LEMMA QuietStep ==
  ASSUME TypeInv, HeldInv, NEW r \in Requests, NEW rec, Becomes(r, rec),
         rec.pc \notin {"store", "reply"}, UNCHANGED <<cache, refreshRows>>
  PROVE  HeldInv'
<1> SUFFICES ASSUME NEW q \in Requests PROVE Held(requests'[q], cache', refreshRows')
  BY DEF HeldInv
<1>1. CASE q = r
  BY <1>1 DEF Becomes, Held, TypeInv, TypeOK
<1>2. CASE q # r
  <2>1. requests'[q] = requests[q]
    BY <1>2 DEF Becomes, TypeInv, TypeOK
  <2> QED BY <2>1 DEF Held, HeldInv
<1> QED BY <1>1, <1>2

\* A step that changes the session of user u, and no other session, keeps the
\* invariant of all requests but its own.
LEMMA LoudStep ==
  ASSUME TypeInv, HeldInv, NEW r \in Requests, NEW rec, NEW u \in Users,
         Disturbs(r, rec, u),
         \A v \in Users \ {u} : /\ cache'[v] = cache[v]
                                /\ refreshRows'[v] = refreshRows[v],
         NEW q \in Requests \ {r}
  PROVE  Held(requests'[q], cache', refreshRows')
<1>1. requests[q] \in RequestRecords
  BY DEF TypeInv, TypeOK
<1>2. CASE requests[q].user = u
  <2>1. requests'[q] = [requests[q] EXCEPT !.alone = FALSE]
    BY <1>2 DEF Disturbs
  <2>2. requests'[q].alone = FALSE
    BY <1>1, <2>1 DEF RequestRecords
  <2> QED BY <2>2 DEF Held
<1>3. CASE requests[q].user # u
  <2>1. requests'[q] = requests[q]
    BY <1>3 DEF Disturbs
  <2>2. requests[q].pc # "idle" => requests[q].user \in Users \ {u}
    BY <1>3 DEF TypeInv, GoodRecord
  <2> QED BY <2>1, <2>2 DEF Held, HeldInv
<1> QED BY <1>2, <1>3

LEMMA HeldContinue ==
  ASSUME TypeInv, HeldInv, NEW r \in Requests, Continue(r)
  PROVE  HeldInv'
<1> DEFINE q == requests[r]
           u == q.user
<1>q. GoodRecord(q) /\ q \in RequestRecords
  BY DEF TypeInv, GoodRecord
<1>t. /\ cache \in [Users -> Nat \cup {None}]
      /\ refreshRows \in [Users -> RefreshRows \cup {None}]
      /\ requests \in [Requests -> RequestRecords]
  BY DEF TypeInv, TypeOK
<1>u. ~At(r, "idle") => u \in Users
  BY RequestUser
<1>s. ASSUME NEW rec, Disturbs(r, rec, u), ~At(r, "idle"), Held(rec, cache', refreshRows'),
             \A v \in Users \ {u} : /\ cache'[v] = cache[v]
                                    /\ refreshRows'[v] = refreshRows[v]
      PROVE  HeldInv'
  <2>1. requests'[r] = rec
    BY <1>s DEF Disturbs
  <2>2. Held(requests'[r], cache', refreshRows')
    BY <1>s, <2>1 DEF Held
  <2>3. \A p \in Requests \ {r} : Held(requests'[p], cache', refreshRows')
    BY <1>s, <1>u, LoudStep
  <2> QED BY <2>2, <2>3 DEF HeldInv
<1>1. CASE LoginSign(r)
  <2> DEFINE rec == [q EXCEPT !.pc = "store", !.iat = now, !.alone = TRUE]
  <2>1. rec.user = u /\ rec.iat = now /\ rec.pc = "store"
    BY <1>q DEF RequestRecords
  <2>2. cache' = [cache EXCEPT ![u] = now] /\ UNCHANGED <<now, refreshRows>>
        /\ Disturbs(r, rec, u) /\ ~At(r, "idle")
    BY <1>1 DEF LoginSign, CacheWrite, At
  <2> HIDE DEF rec, q, u
  <2>3. Held(rec, cache', refreshRows')
    BY <1>u, <1>t, <2>1, <2>2 DEF Held
  <2> QED BY <1>s, <1>t, <2>2, <2>3
<1>2. CASE LoginStore(r) /\ users[u] # None
  <2> DEFINE rec == [q EXCEPT !.pc = "reply"]
             row == [digest |-> Digest(q.iat), until |-> q.iat + RefreshTTL]
  <2>1. /\ rec.user = u /\ rec.iat = q.iat /\ rec.pc = "reply"
        /\ rec.op = q.op /\ rec.alone = q.alone
    BY <1>q DEF RequestRecords
  <2>2. refreshRows' = [refreshRows EXCEPT ![u] = row] /\ UNCHANGED cache
        /\ Disturbs(r, rec, u) /\ q.pc = "store" /\ ~At(r, "idle")
    BY <1>2 DEF LoginStore, At
  <2>3. Held(q, cache, refreshRows)
    BY DEF HeldInv
  <2>4. Held(rec, cache', refreshRows')
    <3> HIDE DEF rec
    <3> QED BY <1>u, <1>t, <2>1, <2>2, <2>3 DEF Held
  <2> HIDE DEF rec, row, q, u
  <2> QED BY <1>s, <1>t, <2>2, <2>4
<1>3. CASE RefreshGrant(r)
  <2> DEFINE rec == [q EXCEPT !.pc = "reply", !.iat = now]
  <2>1. rec.op = "refresh"
    BY <1>q, <1>3 DEF GoodRecord, RequestRecords, RefreshGrant, At
  <2>2. cache' = [cache EXCEPT ![u] = now] /\ UNCHANGED refreshRows
        /\ Disturbs(r, rec, u) /\ ~At(r, "idle")
    BY <1>3 DEF RefreshGrant, CacheWrite, At
  <2> HIDE DEF rec, q, u
  <2>3. Held(rec, cache', refreshRows')
    BY <2>1 DEF Held
  <2> QED BY <1>s, <1>t, <2>2, <2>3
<1>4. CASE Logout(r) \/ ChangeDrop(r) \/ DeleteUncache(r)
  <2> DEFINE rec == [q EXCEPT !.pc = "confirm"]
  <2>1. rec.pc = "confirm" /\ Idle.pc = "idle"
    BY <1>q DEF RequestRecords, Idle
  <2>2. cache' = [cache EXCEPT ![u] = None] /\ UNCHANGED refreshRows
        /\ (Disturbs(r, rec, u) \/ Disturbs(r, Idle, u)) /\ ~At(r, "idle")
    BY <1>4 DEF Logout, ChangeDrop, DeleteUncache, CacheWrite, At
  <2> HIDE DEF rec, q, u
  <2>3. /\ Held(rec, cache', refreshRows')
        /\ Held(Idle, cache', refreshRows')
    BY <2>1 DEF Held
  <2> QED BY <1>s, <1>t, <2>2, <2>3
<1>5. CASE DeleteErase(r)
  <2>1. refreshRows' = [refreshRows EXCEPT ![u] = None] /\ UNCHANGED cache
        /\ Disturbs(r, Idle, u) /\ ~At(r, "idle")
    BY <1>5 DEF DeleteErase, At
  <2>2. Held(Idle, cache', refreshRows')
    BY DEF Held, Idle
  <2> HIDE DEF q, u
  <2> QED BY <1>s, <1>t, <2>1, <2>2
<1>6. CASE LoginStore(r) /\ users[u] = None
  BY <1>6, QuietStep DEF LoginStore, Idle
<1>7. CASE Reply(r) \/ DeleteRefused(r)
  BY <1>7, QuietStep DEF Reply, DeleteRefused, Idle
<1>8. CASE FindUser(r)
  <2> DEFINE rec == [q EXCEPT !.row = users[u], !.pc = HandlerPc(q.op)]
  <2>1. rec.pc \notin {"store", "reply"} /\ Idle.pc \notin {"store", "reply"}
    BY <1>q, <1>8 DEF GoodRecord, RequestRecords, FindUser, At, HandlerPc, Idle
  <2>2. (Becomes(r, rec) \/ Becomes(r, Idle)) /\ UNCHANGED <<cache, refreshRows>>
    BY <1>8 DEF FindUser
  <2> HIDE DEF rec
  <2> QED BY <2>1, <2>2, QuietStep
<1>9. CASE ChangeSelect(r) \/ ChangeWrite(r) \/ DeleteConfirm(r)
  <2> DEFINE sel == [q EXCEPT !.pc = "write", !.found = users[u] # None]
             wri == [q EXCEPT !.pc = "drop"]
             del == [q EXCEPT !.pc = "erase"]
  <2>1. \A rec \in {sel, wri, del, Idle} : rec.pc \notin {"store", "reply"}
    <3>1. sel.pc = "write" /\ wri.pc = "drop" /\ del.pc = "erase"
      BY <1>q DEF RequestRecords
    <3> HIDE DEF sel, wri, del
    <3> QED BY <3>1 DEF Idle
  <2>2. UNCHANGED <<cache, refreshRows>>
    BY <1>9 DEF ChangeSelect, ChangeWrite, DeleteConfirm
  <2>3. \E rec \in {sel, wri, del, Idle} : Becomes(r, rec)
    BY <1>9 DEF ChangeSelect, ChangeWrite, DeleteConfirm
  <2> HIDE DEF sel, wri, del
  <2> QED BY <2>1, <2>2, <2>3, QuietStep
<1> QED BY <1>1, <1>2, <1>3, <1>4, <1>5, <1>6, <1>7, <1>8, <1>9 DEF Continue

LEMMA HeldStep == TypeInv /\ HeldInv /\ [Next]_vars => HeldInv'
<1> SUFFICES ASSUME TypeInv, HeldInv, [Next]_vars PROVE HeldInv'
  OBVIOUS
<1>1. ASSUME NEW r \in Requests, Arrive(r) PROVE HeldInv'
  <2>1. UNCHANGED <<cache, refreshRows>>
    BY <1>1 DEF Arrive, LoginStart, Present, PresentRefresh
  <2>2. ASSUME NEW u \in Users, LoginStart(r, u) PROVE HeldInv'
    <3> DEFINE rec == [Idle EXCEPT !.op = "login", !.pc = "sign", !.user = u]
    <3>1. rec.pc = "sign"
      BY DEF Idle
    <3>2. Becomes(r, rec)
      BY <2>2 DEF LoginStart
    <3> HIDE DEF rec
    <3> QED BY <2>1, <3>1, <3>2, QuietStep
  <2>3. ASSUME NEW t, NEW op, NEW old, NEW new, Present(r, t, op, old, new)
        PROVE  HeldInv'
    <3> DEFINE rec == [Idle EXCEPT !.op = op, !.pc = "find", !.user = t.user,
                                   !.old = old, !.new = new]
    <3>1. rec.pc = "find"
      BY DEF Idle
    <3>2. Becomes(r, rec)
      BY <2>3 DEF Present
    <3> HIDE DEF rec
    <3> QED BY <2>1, <3>1, <3>2, QuietStep
  <2>4. ASSUME NEW t, PresentRefresh(r, t) PROVE HeldInv'
    <3> DEFINE rec == [Idle EXCEPT !.op = "refresh", !.pc = "find",
                                   !.user = t.user]
    <3>1. rec.pc = "find"
      BY DEF Idle
    <3>2. Becomes(r, rec)
      BY <2>4 DEF PresentRefresh
    <3> HIDE DEF rec
    <3> QED BY <2>1, <3>1, <3>2, QuietStep
  <2> QED BY <1>1, <2>2, <2>3, <2>4 DEF Arrive
<1>2. ASSUME NEW r \in Requests, Continue(r) PROVE HeldInv'
  BY <1>2, HeldContinue
<1>3. CASE Crash
  BY <1>3 DEF Crash, HeldInv, Held, Idle
<1>4. CASE Tick \/ UNCHANGED vars
  BY <1>4 DEF Tick, vars, HeldInv, Held
<1> QED BY <1>1, <1>2, <1>3, <1>4 DEF Next

\* An undisturbed login answers with the tokens that are in force.
THEOREM UndisturbedLoginsHold == Spec => []UndisturbedLoginHolds
<1>1. Init => HeldInv
  BY DEF Init, HeldInv, Held, Idle
<1>2. HeldInv => UndisturbedLoginHolds
  BY DEF HeldInv, Held, UndisturbedLoginHolds
<1> QED BY <1>1, <1>2, HeldStep, TypeInvariant, PTL DEF Spec

-----------------------------------------------------------------------------
(* Deleted accounts.  A password change gets past findOne only while the     *)
(* account is there, so a deleted account gains no new writer.               *)

\* A step whose request is no writer of u afterwards adds none.
LEMMA NoNewWriter ==
  ASSUME TypeInv, NEW u \in Users, Writers(u) = {}, NEW r \in Requests,
         NEW rec, NEW v, Becomes(r, rec) \/ Disturbs(r, rec, v),
         rec.user # u \/ rec.pc \notin {"select", "write"}
  PROVE  Writers(u)' = {}
<1> SUFFICES ASSUME NEW q \in Requests, q \in Writers(u)' PROVE FALSE
  BY DEF Writers
<1>q. requests \in [Requests -> RequestRecords]
  BY DEF TypeInv, TypeOK
<1>1. q # r
  BY <1>q DEF Becomes, Disturbs, Writers
<1>2. \/ requests'[q] = requests[q]
      \/ requests'[q] = [requests[q] EXCEPT !.alone = FALSE]
  BY <1>1, <1>q DEF Becomes, Disturbs
<1>3. /\ requests'[q].user = requests[q].user
      /\ requests'[q].op = requests[q].op
      /\ requests'[q].pc = requests[q].pc
  BY <1>2, <1>q DEF RequestRecords
<1> QED BY <1>3 DEF Writers

LEMMA WritersArrive ==
  ASSUME TypeInv, NEW u \in Users, Writers(u) = {}, NEW r \in Requests, Arrive(r)
  PROVE  Writers(u)' = {}
<1>1. ASSUME NEW v \in Users, LoginStart(r, v) PROVE Writers(u)' = {}
  <2> DEFINE rec == [Idle EXCEPT !.op = "login", !.pc = "sign", !.user = v]
  <2>1. rec.pc = "sign" /\ Becomes(r, rec)
    BY <1>1 DEF LoginStart, Idle
  <2> HIDE DEF rec
  <2> QED BY <2>1, NoNewWriter
<1>2. ASSUME NEW t, NEW op, NEW old, NEW new, Present(r, t, op, old, new)
      PROVE  Writers(u)' = {}
  <2> DEFINE rec == [Idle EXCEPT !.op = op, !.pc = "find", !.user = t.user,
                                 !.old = old, !.new = new]
  <2>1. rec.pc = "find"
    BY DEF Idle
  <2>2. Becomes(r, rec)
    BY <1>2 DEF Present
  <2> HIDE DEF rec
  <2> QED BY <2>1, <2>2, NoNewWriter
<1>3. ASSUME NEW t, PresentRefresh(r, t) PROVE Writers(u)' = {}
  <2> DEFINE rec == [Idle EXCEPT !.op = "refresh", !.pc = "find", !.user = t.user]
  <2>1. rec.pc = "find"
    BY DEF Idle
  <2>2. Becomes(r, rec)
    BY <1>3 DEF PresentRefresh
  <2> HIDE DEF rec
  <2> QED BY <2>1, <2>2, NoNewWriter
<1> QED BY <1>1, <1>2, <1>3 DEF Arrive

LEMMA WritersContinue ==
  ASSUME TypeInv, NEW u \in Users, Gone(u), NEW r \in Requests, Continue(r)
  PROVE  Writers(u)' = {}
<1> DEFINE q == requests[r]
<1>q. GoodRecord(q) /\ q \in RequestRecords
  BY DEF TypeInv, GoodRecord
<1>w. Writers(u) = {}
  BY DEF Gone
<1>s. ASSUME NEW rec, NEW v, Becomes(r, rec) \/ Disturbs(r, rec, v),
             rec.user # u \/ rec.pc \notin {"select", "write"}
      PROVE  Writers(u)' = {}
  BY <1>s, <1>w, NoNewWriter
<1>i. Idle.pc = "idle"
  BY DEF Idle
<1>1. CASE FindUser(r)
  <2> DEFINE rec == [q EXCEPT !.row = users[q.user], !.pc = HandlerPc(q.op)]
  <2>1. Becomes(r, Idle) \/ (Becomes(r, rec) /\ users[q.user] # None)
    BY <1>1 DEF FindUser
  <2>2. rec.user = q.user
    BY <1>q DEF RequestRecords
  <2>3. users[q.user] # None => q.user # u
    BY DEF Gone
  <2> HIDE DEF rec, q
  <2> QED BY <1>i, <1>s, <2>1, <2>2, <2>3
<1>2. CASE ChangeSelect(r)
  <2> DEFINE rec == [q EXCEPT !.pc = "write", !.found = users[q.user] # None]
  <2>1. Becomes(r, Idle) \/ Becomes(r, rec)
    BY <1>2 DEF ChangeSelect
  <2>2. rec.user = q.user
    BY <1>q DEF RequestRecords
  <2>3. q.user # u
    BY <1>q, <1>w, <1>2 DEF Writers, ChangeSelect, At, GoodRecord
  <2> HIDE DEF rec, q
  <2> QED BY <1>i, <1>s, <2>1, <2>2, <2>3
<1>3. CASE \/ LoginSign(r) \/ LoginStore(r) \/ RefreshGrant(r)
           \/ ChangeWrite(r) \/ DeleteUncache(r) \/ DeleteConfirm(r)
  <2> DEFINE sign  == [q EXCEPT !.pc = "store", !.iat = now, !.alone = TRUE]
             store == [q EXCEPT !.pc = "reply"]
             grant == [q EXCEPT !.pc = "reply", !.iat = now]
             wrote == [q EXCEPT !.pc = "drop"]
             unc   == [q EXCEPT !.pc = "confirm"]
             conf  == [q EXCEPT !.pc = "erase"]
  <2>1. /\ sign.pc = "store" /\ store.pc = "reply" /\ grant.pc = "reply"
        /\ wrote.pc = "drop" /\ unc.pc = "confirm" /\ conf.pc = "erase"
    BY <1>q DEF RequestRecords
  <2>2. \E rec \in {sign, store, grant, wrote, unc, conf, Idle} :
           Becomes(r, rec) \/ Disturbs(r, rec, q.user)
    BY <1>3 DEF LoginSign, LoginStore, RefreshGrant, ChangeWrite,
                DeleteUncache, DeleteConfirm
  <2> HIDE DEF sign, store, grant, wrote, unc, conf, q
  <2> QED BY <1>i, <1>s, <2>1, <2>2
<1>4. CASE \/ Reply(r) \/ Logout(r) \/ ChangeDrop(r) \/ DeleteErase(r)
           \/ DeleteRefused(r)
  <2>1. Becomes(r, Idle) \/ Disturbs(r, Idle, q.user)
    BY <1>4 DEF Reply, Logout, ChangeDrop, DeleteErase, DeleteRefused
  <2> HIDE DEF q
  <2> QED BY <1>i, <1>s, <2>1
<1> QED BY <1>1, <1>2, <1>3, <1>4 DEF Continue

\* A deleted account that no password change is rewriting stays deleted.
THEOREM DeletedAccountsStayGone == Spec => GoneForGood
<1>1. TypeInv /\ [Next]_vars => [\A u \in Users : Gone(u) => Gone(u)']_vars
  <2> SUFFICES ASSUME TypeInv, [Next]_vars, NEW u \in Users, Gone(u)
               PROVE  Gone(u)'
    OBVIOUS
  <2>1. users'[u] = None
    <3>1. ASSUME NEW r \in Requests, ChangeWrite(r) PROVE users'[u] = None
      <4>1. requests[r].op = "change" /\ requests[r].pc = "write"
        BY <3>1 DEF ChangeWrite, At, TypeInv, GoodRecord
      <4>2. requests[r].user # u
        BY <4>1 DEF Gone, Writers
      <4> QED BY <3>1, <4>2 DEF ChangeWrite, Gone, TypeInv, TypeOK
    <3>2. ASSUME NEW r \in Requests, DeleteErase(r) PROVE users'[u] = None
      BY <3>2 DEF DeleteErase, Gone, TypeInv, TypeOK
    <3>3. ASSUME NEW r \in Requests, LoginStore(r) PROVE users'[u] = None
      BY <3>3 DEF LoginStore, Gone
    <3> QED BY <3>1, <3>2, <3>3, RowSteps DEF Gone
  <2>2. Writers(u)' = {}
    <3>1. ASSUME NEW r \in Requests, Arrive(r) \/ Continue(r)
          PROVE  Writers(u)' = {}
      BY <3>1, WritersArrive, WritersContinue DEF Gone
    <3>2. CASE Crash
      BY <3>2 DEF Crash, Writers, Idle
    <3>3. CASE Tick \/ UNCHANGED vars
      BY <3>3 DEF Tick, vars, Gone, Writers
    <3> QED BY <3>1, <3>2, <3>3 DEF Next
  <2> QED BY <2>1, <2>2 DEF Gone
<1> QED BY <1>1, TypeInvariant, PTL DEF Spec, GoneForGood

-----------------------------------------------------------------------------
(* Every request ends.  The pc of a request says how many steps it has left  *)
(* at the most; its own steps bring the number down, and no other request,   *)
(* nor the clock, moves its pc.  Fairness is written out: Served(r) is weak  *)
(* fairness of Continue(r), for a request that can go on while it is in      *)
(* flight.                                                                   *)

Served(r) == []<>At(r, "idle") \/ []<><<Continue(r)>>_vars

StepsLeft(pc) ==
  IF pc = "idle" THEN 0
  ELSE IF pc \in {"reply", "logout", "drop", "erase"} THEN 1
  ELSE IF pc \in {"store", "grant", "write", "confirm"} THEN 2
  ELSE IF pc \in {"sign", "select", "uncache"} THEN 3
  ELSE 4

Left(r) == StepsLeft(requests[r].pc)

\* How the pc of a request moves when request r goes on.
LEMMA PcMoves ==
  ASSUME TypeInv, NEW r \in Requests, NEW rec \in RequestRecords, NEW u,
         Becomes(r, rec) \/ Disturbs(r, rec, u)
  PROVE  /\ requests'[r].pc = rec.pc
         /\ \A q \in Requests \ {r} : /\ requests'[q].pc = requests[q].pc
                                    /\ requests'[q].user = requests[q].user
<1>1. requests \in [Requests -> RequestRecords]
  BY DEF TypeInv, TypeOK
<1>2. \A q \in Requests : LET c == [requests[q] EXCEPT !.alone = FALSE]
                         IN c.pc = requests[q].pc /\ c.user = requests[q].user
  BY <1>1 DEF RequestRecords
<1>3. CASE Becomes(r, rec)
  BY <1>1, <1>3 DEF Becomes
<1>4. CASE Disturbs(r, rec, u)
  BY <1>1, <1>2, <1>4 DEF Disturbs
<1> QED BY <1>3, <1>4

LEMMA ContinueMoves ==
  ASSUME TypeInv, NEW r \in Requests, Continue(r)
  PROVE  /\ Left(r)' < Left(r)
         /\ \A q \in Requests \ {r} : /\ requests'[q].pc = requests[q].pc
                                    /\ requests'[q].user = requests[q].user
<1> DEFINE q == requests[r]
           u == q.user
<1>q. GoodRecord(q) /\ q \in RequestRecords /\ now \in Nat
  BY DEF TypeInv, TypeOK, GoodRecord
<1>i. Idle \in RequestRecords /\ Idle.pc = "idle"
  BY IdleIsGood DEF GoodRecord, Idle
<1>s. ASSUME NEW rec \in RequestRecords, NEW v, Becomes(r, rec) \/ Disturbs(r, rec, v),
             StepsLeft(rec.pc) < StepsLeft(q.pc)
      PROVE  /\ Left(r)' < Left(r)
             /\ \A p \in Requests \ {r} : /\ requests'[p].pc = requests[p].pc
                                        /\ requests'[p].user = requests[p].user
  <2>1. requests'[r].pc = rec.pc
    BY <1>s, PcMoves
  <2>2. \A p \in Requests \ {r} : /\ requests'[p].pc = requests[p].pc
                                  /\ requests'[p].user = requests[p].user
    BY <1>s, PcMoves
  <2> QED BY <1>s, <2>1, <2>2 DEF Left
<1>e. ASSUME q.pc # "idle", Becomes(r, Idle) \/ Disturbs(r, Idle, u)
      PROVE  /\ Left(r)' < Left(r)
             /\ \A p \in Requests \ {r} : /\ requests'[p].pc = requests[p].pc
                                        /\ requests'[p].user = requests[p].user
  <2>1. StepsLeft(Idle.pc) < StepsLeft(q.pc)
    BY <1>e, <1>i DEF StepsLeft
  <2> HIDE DEF u, q
  <2> QED BY <1>e, <1>i, <1>s, <2>1
<1>1. CASE FindUser(r)
  <2> DEFINE rec == [q EXCEPT !.row = users[u], !.pc = HandlerPc(q.op)]
  <2>1. q.pc = "find" /\ (Becomes(r, rec) \/ Becomes(r, Idle))
    BY <1>1 DEF FindUser, At
  <2>2. users[u] \in Passwords \cup {None}
    BY <1>q, <2>1 DEF TypeInv, TypeOK, GoodRecord
  <2>3. rec \in RequestRecords /\ rec.pc \in {"logout", "select", "uncache", "grant"}
    BY <1>q, <2>1, <2>2 DEF GoodRecord, RequestRecords, Pcs, HandlerPc
  <2>4. StepsLeft(rec.pc) < StepsLeft(q.pc)
    BY <2>1, <2>3 DEF StepsLeft
  <2> HIDE DEF rec, q, u
  <2> QED BY <1>e, <1>s, <2>1, <2>3, <2>4
<1>2. CASE ChangeSelect(r)
  <2> DEFINE rec == [q EXCEPT !.pc = "write", !.found = users[q.user] # None]
  <2>1. q.pc = "select" /\ (Becomes(r, rec) \/ Becomes(r, Idle))
    BY <1>2 DEF ChangeSelect, At
  <2>2. rec \in RequestRecords /\ rec.pc = "write"
    BY <1>q DEF RequestRecords, Pcs
  <2>3. StepsLeft(rec.pc) < StepsLeft(q.pc)
    BY <2>1, <2>2 DEF StepsLeft
  <2> HIDE DEF rec, q, u
  <2> QED BY <1>e, <1>s, <2>1, <2>2, <2>3
<1>3. CASE \/ LoginSign(r) \/ LoginStore(r) \/ RefreshGrant(r)
           \/ ChangeWrite(r) \/ DeleteUncache(r) \/ DeleteConfirm(r)
  <2> DEFINE sign  == [q EXCEPT !.pc = "store", !.iat = now, !.alone = TRUE]
             store == [q EXCEPT !.pc = "reply"]
             grant == [q EXCEPT !.pc = "reply", !.iat = now]
             wrote == [q EXCEPT !.pc = "drop"]
             unc   == [q EXCEPT !.pc = "confirm"]
             conf  == [q EXCEPT !.pc = "erase"]
  <2>1. /\ sign.pc = "store" /\ store.pc = "reply" /\ grant.pc = "reply"
        /\ wrote.pc = "drop" /\ unc.pc = "confirm" /\ conf.pc = "erase"
        /\ sign \in RequestRecords /\ store \in RequestRecords
        /\ grant \in RequestRecords /\ wrote \in RequestRecords
        /\ unc \in RequestRecords /\ conf \in RequestRecords
    BY <1>q DEF RequestRecords, Pcs
  <2>2. \/ q.pc = "sign" /\ Disturbs(r, sign, u)
        \/ q.pc = "store" /\ (Disturbs(r, store, u) \/ Becomes(r, Idle))
        \/ q.pc = "grant" /\ Disturbs(r, grant, u)
        \/ q.pc = "write" /\ (Becomes(r, wrote) \/ Becomes(r, Idle))
        \/ q.pc = "uncache" /\ Disturbs(r, unc, u)
        \/ q.pc = "confirm" /\ (Becomes(r, conf) \/ Becomes(r, Idle))
    BY <1>3 DEF LoginSign, LoginStore, RefreshGrant, ChangeWrite,
                DeleteUncache, DeleteConfirm, At
  <2>3. \/ Becomes(r, Idle) /\ q.pc # "idle"
        \/ \E rec \in {sign, store, grant, wrote, unc, conf} :
              /\ Becomes(r, rec) \/ Disturbs(r, rec, u)
              /\ StepsLeft(rec.pc) < StepsLeft(q.pc)
    BY <2>1, <2>2 DEF StepsLeft
  <2> HIDE DEF sign, store, grant, wrote, unc, conf, q, u
  <2> QED BY <1>e, <1>s, <2>1, <2>3
<1>4. CASE \/ Reply(r) \/ Logout(r) \/ ChangeDrop(r) \/ DeleteErase(r)
           \/ DeleteRefused(r)
  <2>1. q.pc # "idle" /\ (Becomes(r, Idle) \/ Disturbs(r, Idle, u))
    BY <1>4 DEF Reply, Logout, ChangeDrop, DeleteErase, DeleteRefused, At
  <2> QED BY <1>e, <2>1
<1> QED BY <1>1, <1>2, <1>3, <1>4 DEF Continue

\* What moves the pc of a request that is in flight: its own next step, or the
\* end of the process.
LEMMA InFlightMoves ==
  ASSUME TypeInv, [Next]_vars, NEW r \in Requests, ~At(r, "idle")
  PROVE  \/ requests'[r].pc = requests[r].pc
         \/ Left(r)' < Left(r)
<1>1. ASSUME NEW q \in Requests, Arrive(q)
      PROVE  requests'[r].pc = requests[r].pc
  <2>1. At(q, "idle") /\ \E rec : Becomes(q, rec)
    BY <1>1 DEF Arrive, LoginStart, Present, PresentRefresh
  <2> QED BY <2>1 DEF Becomes, At, TypeInv, TypeOK
<1>2. ASSUME NEW q \in Requests, Continue(q)
      PROVE  \/ requests'[r].pc = requests[r].pc
             \/ Left(r)' < Left(r)
  BY <1>2, ContinueMoves
<1>3. CASE Crash
  BY <1>3 DEF Crash, Idle, Left, StepsLeft, At
<1>4. CASE Tick \/ UNCHANGED vars
  BY <1>4 DEF Tick, vars
<1> QED BY <1>1, <1>2, <1>3, <1>4 DEF Next

(* Every request is answered or dies with the process, if requests in flight *)
(* are served (the database, Redis and bcrypt answer): no handler waits for  *)
(* another one, whatever they interleave.                                    *)
THEOREM ServedRequestsSettle ==
  Spec /\ (\A r \in Requests : Served(r)) => RequestsSettle
<1> SUFFICES ASSUME NEW r \in Requests
             PROVE  Spec /\ Served(r) => (~At(r, "idle") ~> At(r, "idle"))
  BY DEF RequestsSettle
<1> DEFINE Within(n) == Left(r) <= n
<1>1. TypeInv => Left(r) \in 0..4 /\ (At(r, "idle") <=> Left(r) = 0)
  BY DEF Left, StepsLeft, At
<1>2. ASSUME NEW n \in 1..4
      PROVE  TypeInv /\ ~At(r, "idle") /\ Within(n) /\ [Next]_vars => Within(n)'
  <2> SUFFICES ASSUME TypeInv, ~At(r, "idle"), Left(r) <= n, [Next]_vars
               PROVE  Left(r)' <= n
    OBVIOUS
  <2>1. Left(r) \in 0..4 /\ Left(r)' \in 0..4
    BY DEF Left, StepsLeft
  <2>2. Left(r)' = Left(r) \/ Left(r)' < Left(r)
    BY InFlightMoves DEF Left
  <2> QED BY <2>1, <2>2
<1>3. ASSUME NEW n \in 1..4
      PROVE  TypeInv /\ Within(n) /\ <<Continue(r)>>_vars => Within(n - 1)'
  <2> SUFFICES ASSUME TypeInv, Left(r) <= n, Continue(r) PROVE Left(r)' <= n - 1
    OBVIOUS
  <2>1. Left(r) \in 0..4 /\ Left(r)' \in 0..4
    BY DEF Left, StepsLeft
  <2> QED BY <2>1, ContinueMoves
<1>4. /\ TypeInv /\ ~At(r, "idle") /\ Within(4) /\ [Next]_vars => Within(4)'
      /\ TypeInv /\ ~At(r, "idle") /\ Within(3) /\ [Next]_vars => Within(3)'
      /\ TypeInv /\ ~At(r, "idle") /\ Within(2) /\ [Next]_vars => Within(2)'
      /\ TypeInv /\ ~At(r, "idle") /\ Within(1) /\ [Next]_vars => Within(1)'
  BY <1>2
<1>5. /\ TypeInv /\ Within(4) /\ <<Continue(r)>>_vars => Within(3)'
      /\ TypeInv /\ Within(3) /\ <<Continue(r)>>_vars => Within(2)'
      /\ TypeInv /\ Within(2) /\ <<Continue(r)>>_vars => Within(1)'
      /\ TypeInv /\ Within(1) /\ <<Continue(r)>>_vars => Within(0)'
  BY <1>3
<1>6. TypeInv => Within(4) /\ (Within(0) => At(r, "idle"))
  BY <1>1
<1> HIDE DEF Within
<1> QED BY <1>4, <1>5, <1>6, TypeInvariant, PTL DEF Spec, Served

\* Only a crash counts as one.
LEMMA NextCrashes ==
  ASSUME [Next]_vars, ~Crash PROVE crashes' = crashes
  BY DEF Next, Arrive, Continue, Tick, vars, LoginStart, Present, PresentRefresh,
         LoginSign, LoginStore, Reply, FindUser, RefreshGrant, Logout, ChangeSelect,
         ChangeWrite, ChangeDrop, DeleteUncache, DeleteConfirm, DeleteErase,
         DeleteRefused

LEMMA ContinueAtDrop ==
  ASSUME NEW r \in Requests, Continue(r), At(r, "drop") PROVE ChangeDrop(r)
  BY DEF Continue, At, LoginSign, LoginStore, Reply, FindUser, RefreshGrant, Logout,
         ChangeSelect, ChangeWrite, DeleteUncache, DeleteConfirm, DeleteErase,
         DeleteRefused

(* A password change that was written logs the user out, if requests in      *)
(* flight are served and the process does not die any more.                  *)
THEOREM ServedChangesEndSessions ==
  Spec /\ (\A r \in Requests : Served(r)) => ChangeEndsSession
<1> SUFFICES ASSUME NEW r \in Requests, NEW u \in Users
             PROVE  Spec /\ Served(r) =>
                      ((At(r, "drop") /\ requests[r].user = u /\ crashes = MaxCrashes)
                         ~> (cache[u] = None))
  BY DEF ChangeEndsSession
<1> DEFINE Waits == At(r, "drop") /\ requests[r].user = u /\ crashes = MaxCrashes
<1>1. TypeInv /\ Waits /\ [Next]_vars => Waits' \/ (cache[u] = None)'
  <2> SUFFICES ASSUME TypeInv, Waits, [Next]_vars, ~ChangeDrop(r)
               PROVE  Waits'
    BY DEF ChangeDrop, CacheWrite, TypeInv, TypeOK
  <2>0. ~Crash
    BY SessionsAssumption DEF Crash
  <2>1. crashes' = crashes
    BY <2>0, NextCrashes
  <2>2. ASSUME NEW q \in Requests, Arrive(q) PROVE Waits'
    <3>1. At(q, "idle") /\ \E rec : Becomes(q, rec)
      BY <2>2 DEF Arrive, LoginStart, Present, PresentRefresh
    <3> QED BY <2>1, <3>1 DEF Becomes, At, TypeInv, TypeOK
  <2>3. ASSUME NEW q \in Requests, Continue(q) PROVE Waits'
    <3>1. q # r
      BY <2>3, ContinueAtDrop
    <3> QED BY <2>1, <2>3, <3>1, ContinueMoves DEF At
  <2>4. CASE Tick \/ UNCHANGED vars
    BY <2>1, <2>4 DEF Tick, vars, At
  <2> QED BY <2>0, <2>2, <2>3, <2>4 DEF Next
<1>2. TypeInv /\ Waits /\ <<Continue(r)>>_vars => (cache[u] = None)'
  <2> SUFFICES ASSUME TypeInv, Waits, Continue(r) PROVE cache'[u] = None
    OBVIOUS
  <2>1. ChangeDrop(r)
    BY ContinueAtDrop
  <2> QED BY <2>1 DEF ChangeDrop, CacheWrite, TypeInv, TypeOK
<1>3. Waits => ~At(r, "idle")
  BY DEF At
<1> HIDE DEF Waits
<1>4. Spec /\ Served(r) => (Waits ~> (cache[u] = None))
  BY <1>1, <1>2, <1>3, TypeInvariant, PTL DEF Spec, Served
<1> QED BY <1>4 DEF Waits

-----------------------------------------------------------------------------
(* Tokens that are not accepted.  Only a token signed now gets into the      *)
(* cache, so whichever way an older one was taken out, it is out for good.   *)

(* An access token signed in an earlier second that is not the accepted one  *)
(* of its user never is again: no logout, password change, deletion, login   *)
(* or refresh still in flight, and no restart, brings it back.               *)
THEOREM TokensNeverComeBack ==
  ASSUME NEW u \in Users, NEW i \in Nat
  PROVE  Spec => [](i < now /\ cache[u] # i => [](i < now /\ cache[u] # i))
<1>1. TypeInv /\ i < now /\ cache[u] # i /\ [Next]_vars => (i < now /\ cache[u] # i)'
  <2> SUFFICES ASSUME TypeInv, i < now, cache[u] # i, [Next]_vars
               PROVE  i < now' /\ cache'[u] # i
    OBVIOUS
  <2>t. now \in Nat /\ i # None /\ cache \in [Users -> Nat \cup {None}]
    BY SessionsAssumption DEF TypeInv, TypeOK
  <2>1. ASSUME NEW v \in Users, NEW e \in {now, None}, CacheWrite(v, e), UNCHANGED now
        PROVE  i < now' /\ cache'[u] # i
    BY <2>t, <2>1 DEF CacheWrite
  <2>2. CASE Tick
    BY <2>t, <2>2 DEF Tick
  <2>3. CASE UNCHANGED <<now, cache, retired>>
    BY <2>3
  <2> QED BY <2>1, <2>2, <2>3, CacheSteps
<1> QED BY <1>1, TypeInvariant, PTL DEF Spec

=============================================================================
