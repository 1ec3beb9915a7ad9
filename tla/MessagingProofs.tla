--------------------------- MODULE MessagingProofs --------------------------
(* Proofs about Messaging, for every set of users, conversations, clients    *)
(* and requests and every bound on messages and crashes.                     *)
EXTENDS Messaging, TLAPS

-----------------------------------------------------------------------------
(* Type correctness.  A send in flight has a sender, and an id once its      *)
(* message is stored.                                                        *)

Stored(q) == q.pc \in {"load", "write", "announce", "reply"}

GoodRecord(q) ==
  /\ q \in RequestRecords
  /\ q.seen \subseteq Ids
  /\ q.pc # "idle" => q.sender \in Pids
  /\ Stored(q) => q.id \in Ids

TypeInv == TypeOK /\ \A r \in Requests : GoodRecord(requests[r])

\* Expressions that recur in the steps, with their types.
LEMMA IdsAreNumbers == Ids \subseteq Nat /\ MaxMessages \in Nat
  BY MessagingAssumption DEF Ids

LEMMA IdleIsGood == GoodRecord(Idle)
  BY DEF GoodRecord, Idle, RequestRecords, Pcs, Stored

LEMMA StepIsGood ==
  ASSUME TypeInv, NEW r \in Requests, NEW rec, GoodRecord(rec), Becomes(r, rec)
  PROVE  requests' \in [Requests -> RequestRecords]
         /\ \A q \in Requests : GoodRecord(requests'[q])
  BY DEF Becomes, GoodRecord, TypeInv, TypeOK

LEMMA TypeInit == Init => TypeInv
<1> SUFFICES ASSUME Init PROVE TypeInv
  OBVIOUS
<1>1. \A r \in Requests : requests[r] = Idle
  BY DEF Init
<1>2. requests \in [Requests -> RequestRecords]
  BY IdleIsGood DEF Init, GoodRecord
<1>3. participants \in [Pids -> ParticipantRows \cup {None}]
  BY DEF Init, ParticipantRows
<1>4. sockets \in [Sockets -> SocketRecords]
  BY DEF Init, Offline, SocketRecords
<1>5. heard \in [Sockets -> Seq(Ids)]
  BY DEF Init
<1>6. nextId \in 1 .. MaxMessages + 1
  BY MessagingAssumption DEF Init
<1>7. TypeOK
  BY <1>2, <1>3, <1>4, <1>5, <1>6, MessagingAssumption DEF Init, TypeOK
<1> QED BY <1>1, <1>7, IdleIsGood DEF TypeInv

LEMMA TypeSend ==
  ASSUME TypeInv, NEW r \in Requests,
         Continue(r) \/ \E p \in Pids : SendFind(r, p)
  PROVE  TypeInv'
<1> DEFINE q == requests[r]
<1>q. GoodRecord(q) /\ q \in RequestRecords
  BY DEF TypeInv, GoodRecord
<1>1. ASSUME NEW p \in Pids, SendFind(r, p) PROVE TypeInv'
  <2> DEFINE rec == [Idle EXCEPT !.pc = "insert", !.sender = p, !.seen = acked]
  <2>1. acked \subseteq Ids /\ acked \subseteq Nat
    BY IdsAreNumbers DEF TypeInv, TypeOK
  <2>2. GoodRecord(rec)
    BY <2>1 DEF GoodRecord, Idle, RequestRecords, Pcs, Stored
  <2>3. Becomes(r, rec)
    BY <1>1 DEF SendFind
  <2> HIDE DEF rec
  <2> QED BY <1>1, <2>2, <2>3, StepIsGood
          DEF accounts, SendFind, store, history, TypeInv, TypeOK
<1>2. CASE SendInsert(r)
  <2>1. q.sender \in Pids /\ q.sender[2] \in Convs /\ q.seen \subseteq Ids
    BY <1>q, <1>2 DEF SendInsert, At, GoodRecord, Pids
  <2>2. nextId \in Ids /\ nextId \in Nat /\ nextId' \in 1 .. MaxMessages + 1
    BY <1>2, MessagingAssumption DEF SendInsert, TypeInv, TypeOK, Ids
  <2>3. CASE participants[q.sender] # None
    <3> DEFINE rec == [q EXCEPT !.pc = "load", !.id = nextId]
               row == [sender |-> q.sender, conv |-> q.sender[2]]
    <3>1. GoodRecord(rec)
      BY <1>q, <1>2, <2>1, <2>2
         DEF SendInsert, At, GoodRecord, RequestRecords, Pcs, Stored
    <3>2. row \in MessageRows
      BY <2>1 DEF MessageRows
    <3>3. /\ Becomes(r, rec)
          /\ messages' = [messages EXCEPT ![nextId] = row]
          /\ author' = [author EXCEPT ![nextId] = q.sender]
          /\ before' = before \cup (q.seen \X {nextId})
      BY <1>2, <2>3 DEF SendInsert
    <3> HIDE DEF rec, row, q
    <3> QED BY <1>2, <2>1, <2>2, <3>1, <3>2, <3>3, StepIsGood
            DEF accounts, SendInsert, TypeInv, TypeOK
  <2>4. CASE participants[q.sender] = None
    <3>1. Becomes(r, Idle) /\ UNCHANGED <<messages, author, before>>
      BY <1>2, <2>4 DEF SendInsert
    <3> QED BY <1>2, <2>2, <3>1, IdleIsGood, StepIsGood
            DEF accounts, SendInsert, TypeInv, TypeOK
  <2> QED BY <2>3, <2>4
<1>3. CASE SendLoad(r)
  <2> DEFINE rec == [q EXCEPT !.pc = "write", !.found = participants[q.sender] # None]
  <2>1. GoodRecord(rec)
    BY <1>q, <1>3 DEF SendLoad, At, GoodRecord, RequestRecords, Pcs, Stored
  <2>2. Becomes(r, rec)
    BY <1>3 DEF SendLoad
  <2> HIDE DEF rec
  <2> QED BY <1>3, <2>1, <2>2, StepIsGood
          DEF accounts, SendLoad, store, history, TypeInv, TypeOK
<1>4. CASE SendWrite(r)
  <2> DEFINE rec == [q EXCEPT !.pc = "announce"]
  <2>1. GoodRecord(rec)
    BY <1>q, <1>4 DEF SendWrite, At, GoodRecord, RequestRecords, Pcs, Stored
  <2>2. Becomes(r, rec) \/ Becomes(r, Idle)
    BY <1>4 DEF SendWrite
  <2>3. q.sender \in Pids /\ q.id \in Nat
    BY <1>q, <1>4 DEF SendWrite, At, GoodRecord, RequestRecords
  <2>4. participants' \in [Pids -> ParticipantRows \cup {None}]
    <3>1. \/ UNCHANGED participants
          \/ /\ participants[q.sender] # None
             /\ participants' = [participants EXCEPT ![q.sender].read = q.id]
          \/ participants' = [participants EXCEPT
                ![q.sender] = [attached |-> FALSE, read |-> q.id]]
      BY <1>4 DEF SendWrite
    <3>2. [attached |-> FALSE, read |-> q.id] \in ParticipantRows
      BY <2>3 DEF ParticipantRows
    <3>3. participants[q.sender] # None =>
            [participants[q.sender] EXCEPT !.read = q.id] \in ParticipantRows
      BY <2>3 DEF TypeInv, TypeOK, ParticipantRows
    <3> HIDE DEF q
    <3> QED BY <2>3, <3>1, <3>2, <3>3 DEF TypeInv, TypeOK
  <2> HIDE DEF rec, q
  <2> QED BY <1>4, <2>1, <2>2, <2>4, IdleIsGood, StepIsGood
          DEF accounts, SendWrite, history, TypeInv, TypeOK
<1>5. CASE SendAnnounce(r)
  <2> DEFINE rec == [q EXCEPT !.pc = "reply"]
  <2>1. GoodRecord(rec)
    BY <1>q, <1>5 DEF SendAnnounce, At, GoodRecord, RequestRecords, Pcs, Stored
  <2>2. Becomes(r, rec)
    BY <1>5 DEF SendAnnounce
  <2>3. q.id \in Ids
    BY <1>q, <1>5 DEF SendAnnounce, At, GoodRecord, Stored
  <2>4. heard' \in [Sockets -> Seq(Ids)]
    BY <1>5, <2>3 DEF accounts, SendAnnounce, TypeInv, TypeOK
  <2>5. announced' \subseteq Ids
    BY <1>5, <2>3 DEF accounts, SendAnnounce, TypeInv, TypeOK
  <2> HIDE DEF rec
  <2> QED BY <1>5, <2>1, <2>2, <2>4, <2>5, StepIsGood
          DEF accounts, SendAnnounce, store, TypeInv, TypeOK
<1>6. CASE SendReply(r)
  <2>1. q.id \in Ids
    BY <1>q, <1>6 DEF SendReply, At, GoodRecord, Stored
  <2> QED BY <1>6, <2>1, IdleIsGood, StepIsGood
          DEF accounts, SendReply, store, TypeInv, TypeOK
<1> QED BY <1>1, <1>2, <1>3, <1>4, <1>5, <1>6 DEF Continue

LEMMA TypeNext == TypeInv /\ [Next]_vars => TypeInv'
<1> SUFFICES ASSUME TypeInv, [Next]_vars PROVE TypeInv'
  OBVIOUS
<1>1. ASSUME NEW r \in Requests, Continue(r) \/ \E p \in Pids : SendFind(r, p)
      PROVE  TypeInv'
  BY <1>1, TypeSend
<1>2. ASSUME NEW u \in Users, DeleteUser(u) PROVE TypeInv'
  <2>1. participants' \in [Pids -> ParticipantRows \cup {None}]
    BY <1>2 DEF DeleteUser, TypeInv, TypeOK
  <2>2. messages' \in [Ids -> MessageRows \cup {None}]
    BY <1>2 DEF DeleteUser, TypeInv, TypeOK
  <2> QED BY <1>2, <2>1, <2>2 DEF DeleteUser, history, TypeInv, TypeOK
<1>6. ASSUME NEW u \in Users, ReviveUser(u) PROVE TypeInv'
  BY <1>6 DEF accounts, ReviveUser, history, TypeInv, TypeOK
<1>3. ASSUME NEW s \in Sockets, SocketStep(s) PROVE TypeInv'
  <2>1. sockets[s] \in SocketRecords
    BY DEF TypeInv, TypeOK
  <2>2. PICK rec \in SocketRecords : SocketBecomes(s, rec)
    <3>1. [user |-> "checking", rooms |-> {}] \in SocketRecords
          /\ Offline \in SocketRecords
      BY DEF SocketRecords, Offline
    <3>2. \A a \in {"set", "unset"} : [sockets[s] EXCEPT !.user = a] \in SocketRecords
      BY <2>1 DEF SocketRecords
    <3>3. \A c \in Convs :
             /\ [sockets[s] EXCEPT !.rooms = @ \cup {c}] \in SocketRecords
             /\ [sockets[s] EXCEPT !.rooms = @ \ {c}] \in SocketRecords
      BY <2>1 DEF SocketRecords
    <3>4. CASE Connect(s) \/ Disconnect(s)
      BY <3>1, <3>4 DEF Connect, Disconnect
    <3>5. CASE Validated(s)
      BY <3>2, <3>5 DEF Validated
    <3>6. CASE \E c \in Convs : JoinConversation(s, c) \/ LeaveConversation(s, c)
      BY <3>3, <3>6 DEF JoinConversation, LeaveConversation
    <3> QED BY <1>3, <3>4, <3>5, <3>6 DEF SocketStep
  <2> QED BY <2>2 DEF accounts, SocketBecomes, store, history, TypeInv, TypeOK
<1>4. CASE Crash
  <2>1. Offline \in SocketRecords
    BY DEF SocketRecords, Offline
  <2>2. Idle \in RequestRecords
    BY IdleIsGood DEF GoodRecord
  <2> QED BY <1>4, <2>1, <2>2, IdleIsGood DEF accounts, Crash, store, history, TypeInv, TypeOK
<1>5. CASE UNCHANGED vars
  BY <1>5 DEF accounts, vars, store, history, TypeInv, TypeOK
<1> QED BY <1>1, <1>2, <1>3, <1>4, <1>5, <1>6 DEF Next

LEMMA TypeInvariant == Spec => []TypeInv
  BY TypeInit, TypeNext, PTL DEF Spec

\* Every variable keeps its type.
THEOREM TypeCorrect == Spec => []TypeOK
<1>1. TypeInv => TypeOK
  BY DEF TypeInv
<1> QED BY <1>1, TypeInvariant, PTL

-----------------------------------------------------------------------------
(* What a step may do to a row of participant_entity.                        *)

\* The outcomes of SendWrite for the row of its sender.
LEMMA WriteOutcomes ==
  ASSUME TypeInv, NEW r \in Requests, SendWrite(r)
  PROVE  LET p == requests[r].sender
             i == requests[r].id
         IN /\ p \in Pids /\ i \in Ids
            /\ \A o \in Pids \ {p} : participants'[o] = participants[o]
            /\ \/ participants'[p] = participants[p]
               \/ /\ participants[p] # None
                  /\ participants'[p] # None
                  /\ participants'[p].attached = participants[p].attached
                  /\ participants'[p].read = i
               \/ /\ participants[p] = None
                  /\ participants'[p].attached = FALSE
                  /\ participants'[p].read = i
<1> DEFINE p == requests[r].sender
           i == requests[r].id
<1>1. p \in Pids /\ i \in Ids
  BY DEF TypeInv, GoodRecord, SendWrite, At, Stored
<1>2. participants \in [Pids -> ParticipantRows \cup {None}]
  BY DEF TypeInv, TypeOK
<1>3. \/ UNCHANGED participants
      \/ /\ participants[p] # None
         /\ participants' = [participants EXCEPT ![p].read = i]
      \/ /\ participants[p] = None
         /\ participants' = [participants EXCEPT
               ![p] = [attached |-> FALSE, read |-> i]]
  BY DEF SendWrite
<1>4. CASE UNCHANGED participants
  BY <1>1, <1>4
<1>5. CASE /\ participants[p] # None
           /\ participants' = [participants EXCEPT ![p].read = i]
  <2>1. participants[p] \in ParticipantRows
    BY <1>1, <1>2, <1>5
  <2>2. participants'[p] = [participants[p] EXCEPT !.read = i]
    BY <1>1, <1>2, <1>5
  <2>3. /\ participants'[p].attached = participants[p].attached
        /\ participants'[p].read = i
    BY <2>1, <2>2 DEF ParticipantRows
  <2>4. participants'[p] \in ParticipantRows
    BY <1>1, <2>1, <2>2, IdsAreNumbers DEF ParticipantRows
  <2>5. \A o \in Pids \ {p} : participants'[o] = participants[o]
    BY <1>2, <1>5
  <2> QED BY <1>1, <1>5, <2>3, <2>4, <2>5, NoneIsNoRow
<1>6. CASE /\ participants[p] = None
           /\ participants' = [participants EXCEPT
                 ![p] = [attached |-> FALSE, read |-> i]]
  BY <1>1, <1>2, <1>6
<1> QED BY <1>3, <1>4, <1>5, <1>6

\* Only these three steps change the tables.
LEMMA StoreSteps ==
  ASSUME [Next]_vars
  PROVE  \/ UNCHANGED <<store, author>>
         \/ \E r \in Requests : SendInsert(r) \/ SendWrite(r)
         \/ \E u \in Users : DeleteUser(u)
         \/ /\ \E u \in Users : ReviveUser(u)
            /\ UNCHANGED <<participants, messages, nextId, author, requests>>
            /\ Kept' = Kept
<1>1. ASSUME NEW r \in Requests,
             \/ SendLoad(r) \/ SendAnnounce(r) \/ SendReply(r)
             \/ \E p \in Pids : SendFind(r, p)
      PROVE  UNCHANGED <<store, author>>
  BY <1>1 DEF SendLoad, SendAnnounce, SendReply, SendFind, history
<1>2. ASSUME NEW s \in Sockets, SocketStep(s)
      PROVE  UNCHANGED <<store, author>>
  BY <1>2 DEF SocketStep, Connect, Validated, Disconnect, JoinConversation,
              LeaveConversation, SocketBecomes, history
<1>3. CASE Crash \/ UNCHANGED vars
  BY <1>3 DEF Crash, vars, history
<1>4. ASSUME NEW u \in Users, ReviveUser(u)
      PROVE  /\ UNCHANGED <<participants, messages, nextId, author, requests>>
             /\ Kept' = Kept
  BY <1>4 DEF ReviveUser, history, Kept
<1> QED BY <1>1, <1>2, <1>3, <1>4 DEF Next, Continue

-----------------------------------------------------------------------------
(* Membership.  An attached row is deleted with its account, and the only    *)
(* row ever inserted is a detached one, of an account that is gone.          *)

LEMMA MembershipStep ==
  TypeInv /\ MembershipFollowsAccount /\ [Next]_vars => MembershipFollowsAccount'
<1> SUFFICES ASSUME TypeInv, MembershipFollowsAccount, [Next]_vars
             PROVE  MembershipFollowsAccount'
  OBVIOUS
<1>1. ASSUME NEW r \in Requests, SendInsert(r) PROVE MembershipFollowsAccount'
  BY <1>1 DEF SendInsert, accounts, Kept, MembershipFollowsAccount
<1>2. ASSUME NEW r \in Requests, SendWrite(r) PROVE MembershipFollowsAccount'
  <2>1. Kept' = Kept
    BY <1>2 DEF SendWrite, accounts, Kept
  <2> QED BY <1>2, <2>1, WriteOutcomes DEF MembershipFollowsAccount
<1>3. ASSUME NEW u \in Users, DeleteUser(u) PROVE MembershipFollowsAccount'
  <2>1. Kept' = Kept \ {u}
    BY <1>3 DEF DeleteUser, Kept
  <2> QED BY <1>3, <2>1 DEF DeleteUser, MembershipFollowsAccount
<1>4. CASE UNCHANGED <<store, author>>
  BY <1>4 DEF store, accounts, Kept, MembershipFollowsAccount
<1>5. CASE UNCHANGED participants /\ Kept' = Kept
  BY <1>5 DEF MembershipFollowsAccount
<1> QED BY <1>1, <1>2, <1>3, <1>4, <1>5, StoreSteps

\* Members are exactly the users whose account was never deleted.
THEOREM MembershipIsKept == Spec => []MembershipFollowsAccount
<1>1. Init => MembershipFollowsAccount
  <2> SUFFICES ASSUME Init, NEW p \in Pids
               PROVE  /\ p[1] \in Kept
                      /\ participants[p] # None
                      /\ participants[p].attached
    BY DEF MembershipFollowsAccount
  <2>1. participants[p] = [attached |-> TRUE, read |-> 0]
    BY DEF Init
  <2>2. participants[p] \in ParticipantRows
    BY <2>1 DEF ParticipantRows
  <2> QED BY <2>1, <2>2, NoneIsNoRow DEF Init, Pids, Kept
<1> QED BY <1>1, MembershipStep, TypeInvariant, PTL DEF Spec

-----------------------------------------------------------------------------
(* The ledger.  Ids are given out upwards; a message stays stored while its  *)
(* author's account was not deleted; sends in flight and read markers name messages of  *)
(* their own sender.                                                         *)

LedgerIds      == \A m \in Ids : author[m] # None => m < nextId
LedgerStored   == \A m \in Ids :
                    author[m] # None /\ author[m][1] \in Kept => messages[m] # None
LedgerSenders  == \A m \in Ids : messages[m] # None => messages[m].sender = author[m]
LedgerRequests == \A r \in Requests : Stored(requests[r]) =>
                    author[requests[r].id] = requests[r].sender
LedgerMarkers  == \A p \in Pids : participants[p] # None =>
                    \/ participants[p].read = 0
                    \/ /\ participants[p].read \in Ids
                       /\ author[participants[p].read] = p

Ledger == LedgerIds /\ LedgerStored /\ LedgerSenders /\ LedgerRequests /\ LedgerMarkers

LEMMA LedgerInit == Init => Ledger
<1> SUFFICES ASSUME Init PROVE Ledger
  OBVIOUS
<1>1. LedgerIds /\ LedgerStored /\ LedgerSenders
  BY DEF Init, LedgerIds, LedgerStored, LedgerSenders
<1>2. LedgerRequests
  BY DEF Init, LedgerRequests, Idle, Stored
<1>3. LedgerMarkers
  BY DEF Init, LedgerMarkers
<1> QED BY <1>1, <1>2, <1>3 DEF Ledger

\* The other requests keep their records.
LEMMA OthersKeep ==
  ASSUME TypeInv, NEW r \in Requests, NEW rec, Becomes(r, rec)
  PROVE  requests'[r] = rec /\ \A q \in Requests \ {r} : requests'[q] = requests[q]
  BY DEF Becomes, TypeInv, TypeOK

\* What an insert that the foreign key lets through does.
LEMMA InsertOutcome ==
  ASSUME TypeInv, Ledger, NEW r \in Requests, SendInsert(r),
         participants[requests[r].sender] # None
  PROVE  LET q == requests[r] IN
         /\ q.sender \in Pids /\ q.sender # None
         /\ nextId \in Ids /\ nextId \in Nat /\ nextId' = nextId + 1
         /\ author[nextId] = None
         /\ author'[nextId] = q.sender
         /\ messages'[nextId] # None /\ messages'[nextId].sender = q.sender
         /\ \A m \in Ids \ {nextId} : /\ author'[m] = author[m]
                                      /\ messages'[m] = messages[m]
         /\ requests'[r].pc = "load" /\ requests'[r].id = nextId
         /\ requests'[r].sender = q.sender /\ requests'[r].seen = q.seen
         /\ \A o \in Requests \ {r} : requests'[o] = requests[o]
         /\ before' = before \cup (q.seen \X {nextId})
         /\ UNCHANGED <<accounts, participants>>
<1> DEFINE q == requests[r]
           row == [sender |-> q.sender, conv |-> q.sender[2]]
           rec == [q EXCEPT !.pc = "load", !.id = nextId]
<1>1. q.sender \in Pids /\ q.sender[2] \in Convs
  BY DEF SendInsert, At, TypeInv, GoodRecord, Pids
<1>2. nextId \in Ids /\ nextId \in Nat /\ nextId' = nextId + 1
  BY MessagingAssumption DEF SendInsert, TypeInv, TypeOK, Ids
<1>3. author[nextId] = None
  BY <1>2 DEF Ledger, LedgerIds
<1>4. row # None /\ row.sender = q.sender
  BY <1>1, NoneIsNoRow DEF MessageRows
<1>5. /\ messages' = [messages EXCEPT ![nextId] = row]
      /\ author' = [author EXCEPT ![nextId] = q.sender]
      /\ before' = before \cup (q.seen \X {nextId})
      /\ Becomes(r, rec) /\ UNCHANGED <<accounts, participants>>
  BY DEF SendInsert
<1>6. q \in RequestRecords
  BY DEF TypeInv, TypeOK
<1>7. rec.pc = "load" /\ rec.id = nextId /\ rec.sender = q.sender /\ rec.seen = q.seen
  BY <1>6 DEF RequestRecords
<1>8. /\ requests'[r] = rec
      /\ \A o \in Requests \ {r} : requests'[o] = requests[o]
  BY <1>5, OthersKeep
<1>9. /\ messages'[nextId] = row /\ author'[nextId] = q.sender
      /\ \A m \in Ids \ {nextId} : /\ author'[m] = author[m]
                                   /\ messages'[m] = messages[m]
  BY <1>2, <1>5 DEF TypeInv, TypeOK
<1> HIDE DEF q, row, rec
<1>10. q.sender # None
  BY <1>1, MessagingAssumption
<1> QED BY <1>1, <1>2, <1>3, <1>4, <1>5, <1>7, <1>8, <1>9, <1>10 DEF q

LEMMA LedgerInsert ==
  ASSUME TypeInv, Ledger, NEW r \in Requests, SendInsert(r)
  PROVE  Ledger'
<1> DEFINE q == requests[r]
<1>1. CASE participants[q.sender] # None
  <2>1. LedgerIds'
    BY <1>1, IdsAreNumbers, InsertOutcome DEF Ledger, LedgerIds
  <2>2. LedgerStored'
    BY <1>1, InsertOutcome DEF accounts, Kept, Ledger, LedgerStored
  <2>3. LedgerSenders'
    BY <1>1, InsertOutcome DEF Ledger, LedgerSenders
  <2>4. LedgerRequests'
    <3> SUFFICES ASSUME NEW o \in Requests, Stored(requests[o])'
                 PROVE  author'[requests'[o].id] = requests'[o].sender
      BY DEF LedgerRequests
    <3>1. CASE o = r
      BY <1>1, <3>1, InsertOutcome
    <3>2. CASE o # r
      <4>1. requests'[o] = requests[o]
        BY <1>1, <3>2, InsertOutcome
      <4>2. /\ requests[o].id \in Ids /\ requests[o].sender \in Pids
            /\ author[requests[o].id] = requests[o].sender
        BY <4>1 DEF TypeInv, GoodRecord, Stored, Ledger, LedgerRequests
      <4>3. requests[o].id # nextId
        BY <1>1, <4>2, InsertOutcome, MessagingAssumption
      <4> QED BY <1>1, <4>1, <4>2, <4>3, InsertOutcome
    <3> QED BY <3>1, <3>2
  <2>5. LedgerMarkers'
    <3> SUFFICES ASSUME NEW p \in Pids, participants'[p] # None,
                        participants'[p].read # 0
                 PROVE  /\ participants'[p].read \in Ids
                        /\ author'[participants'[p].read] = p
      BY DEF LedgerMarkers
    <3>1. participants'[p] = participants[p]
      BY <1>1, InsertOutcome
    <3>2. participants[p].read \in Ids /\ author[participants[p].read] = p
      BY <3>1 DEF Ledger, LedgerMarkers
    <3>3. participants[p].read # nextId
      BY <1>1, <3>2, InsertOutcome, MessagingAssumption
    <3> QED BY <1>1, <3>1, <3>2, <3>3, InsertOutcome
  <2> QED BY <2>1, <2>2, <2>3, <2>4, <2>5 DEF Ledger
<1>2. CASE participants[q.sender] = None
  <2>1. /\ Becomes(r, Idle) /\ nextId' = nextId + 1
        /\ UNCHANGED <<messages, author, accounts, participants>>
    BY <1>2 DEF SendInsert
  <2>2. nextId \in Nat
    BY MessagingAssumption DEF TypeInv, TypeOK
  <2>3. LedgerIds'
    BY <2>1, <2>2, IdsAreNumbers DEF Ledger, LedgerIds
  <2>4. LedgerRequests'
    BY <2>1, OthersKeep DEF Ledger, LedgerRequests, Stored, Idle
  <2> QED BY <2>1, <2>3, <2>4
          DEF accounts, Kept, Ledger, LedgerStored, LedgerSenders, LedgerMarkers
<1> QED BY <1>1, <1>2

LEMMA LedgerWrite ==
  ASSUME TypeInv, Ledger, NEW r \in Requests, SendWrite(r)
  PROVE  Ledger'
<1> DEFINE q == requests[r]
           rec == [q EXCEPT !.pc = "announce"]
<1>1. UNCHANGED <<accounts, messages, nextId, author>>
  BY DEF SendWrite, history
<1>2. author[q.id] = q.sender
  BY DEF SendWrite, At, Ledger, LedgerRequests, Stored
<1>3. LedgerMarkers'
  <2> SUFFICES ASSUME NEW p \in Pids, participants'[p] # None
               PROVE  \/ participants'[p].read = 0
                      \/ /\ participants'[p].read \in Ids
                         /\ author'[participants'[p].read] = p
    BY DEF LedgerMarkers
  <2>1. CASE participants'[p] = participants[p]
    BY <1>1, <2>1 DEF Ledger, LedgerMarkers
  <2>2. CASE participants'[p] # participants[p]
    <3>1. p = q.sender /\ q.id \in Ids /\ participants'[p].read = q.id
      BY <2>2, WriteOutcomes
    <3> QED BY <1>1, <1>2, <3>1
  <2> QED BY <2>1, <2>2
<1>4. LedgerRequests'
  <2>1. rec.id = q.id /\ rec.sender = q.sender
    BY DEF TypeInv, TypeOK, RequestRecords
  <2>2. Becomes(r, rec) \/ Becomes(r, Idle)
    BY DEF SendWrite
  <2> HIDE DEF rec
  <2> QED BY <1>1, <1>2, <2>1, <2>2, OthersKeep
          DEF Ledger, LedgerRequests, Stored, Idle
<1> QED BY <1>1, <1>3, <1>4
        DEF accounts, Kept, Ledger, LedgerIds, LedgerStored, LedgerSenders

LEMMA LedgerDelete ==
  ASSUME TypeInv, Ledger, NEW u \in Users, DeleteUser(u)
  PROVE  Ledger'
<1>1. UNCHANGED <<nextId, author, requests>> /\ Kept' = Kept \ {u}
  BY DEF DeleteUser, history, Kept
<1>2. \A m \in Ids : messages'[m] \in {None, messages[m]}
  BY DEF DeleteUser
<1>3. \A p \in Pids : participants'[p] \in {None, participants[p]}
  BY DEF DeleteUser
<1>4. LedgerStored'
  <2> SUFFICES ASSUME NEW m \in Ids, author[m] # None, author[m][1] \in Kept \ {u}
               PROVE  messages'[m] # None
    BY <1>1 DEF LedgerStored
  <2>1. messages[m] # None /\ messages[m].sender = author[m]
    BY DEF Ledger, LedgerStored, LedgerSenders
  <2>2. messages[m].sender[1] # u
    BY <2>1
  <2> QED BY <2>1, <2>2 DEF DeleteUser
<1>5. LedgerSenders'
  BY <1>1, <1>2 DEF Ledger, LedgerSenders
<1>6. LedgerMarkers'
  BY <1>1, <1>3 DEF Ledger, LedgerMarkers
<1> QED BY <1>1, <1>4, <1>5, <1>6 DEF Ledger, LedgerIds, LedgerRequests

\* The steps that leave the tables alone keep, of each request, its id and
\* sender, or give it none.
LEMMA LedgerRest ==
  ASSUME TypeInv, Ledger, UNCHANGED <<store, author>>,
         \A o \in Requests : Stored(requests[o])' =>
            /\ Stored(requests[o])
            /\ requests'[o].id = requests[o].id
            /\ requests'[o].sender = requests[o].sender
  PROVE  Ledger'
  BY DEF Ledger, store, accounts, Kept, LedgerIds, LedgerStored, LedgerSenders, LedgerRequests,
         LedgerMarkers

\* The steps on requests that change no table, and their records.
LEMMA RestOfRequests ==
  ASSUME TypeInv, NEW r \in Requests,
         \/ SendLoad(r) \/ SendAnnounce(r) \/ SendReply(r)
         \/ \E p \in Pids : SendFind(r, p)
  PROVE  \A o \in Requests :
           /\ Stored(requests[o])' =>
                /\ Stored(requests[o])
                /\ requests'[o].id = requests[o].id
                /\ requests'[o].sender = requests[o].sender
           /\ requests'[o].seen \in {requests[o].seen, acked, {}}
<1> DEFINE q == requests[r]
           load == [q EXCEPT !.pc = "write",
                             !.found = participants[q.sender] # None]
           ann  == [q EXCEPT !.pc = "reply"]
           find(p) == [Idle EXCEPT !.pc = "insert", !.sender = p, !.seen = acked]
<1>1. /\ load.id = q.id /\ load.sender = q.sender /\ load.seen = q.seen
      /\ ann.id = q.id /\ ann.sender = q.sender /\ ann.seen = q.seen
  BY DEF TypeInv, TypeOK, RequestRecords
<1>2. /\ \A p \in Pids : find(p).pc = "insert" /\ find(p).seen = acked
      /\ Idle.pc = "idle" /\ Idle.seen = {}
  BY DEF Idle
<1>3. CASE SendLoad(r)
  <2>1. Becomes(r, load) /\ q.pc = "load"
    BY <1>3 DEF SendLoad, At
  <2> HIDE DEF load
  <2> QED BY <1>1, <2>1, OthersKeep DEF Stored
<1>4. CASE SendAnnounce(r)
  <2>1. Becomes(r, ann) /\ q.pc = "announce"
    BY <1>4 DEF SendAnnounce, At
  <2> HIDE DEF ann
  <2> QED BY <1>1, <2>1, OthersKeep DEF Stored
<1>5. CASE SendReply(r)
  <2>1. Becomes(r, Idle)
    BY <1>5 DEF SendReply
  <2> QED BY <1>2, <2>1, OthersKeep DEF Stored
<1>6. ASSUME NEW p \in Pids, SendFind(r, p)
      PROVE  \A o \in Requests :
               /\ Stored(requests[o])' =>
                    /\ Stored(requests[o])
                    /\ requests'[o].id = requests[o].id
                    /\ requests'[o].sender = requests[o].sender
               /\ requests'[o].seen \in {requests[o].seen, acked, {}}
  <2>1. Becomes(r, find(p))
    BY <1>6 DEF SendFind
  <2> HIDE DEF find
  <2> QED BY <1>2, <2>1, OthersKeep DEF Stored
<1> QED BY <1>3, <1>4, <1>5, <1>6

LEMMA LedgerStep == TypeInv /\ Ledger /\ [Next]_vars => Ledger'
<1> SUFFICES ASSUME TypeInv, Ledger, [Next]_vars PROVE Ledger'
  OBVIOUS
<1>1. ASSUME NEW r \in Requests,
             \/ SendLoad(r) \/ SendAnnounce(r) \/ SendReply(r)
             \/ \E p \in Pids : SendFind(r, p)
      PROVE  Ledger'
  <2>1. UNCHANGED <<store, author>>
    BY <1>1 DEF SendLoad, SendAnnounce, SendReply, SendFind, history
  <2> QED BY <1>1, <2>1, RestOfRequests, LedgerRest
<1>2. ASSUME NEW r \in Requests, SendInsert(r) \/ SendWrite(r) PROVE Ledger'
  BY <1>2, LedgerInsert, LedgerWrite
<1>3. ASSUME NEW u \in Users, DeleteUser(u) PROVE Ledger'
  BY <1>3, LedgerDelete
<1>7. ASSUME NEW u \in Users, ReviveUser(u) PROVE Ledger'
  <2>1. /\ UNCHANGED <<participants, messages, nextId, author, requests>>
        /\ Kept' = Kept
    BY <1>7 DEF ReviveUser, history, Kept
  <2> QED BY <2>1 DEF Ledger, LedgerIds, LedgerStored, LedgerSenders,
                      LedgerRequests, LedgerMarkers
<1>4. ASSUME NEW s \in Sockets, SocketStep(s) PROVE Ledger'
  <2>1. UNCHANGED <<store, author, requests>>
    BY <1>4 DEF SocketStep, Connect, Validated, Disconnect, JoinConversation,
                LeaveConversation, SocketBecomes, history
  <2> QED BY <2>1, LedgerRest DEF Stored
<1>5. CASE Crash
  BY <1>5, LedgerRest DEF Crash, history, Idle, Stored
<1>6. CASE UNCHANGED vars
  BY <1>6, LedgerRest DEF vars, history, Stored
<1> QED BY <1>1, <1>2, <1>3, <1>4, <1>5, <1>6, <1>7 DEF Next, Continue

LEMMA LedgerInvariant == Spec => []Ledger
  BY LedgerInit, LedgerStep, TypeInvariant, PTL DEF Spec

\* A member's read marker is 0 or names a stored message of its own.
THEOREM ReadMarkersAreSound == Spec => []ReadMarkerSound
<1>1. TypeInv /\ Ledger /\ MembershipFollowsAccount => ReadMarkerSound
  <2> SUFFICES ASSUME Ledger, MembershipFollowsAccount, NEW p \in Pids,
                      participants[p] # None, participants[p].attached,
                      participants[p].read # 0
               PROVE  LET m == participants[p].read IN
                        m \in Ids /\ messages[m] # None /\ messages[m].sender = p
    BY DEF ReadMarkerSound
  <2> DEFINE m == participants[p].read
  <2>1. m \in Ids /\ author[m] = p /\ p[1] \in Kept /\ p # None
    BY MessagingAssumption DEF Ledger, LedgerMarkers, MembershipFollowsAccount
  <2> HIDE DEF m
  <2>2. messages[m] # None
    BY <2>1 DEF Ledger, LedgerStored
  <2>3. messages[m].sender = p
    BY <2>1, <2>2 DEF Ledger, LedgerSenders
  <2> QED BY <2>1, <2>2, <2>3 DEF m
<1> QED BY <1>1, LedgerInvariant, TypeInvariant, MembershipIsKept, PTL

-----------------------------------------------------------------------------
(* Announcements and answers.  A send announces its message once and is      *)
(* acknowledged after that; nothing else names its id.                       *)

FreshIds      == \A r, q \in Requests : Stored(requests[r]) /\ Stored(requests[q])
                    /\ requests[r].id = requests[q].id => r = q
FreshAcks     == \A r \in Requests : Stored(requests[r]) => requests[r].id \notin acked
FreshNews     == \A r \in Requests :
                   requests[r].pc \in {"load", "write", "announce"} =>
                     requests[r].id \notin announced
AnnouncedOnce == \A r \in Requests : requests[r].pc = "reply" =>
                   requests[r].id \in announced
AckedLast     == acked \subseteq announced /\ announced \subseteq Posted
SeenAcked     == /\ \A r \in Requests : requests[r].seen \subseteq acked
                 /\ before \subseteq acked \X Posted

Fresh == /\ FreshIds /\ FreshAcks /\ FreshNews
         /\ AnnouncedOnce /\ AckedLast /\ SeenAcked

LEMMA FreshInit == Init => Fresh
  BY DEF Init, Fresh, FreshIds, FreshAcks, FreshNews, AnnouncedOnce, AckedLast,
         SeenAcked, Idle, Stored

LEMMA FreshInsert ==
  ASSUME TypeInv, Ledger, Fresh, NEW r \in Requests, SendInsert(r)
  PROVE  Fresh'
<1> DEFINE q == requests[r]
<1>u. UNCHANGED <<announced, acked>>
  BY DEF SendInsert
<1>1. CASE participants[q.sender] # None
  <2>1. nextId \notin Posted /\ Posted' = Posted \cup {nextId}
    BY <1>1, InsertOutcome DEF Posted
  <2>2. \A o \in Requests \ {r} :
           Stored(requests[o]) => requests[o].id \in Posted
    BY MessagingAssumption
       DEF TypeInv, GoodRecord, Ledger, LedgerRequests, Posted, Stored
  <2>3. /\ requests'[r].id = nextId /\ requests'[r].pc = "load"
        /\ requests'[r].seen = q.seen
        /\ \A o \in Requests \ {r} : requests'[o] = requests[o]
        /\ before' = before \cup (q.seen \X {nextId})
    BY <1>1, InsertOutcome
  <2>4. nextId \notin announced /\ nextId \notin acked
    BY <2>1 DEF Fresh, AckedLast
  <2> HIDE DEF q
  <2>5. FreshIds'
    BY <2>1, <2>2, <2>3 DEF Fresh, FreshIds, Stored
  <2>6. FreshAcks' /\ FreshNews' /\ AnnouncedOnce'
    BY <1>u, <2>3, <2>4 DEF Fresh, FreshAcks, FreshNews, AnnouncedOnce, Stored
  <2>7. AckedLast'
    BY <1>u, <2>1 DEF Fresh, AckedLast
  <2>8. SeenAcked'
    <3>1. q.seen \subseteq acked
      BY DEF Fresh, SeenAcked, q
    <3> QED BY <1>u, <2>1, <2>3, <3>1 DEF Fresh, SeenAcked
  <2> QED BY <2>5, <2>6, <2>7, <2>8 DEF Fresh
<1>2. CASE participants[q.sender] = None
  <2>1. Becomes(r, Idle) /\ UNCHANGED <<author, before>>
    BY <1>2 DEF SendInsert
  <2>2. /\ requests'[r] = Idle
        /\ \A o \in Requests \ {r} : requests'[o] = requests[o]
    BY <2>1, OthersKeep
  <2>3. Idle.pc = "idle" /\ Idle.seen = {}
    BY DEF Idle
  <2> QED BY <1>u, <2>1, <2>2, <2>3
          DEF Fresh, FreshIds, FreshAcks, FreshNews, AnnouncedOnce, AckedLast,
              SeenAcked, Stored, Posted
<1> QED BY <1>1, <1>2

\* A step in which request r moves on to a later pc, or ends, with its id.
LEMMA FreshMove ==
  ASSUME TypeInv, Fresh, NEW r \in Requests, NEW rec, Becomes(r, rec),
         rec.seen \subseteq acked,
         Stored(rec) => /\ rec.id = requests[r].id
                        /\ rec.pc \in {"write", "announce"}
                        /\ requests[r].pc \in {"load", "write"},
         UNCHANGED <<author, announced, acked, before>>
  PROVE  Fresh'
<1>1. /\ requests'[r] = rec
      /\ \A o \in Requests \ {r} : requests'[o] = requests[o]
  BY OthersKeep
<1>2. rec.pc = "reply" => Stored(rec)
  BY DEF Stored
<1>3. Stored(rec) => Stored(requests[r])
  BY DEF Stored
<1>4. FreshIds'
  BY <1>1, <1>3 DEF Fresh, FreshIds, Stored
<1>5. FreshAcks'
  BY <1>1, <1>3 DEF Fresh, FreshAcks, Stored
<1>6. FreshNews'
  BY <1>1, <1>3 DEF Fresh, FreshNews, Stored
<1>7. AnnouncedOnce'
  BY <1>1, <1>2 DEF Fresh, AnnouncedOnce
<1> QED BY <1>1, <1>4, <1>5, <1>6, <1>7 DEF Fresh, AckedLast, SeenAcked, Posted

LEMMA FreshSend ==
  ASSUME TypeInv, Ledger, Fresh, NEW r \in Requests,
         Continue(r) \/ \E p \in Pids : SendFind(r, p)
  PROVE  Fresh'
<1> DEFINE q == requests[r]
<1>q. q \in RequestRecords /\ q.seen \subseteq acked
  BY DEF TypeInv, TypeOK, Fresh, SeenAcked
<1>i. Idle.pc = "idle" /\ Idle.seen = {}
  BY DEF Idle
<1>p. Stored(q) => q.id \in Posted
  BY MessagingAssumption
     DEF TypeInv, GoodRecord, Ledger, LedgerRequests, Posted, Stored
<1>1. ASSUME NEW p \in Pids, SendFind(r, p) PROVE Fresh'
  <2> DEFINE rec == [Idle EXCEPT !.pc = "insert", !.sender = p, !.seen = acked]
  <2>1. rec.pc = "insert" /\ rec.seen = acked
    BY DEF Idle
  <2>2. Becomes(r, rec) /\ UNCHANGED <<author, announced, acked, before>>
    BY <1>1 DEF SendFind, history
  <2> HIDE DEF rec
  <2> QED BY <2>1, <2>2, FreshMove DEF Stored
<1>2. CASE SendInsert(r)
  BY <1>2, FreshInsert
<1>3. CASE SendLoad(r)
  <2> DEFINE rec == [q EXCEPT !.pc = "write", !.found = participants[q.sender] # None]
  <2>1. rec.pc = "write" /\ rec.seen = q.seen /\ rec.id = q.id
    BY <1>q DEF RequestRecords
  <2>2. /\ Becomes(r, rec) /\ UNCHANGED <<author, announced, acked, before>>
        /\ q.pc = "load"
    BY <1>3 DEF SendLoad, At, history
  <2> HIDE DEF rec
  <2> QED BY <1>q, <2>1, <2>2, FreshMove
<1>4. CASE SendWrite(r)
  <2> DEFINE rec == [q EXCEPT !.pc = "announce"]
  <2>1. rec.pc = "announce" /\ rec.seen = q.seen /\ rec.id = q.id
    BY <1>q DEF RequestRecords
  <2>2. /\ Becomes(r, rec) \/ Becomes(r, Idle)
        /\ UNCHANGED <<author, announced, acked, before>> /\ q.pc = "write"
    BY <1>4 DEF SendWrite, At, history
  <2> HIDE DEF rec
  <2> QED BY <1>q, <1>i, <2>1, <2>2, FreshMove DEF Stored
<1>5. CASE SendAnnounce(r)
  <2> DEFINE rec == [q EXCEPT !.pc = "reply"]
  <2>1. rec.pc = "reply" /\ rec.seen = q.seen /\ rec.id = q.id
    BY <1>q DEF RequestRecords
  <2>2. /\ Becomes(r, rec) /\ UNCHANGED <<author, acked, before>>
        /\ announced' = announced \cup {q.id} /\ q.pc = "announce"
    BY <1>5 DEF SendAnnounce, At
  <2>3. /\ requests'[r] = rec
        /\ \A o \in Requests \ {r} : requests'[o] = requests[o]
    BY <2>2, OthersKeep
  <2>4. q.id \in Posted /\ q.id \notin acked
    BY <1>p, <2>2 DEF Fresh, FreshAcks, Stored
  <2>5. \A o \in Requests \ {r} : Stored(requests[o]) => requests[o].id # q.id
    BY <2>2 DEF Fresh, FreshIds, Stored
  <2> HIDE DEF rec
  <2>6. FreshIds' /\ FreshAcks'
    BY <2>1, <2>2, <2>3 DEF Fresh, FreshIds, FreshAcks, Stored
  <2>7. FreshNews' /\ AnnouncedOnce'
    BY <2>1, <2>2, <2>3, <2>5 DEF Fresh, FreshNews, AnnouncedOnce, Stored
  <2>8. AckedLast' /\ SeenAcked'
    BY <2>1, <2>2, <2>3, <2>4 DEF Fresh, AckedLast, SeenAcked, Posted
  <2> QED BY <2>6, <2>7, <2>8 DEF Fresh
<1>6. CASE SendReply(r)
  <2>1. /\ Becomes(r, Idle) /\ UNCHANGED <<author, announced, before>>
        /\ acked' = acked \cup {q.id} /\ q.pc = "reply"
    BY <1>6 DEF SendReply, At
  <2>2. /\ requests'[r] = Idle
        /\ \A o \in Requests \ {r} : requests'[o] = requests[o]
    BY <2>1, OthersKeep
  <2>3. \A o \in Requests \ {r} : Stored(requests[o]) => requests[o].id # q.id
    BY <2>1 DEF Fresh, FreshIds, Stored
  <2>4. q.id \in announced
    BY <2>1 DEF Fresh, AnnouncedOnce
  <2> HIDE DEF q
  <2>5. FreshIds' /\ FreshNews' /\ AnnouncedOnce'
    BY <1>i, <2>1, <2>2 DEF Fresh, FreshIds, FreshNews, AnnouncedOnce, Stored
  <2>6. FreshAcks'
    BY <1>i, <2>1, <2>2, <2>3 DEF Fresh, FreshAcks, Stored
  <2>7. AckedLast' /\ SeenAcked'
    BY <1>i, <2>1, <2>2, <2>4 DEF Fresh, AckedLast, SeenAcked, Posted
  <2> QED BY <2>5, <2>6, <2>7 DEF Fresh
<1> QED BY <1>1, <1>2, <1>3, <1>4, <1>5, <1>6 DEF Continue

LEMMA FreshStep == TypeInv /\ Ledger /\ Fresh /\ [Next]_vars => Fresh'
<1> SUFFICES ASSUME TypeInv, Ledger, Fresh, [Next]_vars PROVE Fresh'
  OBVIOUS
<1> USE DEF Fresh, FreshIds, FreshAcks, FreshNews, AnnouncedOnce, AckedLast,
            SeenAcked, Stored, Posted
<1>1. ASSUME NEW r \in Requests, Continue(r) \/ \E p \in Pids : SendFind(r, p)
      PROVE  Fresh'
  BY <1>1, FreshSend
<1>2. ASSUME NEW u \in Users, DeleteUser(u) \/ ReviveUser(u) PROVE Fresh'
  BY <1>2 DEF DeleteUser, ReviveUser, history
<1>3. ASSUME NEW s \in Sockets, SocketStep(s) PROVE Fresh'
  BY <1>3 DEF SocketStep, Connect, Validated, Disconnect, JoinConversation,
              LeaveConversation, SocketBecomes, history
<1>4. CASE Crash
  BY <1>4 DEF Crash, Idle, history
<1>5. CASE UNCHANGED vars
  BY <1>5 DEF vars, history
<1> QED BY <1>1, <1>2, <1>3, <1>4, <1>5 DEF Next

LEMMA FreshInvariant == Spec => []Fresh
  BY FreshInit, FreshStep, TypeInvariant, LedgerInvariant, PTL DEF Spec

\* What was acknowledged stays stored while its author keeps the account.
THEOREM AcknowledgedIsDurable == Spec => []AckedDurable
<1>1. Ledger /\ Fresh => AckedDurable
  BY DEF Ledger, LedgerStored, Fresh, AckedLast, Posted, AckedDurable
<1> QED BY <1>1, LedgerInvariant, FreshInvariant, PTL

-----------------------------------------------------------------------------
(* Refinement of the abstract log.                                           *)

\* Every step posts, announces or leaves the log alone.
LEMMA LogSteps ==
  ASSUME TypeInv, Ledger, Fresh, [Next]_vars
  PROVE  [Log!Next]_(Log!vars)
<1>1. ASSUME NEW r \in Requests, SendInsert(r) PROVE [Log!Next]_(Log!vars)
  <2>u. UNCHANGED <<announced, heard>>
    BY <1>1 DEF SendInsert
  <2>1. CASE participants[requests[r].sender] # None
    <3>1. nextId \in Ids /\ Posted' = Posted \cup {nextId}
      BY <1>1, <2>1, InsertOutcome DEF Posted
    <3>2. \A n \in Posted : n < nextId
      BY DEF Ledger, LedgerIds, Posted
    <3>3. Log!Post(nextId)
      BY <2>u, <3>1, <3>2 DEF Log!Post
    <3> QED BY <3>1, <3>3 DEF Log!Next
  <2>2. CASE participants[requests[r].sender] = None
    BY <1>1, <2>u, <2>2 DEF SendInsert, Log!vars, Posted
  <2> QED BY <2>1, <2>2
<1>2. ASSUME NEW r \in Requests, SendAnnounce(r) PROVE [Log!Next]_(Log!vars)
  <2> DEFINE q == requests[r]
             audience == {s \in Sockets : q.sender[2] \in sockets[s].rooms}
  <2>1. q.id \in Posted \ announced
    BY <1>2, MessagingAssumption
       DEF SendAnnounce, At, Fresh, FreshNews, TypeInv, GoodRecord, Stored,
           Ledger, LedgerRequests, Posted
  <2>2. Log!Announce(q.id, audience)
    BY <1>2, <2>1 DEF SendAnnounce, Log!Announce, Posted
  <2> QED BY <2>1, <2>2 DEF Log!Next
<1>3. CASE UNCHANGED <<author, announced, heard>>
  BY <1>3 DEF Log!vars, Posted
<1>4. ASSUME NEW r \in Requests,
             \/ SendLoad(r) \/ SendWrite(r) \/ SendReply(r)
             \/ \E p \in Pids : SendFind(r, p)
      PROVE  UNCHANGED <<author, announced, heard>>
  BY <1>4 DEF SendLoad, SendWrite, SendReply, SendFind, history
<1>5. ASSUME NEW u \in Users, DeleteUser(u) \/ ReviveUser(u)
      PROVE  UNCHANGED <<author, announced, heard>>
  BY <1>5 DEF DeleteUser, ReviveUser, history
<1>6. ASSUME NEW s \in Sockets, SocketStep(s)
      PROVE  UNCHANGED <<author, announced, heard>>
  BY <1>6 DEF SocketStep, Connect, Validated, Disconnect, JoinConversation,
              LeaveConversation, SocketBecomes, history
<1>7. CASE Crash \/ UNCHANGED vars
  BY <1>3, <1>7 DEF Crash, vars, history
<1> QED BY <1>1, <1>2, <1>3, <1>4, <1>5, <1>6, <1>7 DEF Next, Continue

\* The chat implements the abstract log.
THEOREM ImplementsLog == Spec => LogRefinement
<1>1. Init => Log!Init
  BY DEF Init, Log!Init, Posted
<1> QED BY <1>1, LogSteps, TypeInvariant, LedgerInvariant, FreshInvariant, PTL
        DEF Spec, LogRefinement, Log!Spec

-----------------------------------------------------------------------------
(* Causal order.  What a client heard was announced, and a message is not    *)
(* yet acknowledged when it is announced.                                    *)

HeardAnnounced == \A s \in Sockets : \A i \in DOMAIN heard[s] :
                    heard[s][i] \in announced

CausalInv == HeardAnnounced /\ CausalOrder

LEMMA CausalStep == TypeInv /\ Ledger /\ Fresh /\ CausalInv /\ [Next]_vars => CausalInv'
<1> SUFFICES ASSUME TypeInv, Ledger, Fresh, CausalInv, [Next]_vars
             PROVE  CausalInv'
  OBVIOUS
<1>1. ASSUME NEW r \in Requests, SendInsert(r) PROVE CausalInv'
  <2>u. UNCHANGED <<announced, heard>>
    BY <1>1 DEF SendInsert
  <2>1. CASE participants[requests[r].sender] # None
    <3>1. before' = before \cup (requests[r].seen \X {nextId}) /\ nextId \notin Posted
      BY <1>1, <2>1, InsertOutcome DEF Posted
    <3>2. \A s \in Sockets : Position(s, nextId) = {}
      BY <3>1 DEF Position, CausalInv, HeardAnnounced, Fresh, AckedLast
    <3>3. CausalOrder'
      BY <2>u, <3>1, <3>2 DEF CausalInv, CausalOrder, Position
    <3> QED BY <2>u, <3>3 DEF CausalInv, HeardAnnounced
  <2>2. CASE participants[requests[r].sender] = None
    BY <1>1, <2>u, <2>2
       DEF SendInsert, CausalInv, HeardAnnounced, CausalOrder, Position
  <2> QED BY <2>1, <2>2
<1>2. ASSUME NEW r \in Requests, SendAnnounce(r) PROVE CausalInv'
  <2> DEFINE k == requests[r].id
  <2>1. k \in Ids /\ k \notin announced /\ announced' = announced \cup {k}
        /\ UNCHANGED before
    BY <1>2 DEF SendAnnounce, At, Fresh, FreshNews, TypeInv, GoodRecord, Stored
  <2>2. \A s \in Sockets : /\ heard[s] \in Seq(Ids)
                           /\ heard'[s] = heard[s] \/ heard'[s] = Append(heard[s], k)
    BY <1>2 DEF SendAnnounce, TypeInv, TypeOK
  <2> HIDE DEF k
  <2>3. HeardAnnounced'
    BY <2>1, <2>2 DEF CausalInv, HeardAnnounced
  <2>4. CausalOrder'
    <3> SUFFICES ASSUME NEW t \in before, NEW s \in Sockets,
                        NEW i \in DOMAIN heard'[s], NEW j \in DOMAIN heard'[s],
                        heard'[s][i] = t[1], heard'[s][j] = t[2]
                 PROVE  i < j
      BY <2>1 DEF CausalOrder, Position
    <3>1. t[1] \in announced /\ t[1] # k
      BY <2>1 DEF Fresh, SeenAcked, AckedLast
    <3>2. CASE heard'[s] = heard[s]
      BY <3>2 DEF CausalInv, CausalOrder, Position
    <3>3. CASE heard'[s] = Append(heard[s], k)
      <4>1. i \in DOMAIN heard[s] /\ heard[s][i] = t[1]
        BY <2>2, <3>1, <3>3
      <4>2. CASE j \in DOMAIN heard[s]
        <5>1. heard[s][j] = t[2]
          BY <2>2, <3>3, <4>2
        <5> QED BY <4>1, <4>2, <5>1 DEF CausalInv, CausalOrder, Position
      <4>3. CASE j \notin DOMAIN heard[s]
        BY <2>2, <3>3, <4>1, <4>3
      <4> QED BY <4>2, <4>3
    <3> QED BY <2>2, <3>2, <3>3
  <2> QED BY <2>3, <2>4 DEF CausalInv
<1>3. CASE UNCHANGED <<announced, before, heard>>
  BY <1>3 DEF CausalInv, HeardAnnounced, CausalOrder, Position
<1>4. ASSUME NEW r \in Requests,
             \/ SendLoad(r) \/ SendWrite(r) \/ SendReply(r)
             \/ \E p \in Pids : SendFind(r, p)
      PROVE  UNCHANGED <<announced, before, heard>>
  BY <1>4 DEF SendLoad, SendWrite, SendReply, SendFind, history
<1>5. ASSUME NEW u \in Users, DeleteUser(u) \/ ReviveUser(u)
      PROVE  UNCHANGED <<announced, before, heard>>
  BY <1>5 DEF DeleteUser, ReviveUser, history
<1>6. ASSUME NEW s \in Sockets, SocketStep(s)
      PROVE  UNCHANGED <<announced, before, heard>>
  BY <1>6 DEF SocketStep, Connect, Validated, Disconnect, JoinConversation,
              LeaveConversation, SocketBecomes, history
<1>7. CASE Crash \/ UNCHANGED vars
  BY <1>3, <1>7 DEF Crash, vars, history
<1> QED BY <1>1, <1>2, <1>3, <1>4, <1>5, <1>6, <1>7 DEF Next, Continue

LEMMA CausalAlways == Spec => []CausalInv
<1>1. Init => CausalInv
  BY DEF Init, CausalInv, HeardAnnounced, CausalOrder
<1> QED BY <1>1, CausalStep, TypeInvariant, LedgerInvariant, FreshInvariant, PTL
        DEF Spec

\* Clients hear messages in causal order.
THEOREM ChatIsCausal == Spec => []CausalOrder
<1>1. CausalInv => CausalOrder
  BY DEF CausalInv
<1> QED BY <1>1, CausalAlways, PTL

-----------------------------------------------------------------------------
(* The read marker.  From the write of a send on, the marker of its sender   *)
(* is not a message acknowledged before the send began: those are not        *)
(* written again.                                                            *)

Written(n) == \/ n \in acked
              \/ \E r \in Requests : /\ requests[r].pc \in {"announce", "reply"}
                                     /\ requests[r].id = n

MarkerInv == \A t \in before :
  LET p == author[t[2]] IN
    Written(t[2]) /\ participants[p] # None /\ participants[p].attached
      => participants[p].read # t[1]

\* A write that does not fail leaves its id in the row, if there is a row.
LEMMA WriteSetsMarker ==
  ASSUME TypeInv, NEW r \in Requests, SendWrite(r), ~Becomes(r, Idle),
         participants'[requests[r].sender] # None
  PROVE  participants'[requests[r].sender].read = requests[r].id
<1> DEFINE q == requests[r]
           p == q.sender
<1>1. p \in Pids /\ participants \in [Pids -> ParticipantRows \cup {None}]
  BY DEF SendWrite, At, TypeInv, TypeOK, GoodRecord
<1>2. CASE q.found /\ participants[p] # None
  <2>1. participants' = [participants EXCEPT ![p].read = q.id]
    BY <1>2 DEF SendWrite
  <2>2. participants[p] \in ParticipantRows
    BY <1>1, <1>2
  <2> QED BY <1>1, <2>1, <2>2 DEF ParticipantRows
<1>3. CASE ~q.found /\ participants[p] = None
  <2>1. participants' = [participants EXCEPT ![p] = [attached |-> FALSE, read |-> q.id]]
    BY <1>3 DEF SendWrite
  <2> QED BY <1>1, <2>1
<1>4. CASE q.found /\ participants[p] = None
  BY <1>4 DEF SendWrite
<1> QED BY <1>2, <1>3, <1>4 DEF SendWrite

LEMMA MarkerStep == TypeInv /\ Ledger /\ Fresh /\ MarkerInv /\ [Next]_vars => MarkerInv'
<1> SUFFICES ASSUME TypeInv, Ledger, Fresh, MarkerInv, [Next]_vars
             PROVE  MarkerInv'
  OBVIOUS
<1>p. \A t \in before : t[1] \in acked /\ t[2] \in Posted /\ author[t[2]] \in Pids
  BY DEF Fresh, SeenAcked, Posted, TypeInv, TypeOK
<1>1. ASSUME NEW r \in Requests, SendInsert(r) PROVE MarkerInv'
  <2>u. UNCHANGED <<acked, participants>>
    BY <1>1 DEF SendInsert
  <2>1. CASE participants[requests[r].sender] # None
    <3>1. /\ before' = before \cup (requests[r].seen \X {nextId})
          /\ nextId \notin Posted
          /\ requests'[r].pc = "load"
          /\ \A o \in Requests \ {r} : requests'[o] = requests[o]
          /\ \A m \in Ids \ {nextId} : author'[m] = author[m]
      BY <1>1, <2>1, InsertOutcome DEF Posted
    <3>2. ASSUME NEW n, n = nextId PROVE ~Written(n)'
      <4>1. n \notin acked'
        BY <2>u, <3>1, <3>2 DEF Fresh, AckedLast
      <4>2. \A o \in Requests : Stored(requests[o]) => requests[o].id \in Posted
        BY MessagingAssumption
           DEF TypeInv, GoodRecord, Ledger, LedgerRequests, Posted, Stored
      <4>3. ASSUME NEW o \in Requests, requests'[o].pc \in {"announce", "reply"}
            PROVE  requests'[o].id # n
        BY <3>1, <3>2, <4>2, <4>3 DEF Stored
      <4> QED BY <4>1, <4>3 DEF Written
    <3>3. \A n \in Posted : Written(n)' => Written(n)
      BY <2>u, <3>1 DEF Written
    <3>4. \A n \in Posted : author'[n] = author[n]
      BY <3>1 DEF Posted
    <3> QED BY <1>p, <2>u, <3>1, <3>2, <3>3, <3>4 DEF MarkerInv
  <2>2. CASE participants[requests[r].sender] = None
    <3>1. Becomes(r, Idle) /\ UNCHANGED <<author, before>>
      BY <1>1, <2>2 DEF SendInsert
    <3>2. \A n : Written(n)' => Written(n)
      BY <2>u, <3>1, OthersKeep DEF Written, Idle
    <3> QED BY <2>u, <3>1, <3>2 DEF MarkerInv
  <2> QED BY <2>1, <2>2
<1>2. ASSUME NEW r \in Requests, SendWrite(r) PROVE MarkerInv'
  <2> DEFINE q == requests[r]
             rec == [q EXCEPT !.pc = "announce"]
  <2>u. UNCHANGED <<author, acked, before>> /\ q.pc = "write"
    BY <1>2 DEF SendWrite, At, history
  <2>1. author[q.id] = q.sender /\ q.id \notin acked
    BY <2>u DEF Ledger, LedgerRequests, Fresh, FreshAcks, Stored
  <2>2. \A n : Written(n)' => Written(n) \/ n = q.id
    <3>1. rec.id = q.id
      BY DEF TypeInv, TypeOK, RequestRecords
    <3>2. Becomes(r, rec) \/ Becomes(r, Idle)
      BY <1>2 DEF SendWrite
    <3> HIDE DEF rec
    <3> QED BY <2>u, <3>1, <3>2, OthersKeep DEF Written, Idle
  <2> SUFFICES ASSUME NEW t \in before, Written(t[2])',
                      participants'[author[t[2]]] # None,
                      participants'[author[t[2]]].attached
               PROVE  participants'[author[t[2]]].read # t[1]
    BY <2>u DEF MarkerInv
  <2> DEFINE p == author[t[2]]
  <2>3. t[1] # q.id
    BY <1>p, <2>1
  <2> HIDE DEF q
  <2>4. CASE participants'[p] = participants[p]
    <3>1. CASE Written(t[2])
      BY <2>4, <3>1 DEF MarkerInv
    <3>2. CASE ~Written(t[2])
      <4>1. t[2] = q.id /\ p = q.sender
        BY <2>1, <2>2, <3>2
      <4>2. CASE Becomes(r, Idle)
        BY <2>u, <3>2, <4>2, OthersKeep DEF Written, Idle
      <4>3. CASE ~Becomes(r, Idle)
        <5>1. participants'[q.sender] # None => participants'[q.sender].read = q.id
          BY <1>2, <4>3, WriteSetsMarker DEF q
        <5> QED BY <2>3, <4>1, <5>1
      <4> QED BY <4>2, <4>3
    <3> QED BY <3>1, <3>2
  <2>5. CASE participants'[p] # participants[p]
    <3>1. participants'[p].read = q.id
      BY <1>p, <1>2, <2>5, WriteOutcomes DEF q
    <3> QED BY <2>3, <3>1
  <2> QED BY <2>4, <2>5
<1>3. ASSUME NEW u \in Users, DeleteUser(u) \/ ReviveUser(u) PROVE MarkerInv'
  <2>1. UNCHANGED <<requests, author, acked, before>>
    BY <1>3 DEF DeleteUser, ReviveUser, history
  <2>2. \A p \in Pids : participants'[p] \in {None, participants[p]}
    BY <1>3 DEF DeleteUser, ReviveUser
  <2> QED BY <1>p, <2>1, <2>2 DEF MarkerInv, Written
<1>4. ASSUME NEW r \in Requests,
             \/ SendLoad(r) \/ SendAnnounce(r) \/ SendReply(r)
             \/ \E p \in Pids : SendFind(r, p)
      PROVE  MarkerInv'
  <2>1. UNCHANGED <<author, before, participants>>
    BY <1>4 DEF SendLoad, SendAnnounce, SendReply, SendFind, store, history
  <2>2. \A n : Written(n)' => Written(n)
    <3> DEFINE q == requests[r]
    <3>0. q \in RequestRecords
      BY DEF TypeInv, TypeOK
    <3>1. CASE SendLoad(r)
      <4> DEFINE rec == [q EXCEPT !.pc = "write",
                                  !.found = participants[q.sender] # None]
      <4>1. rec.pc = "write"
        BY <3>0 DEF RequestRecords
      <4>2. Becomes(r, rec) /\ UNCHANGED acked
        BY <3>1 DEF SendLoad, history
      <4> HIDE DEF rec
      <4> QED BY <4>1, <4>2, OthersKeep DEF Written
    <3>2. CASE SendAnnounce(r)
      <4> DEFINE rec == [q EXCEPT !.pc = "reply"]
      <4>1. rec.id = q.id
        BY <3>0 DEF RequestRecords
      <4>2. Becomes(r, rec) /\ UNCHANGED acked /\ q.pc = "announce"
        BY <3>2 DEF SendAnnounce, At
      <4> HIDE DEF rec
      <4> QED BY <4>1, <4>2, OthersKeep DEF Written
    <3>3. CASE SendReply(r)
      <4>1. Becomes(r, Idle) /\ acked' = acked \cup {q.id} /\ q.pc = "reply"
        BY <3>3 DEF SendReply, At
      <4> QED BY <4>1, OthersKeep DEF Written, Idle
    <3>4. ASSUME NEW p \in Pids, SendFind(r, p)
          PROVE  \A n : Written(n)' => Written(n)
      <4> DEFINE rec == [Idle EXCEPT !.pc = "insert", !.sender = p, !.seen = acked]
      <4>1. rec.pc = "insert"
        BY DEF Idle
      <4>2. Becomes(r, rec) /\ UNCHANGED acked
        BY <3>4 DEF SendFind, history
      <4> HIDE DEF rec
      <4> QED BY <4>1, <4>2, OthersKeep DEF Written
    <3> QED BY <1>4, <3>1, <3>2, <3>3, <3>4
  <2> QED BY <2>1, <2>2 DEF MarkerInv
<1>5. ASSUME NEW s \in Sockets, SocketStep(s) PROVE MarkerInv'
  BY <1>5 DEF SocketStep, Connect, Validated, Disconnect, JoinConversation,
              LeaveConversation, SocketBecomes, store, history, MarkerInv, Written
<1>6. CASE Crash
  <2>1. UNCHANGED <<author, before, participants, acked>>
    BY <1>6 DEF Crash, store, history
  <2>2. \A n : Written(n)' => Written(n)
    BY <1>6, <2>1 DEF Crash, Written, Idle
  <2> QED BY <2>1, <2>2 DEF MarkerInv
<1>7. CASE UNCHANGED vars
  BY <1>7 DEF vars, store, history, MarkerInv, Written
<1> QED BY <1>1, <1>2, <1>3, <1>4, <1>5, <1>6, <1>7 DEF Next, Continue

\* A read marker never falls back behind what was settled.
THEOREM MarkersNeverFallBack == Spec => []MarkerNeverFallsBack
<1>1. Init => MarkerInv
  BY DEF Init, MarkerInv
<1>2. MarkerInv => MarkerNeverFallsBack
  BY DEF MarkerInv, Written, MarkerNeverFallsBack
<1> QED BY <1>1, <1>2, MarkerStep, TypeInvariant, LedgerInvariant,
           FreshInvariant, PTL DEF Spec

-----------------------------------------------------------------------------
(* Every stored message is announced.  A message that is neither announced   *)
(* nor deleted has a send in flight that carries its id; a send gives up on  *)
(* its message only when the message is already gone.                        *)

\* A message that is not deleted has the row of its sender, and a send that
\* did not find that row has lost its message.
SenderStored  == \A m \in Ids : messages[m] # None => participants[author[m]] # None
MissedIsGone  == \A r \in Requests :
                   At(r, "write") /\ ~requests[r].found => messages[requests[r].id] = None

Settled(m)     == m \in announced \/ messages[m] = None
Carries(r, m)  == requests[r].pc \in {"load", "write", "announce"} /\ requests[r].id = m
Carried        == \A m \in Posted : Settled(m) \/ \E r \in Requests : Carries(r, m)

\* What becomes of the messages stored before a step.
LEMMA MessagesKeep ==
  ASSUME TypeInv, Ledger, Fresh, [Next]_vars, NEW m \in Posted
  PROVE  /\ m \in Posted' /\ author'[m] = author[m]
         /\ messages'[m] \in {messages[m], None}
         /\ m \in announced => m \in announced'
<1>1. [Log!Next]_(Log!vars)
  BY LogSteps
<1>2. m \in announced => m \in announced'
  BY <1>1 DEF Log!Next, Log!vars, Log!Post, Log!Announce
<1>3. ASSUME NEW r \in Requests, SendInsert(r)
      PROVE  author'[m] = author[m] /\ messages'[m] = messages[m]
  <2>1. CASE participants[requests[r].sender] # None
    <3>1. m # nextId
      BY <2>1, <1>3, InsertOutcome DEF Posted
    <3> QED BY <2>1, <3>1, <1>3, InsertOutcome DEF Posted
  <2>2. CASE participants[requests[r].sender] = None
    BY <2>2, <1>3 DEF SendInsert
  <2> QED BY <2>1, <2>2
<1>4. author'[m] = author[m] /\ messages'[m] \in {messages[m], None}
  BY <1>3, StoreSteps DEF SendWrite, DeleteUser, store, history, Posted
<1> QED BY <1>2, <1>4 DEF Posted

LEMMA SettledKeeps ==
  ASSUME TypeInv, Ledger, Fresh, [Next]_vars, NEW m \in Posted, Settled(m)
  PROVE  Settled(m)'
  BY MessagesKeep DEF Settled

\* No row of participant_entity disappears but with the messages of its user.
LEMMA SenderStoredStep ==
  TypeInv /\ Ledger /\ Fresh /\ SenderStored /\ [Next]_vars => SenderStored'
<1> SUFFICES ASSUME TypeInv, Ledger, Fresh, SenderStored, [Next]_vars,
                    NEW m \in Ids, messages'[m] # None
             PROVE  participants'[author'[m]] # None
  BY DEF SenderStored
<1>1. ASSUME NEW r \in Requests, SendInsert(r) PROVE participants'[author'[m]] # None
  <2>1. CASE participants[requests[r].sender] # None
    BY <1>1, <2>1, InsertOutcome DEF SenderStored
  <2>2. CASE participants[requests[r].sender] = None
    BY <1>1, <2>2 DEF SendInsert, SenderStored
  <2> QED BY <2>1, <2>2
<1>2. ASSUME NEW r \in Requests, SendWrite(r) PROVE participants'[author'[m]] # None
  <2>1. UNCHANGED <<messages, author>>
    BY <1>2 DEF SendWrite, history
  <2>2. participants[author[m]] # None /\ author[m] = messages[m].sender
    BY <2>1 DEF SenderStored, Ledger, LedgerSenders
  <2>3. author[m] \in Pids
    BY <2>1, <2>2, NoneIsNoRow DEF TypeInv, TypeOK, MessageRows
  <2>4. /\ requests[r].sender \in Pids
        /\ [attached |-> FALSE, read |-> requests[r].id] \in ParticipantRows
    BY <1>2, WriteOutcomes, IdsAreNumbers DEF ParticipantRows
  <2>5. \/ UNCHANGED participants
        \/ participants' = [participants EXCEPT ![requests[r].sender].read = requests[r].id]
           /\ participants[requests[r].sender] # None
        \/ participants' = [participants EXCEPT
              ![requests[r].sender] = [attached |-> FALSE, read |-> requests[r].id]]
    BY <1>2 DEF SendWrite
  <2>6. requests[r].id \in Nat
    BY <1>2, WriteOutcomes, IdsAreNumbers
  <2>7. participants[requests[r].sender] # None =>
          [participants[requests[r].sender] EXCEPT !.read = requests[r].id] \in ParticipantRows
    BY <2>4, <2>6 DEF TypeInv, TypeOK, ParticipantRows
  <2> QED BY <2>1, <2>2, <2>3, <2>4, <2>5, <2>7, NoneIsNoRow DEF TypeInv, TypeOK
<1>3. ASSUME NEW u \in Users, DeleteUser(u) PROVE participants'[author'[m]] # None
  <2>1. author' = author
    BY <1>3 DEF DeleteUser, history
  <2>2. messages[m] # None /\ messages'[m] = messages[m]
    BY <1>3 DEF DeleteUser
  <2>3. author[m] = messages[m].sender /\ participants[author[m]] # None
    BY <2>2 DEF SenderStored, Ledger, LedgerSenders
  <2>4. author[m] \in Pids
    BY <2>2, <2>3, NoneIsNoRow DEF TypeInv, TypeOK, MessageRows
  <2> QED BY <1>3, <2>1, <2>2, <2>3, <2>4 DEF DeleteUser
<1>4. CASE UNCHANGED <<participants, messages, author>>
  BY <1>4 DEF SenderStored
<1> QED BY <1>1, <1>2, <1>3, <1>4, StoreSteps DEF store

\* The sends of a step: one that goes on, or none but for a crash.
LEMMA SendMoves ==
  ASSUME TypeInv, [Next]_vars, ~Crash, NEW r \in Requests
  PROVE  \/ requests'[r] = requests[r]
         \/ Continue(r)
         \/ At(r, "idle") /\ requests'[r].pc = "insert"
<1>1. ASSUME NEW q \in Requests, Continue(q), q # r PROVE requests'[r] = requests[r]
  <2>1. \E rec : Becomes(q, rec)
    BY <1>1 DEF Continue, SendInsert, SendLoad, SendWrite, SendAnnounce, SendReply
  <2> QED BY <1>1, <2>1, OthersKeep
<1>2. ASSUME NEW q \in Requests, NEW p \in Pids, SendFind(q, p)
      PROVE  \/ requests'[r] = requests[r]
             \/ At(r, "idle") /\ requests'[r].pc = "insert"
  <2> DEFINE rec == [Idle EXCEPT !.pc = "insert", !.sender = p, !.seen = acked]
  <2>1. Becomes(q, rec) /\ At(q, "idle") /\ rec.pc = "insert"
    BY <1>2 DEF SendFind, Idle
  <2> HIDE DEF rec
  <2> QED BY <2>1, OthersKeep
<1>3. ASSUME NEW u \in Users, DeleteUser(u) \/ ReviveUser(u)
      PROVE  requests'[r] = requests[r]
  BY <1>3 DEF DeleteUser, ReviveUser
<1>4. ASSUME NEW s \in Sockets, SocketStep(s) PROVE requests'[r] = requests[r]
  BY <1>4 DEF SocketStep, Connect, Validated, Disconnect, JoinConversation,
              LeaveConversation, SocketBecomes
<1>5. CASE UNCHANGED vars
  BY <1>5 DEF vars
<1> QED BY <1>1, <1>2, <1>3, <1>4, <1>5 DEF Next

\* A send that goes on with its message brings it one step on or has lost it.
LEMMA CarrierMoves ==
  ASSUME TypeInv, Ledger, Fresh, MissedIsGone, NEW r \in Requests, Continue(r),
         NEW m \in Posted, Carries(r, m)
  PROVE  \/ Settled(m)'
         \/ requests'[r].id = m /\ \/ At(r, "load")  /\ At(r, "write")'
                                   \/ At(r, "write") /\ At(r, "announce")'
<1> DEFINE q == requests[r]
           load  == [q EXCEPT !.pc = "write", !.found = participants[q.sender] # None]
           wrote == [q EXCEPT !.pc = "announce"]
<1>1. q \in RequestRecords /\ q.id = m
  BY DEF TypeInv, TypeOK, Carries
<1>2. load.pc = "write" /\ load.id = q.id /\ wrote.pc = "announce" /\ wrote.id = q.id
  BY <1>1 DEF RequestRecords
<1>3. CASE SendLoad(r)
  <2>1. Becomes(r, load)
    BY <1>3 DEF SendLoad
  <2> HIDE DEF load
  <2> QED BY <1>1, <1>2, <1>3, <2>1, OthersKeep DEF At, SendLoad
<1>4. CASE SendWrite(r)
  <2>1. At(r, "write") /\ messages' = messages /\ (Becomes(r, wrote) \/ ~q.found)
    BY <1>4 DEF SendWrite
  <2>2. ~q.found => Settled(m)'
    BY <1>1, <2>1 DEF MissedIsGone, Settled
  <2> HIDE DEF wrote
  <2> QED BY <1>1, <1>2, <2>1, <2>2, OthersKeep DEF At
<1>5. CASE SendAnnounce(r)
  BY <1>1, <1>5 DEF SendAnnounce, Settled
<1> QED BY <1>3, <1>4, <1>5 DEF Continue, Carries, SendInsert, SendReply, At

LEMMA MissedIsGoneStep ==
  TypeInv /\ Ledger /\ Fresh /\ SenderStored /\ MissedIsGone /\ [Next]_vars
    => MissedIsGone'
<1> SUFFICES ASSUME TypeInv, Ledger, Fresh, SenderStored, MissedIsGone, [Next]_vars,
                    NEW r \in Requests, At(r, "write")', ~requests'[r].found
             PROVE  messages'[requests'[r].id] = None
  BY DEF MissedIsGone
<1> DEFINE q == requests[r]
<1>1. CASE requests'[r] = requests[r]
  <2>1. At(r, "write") /\ messages[q.id] = None
    BY <1>1 DEF At, MissedIsGone
  <2>2. q.id \in Posted
    BY <2>1, MessagingAssumption
       DEF At, TypeInv, GoodRecord, Ledger, LedgerRequests, Posted, Stored
  <2> QED BY <1>1, <2>1, <2>2, MessagesKeep
<1>2. CASE Continue(r)
  <2>1. SendLoad(r)
    <3>1. Idle.pc = "idle"
      BY DEF Idle
    <3>2. q \in RequestRecords
      BY DEF TypeInv, TypeOK
    <3>3. /\ [q EXCEPT !.pc = "load", !.id = nextId].pc = "load"
          /\ [q EXCEPT !.pc = "announce"].pc = "announce"
          /\ [q EXCEPT !.pc = "reply"].pc = "reply"
      BY <3>2 DEF RequestRecords
    <3>4. SendInsert(r) \/ SendWrite(r) \/ SendAnnounce(r) \/ SendReply(r) =>
            \E rec \in {[q EXCEPT !.pc = "load", !.id = nextId],
                        [q EXCEPT !.pc = "announce"], [q EXCEPT !.pc = "reply"], Idle} :
               Becomes(r, rec)
      BY DEF SendInsert, SendWrite, SendAnnounce, SendReply
    <3>5. ASSUME NEW rec, Becomes(r, rec) PROVE rec.pc = "write"
      BY <3>5, OthersKeep DEF At
    <3> QED BY <1>2, <3>1, <3>3, <3>4, <3>5 DEF Continue
  <2> DEFINE load == [q EXCEPT !.pc = "write", !.found = participants[q.sender] # None]
  <2>2. Becomes(r, load) /\ q.pc = "load" /\ messages' = messages
    BY <2>1 DEF SendLoad, At, store
  <2>3. q \in RequestRecords /\ q.id \in Ids /\ q.sender = author[q.id]
    BY <2>2 DEF TypeInv, TypeOK, GoodRecord, Stored, Ledger, LedgerRequests
  <2>4. load.id = q.id /\ load.found = (participants[q.sender] # None)
    BY <2>3 DEF RequestRecords
  <2> HIDE DEF load
  <2>5. participants[author[q.id]] = None /\ requests'[r].id = q.id
    BY <2>2, <2>3, <2>4, OthersKeep
  <2> QED BY <2>2, <2>3, <2>5 DEF SenderStored
<1>3. CASE At(r, "idle") /\ requests'[r].pc = "insert"
  BY <1>3 DEF At
<1>4. CASE Crash
  BY <1>4 DEF Crash, At, Idle
<1> QED BY <1>1, <1>2, <1>3, <1>4, SendMoves

CarryInv == SenderStored /\ MissedIsGone

LEMMA CarryInvariant == Spec => []CarryInv
<1>1. Init => CarryInv
  BY DEF Init, CarryInv, SenderStored, MissedIsGone, At, Idle
<1>2. TypeInv /\ Ledger /\ Fresh /\ CarryInv /\ [Next]_vars => CarryInv'
  BY SenderStoredStep, MissedIsGoneStep DEF CarryInv
<1> QED BY <1>1, <1>2, TypeInvariant, LedgerInvariant, FreshInvariant, PTL DEF Spec

\* Without a crash every message that is not settled is carried.
LEMMA CarriedStep ==
  TypeInv /\ Ledger /\ Fresh /\ CarryInv /\ Carried /\ [Next]_vars /\ ~Crash => Carried'
<1> SUFFICES ASSUME TypeInv, Ledger, Fresh, CarryInv, Carried, [Next]_vars, ~Crash,
                    NEW m \in Posted', ~Settled(m)'
             PROVE  \E r \in Requests : Carries(r, m)'
  BY DEF Carried
<1>1. CASE m \in Posted
  <2>1. ~Settled(m)
    BY <1>1, SettledKeeps
  <2>2. PICK r \in Requests : Carries(r, m)
    BY <1>1, <2>1 DEF Carried
  <2>3. CASE requests'[r] = requests[r]
    BY <2>2, <2>3 DEF Carries
  <2>4. CASE Continue(r)
    BY <1>1, <2>2, <2>4, CarrierMoves DEF CarryInv, Carries, At
  <2> QED BY <2>2, <2>3, <2>4, SendMoves DEF Carries, At
<1>2. CASE m \notin Posted
  <2>1. author[m] = None /\ author'[m] # None
    BY <1>2 DEF Posted
  <2>2. PICK r \in Requests : SendInsert(r)
    BY <2>1, StoreSteps DEF SendWrite, DeleteUser, history
  <2>3. participants[requests[r].sender] # None
    BY <2>1, <2>2 DEF SendInsert
  <2>4. m = nextId
    BY <2>1, <2>2, <2>3, InsertOutcome DEF Posted
  <2> QED BY <2>2, <2>3, <2>4, InsertOutcome DEF Carries
<1> QED BY <1>1, <1>2

(* Fairness, written out: Served(r) is weak fairness of Continue(r), which   *)
(* can be taken while the send is in flight (and, in the model, the sequence *)
(* of ids is not used up).  It speaks of the infinite future, so that the [] *)
(* before it in the theorem adds nothing to it.                              *)
CanGoOn(r) == ~At(r, "idle") /\ ~(At(r, "insert") /\ nextId > MaxMessages)
Served(r)  == []<>~CanGoOn(r) \/ []<><<Continue(r)>>_vars

(* Every stored message is announced to its room or goes with its sender's   *)
(* account, if sends in flight are served and the process does not die: the  *)
(* two statements that save the read marker between the INSERT of a message  *)
(* and its emit never lose it, whatever is deleted meanwhile.                *)
THEOREM ServedMessagesAreAnnounced ==
  ASSUME MaxCrashes = 0
  PROVE  Spec /\ [](\A r \in Requests : Served(r)) => StoredIsAnnounced
<1> SUFFICES ASSUME NEW m \in Ids
             PROVE  Spec /\ [](\A r \in Requests : Served(r)) =>
                      (m \in Posted ~> (m \in announced \/ messages[m] = None))
  BY DEF StoredIsAnnounced
<1> DEFINE Inv == TypeInv /\ Ledger /\ Fresh /\ CarryInv /\ Carried
           P == m \in Posted
           D == Settled(m)
           On(r, S) == P /\ Carries(r, m) /\ requests[r].pc \in S
           Fair == \A r \in Requests : Served(r)
           Rest == []Inv /\ [][Next]_vars /\ []Fair
<1>1. Spec => []Inv
  <2>1. Init => Carried
    BY DEF Init, Carried, Posted
  <2>2. TypeInv => ~Crash
    BY DEF Crash, TypeInv, TypeOK
  <2>3. TypeInv /\ Ledger /\ Fresh /\ CarryInv /\ Carried /\ [Next]_vars => Carried'
    BY <2>2, CarriedStep
  <2> QED BY <2>1, <2>3, TypeInvariant, LedgerInvariant, FreshInvariant,
             CarryInvariant, PTL DEF Spec
<1>2. ASSUME NEW r \in Requests
      PROVE  Rest => (On(r, {"load", "write", "announce"}) ~> D)
  <2> DEFINE Q3 == On(r, {"load", "write", "announce"})
             Q2 == On(r, {"write", "announce"})
             Q1 == On(r, {"announce"})
  <2>1. ASSUME Inv, [Next]_vars, NEW S \in {{"load", "write", "announce"}, {"write", "announce"},
                                         {"announce"}}, On(r, S)
        PROVE  On(r, S)' \/ D'
    <3>1. P' /\ ~Crash
      BY <2>1, MessagesKeep DEF Crash, TypeInv, TypeOK
    <3>2. CASE requests'[r] = requests[r]
      BY <2>1, <3>1, <3>2 DEF Carries
    <3>3. CASE Continue(r)
      BY <2>1, <3>1, <3>3, CarrierMoves DEF CarryInv, Carries, At
    <3> QED BY <2>1, <3>1, <3>2, <3>3, SendMoves DEF Carries, At
  <2>2. Inv /\ Q3 /\ <<Continue(r)>>_vars => Q2' \/ D'
    BY CarrierMoves, MessagesKeep DEF CarryInv, Carries, At, Next
  <2>3. Inv /\ Q2 /\ <<Continue(r)>>_vars => Q1' \/ D'
    BY CarrierMoves, MessagesKeep DEF CarryInv, Carries, At, Next
  <2>4. Inv /\ Q1 /\ <<Continue(r)>>_vars => D'
    BY CarrierMoves, MessagesKeep DEF CarryInv, Carries, At, Next
  <2>5. /\ Inv /\ Q3 /\ [Next]_vars => Q3' \/ D'
        /\ Inv /\ Q2 /\ [Next]_vars => Q2' \/ D'
        /\ Inv /\ Q1 /\ [Next]_vars => Q1' \/ D'
    BY <2>1
  <2>6. (Q3 => CanGoOn(r)) /\ (Q2 => CanGoOn(r)) /\ (Q1 => CanGoOn(r))
    BY DEF CanGoOn, Carries, At
  <2>7. Fair => Served(r)
    OBVIOUS
  <2> HIDE DEF Inv, P, D, On, Fair
  <2>8. Rest => []<>~CanGoOn(r) \/ []<><<Continue(r)>>_vars
    BY <2>7, PTL DEF Served
  <2> QED BY <2>2, <2>3, <2>4, <2>5, <2>6, <2>8, PTL
<1>3. (\A r \in Requests : On(r, {"load", "write", "announce"}) ~> D) =>
        ((\E r \in Requests : On(r, {"load", "write", "announce"})) => <>D)
  <2> SUFFICES ASSUME NEW r \in Requests
               PROVE  (On(r, {"load", "write", "announce"}) ~> D) =>
                        (On(r, {"load", "write", "announce"}) => <>D)
    OBVIOUS
  <2> HIDE DEF On, D
  <2> QED BY PTL
<1>4. Inv /\ P => D \/ \E r \in Requests : On(r, {"load", "write", "announce"})
  BY DEF Carried, Carries
<1>5. Rest => []Rest
  <2> HIDE DEF Inv, Fair
  <2> QED BY PTL
<1>6. Rest => \A r \in Requests : On(r, {"load", "write", "announce"}) ~> D
  BY <1>2
<1> HIDE DEF Inv, P, D, On, Fair
<1>7. Rest => (P ~> D)
  BY <1>3, <1>4, <1>5, <1>6, PTL
<1>8. Spec /\ []Fair => (P ~> D)
  BY <1>1, <1>7, PTL DEF Spec
<1> QED BY <1>8 DEF P, D, Settled, Fair

-----------------------------------------------------------------------------
(* What reaches the clients: no message twice, and none that is not stored.  *)

\* No client hears a message twice.
HeardOnce == \A s \in Sockets : \A i, j \in DOMAIN heard[s] :
               heard[s][i] = heard[s][j] => i = j

\* What a client heard is stored as long as its author keeps the account.
HeardIsStored == \A s \in Sockets : \A i \in DOMAIN heard[s] :
                   author[heard[s][i]][1] \in Kept => messages[heard[s][i]] # None

LEMMA HeardOnceStep ==
  ASSUME TypeInv, HeardAnnounced, HeardOnce, [Log!Next]_(Log!vars)
  PROVE  HeardOnce'
<1>1. CASE heard' = heard
  BY <1>1 DEF HeardOnce
<1>2. ASSUME NEW m \in Posted, NEW audience \in SUBSET Sockets, Log!Announce(m, audience)
      PROVE  HeardOnce'
  <2> SUFFICES ASSUME NEW s \in Sockets,
                      NEW i \in DOMAIN heard'[s], NEW j \in DOMAIN heard'[s],
                      heard'[s][i] = heard'[s][j]
               PROVE  i = j
    BY DEF HeardOnce
  <2>1. heard[s] \in Seq(Ids)
    BY DEF TypeInv, TypeOK
  <2>2. m \notin announced
    BY <1>2 DEF Log!Announce
  <2>3. CASE s \notin audience
    BY <1>2, <2>3 DEF Log!Announce, HeardOnce
  <2>4. CASE s \in audience
    <3>1. heard'[s] = Append(heard[s], m)
      BY <1>2, <2>4 DEF Log!Announce
    <3>2. \A k \in DOMAIN heard[s] : heard[s][k] # m
      BY <2>2 DEF HeardAnnounced
    <3> QED BY <2>1, <3>1, <3>2 DEF HeardOnce
  <2> QED BY <2>3, <2>4
<1> QED BY <1>1, <1>2 DEF Log!Next, Log!Post, Log!vars

(* A client hears every message at most once, however often it joins and     *)
(* leaves the room and whichever sends overlap.                              *)
THEOREM NobodyHearsTwice == Spec => []HeardOnce
<1>1. Init => HeardOnce
  BY DEF Init, HeardOnce
<1>2. TypeInv /\ Ledger /\ Fresh /\ HeardAnnounced /\ HeardOnce /\ [Next]_vars => HeardOnce'
  BY LogSteps, HeardOnceStep
<1> QED BY <1>1, <1>2, CausalAlways, TypeInvariant, LedgerInvariant, FreshInvariant, PTL
        DEF Spec, CausalInv

(* What a client heard is stored, unless its author's account was deleted:   *)
(* no send that failed is ever announced.                                    *)
THEOREM NobodyHearsPhantoms == Spec => []HeardIsStored
<1>1. TypeInv /\ Ledger /\ Fresh /\ HeardAnnounced => HeardIsStored
  BY DEF TypeInv, TypeOK, Ledger, LedgerStored, Fresh, AckedLast, Posted, HeardAnnounced,
         HeardIsStored
<1> QED BY <1>1, CausalAlways, TypeInvariant, LedgerInvariant, FreshInvariant, PTL
        DEF CausalInv

=============================================================================
