----------------------------- MODULE Messaging -----------------------------
(* Messages of the chat backend: MessageService.sendMessage, the read marker *)
(* of the sender, the rooms and events of ChatGateway, and the deletion of   *)
(* an account with what the foreign keys cascade to.                         *)
(* sendMessage is cut at its awaits; save() of a loaded entity is two        *)
(* statements, a SELECT of the row and an UPDATE or an INSERT.  The row of   *)
(* participant_entity is named by its user and conversation, which are       *)
(* unique together.                                                          *)
EXTENDS Naturals, Sequences

CONSTANTS Users,       \* account ids
          Admins,      \* users that a conversation names as its admin
          Convs,       \* conversations; every user takes part in every one
          Sockets,     \* socket.io clients
          Requests,    \* sends that may be in flight together
          MaxMessages, \* bound on the message ids
          MaxCrashes,  \* bound on the crashes of the process
          None         \* no row, no participant

\* A participant row is named by its user and conversation.
Pids == Users \X Convs

ASSUME MessagingAssumption ==
  /\ Admins \subseteq Users
  /\ MaxMessages \in Nat
  /\ MaxCrashes \in Nat
  /\ None \notin Pids
  /\ None \notin Convs

VARIABLES users,        \* accounts that have a row
          deleted,      \* history: accounts that were deleted at some time
          participants, \* rows of participant_entity
          messages,     \* rows of message_entity
          nextId,       \* the sequence of message ids
          requests,     \* the sends in flight
          sockets,      \* the connections and their rooms
          heard,        \* history: what reached each client, in order
          crashes,      \* crashes so far
          author,       \* history: who sent each message ever stored
          announced,    \* history: messages that were emitted
          acked,        \* history: messages whose sender got the answer
          before        \* history: <<m, n>>: m acknowledged before n's send began

accounts == <<users, deleted>>
store   == <<accounts, participants, messages, nextId>>
history == <<author, announced, acked, before>>
vars    == <<store, history, requests, sockets, heard, crashes>>

-----------------------------------------------------------------------------
Ids == 1 .. MaxMessages

\* attached is FALSE in a row whose conversationId and userId are NULL.
ParticipantRows == [attached : BOOLEAN, read : Nat]
MessageRows     == [sender : Pids, conv : Convs]

ASSUME NoneIsNoRow == None \notin ParticipantRows /\ None \notin MessageRows

Pcs == {"idle", "insert", "load", "write", "announce", "reply"}

\* found is what save's SELECT returned, seen (history) the messages
\* acknowledged when the send began.
RequestRecords == [pc : Pcs, sender : Pids \cup {None}, id : Nat,
                   found : BOOLEAN, seen : SUBSET Nat]

Idle == [pc |-> "idle", sender |-> None, id |-> 0, found |-> FALSE, seen |-> {}]

\* user tells whether client.user is set: "checking" until validateAccessToken
\* has answered, "unset" when the token is not the cached one.
SocketRecords == [user : {"off", "checking", "set", "unset"}, rooms : SUBSET Convs]
Offline       == [user |-> "off", rooms |-> {}]

Init ==
  /\ users = Users /\ deleted = {}
  /\ participants = [p \in Pids |-> [attached |-> TRUE, read |-> 0]]
  /\ messages = [i \in Ids |-> None]
  /\ nextId = 1
  /\ requests = [r \in Requests |-> Idle]
  /\ sockets = [s \in Sockets |-> Offline]
  /\ heard = [s \in Sockets |-> <<>>]
  /\ crashes = 0
  /\ author = [i \in Ids |-> None]
  /\ announced = {} /\ acked = {} /\ before = {}

At(r, pc)       == requests[r].pc = pc
Becomes(r, rec) == requests' = [requests EXCEPT ![r] = rec]

-----------------------------------------------------------------------------
(* sendMessage *)

\* Mutant: the read marker is saved before the message.
SendFindMarks(r, p) ==
  /\ At(r, "idle")
  /\ nextId <= MaxMessages
  /\ participants[p] # None /\ participants[p].attached
  /\ participants' = [participants EXCEPT ![p].read = nextId]
  /\ Becomes(r, [Idle EXCEPT !.pc = "insert", !.sender = p, !.seen = acked])
  /\ UNCHANGED <<accounts, messages, nextId, history, sockets, heard, crashes>>

\* getParticipantByConversationIdOrFail finds the row of the sender, whom the
\* JWT guard let through; no row is a 404 and changes nothing. 
SendFind(r, p) ==
  /\ At(r, "idle")
  /\ nextId <= MaxMessages
  /\ participants[p] # None /\ participants[p].attached
  /\ Becomes(r, [Idle EXCEPT !.pc = "insert", !.sender = p, !.seen = acked])
  /\ UNCHANGED <<store, history, sockets, heard, crashes>>

\* INSERT of the message.  The foreign key refuses a sender without a row, a
\* 500; the sequence has advanced all the same.  (MaxMessages bounds it.)
SendInsert(r) ==
  /\ At(r, "insert")
  /\ nextId <= MaxMessages
  /\ LET q == requests[r] IN
     /\ nextId' = nextId + 1
     /\ \/ /\ participants[q.sender] # None
           /\ messages' = [messages EXCEPT
                ![nextId] = [sender |-> q.sender, conv |-> q.sender[2]]]
           /\ author' = [author EXCEPT ![nextId] = q.sender]
           /\ before' = before \cup (q.seen \X {nextId})
           /\ Becomes(r, [q EXCEPT !.pc = "load", !.id = nextId])
        \/ /\ participants[q.sender] = None
           /\ Becomes(r, Idle)
           /\ UNCHANGED <<messages, author, before>>
  /\ UNCHANGED <<accounts, participants, announced, acked, sockets, heard, crashes>>

\* save(participant) loads the row to find out what to write.
SendLoad(r) ==
  /\ At(r, "load")
  /\ Becomes(r, [requests[r] EXCEPT !.pc = "write",
                   !.found = participants[requests[r].sender] # None])
  /\ UNCHANGED <<store, history, sockets, heard, crashes>>

\* Mutant: the inserted row keeps its conversation and user.
SendWriteAttached(r) ==
  /\ At(r, "write")
  /\ LET q    == requests[r]
         live == participants[q.sender] # None
     IN /\ participants' = [participants EXCEPT ![q.sender] =
             IF live THEN [@ EXCEPT !.read = q.id]
             ELSE IF q.found THEN @ ELSE [attached |-> TRUE, read |-> q.id]]
        /\ Becomes(r, [q EXCEPT !.pc = "announce"])
  /\ UNCHANGED <<accounts, messages, nextId, history, sockets, heard, crashes>>

\* Mutant: a marker that is set is not moved.
SendWriteOnce(r) ==
  /\ At(r, "write")
  /\ LET q    == requests[r]
         live == participants[q.sender] # None
     IN /\ participants' = [participants EXCEPT ![q.sender] =
             IF live /\ @.read = 0 THEN [@ EXCEPT !.read = q.id] ELSE @]
        /\ Becomes(r, [q EXCEPT !.pc = "announce"])
  /\ UNCHANGED <<accounts, messages, nextId, history, sockets, heard, crashes>>

\* Mutant: the sender is answered before the message is announced.
SendWriteAnswers(r) ==
  /\ At(r, "write")
  /\ LET q    == requests[r]
         live == participants[q.sender] # None
     IN /\ participants' = [participants EXCEPT ![q.sender] =
             IF live THEN [@ EXCEPT !.read = q.id] ELSE @]
        /\ acked' = acked \cup {q.id}
        /\ Becomes(r, [q EXCEPT !.pc = "announce"])
  /\ UNCHANGED <<accounts, messages, nextId, author, announced, before, sockets,
                 heard, crashes>>

\* Mutant: a marker that is already beyond the message is an error.
SendWriteRefuses(r) ==
  /\ At(r, "write")
  /\ LET q    == requests[r]
         live == participants[q.sender] # None
     IN \/ /\ live /\ participants[q.sender].read > q.id
           /\ Becomes(r, Idle)
           /\ UNCHANGED participants
        \/ /\ live => participants[q.sender].read < q.id
           /\ participants' = [participants EXCEPT ![q.sender] =
                IF live THEN [@ EXCEPT !.read = q.id] ELSE @]
           /\ Becomes(r, [q EXCEPT !.pc = "announce"])
  /\ UNCHANGED <<accounts, messages, nextId, history, sockets, heard, crashes>>

\* A row that was found gets its read marker set, an update of no row when it
\* is gone by now.  A row that was not found is inserted under the same id,
\* and since the entity was loaded without its relations it belongs to no
\* conversation and no user; a second insert breaks the primary key, a 500.
SendWrite(r) ==
  /\ At(r, "write")
  /\ LET q    == requests[r]
         live == participants[q.sender] # None
     IN \/ /\ q.found /\ live
           /\ participants' = [participants EXCEPT ![q.sender].read = q.id]
           /\ Becomes(r, [q EXCEPT !.pc = "announce"])
        \/ /\ q.found /\ ~live
           /\ Becomes(r, [q EXCEPT !.pc = "announce"])
           /\ UNCHANGED participants
        \/ /\ ~q.found /\ ~live
           /\ participants' = [participants EXCEPT
                ![q.sender] = [attached |-> FALSE, read |-> q.id]]
           /\ Becomes(r, [q EXCEPT !.pc = "announce"])
        \/ /\ ~q.found /\ live
           /\ Becomes(r, Idle)
           /\ UNCHANGED participants
  /\ UNCHANGED <<accounts, messages, nextId, history, sockets, heard, crashes>>

\* newMessageEvent: one emit to the sockets that are in the room now.
SendAnnounce(r) ==
  /\ At(r, "announce")
  /\ LET q == requests[r] IN
     /\ heard' = [s \in Sockets |-> IF q.sender[2] \in sockets[s].rooms
                                    THEN Append(heard[s], q.id) ELSE heard[s]]
     /\ announced' = announced \cup {q.id}
     /\ Becomes(r, [q EXCEPT !.pc = "reply"])
  /\ UNCHANGED <<store, author, acked, before, sockets, crashes>>

\* Mutant: the handler emits the message once more with the answer.
SendReplyEmits(r) ==
  /\ At(r, "reply")
  /\ LET q == requests[r] IN
     heard' = [s \in Sockets |-> IF q.sender[2] \in sockets[s].rooms
                                 THEN Append(heard[s], q.id) ELSE heard[s]]
  /\ acked' = acked \cup {requests[r].id}
  /\ Becomes(r, Idle)
  /\ UNCHANGED <<store, author, announced, before, sockets, crashes>>

\* The sender gets the answer.
SendReply(r) ==
  /\ At(r, "reply")
  /\ acked' = acked \cup {requests[r].id}
  /\ Becomes(r, Idle)
  /\ UNCHANGED <<store, author, announced, before, sockets, heard, crashes>>

-----------------------------------------------------------------------------
\* Mutant: the deletion takes all messages of the user's conversations along.
DeleteUserAll(u) ==
  LET gone(p) == p[1] = u /\ participants[p] # None /\ participants[p].attached
  IN
  /\ u \in users \ Admins
  /\ users' = users \ {u} /\ deleted' = deleted \cup {u}
  /\ participants' = [p \in Pids |-> IF gone(p) THEN None ELSE participants[p]]
  /\ messages' = [i \in Ids |-> None]
  /\ UNCHANGED <<nextId, requests, history, sockets, heard, crashes>>

\* DELETE of an account: its participant rows go with it and their messages
\* with those.  The row of an admin is refused.
DeleteUser(u) ==
  LET gone(p) == p[1] = u /\ participants[p] # None /\ participants[p].attached
  IN
  /\ u \in users \ Admins
  /\ users' = users \ {u} /\ deleted' = deleted \cup {u}
  /\ participants' = [p \in Pids |-> IF gone(p) THEN None ELSE participants[p]]
  /\ messages' = [i \in Ids |->
       IF messages[i] # None /\ gone(messages[i].sender) THEN None ELSE messages[i]]
  /\ UNCHANGED <<nextId, requests, history, sockets, heard, crashes>>

\* A password change that loaded the account before it was deleted saves it
\* back; its participant rows do not come back with it.
ReviveUser(u) ==
  /\ u \in deleted \ users
  /\ users' = users \cup {u}
  /\ UNCHANGED <<deleted, participants, messages, nextId, requests, history,
                 sockets, heard, crashes>>

-----------------------------------------------------------------------------
(* ChatGateway *)

SocketBecomes(s, rec) ==
  /\ sockets' = [sockets EXCEPT ![s] = rec]
  /\ UNCHANGED <<store, history, requests, heard, crashes>>

\* handleConnection with a token in the cookie; without one the client is
\* disconnected at once.
Connect(s) ==
  /\ sockets[s].user = "off"
  /\ SocketBecomes(s, [user |-> "checking", rooms |-> {}])

\* validateAccessToken answers with the user, or with none when the token is
\* not the cached one; the client stays connected in both cases.
Validated(s) ==
  /\ sockets[s].user = "checking"
  /\ \E answer \in {"set", "unset"} :
        SocketBecomes(s, [sockets[s] EXCEPT !.user = answer])

\* validateAccessToken throws and handleConnection disconnects the client, or
\* the client goes by itself: socket.io takes it out of its rooms.
Disconnect(s) ==
  /\ sockets[s].user # "off"
  /\ SocketBecomes(s, Offline)

\* Mutant: the room is taken from a field the payload does not have.
JoinNothing(s, c) ==
  /\ sockets[s].user # "off"
  /\ SocketBecomes(s, [sockets[s] EXCEPT !.rooms = @ \cup {None}])

\* join:conversation does not wait for the validation.
JoinConversation(s, c) ==
  /\ sockets[s].user # "off"
  /\ SocketBecomes(s, [sockets[s] EXCEPT !.rooms = @ \cup {c}])

\* leave reads client.user first: without one it throws and the socket stays.
LeaveConversation(s, c) ==
  /\ sockets[s].user = "set"
  /\ SocketBecomes(s, [sockets[s] EXCEPT !.rooms = @ \ {c}])

-----------------------------------------------------------------------------
\* The process dies: requests and connections are lost, the database is not.
Crash ==
  /\ crashes < MaxCrashes
  /\ crashes' = crashes + 1
  /\ requests' = [r \in Requests |-> Idle]
  /\ sockets' = [s \in Sockets |-> Offline]
  /\ UNCHANGED <<store, history, heard>>

SocketStep(s) ==
  \/ Connect(s) \/ Validated(s) \/ Disconnect(s)
  \/ \E c \in Convs : JoinConversation(s, c) \/ LeaveConversation(s, c)

Continue(r) == \/ SendInsert(r) \/ SendLoad(r) \/ SendWrite(r)
               \/ SendAnnounce(r) \/ SendReply(r)

Next == \/ \E r \in Requests : Continue(r) \/ \E p \in Pids : SendFind(r, p)
        \/ \E u \in Users : DeleteUser(u) \/ ReviveUser(u)
        \/ \E s \in Sockets : SocketStep(s)
        \/ Crash

\* The database answers, so a send in flight goes on.
Fairness == \A r \in Requests : WF_vars(Continue(r))

Spec     == Init /\ [][Next]_vars
FairSpec == Spec /\ Fairness

-----------------------------------------------------------------------------
(* Properties *)

TypeOK ==
  /\ users \subseteq Users /\ deleted \subseteq Users
  /\ participants \in [Pids -> ParticipantRows \cup {None}]
  /\ messages \in [Ids -> MessageRows \cup {None}]
  /\ nextId \in 1 .. MaxMessages + 1
  /\ requests \in [Requests -> RequestRecords]
  /\ sockets \in [Sockets -> SocketRecords]
  /\ heard \in [Sockets -> Seq(Ids)]
  /\ crashes \in Nat
  /\ author \in [Ids -> Pids \cup {None}]
  /\ announced \subseteq Ids /\ acked \subseteq Ids
  /\ before \subseteq Ids \X Ids

\* The users whose account was never deleted.
Kept == users \ deleted

\* A user whose account was never deleted keeps its place in its conversations,
\* and no one else has one: neither the save of a read marker that ends after
\* the deletion nor the save of the whole account brings a membership back.
MembershipFollowsAccount ==
  \A p \in Pids : (p[1] \in Kept) <=>
                  (participants[p] # None /\ participants[p].attached)

\* A member's read marker is 0 or the id of a stored message it sent itself.
ReadMarkerSound ==
  \A p \in Pids :
    participants[p] # None /\ participants[p].attached =>
      LET m == participants[p].read IN
        m = 0 \/ (m \in Ids /\ messages[m] # None /\ messages[m].sender = p)

\* Overlapping sends of one member may set its marker in either order, but it
\* never falls back to a message acknowledged before a later, by now also
\* acknowledged, send began.
MarkerNeverFallsBack ==
  \A t \in before :
    LET p == author[t[2]] IN
      t[2] \in acked /\ participants[p] # None /\ participants[p].attached
        => participants[p].read # t[1]

\* A message whose sender got the answer stays stored as long as the sender's
\* account was not deleted.
AckedDurable ==
  \A m \in acked : author[m][1] \in Kept => messages[m] # None

Position(s, m) == {i \in DOMAIN heard[s] : heard[s][i] = m}

\* No client hears a message before one that was acknowledged when its send
\* began.
CausalOrder ==
  \A t \in before, s \in Sockets :
    \A i \in Position(s, t[1]), j \in Position(s, t[2]) : i < j

\* The chat implements the abstract log.
Posted == {m \in Ids : author[m] # None}
Log == INSTANCE ChatLog WITH posted <- Posted
LogRefinement == Log!Spec

\* A stored message is announced, or goes with its sender's account.
StoredIsAnnounced ==
  \A m \in Ids : m \in Posted ~> (m \in announced \/ messages[m] = None)

=============================================================================
