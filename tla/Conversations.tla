--------------------------- MODULE Conversations ---------------------------
(* ConversationService of the chat backend: the creation of group and        *)
(* one-to-one conversations by overlapping requests, with the deletion of    *)
(* accounts and crashes in between.  A handler is cut at its awaits; each    *)
(* save commits by itself, and the saves of the participants, started        *)
(* together, take effect in any order.  No code deletes a conversation.      *)
EXTENDS Naturals

CONSTANTS Users,       \* account ids
          Requests,    \* creations that may be in flight together
          MaxConvs,    \* bound on the conversation ids
          MaxCrashes,  \* bound on the crashes of the process
          None         \* no row, nobody

ASSUME ConversationsAssumption ==
  /\ MaxConvs \in Nat
  /\ MaxCrashes \in Nat
  /\ None \notin Users

VARIABLES users,          \* accounts that have a row
          deleted,        \* history: accounts that were deleted at some time
          conversations,  \* rows of conversation_entity
          participants,   \* rows of participant_entity: pairs <<c, u>>
          nextId,         \* the sequence of conversation ids
          requests,       \* the creations in flight
          crashes,        \* crashes so far
          asked,          \* history: the members each conversation is for, or {}
          acked,          \* history: conversations whose creator got the answer
          lost,           \* history: conversations a crash caught half made
          before          \* history: <<c, d>>: c acknowledged before d's
                          \* creation began

history == <<asked, acked, lost, before>>
vars    == <<users, deleted, conversations, participants, nextId, requests,
             crashes, history>>

-----------------------------------------------------------------------------
Ids   == 1 .. MaxConvs
Kinds == {"Group", "OneToOne"}
Rows  == [type : Kinds, admin : Users]

ASSUME NoneIsNoConversation == None \notin Rows

\* others is the payload, todo the members whose save has not come back yet;
\* seen (history) holds the conversations acknowledged at the start.  What a
\* request does not use any more is reset.
RequestRecords ==
  [pc : {"idle", "find", "check", "store", "join"}, type : Kinds,
   admin : Users \cup {None}, others : SUBSET Users, id : Nat,
   todo : SUBSET Users, failed : BOOLEAN, seen : SUBSET Nat]

Idle == [pc |-> "idle", type |-> "Group", admin |-> None, others |-> {},
         id |-> 0, todo |-> {}, failed |-> FALSE, seen |-> {}]

Init ==
  /\ users = Users /\ deleted = {}
  /\ conversations = [c \in Ids |-> None]
  /\ participants = {}
  /\ nextId = 1
  /\ requests = [r \in Requests |-> Idle]
  /\ crashes = 0
  /\ asked = [c \in Ids |-> {}]
  /\ acked = {} /\ lost = {} /\ before = {}

At(r, pc)       == requests[r].pc = pc
Becomes(r, rec) == requests' = [requests EXCEPT ![r] = rec]
Members(q)      == {q.admin} \cup q.others

-----------------------------------------------------------------------------
(* The checks before anything is stored *)

\* POST group: the guard lets the user through, and the payload does not name
\* the user itself.
StartGroup(r, u, others) ==
  /\ At(r, "idle")
  /\ u \in users /\ u \notin others
  /\ Becomes(r, [Idle EXCEPT !.pc = "find", !.type = "Group", !.admin = u,
                             !.others = others, !.seen = acked])
  /\ UNCHANGED <<users, deleted, conversations, participants, nextId, crashes,
                 history>>

\* POST one-to-one with another user.
StartOneToOne(r, u, other) ==
  /\ At(r, "idle")
  /\ u \in users /\ u # other
  /\ Becomes(r, [Idle EXCEPT !.pc = "find", !.type = "OneToOne", !.admin = u,
                             !.others = {other}, !.seen = acked])
  /\ UNCHANGED <<users, deleted, conversations, participants, nextId, crashes,
                 history>>

\* findByIds must return every one of the list, or the answer is a 400.
FindGroup(r) ==
  /\ At(r, "find") /\ requests[r].type = "Group"
  /\ \/ /\ requests[r].others \subseteq users
        /\ Becomes(r, [requests[r] EXCEPT !.pc = "store"])
     \/ /\ ~(requests[r].others \subseteq users)
        /\ Becomes(r, Idle)
  /\ UNCHANGED <<users, deleted, conversations, participants, nextId, crashes,
                 history>>

\* findOne of the other user, or 404.
FindOther(r) ==
  /\ At(r, "find") /\ requests[r].type = "OneToOne"
  /\ \/ /\ requests[r].others \subseteq users
        /\ Becomes(r, [requests[r] EXCEPT !.pc = "check"])
     \/ /\ ~(requests[r].others \subseteq users)
        /\ Becomes(r, Idle)
  /\ UNCHANGED <<users, deleted, conversations, participants, nextId, crashes,
                 history>>

\* A one-to-one conversation in which both take part.
Existing(members) ==
  {c \in Ids : /\ conversations[c] # None
               /\ conversations[c].type = "OneToOne"
               /\ \A u \in members : <<c, u>> \in participants}

\* Mutant: only a conversation that the caller opened itself is found.
CheckPairOwn(r) ==
  /\ At(r, "check")
  /\ LET own == {c \in Existing(Members(requests[r])) :
                   conversations[c].admin = requests[r].admin}
     IN \/ own = {} /\ Becomes(r, [requests[r] EXCEPT !.pc = "store"])
        \/ own # {} /\ Becomes(r, Idle)
  /\ UNCHANGED <<users, deleted, conversations, participants, nextId, crashes,
                 history>>

\* The pair must have none yet, or the answer is a 400.  (Two queries: the ids
\* of the conversations of both, then those of them that are one-to-one; types
\* never change and conversations are never deleted.)
CheckPair(r) ==
  /\ At(r, "check")
  /\ \/ /\ Existing(Members(requests[r])) = {}
        /\ Becomes(r, [requests[r] EXCEPT !.pc = "store"])
     \/ /\ Existing(Members(requests[r])) # {}
        /\ Becomes(r, Idle)
  /\ UNCHANGED <<users, deleted, conversations, participants, nextId, crashes,
                 history>>

-----------------------------------------------------------------------------
(* The rows *)

\* Mutant: the conversation is stored without its admin.
StoreNobody(r) ==
  /\ At(r, "store")
  /\ nextId \in Ids
  /\ nextId' = nextId + 1
  /\ LET q == requests[r] IN
     /\ conversations' = [conversations EXCEPT
          ![nextId] = [type |-> q.type, admin |-> None]]
     /\ asked' = [asked EXCEPT ![nextId] = Members(q)]
     /\ before' = before \cup (q.seen \X {nextId})
     /\ Becomes(r, [Idle EXCEPT !.pc = "join", !.id = nextId,
                                !.todo = Members(q)])
  /\ UNCHANGED <<users, deleted, participants, crashes, acked, lost>>

\* INSERT of the conversation.  The foreign key refuses an admin without a
\* row, a 500; the sequence has advanced all the same.
Store(r) ==
  /\ At(r, "store")
  /\ nextId \in Ids
  /\ nextId' = nextId + 1
  /\ LET q == requests[r] IN
     \/ /\ q.admin \in users
        /\ conversations' = [conversations EXCEPT
             ![nextId] = [type |-> q.type, admin |-> q.admin]]
        /\ asked' = [asked EXCEPT ![nextId] = Members(q)]
        /\ before' = before \cup (q.seen \X {nextId})
        /\ Becomes(r, [Idle EXCEPT !.pc = "join", !.id = nextId,
                                   !.todo = Members(q)])
     \/ /\ q.admin \notin users
        /\ Becomes(r, Idle)
        /\ UNCHANGED <<conversations, asked, before>>
  /\ UNCHANGED <<users, deleted, participants, crashes, acked, lost>>

\* Mutant: the participants are saved one after the other, up to a refused one.
JoinUntilRefused(r, u) ==
  /\ At(r, "join")
  /\ LET q == requests[r] IN
     /\ u \in q.todo
     /\ \/ /\ u \in users
           /\ participants' = participants \cup {<<q.id, u>>}
           /\ Becomes(r, [q EXCEPT !.todo = @ \ {u}])
        \/ /\ u \notin users
           /\ Becomes(r, [q EXCEPT !.todo = {}, !.failed = TRUE])
           /\ UNCHANGED participants
  /\ UNCHANGED <<users, deleted, conversations, nextId, crashes, history>>

\* One of the saves of Promise.all takes effect; the foreign key refuses a user
\* without a row, which fails the request and stops none of the other saves.
Join(r, u) ==
  /\ At(r, "join")
  /\ LET q == requests[r] IN
     /\ u \in q.todo
     /\ \/ /\ u \in users
           /\ participants' = participants \cup {<<q.id, u>>}
           /\ Becomes(r, [q EXCEPT !.todo = @ \ {u}])
        \/ /\ u \notin users
           /\ Becomes(r, [q EXCEPT !.todo = @ \ {u}, !.failed = TRUE])
           /\ UNCHANGED participants
  /\ UNCHANGED <<users, deleted, conversations, nextId, crashes, history>>

\* Mutant: Promise.all is not awaited.
AnswerAtOnce(r) ==
  /\ At(r, "join")
  /\ acked' = acked \cup {requests[r].id}
  /\ Becomes(r, Idle)
  /\ UNCHANGED <<users, deleted, conversations, participants, nextId, crashes,
                 asked, lost, before>>

\* All saves are over: "Successfully created", or a 500 if one was refused.
Answer(r) ==
  /\ At(r, "join")
  /\ requests[r].todo = {}
  /\ acked' = IF requests[r].failed THEN acked ELSE acked \cup {requests[r].id}
  /\ Becomes(r, Idle)
  /\ UNCHANGED <<users, deleted, conversations, participants, nextId, crashes,
                 asked, lost, before>>

-----------------------------------------------------------------------------
(* The accounts *)

\* Mutant: the conversations of an admin do not keep its row.
DeleteAdminToo(u) ==
  /\ u \in users
  /\ users' = users \ {u} /\ deleted' = deleted \cup {u}
  /\ participants' = {p \in participants : p[2] # u}
  /\ UNCHANGED <<conversations, nextId, requests, crashes, history>>

\* DELETE of an account takes its participant rows along.  conversation_entity
\* refers to its admin without cascade, so the row of an admin is refused.
DeleteUser(u) ==
  /\ u \in users
  /\ \A c \in Ids : conversations[c] # None => conversations[c].admin # u
  /\ users' = users \ {u} /\ deleted' = deleted \cup {u}
  /\ participants' = {p \in participants : p[2] # u}
  /\ UNCHANGED <<conversations, nextId, requests, crashes, history>>

\* A password change that loaded the account before it was deleted saves it
\* back; its participant rows do not come back with it.
ReviveUser(u) ==
  /\ u \in deleted \ users
  /\ users' = users \cup {u}
  /\ UNCHANGED <<deleted, conversations, participants, nextId, requests,
                 crashes, history>>

\* The process dies: the creations in flight end where they are.
Crash ==
  /\ crashes < MaxCrashes
  /\ crashes' = crashes + 1
  /\ lost' = lost \cup {requests[r].id : r \in {s \in Requests : At(s, "join")}}
  /\ requests' = [r \in Requests |-> Idle]
  /\ UNCHANGED <<users, deleted, conversations, participants, nextId, asked,
                 acked, before>>

Start(r) == \E u \in Users :
              \/ \E others \in SUBSET Users : StartGroup(r, u, others)
              \/ \E other \in Users : StartOneToOne(r, u, other)

Continue(r) == \/ FindGroup(r) \/ FindOther(r) \/ CheckPair(r) \/ Store(r)
               \/ \E u \in Users : Join(r, u)
               \/ Answer(r)

Next == \/ \E r \in Requests : Start(r) \/ Continue(r)
        \/ \E u \in Users : DeleteUser(u) \/ ReviveUser(u)
        \/ Crash

\* The database answers, so a creation in flight goes on.
Fairness == \A r \in Requests : WF_vars(Continue(r))

Spec     == Init /\ [][Next]_vars
FairSpec == Spec /\ Fairness

-----------------------------------------------------------------------------
(* Properties *)

TypeOK ==
  /\ users \subseteq Users /\ deleted \subseteq Users
  /\ conversations \in [Ids -> Rows \cup {None}]
  /\ participants \subseteq Ids \X Users
  /\ nextId \in 1 .. MaxConvs + 1
  /\ requests \in [Requests -> RequestRecords]
  /\ crashes \in Nat
  /\ asked \in [Ids -> SUBSET Users]
  /\ acked \subseteq Ids /\ lost \subseteq Ids
  /\ before \subseteq Ids \X Ids

\* A conversation whose creator got the answer has all its members, but for
\* those whose account was deleted.
AckedIsComplete ==
  \A c \in acked : \A u \in asked[c] \ deleted : <<c, u>> \in participants

\* The creation of a conversation ends with its admin as a member, whatever
\* becomes of the others: the row of the admin cannot be deleted any more, and
\* a refused save stops no other.  Only a crash leaves it without.
AdminIsMember ==
  \A c \in Ids :
    conversations[c] # None /\ c \notin lost
      /\ (\A r \in Requests : At(r, "join") => requests[r].id # c)
    => <<c, conversations[c].admin>> \in participants

\* A pair gets no second one-to-one conversation from a request that began
\* after the creation of the first was answered, unless one of the two was
\* deleted.
PairIsFound ==
  \A t \in before :
    /\ conversations[t[1]].type = "OneToOne"
    /\ conversations[t[2]].type = "OneToOne"
    /\ asked[t[1]] = asked[t[2]]
    => asked[t[1]] \cap deleted # {}

\* The conversations implement the abstract book.
Admins == [c \in Ids |-> IF conversations[c] = None THEN None
                                                    ELSE conversations[c].admin]
Book == INSTANCE ConversationBook WITH People <- Users, owner <- Admins,
                                       inside <- participants
BookRefinement == Book!Spec

\* Without crashes everybody a stored conversation is for gets into it, or
\* has had the account deleted.
EverybodyJoins ==
  \A c \in Ids, u \in Users :
    u \in asked[c] ~> (<<c, u>> \in participants \/ u \in deleted)

\* "Conversation already existed.": a pair that has a one-to-one conversation
\* gets no other.
OnePerPair ==
  \A c, d \in Ids :
    /\ conversations[c] # None /\ conversations[c].type = "OneToOne"
    /\ conversations[d] # None /\ conversations[d].type = "OneToOne"
    /\ asked[c] = asked[d]
    => c = d

=============================================================================
