---------------------------- MODULE PasswordReset ----------------------------
(* Forgotten passwords: forgotPassword and resetPassword of                  *)
(* AuthenticationService over password_reset_token_entity, and the writes of *)
(* user rows that race them: changePassword, which saves a loaded entity as  *)
(* resetPassword does, profile updates, verification, deletion.              *)
(*                                                                           *)
(* The first two end in a Promise.all of two effects without a transaction:  *)
(* one saves the token row and mails the link, the other saves the account   *)
(* and removes the token row.  The effects take place in any order, one may  *)
(* fail alone, and the other goes on when it does.  save of a loaded entity  *)
(* is a SELECT and then an UPDATE of the columns in which the entity differs *)
(* from what it found, or an INSERT when it found nothing.                   *)
(*                                                                           *)
(* A code stands for the random string, for the JWT that holds it together   *)
(* with the address of the account, and for the password that a reset with   *)
(* it sets; all other passwords are 0.  Whether its 24 hours are over is     *)
(* left open: a reset may be refused as expired at any time.                 *)
EXTENDS Naturals

CONSTANTS Users,        \* account ids
          Emails,       \* addresses
          Requests,     \* forgot, reset and change requests that may be in flight
                        \* together
          MaxCodes,     \* bound on the codes generated
          MaxFaults,    \* bound on failing statements, failing mails and crashes
          MaxEdits,     \* bound on the writes of user rows by other handlers
          None          \* no row, no account, no address

ASSUME ResetAssumption ==
  /\ MaxCodes \in Nat
  /\ MaxFaults \in Nat
  /\ MaxEdits \in Nat
  /\ None \notin Nat
  /\ None \notin Users
  /\ None \notin Emails
  /\ None \notin Requests

\* A row is a record, None is not.
ASSUME NoneIsNoAccount ==
  /\ None \notin [email : Emails, password : Nat, verified : BOOLEAN]
  /\ None \notin [email : Emails, verified : BOOLEAN]
  /\ None \notin [user : Users \cup {None}, code : Nat]

VARIABLES users,        \* users[u]: the row of account u
          rows,         \* rows[i]: the token row with id i
          mails,        \* links that reached their mailbox
          requests,     \* the requests in flight
          nextCode,     \* codes from here on are not generated yet
          faults,       \* faults so far
          edits,        \* writes of user rows by other handlers so far
          owner,        \* history: owner[c] is the account code c was generated for
          acked,        \* history: codes whose forgotPassword was answered with success
          superseded,   \* history: codes an answered later forgotPassword replaces
          passed,       \* history: codes that a reset found stored
          shaken,       \* history: codes that a reset was reading with while an
                        \* address changed
          redeemed      \* history: codes whose reset was answered with success

history == <<owner, acked, superseded, passed, shaken, redeemed>>
vars == <<users, rows, mails, requests, nextCode, faults, edits, history>>

-----------------------------------------------------------------------------
Codes == 1..MaxCodes

\* password: the code of the reset that set it, 0 when no reset did.
UserRows  == [email : Emails, password : Codes \cup {0}, verified : BOOLEAN]
Profiles  == [email : Emails, verified : BOOLEAN]
TokenRows == [user : Users \cup {None}, code : Codes]
Links     == [code : Codes, email : Emails]

\* user and seen: the account found by its address and the columns it was
\* loaded with; row: the id of the token row found; reads: queries still
\* unanswered; save: progress of the save, which for a forgot is that of the
\* token row, for the others that of the account; found and differs: what its
\* SELECT returned; second: progress of the other effect, mail or removal.
\* earlier is history: the codes of the account acknowledged before this
\* forgot began.
RequestRecords ==
  [op : {"none", "forgot", "reset", "change"}, pc : {"idle", "find", "read", "act"},
   user : Users \cup {None}, seen : Profiles \cup {None},
   email : Emails \cup {None}, code : Codes \cup {0}, row : Codes \cup {0},
   reads : SUBSET {"user", "row"},
   save : {"load", "write", "done"}, found : BOOLEAN,
   differs : SUBSET {"email", "verified"},
   second : {"todo", "done"}, failed : BOOLEAN,
   earlier : SUBSET Codes]

Idle == [op |-> "none", pc |-> "idle", user |-> None, seen |-> None,
         email |-> None, code |-> 0, row |-> 0, reads |-> {},
         save |-> "done", found |-> FALSE, differs |-> {},
         second |-> "done", failed |-> FALSE,
         earlier |-> {}]

\* The unique constraint on user_entity.email lets account u have address e.
Free(e, u) == \A v \in Users \ {u} : users[v] # None => users[v].email # e

Init ==
  /\ users \in [Users -> [email : Emails, password : {0}, verified : BOOLEAN]
                           \cup {None}]
  /\ \A u \in Users : users[u] # None => Free(users[u].email, u)
  /\ rows = [i \in Codes |-> None]
  /\ mails = {}
  /\ requests = [r \in Requests |-> Idle]
  /\ nextCode = 1
  /\ faults = 0
  /\ edits = 0
  /\ owner = [c \in Codes |-> None]
  /\ acked = {} /\ superseded = {}
  /\ passed = {} /\ shaken = {} /\ redeemed = {}

-----------------------------------------------------------------------------
At(r, op, pc) == requests[r].op = op /\ requests[r].pc = pc

Becomes(r, rec) == requests' = [requests EXCEPT ![r] = rec]

\* The token rows that belong to account u.
RowsOf(u) == {i \in Codes : rows[i] # None /\ rows[i].user = u}

\* The codes a reset can find: those in rows that belong to an account.
Stored == {rows[i].code : i \in {j \in Codes : rows[j] # None /\ rows[j].user # None}}

Address(us) == [u \in Users |-> IF us[u] = None THEN None ELSE us[u].email]

\* The rows of the accounts become us.
Rewrites(us) ==
  /\ users' = us
  /\ shaken' = IF Address(us) = Address(users) THEN shaken
               ELSE shaken \cup {requests[r].code : r \in {q \in Requests :
                                                         At(q, "reset", "read")}}

\* The save of q is over, and with it what it was told.
SaveOver(q) == [q EXCEPT !.save = "done", !.found = FALSE, !.seen = None,
                         !.differs = {}]

-----------------------------------------------------------------------------
(* POST forgot-password *)

\* findByEmail.  An unknown address is answered with success, too.
ForgotStart(r, u) ==
  /\ requests[r].pc = "idle"
  /\ users[u] # None
  /\ Becomes(r, [Idle EXCEPT !.op = "forgot", !.pc = "find", !.user = u,
                             !.email = users[u].email,
                             !.earlier = {c \in acked : owner[c] = u}])
  /\ UNCHANGED <<users, rows, mails, nextCode, faults, edits, history>>

\* The token row of the account is looked up and gets a new code; without one
\* a row is created, which needs no SELECT.
ForgotFind(r) ==
  /\ At(r, "forgot", "find")
  /\ nextCode \in Codes
  /\ LET q    == requests[r]
         acts == [q EXCEPT !.pc = "act", !.code = nextCode, !.second = "todo"]
     IN /\ \/ \E i \in RowsOf(q.user) :
                Becomes(r, [acts EXCEPT !.row = i, !.save = "load"])
           \/ /\ RowsOf(q.user) = {}
              /\ Becomes(r, [acts EXCEPT !.save = "write"])
        /\ owner' = [owner EXCEPT ![nextCode] = q.user]
  /\ nextCode' = nextCode + 1
  /\ UNCHANGED <<users, rows, mails, faults, edits, acked, superseded, passed, shaken,
                 redeemed>>

\* The SELECT of the save.
ForgotLoad(r) ==
  /\ At(r, "forgot", "act")
  /\ requests[r].save = "load"
  /\ Becomes(r, [requests[r] EXCEPT !.save = "write",
                                    !.found = rows[requests[r].row] # None])
  /\ UNCHANGED <<users, rows, mails, nextCode, faults, edits, history>>

\* Mutant: the code of a created row is never set.
ForgotWriteNoCode(r) ==
  /\ At(r, "forgot", "act")
  /\ requests[r].save = "write"
  /\ requests[r].row = 0 /\ users[requests[r].user] # None
  /\ rows' = [rows EXCEPT ![requests[r].code] =
                [user |-> requests[r].user, code |-> 0]]
  /\ Becomes(r, SaveOver(requests[r]))
  /\ UNCHANGED <<users, mails, nextCode, faults, edits, history>>

\* Mutant: the user of a token row is not unique.
ForgotWriteMany(r) ==
  /\ At(r, "forgot", "act")
  /\ requests[r].save = "write"
  /\ requests[r].row = 0 /\ users[requests[r].user] # None
  /\ rows' = [rows EXCEPT ![requests[r].code] =
                [user |-> requests[r].user, code |-> requests[r].code]]
  /\ Becomes(r, SaveOver(requests[r]))
  /\ UNCHANGED <<users, mails, nextCode, faults, edits, history>>

\* A new row needs its account and must be the only one of the account.  A
\* found row gets the code, if it is still there.  A row that was gone is
\* inserted again under its id, without the account, which was not loaded.
ForgotWrite(r) ==
  /\ At(r, "forgot", "act")
  /\ requests[r].save = "write"
  /\ LET q    == requests[r]
         done == SaveOver(q)
     IN \/ /\ q.row = 0 /\ users[q.user] # None /\ RowsOf(q.user) = {}
           /\ rows' = [rows EXCEPT ![q.code] = [user |-> q.user, code |-> q.code]]
           /\ Becomes(r, done)
        \/ /\ q.row # 0 /\ q.found /\ rows[q.row] # None
           /\ rows' = [rows EXCEPT ![q.row] = [user |-> @.user, code |-> q.code]]
           /\ Becomes(r, done)
        \/ /\ q.row # 0 /\ q.found /\ rows[q.row] = None
           /\ Becomes(r, done)
           /\ UNCHANGED rows
        \/ /\ q.row # 0 /\ ~q.found /\ rows[q.row] = None
           /\ rows' = [rows EXCEPT ![q.row] = [user |-> None, code |-> q.code]]
           /\ Becomes(r, done)
        \/ /\ \/ q.row = 0 /\ (users[q.user] = None \/ RowsOf(q.user) # {})
              \/ q.row # 0 /\ ~q.found /\ rows[q.row] # None
           /\ Becomes(r, [done EXCEPT !.failed = TRUE])
           /\ UNCHANGED rows
  /\ UNCHANGED <<users, mails, nextCode, faults, edits, history>>

\* The mail goes out, whether or not the row is saved yet.
ForgotMail(r) ==
  /\ At(r, "forgot", "act")
  /\ requests[r].second = "todo"
  /\ mails' = mails \cup {[code |-> requests[r].code, email |-> requests[r].email]}
  /\ Becomes(r, [requests[r] EXCEPT !.second = "done"])
  /\ UNCHANGED <<users, rows, nextCode, faults, edits, history>>

\* Mutant: success once both effects are settled, failed or not.
ForgotAnswerSettled(r) ==
  /\ At(r, "forgot", "act")
  /\ requests[r].save = "done" /\ requests[r].second = "done"
  /\ acked' = acked \cup {requests[r].code}
  /\ superseded' = superseded \cup requests[r].earlier
  /\ Becomes(r, Idle)
  /\ UNCHANGED <<users, rows, mails, nextCode, faults, edits, owner, passed, shaken,
                 redeemed>>

\* Success when both effects succeeded.
ForgotAnswer(r) ==
  /\ At(r, "forgot", "act")
  /\ requests[r].save = "done" /\ requests[r].second = "done"
  /\ IF requests[r].failed
     THEN UNCHANGED <<acked, superseded>>
     ELSE /\ acked' = acked \cup {requests[r].code}
          /\ superseded' = superseded \cup requests[r].earlier
  /\ Becomes(r, Idle)
  /\ UNCHANGED <<users, rows, mails, nextCode, faults, edits, owner, passed, shaken,
                 redeemed>>

-----------------------------------------------------------------------------
(* POST reset-password *)

\* The JWT of a link verifies.
ResetStart(r, m) ==
  /\ requests[r].pc = "idle"
  /\ Becomes(r, [Idle EXCEPT !.op = "reset", !.pc = "read", !.code = m.code,
                             !.email = m.email, !.reads = {"user", "row"}])
  /\ UNCHANGED <<users, rows, mails, nextCode, faults, edits, history>>

\* Both queries are answered: both effects are started.  Without an account
\* updatePassword throws at once, and the removal goes on.
Started(q) ==
  IF q.reads # {} THEN q
  ELSE [q EXCEPT !.pc = "act", !.second = "todo",
                 !.save = IF q.user = None THEN "done" ELSE "load",
                 !.failed = q.user = None]

\* findByEmail with the address in the JWT; there may be no such account.
ResetFindUser(r) ==
  /\ At(r, "reset", "read")
  /\ "user" \in requests[r].reads
  /\ LET q    == requests[r]
         rest == [q EXCEPT !.reads = @ \ {"user"}]
     IN \/ \E u \in Users :
             /\ users[u] # None /\ users[u].email = q.email
             /\ Becomes(r, Started([rest EXCEPT !.user = u,
                  !.seen = [email |-> users[u].email, verified |-> users[u].verified]]))
        \/ /\ \A u \in Users : users[u] # None => users[u].email # q.email
           /\ Becomes(r, Started(rest))
  /\ UNCHANGED <<users, rows, mails, nextCode, faults, edits, history>>

\* Mutant: the row is looked up by its code alone.
MatchesCode(i, q) == rows[i] # None /\ rows[i].code = q.code

\* The row with the code whose account has the address in the JWT.
Matches(i, q) ==
  /\ rows[i] # None /\ rows[i].code = q.code
  /\ rows[i].user # None /\ users[rows[i].user] # None
  /\ users[rows[i].user].email = q.email

\* No such row, or one that is out of date, is answered with 401.
ResetFindRow(r) ==
  /\ At(r, "reset", "read")
  /\ "row" \in requests[r].reads
  /\ \/ \E i \in Codes :
          /\ Matches(i, requests[r])
          /\ Becomes(r, Started([requests[r] EXCEPT !.row = i, !.reads = @ \ {"row"}]))
          /\ passed' = passed \cup {requests[r].code}
     \/ /\ Becomes(r, Idle)
        /\ UNCHANGED passed
  /\ UNCHANGED <<users, rows, mails, nextCode, faults, edits, owner, acked, superseded,
                 shaken, redeemed>>

\* The request is at its updatePassword, which saves the account.
SavesUser(r) == At(r, "reset", "act") \/ At(r, "change", "act")

\* The SELECT of the save tells which columns to write.
UserLoad(r) ==
  /\ SavesUser(r)
  /\ requests[r].save = "load"
  /\ LET q == requests[r]
     IN Becomes(r, [q EXCEPT !.save = "write", !.found = users[q.user] # None,
          !.differs = IF users[q.user] = None THEN {}
                      ELSE {k \in {"email", "verified"} :
                              IF k = "email" THEN users[q.user].email # q.seen.email
                              ELSE users[q.user].verified # q.seen.verified}])
  /\ UNCHANGED <<users, rows, mails, nextCode, faults, edits, history>>

\* Mutant: the account was loaded without its flag, which is not in the INSERT.
SavedDefault(q) ==
  [email    |-> IF ~q.found \/ "email" \in q.differs THEN q.seen.email
                ELSE users[q.user].email,
   password |-> q.code,
   verified |-> q.found /\ users[q.user].verified]

\* What the save makes of the row of its account: it overwrites the password
\* and every column that differed.
Saved(q) ==
  [email    |-> IF ~q.found \/ "email" \in q.differs THEN q.seen.email
                ELSE users[q.user].email,
   password |-> q.code,
   verified |-> IF ~q.found \/ "verified" \in q.differs THEN q.seen.verified
                ELSE users[q.user].verified]

\* The UPDATE or INSERT, once the new password is hashed.  It is refused when
\* the address belongs to another account by now, or the row came back.
UserWrite(r) ==
  /\ SavesUser(r)
  /\ requests[r].save = "write"
  /\ LET q    == requests[r]
         live == users[q.user] # None
         done == SaveOver(q)
     IN \/ /\ q.found = live /\ Free(Saved(q).email, q.user)
           /\ Rewrites([users EXCEPT ![q.user] = Saved(q)])
           /\ Becomes(r, done)
        \/ /\ q.found /\ ~live
           /\ Becomes(r, done)
           /\ UNCHANGED <<users, shaken>>
        \/ /\ \/ q.found = live /\ ~Free(Saved(q).email, q.user)
              \/ ~q.found /\ live
           /\ Becomes(r, [done EXCEPT !.failed = TRUE])
           /\ UNCHANGED <<users, shaken>>
  /\ UNCHANGED <<rows, mails, nextCode, faults, edits, owner, acked, superseded,
                 passed, redeemed>>

\* The token row goes, whichever code it holds by now.
ResetRemove(r) ==
  /\ At(r, "reset", "act")
  /\ requests[r].second = "todo"
  /\ rows' = [rows EXCEPT ![requests[r].row] = None]
  /\ Becomes(r, [requests[r] EXCEPT !.second = "done"])
  /\ UNCHANGED <<users, mails, nextCode, faults, edits, history>>

\* Mutant: success once both effects are settled, failed or not.
ResetAnswerSettled(r) ==
  /\ At(r, "reset", "act")
  /\ requests[r].save = "done" /\ requests[r].second = "done"
  /\ redeemed' = redeemed \cup {requests[r].code}
  /\ Becomes(r, Idle)
  /\ UNCHANGED <<users, rows, mails, nextCode, faults, edits, owner, acked, superseded,
                 passed, shaken>>

\* Mutant: the removal of the token row is not awaited.
ResetAnswerEarly(r) ==
  /\ At(r, "reset", "act")
  /\ requests[r].save = "done"
  /\ redeemed' = IF requests[r].failed THEN redeemed
                 ELSE redeemed \cup {requests[r].code}
  /\ Becomes(r, Idle)
  /\ UNCHANGED <<users, rows, mails, nextCode, faults, edits, owner, acked, superseded,
                 passed, shaken>>

\* Success when both effects succeeded, else 401.
ResetAnswer(r) ==
  /\ At(r, "reset", "act")
  /\ requests[r].save = "done" /\ requests[r].second = "done"
  /\ redeemed' = IF requests[r].failed THEN redeemed
                 ELSE redeemed \cup {requests[r].code}
  /\ Becomes(r, Idle)
  /\ UNCHANGED <<users, rows, mails, nextCode, faults, edits, owner, acked, superseded,
                 passed, shaken>>

-----------------------------------------------------------------------------
(* POST change-password *)

\* The guard has loaded the account.  Whether it lets the request in, and whether
\* the old password is right, is left open.
ChangeStart(r, u) ==
  /\ requests[r].pc = "idle"
  /\ users[u] # None
  /\ Becomes(r, [Idle EXCEPT !.op = "change", !.pc = "act", !.user = u, !.save = "load",
       !.seen = [email |-> users[u].email, verified |-> users[u].verified]])
  /\ UNCHANGED <<users, rows, mails, nextCode, faults, edits, history>>

\* Success or not, once the save is over and the session is ended.
ChangeAnswer(r) ==
  /\ At(r, "change", "act")
  /\ requests[r].save = "done"
  /\ Becomes(r, Idle)
  /\ UNCHANGED <<users, rows, mails, nextCode, faults, edits, history>>

-----------------------------------------------------------------------------
(* Faults, and the other writers of user rows *)

\* One effect fails: a statement is not executed, or the mail is not sent.
EffectFails(r) ==
  /\ faults < MaxFaults
  /\ requests[r].pc = "act"
  /\ \/ /\ requests[r].save # "done"
        /\ Becomes(r, [SaveOver(requests[r]) EXCEPT !.failed = TRUE])
     \/ /\ requests[r].second # "done"
        /\ Becomes(r, [requests[r] EXCEPT !.second = "done", !.failed = TRUE])
  /\ faults' = faults + 1
  /\ UNCHANGED <<users, rows, mails, nextCode, edits, history>>

Crash ==
  /\ faults < MaxFaults
  /\ \E r \in Requests : requests[r].pc # "idle"
  /\ requests' = [r \in Requests |-> Idle]
  /\ faults' = faults + 1
  /\ UNCHANGED <<users, rows, mails, nextCode, edits, history>>

\* PATCH of a profile: one UPDATE by the query builder of the columns that the
\* body names.  No property of the body is taken out, so these may be any: the
\* address, a free one, the password and the flag.
Update(u, row) ==
  /\ edits < MaxEdits
  /\ users[u] # None
  /\ Free(row.email, u)
  /\ row.password \in {0, users[u].password}
  /\ Rewrites([users EXCEPT ![u] = row])
  /\ edits' = edits + 1
  /\ UNCHANGED <<rows, mails, requests, nextCode, faults, owner, acked, superseded,
                 passed, redeemed>>

\* updateVerificationStatus, at the end of a verification.
VerifyUser(u) ==
  /\ edits < MaxEdits
  /\ users[u] # None
  /\ Rewrites([users EXCEPT ![u].verified = TRUE])
  /\ edits' = edits + 1
  /\ UNCHANGED <<rows, mails, requests, nextCode, faults, owner, acked, superseded,
                 passed, redeemed>>

\* The account goes, its token row with it (ON DELETE CASCADE).
DeleteUser(u) ==
  /\ edits < MaxEdits
  /\ users[u] # None
  /\ Rewrites([users EXCEPT ![u] = None])
  /\ rows' = [i \in Codes |-> IF i \in RowsOf(u) THEN None ELSE rows[i]]
  /\ edits' = edits + 1
  /\ UNCHANGED <<mails, requests, nextCode, faults, owner, acked, superseded,
                 passed, redeemed>>

Arrive(r) == \/ \E u \in Users : ForgotStart(r, u) \/ ChangeStart(r, u)
             \/ \E m \in mails : ResetStart(r, m)

Continue(r) ==
  \/ ForgotFind(r) \/ ForgotLoad(r) \/ ForgotWrite(r) \/ ForgotMail(r)
  \/ ForgotAnswer(r)
  \/ ResetFindUser(r) \/ ResetFindRow(r)
  \/ UserLoad(r) \/ UserWrite(r) \/ ResetRemove(r) \/ ResetAnswer(r)
  \/ ChangeAnswer(r)

Next == \/ \E r \in Requests : Arrive(r) \/ Continue(r) \/ EffectFails(r)
        \/ \E u \in Users :
             \/ \E row \in UserRows : Update(u, row)
             \/ VerifyUser(u)
             \/ DeleteUser(u)
        \/ Crash

Spec == Init /\ [][Next]_vars

-----------------------------------------------------------------------------
(* Properties *)

TypeOK ==
  /\ users \in [Users -> UserRows \cup {None}]
  /\ rows \in [Codes -> TokenRows \cup {None}]
  /\ mails \subseteq Links
  /\ requests \in [Requests -> RequestRecords]
  /\ nextCode \in 1..(MaxCodes + 1)
  /\ faults \in Nat
  /\ edits \in Nat
  /\ owner \in [Codes -> Users \cup {None}]
  /\ acked \subseteq Codes /\ superseded \subseteq Codes
  /\ passed \subseteq Codes /\ shaken \subseteq Codes
  /\ redeemed \subseteq Codes

\* Once a reset was answered with success its code is in no row an account has,
\* and never again, so no request that begins later passes with it: neither a
\* save under way, nor a failed effect, nor a crash brings it back.
UsedOnce == redeemed \cap Stored = {}

\* Once a forgotPassword was answered with success, the codes that the account
\* had been sent before it began are dead, also when other requests for the
\* account overlap it (its save overwrites the row they were in, or finds it
\* gone).
LaterRetiresEarlier == superseded \cap Stored = {}

\* The password of an account is one that was set with a code generated for
\* this account, unless an address changed hands while a reset with it was
\* between its two queries: that the code is looked up together with the
\* address keeps the code of its old owner from its new one.
CodeIsPersonal ==
  \A u \in Users : users[u] # None /\ users[u].password # 0 =>
    LET c == users[u].password IN c \in passed /\ (owner[c] = u \/ c \in shaken)

\* At most one link of an account works at a time, however many requests
\* overlap (those that find no row all insert one).
OneLinkPerUser == \A u \in Users : \A i, j \in RowsOf(u) : i = j

\* A reset or a change in flight that loaded account u while it was not verified,
\* and whose save is still to come.
Unverifying(u) == {r \in Requests : /\ requests[r].user = u
                                    /\ requests[r].seen # None
                                    /\ ~requests[r].seen.verified}

Settled(u) == /\ users[u] # None => users[u].verified
              /\ Unverifying(u) = {}

\* A PATCH that takes the flag back.
Revokes(u) == \E row \in UserRows : ~row.verified /\ Update(u, row)

\* A verified account stays verified until a PATCH says otherwise, once no reset
\* or change is under way that loaded it while it was not: such a request saves
\* the whole entity, and undoes the verification.  The others do not, neither
\* over a row that changed since nor in the place of one that was deleted.
VerifiedStays == [][\A u \in Users : Settled(u) => Settled(u)' \/ Revokes(u)]_vars

\* A code is issued while the save of its token row is still to come, and live
\* while a reset can find it.
Stage == [c \in Codes |->
  IF c >= nextCode THEN "fresh"
  ELSE IF c \in Stored THEN "live"
  ELSE IF \E r \in Requests : /\ At(r, "forgot", "act") /\ requests[r].code = c
                              /\ requests[r].save # "done" THEN "issued"
  ELSE "dead"]

\* The reset codes are one-time codes.
OneTime == INSTANCE OneTimeCodes WITH stage <- Stage
CodesRefinement == OneTime!Spec

=============================================================================
