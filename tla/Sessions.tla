------------------------------ MODULE Sessions ------------------------------
(* Sessions of the chat backend: TokenService, the local, JWT and refresh    *)
(* strategies, and the session endpoints of AuthenticationController.        *)
(* An access token is accepted only while it is the one in the Redis slot of *)
(* its user; a refresh token only while its hash is in the user's row of     *)
(* refresh_token_entity.  A handler is cut at its awaits, and the steps of   *)
(* the requests in flight interleave freely.                                 *)
(*                                                                           *)
(* JWTs are signed over (id, iat) with iat in seconds, so a token is the     *)
(* triple of its kind, its user and the second of its signature, and two     *)
(* logins of one user in one second produce the same tokens.  Accounts are   *)
(* the verified ones (LocalStrategy refuses the others).                     *)
EXTENDS Naturals

CONSTANTS Users,        \* account ids
          Passwords,    \* plaintexts; the row of a user stands for a hash of one
          Requests,     \* HTTP requests that may be in flight together
          AccessTTL,    \* JWT_EXPIRES_IN, also the TTL of the cached token
          RefreshTTL,   \* JWT_REFRESH_EXPIRES_IN
          HashSeconds,  \* seconds of iat that bcrypt's 72 bytes do not tell apart
          MaxTime,      \* bound on the clock
          MaxCrashes,   \* bound on the crashes of the process
          None          \* no password, no token, no row

ASSUME SessionsAssumption ==
  /\ AccessTTL \in Nat \ {0}
  /\ RefreshTTL \in Nat \ {0}
  /\ HashSeconds \in Nat \ {0}
  /\ MaxTime \in Nat
  /\ MaxCrashes \in Nat
  /\ None \notin Nat
  /\ None \notin Passwords
  /\ None \notin Users

VARIABLES now,          \* the current second
          users,        \* users[u]: the password whose hash the row of u holds
          cache,        \* cache[u]: iat of the token under "user-token:<u>"
          refreshRows,  \* refreshRows[u]: the refresh_token_entity row of u
          requests,     \* the requests in flight
          delivered,    \* tokens that reached their client
          crashes,      \* crashes so far
          retired       \* history: access tokens that left the cache for good

vars == <<now, users, cache, refreshRows, requests, delivered, crashes, retired>>

-----------------------------------------------------------------------------
Ops == {"none", "login", "logout", "change", "delete", "refresh"}
Pcs == {"idle", "sign", "store", "find", "logout", "select", "write", "drop",
        "grant", "uncache", "confirm", "erase", "reply"}

Tokens      == [kind : {"access", "refresh"}, user : Users, iat : Nat]
RefreshRows == [digest : Nat, until : Nat]

\* row is the password read by the guard, found what save's SELECT returned;
\* alone (history) says that no other request touched the session of this
\* login's user since its tokens were signed.
RequestRecords ==
  [op : Ops, pc : Pcs, user : Users \cup {None}, iat : Nat,
   old : Passwords \cup {None}, new : Passwords \cup {None},
   row : Passwords \cup {None}, found : BOOLEAN, alone : BOOLEAN]

Idle == [op |-> "none", pc |-> "idle", user |-> None, iat |-> 0,
         old |-> None, new |-> None, row |-> None,
         found |-> FALSE, alone |-> FALSE]

\* Mutant: the digest of the window before.
DigestOffByOne(iat) == iat \div HashSeconds - 1

\* bcrypt sees 72 bytes of the refresh token, which hold a prefix of iat.
Digest(iat) == iat \div HashSeconds

Init ==
  /\ now = 0
  /\ users \in [Users -> Passwords]
  /\ cache = [u \in Users |-> None]
  /\ refreshRows = [u \in Users |-> None]
  /\ requests = [r \in Requests |-> Idle]
  /\ delivered = {}
  /\ crashes = 0
  /\ retired = {}

-----------------------------------------------------------------------------
At(r, pc) == requests[r].pc = pc

\* Request r goes on as rec and leaves alone the sessions of other requests.
Becomes(r, rec) == requests' = [requests EXCEPT ![r] = rec]

\* Request r goes on as rec, having changed the session state of user u.
Disturbs(r, rec, u) ==
  requests' = [q \in Requests |->
                 IF q = r THEN rec
                 ELSE IF requests[q].user = u
                      THEN [requests[q] EXCEPT !.alone = FALSE]
                      ELSE requests[q]]

\* The token that a write of e under u's key takes out of the cache for good;
\* a token signed this very second may be signed again.
TakenOut(u, e) == {<<u, i>> : i \in {cache[u]} \ {None, e, now}}

\* cacheService.set and del: commands on one Redis connection take effect in
\* the order in which they are issued, awaited or not.
CacheWrite(u, e) ==
  /\ cache' = [cache EXCEPT ![u] = e]
  /\ retired' = retired \cup TakenOut(u, e)

\* The JWT verifies and is the one cached for its user (JwtStrategy).
AccessAccepted(u, iat) == cache[u] = iat /\ now < iat + AccessTTL

\* The JWT verifies, the row is not out of date and its hash matches.
RefreshAccepted(u, iat) ==
  /\ now < iat + RefreshTTL
  /\ refreshRows[u] # None
  /\ refreshRows[u].until >= now
  /\ refreshRows[u].digest = Digest(iat)

-----------------------------------------------------------------------------
(* POST login *)

\* LocalStrategy: the row is read and the password compared with its hash.
LoginStart(r, u) ==
  /\ At(r, "idle")
  /\ users[u] # None
  /\ Becomes(r, [Idle EXCEPT !.op = "login", !.pc = "sign", !.user = u])
  /\ UNCHANGED <<now, users, cache, refreshRows, delivered, crashes, retired>>

\* Both tokens are signed and the access token cached in one turn of the
\* event loop, before the first await of getRefreshToken.
LoginSign(r) ==
  /\ At(r, "sign")
  /\ LET u == requests[r].user
     IN /\ CacheWrite(u, now)
        /\ Disturbs(r, [requests[r] EXCEPT !.pc = "store", !.iat = now,
                                           !.alone = TRUE], u)
  /\ UNCHANGED <<now, users, refreshRows, delivered, crashes>>

\* Mutant: an existing row is kept (ON CONFLICT DO NOTHING).
LoginStoreKeepsRow(r) ==
  /\ At(r, "store")
  /\ LET u   == requests[r].user
         iat == requests[r].iat
     IN \/ /\ users[u] # None
           /\ refreshRows' = [refreshRows EXCEPT
                ![u] = IF @ # None THEN @
                       ELSE [digest |-> Digest(iat), until |-> iat + RefreshTTL]]
           /\ Disturbs(r, [requests[r] EXCEPT !.pc = "reply"], u)
        \/ /\ users[u] = None
           /\ Becomes(r, Idle)
           /\ UNCHANGED refreshRows
  /\ UNCHANGED <<now, users, cache, delivered, crashes, retired>>

\* Mutant: a refused insert is never answered.
LoginStoreHangs(r) ==
  /\ At(r, "store")
  /\ users[requests[r].user] # None
  /\ LET u   == requests[r].user
         iat == requests[r].iat
     IN /\ refreshRows' = [refreshRows EXCEPT
             ![u] = [digest |-> Digest(iat), until |-> iat + RefreshTTL]]
        /\ Disturbs(r, [requests[r] EXCEPT !.pc = "reply"], u)
  /\ UNCHANGED <<now, users, cache, delivered, crashes, retired>>

\* The hash is ready: the row of the user is inserted or overwritten.  The
\* foreign key refuses a row of an account deleted meanwhile, a 500.
LoginStore(r) ==
  /\ At(r, "store")
  /\ LET u   == requests[r].user
         iat == requests[r].iat
     IN \/ /\ users[u] # None
           /\ refreshRows' = [refreshRows EXCEPT
                ![u] = [digest |-> Digest(iat), until |-> iat + RefreshTTL]]
           /\ Disturbs(r, [requests[r] EXCEPT !.pc = "reply"], u)
        \/ /\ users[u] = None
           /\ Becomes(r, Idle)
           /\ UNCHANGED refreshRows
  /\ UNCHANGED <<now, users, cache, delivered, crashes, retired>>

\* Mutant: the access token is cached after the await of getRefreshToken.
ReplyCachesLate(r) ==
  /\ At(r, "reply")
  /\ CacheWrite(requests[r].user, requests[r].iat)
  /\ LET kinds == IF requests[r].op = "login" THEN {"access", "refresh"}
                                              ELSE {"access"}
     IN delivered' = delivered \cup
          {[kind |-> k, user |-> requests[r].user, iat |-> requests[r].iat] :
              k \in kinds}
  /\ Becomes(r, Idle)
  /\ UNCHANGED <<now, users, refreshRows, crashes>>

\* The answer of a login or a refresh reaches the client with its tokens.
Reply(r) ==
  /\ At(r, "reply")
  /\ LET kinds == IF requests[r].op = "login" THEN {"access", "refresh"}
                                              ELSE {"access"}
     IN delivered' = delivered \cup
          {[kind |-> k, user |-> requests[r].user, iat |-> requests[r].iat] :
              k \in kinds}
  /\ Becomes(r, Idle)
  /\ UNCHANGED <<now, users, cache, refreshRows, crashes, retired>>

-----------------------------------------------------------------------------
(* The guards *)

\* JwtStrategy lets the token of a request through: logout, change-password
\* with its two passwords, or delete-account.  A refused token is a 401 and
\* changes nothing.
Present(r, t, op, old, new) ==
  /\ At(r, "idle")
  /\ t.kind = "access"
  /\ AccessAccepted(t.user, t.iat)
  /\ Becomes(r, [Idle EXCEPT !.op = op, !.pc = "find", !.user = t.user,
                             !.old = old, !.new = new])
  /\ UNCHANGED <<now, users, cache, refreshRows, delivered, crashes, retired>>

\* JwtRefreshTokenStrategy lets a refresh token through.
PresentRefresh(r, t) ==
  /\ At(r, "idle")
  /\ t.kind = "refresh"
  /\ RefreshAccepted(t.user, t.iat)
  /\ Becomes(r, [Idle EXCEPT !.op = "refresh", !.pc = "find", !.user = t.user])
  /\ UNCHANGED <<now, users, cache, refreshRows, delivered, crashes, retired>>

HandlerPc(op) == CASE op = "logout"  -> "logout"
                   [] op = "change"  -> "select"
                   [] op = "delete"  -> "uncache"
                   [] op = "refresh" -> "grant"

\* Mutant: a missing row is not answered with 404.
FindUserNo404(r) ==
  /\ At(r, "find")
  /\ Becomes(r, [requests[r] EXCEPT !.row = users[requests[r].user],
                                    !.pc = HandlerPc(requests[r].op)])
  /\ UNCHANGED <<now, users, cache, refreshRows, delivered, crashes, retired>>

\* usersService.findOne of both strategies: the row becomes req.user, or 404.
FindUser(r) ==
  /\ At(r, "find")
  /\ LET u == requests[r].user
     IN \/ /\ users[u] # None
           /\ Becomes(r, [requests[r] EXCEPT !.row = users[u],
                                             !.pc = HandlerPc(requests[r].op)])
        \/ users[u] = None /\ Becomes(r, Idle)
  /\ UNCHANGED <<now, users, cache, refreshRows, delivered, crashes, retired>>

-----------------------------------------------------------------------------
(* GET refresh and POST logout *)

\* A new access token; the refresh token and its row stay as they are.
RefreshGrant(r) ==
  /\ At(r, "grant")
  /\ LET u == requests[r].user
     IN /\ CacheWrite(u, now)
        /\ Disturbs(r, [requests[r] EXCEPT !.pc = "reply", !.iat = now], u)
  /\ UNCHANGED <<now, users, refreshRows, delivered, crashes>>

\* The key of the user is deleted, whichever token it holds by now; the
\* refresh row is left in place.
Logout(r) ==
  /\ At(r, "logout")
  /\ CacheWrite(requests[r].user, None)
  /\ Disturbs(r, Idle, requests[r].user)
  /\ UNCHANGED <<now, users, refreshRows, delivered, crashes>>

-----------------------------------------------------------------------------
(* POST change-password *)

\* Both passwords are compared with the row the guard read, then save loads
\* the row again to find out what to write.
ChangeSelect(r) ==
  /\ At(r, "select")
  /\ LET q == requests[r]
     IN \/ /\ q.old = q.row /\ q.new # q.row
           /\ Becomes(r, [q EXCEPT !.pc = "write",
                                   !.found = users[q.user] # None])
        \/ /\ q.old # q.row \/ q.new = q.row
           /\ Becomes(r, Idle)
  /\ UNCHANGED <<now, users, cache, refreshRows, delivered, crashes, retired>>

\* A row that save found is updated, an update of no row when it is gone by
\* now.  A row it did not find is inserted under the same id, and a second
\* insert breaks the primary key.
ChangeWrite(r) ==
  /\ At(r, "write")
  /\ LET q    == requests[r]
         live == users[q.user] # None
     IN \/ /\ q.found = live
           /\ users' = [users EXCEPT ![q.user] = q.new]
           /\ Becomes(r, [q EXCEPT !.pc = "drop"])
        \/ /\ q.found /\ ~live
           /\ Becomes(r, [q EXCEPT !.pc = "drop"])
           /\ UNCHANGED users
        \/ /\ ~q.found /\ live
           /\ Becomes(r, Idle)
           /\ UNCHANGED users
  /\ UNCHANGED <<now, cache, refreshRows, delivered, crashes, retired>>

\* Mutant: a password change does not log the user out.
ChangeDropNothing(r) ==
  /\ At(r, "drop")
  /\ Disturbs(r, Idle, requests[r].user)
  /\ UNCHANGED <<now, users, cache, refreshRows, delivered, crashes, retired>>

\* logout of changePassword.
ChangeDrop(r) ==
  /\ At(r, "drop")
  /\ CacheWrite(requests[r].user, None)
  /\ Disturbs(r, Idle, requests[r].user)
  /\ UNCHANGED <<now, users, refreshRows, delivered, crashes>>

-----------------------------------------------------------------------------
(* DELETE delete-account *)

\* The controller logs the user out first and does not await it.
DeleteUncache(r) ==
  /\ At(r, "uncache")
  /\ CacheWrite(requests[r].user, None)
  /\ Disturbs(r, [requests[r] EXCEPT !.pc = "confirm"], requests[r].user)
  /\ UNCHANGED <<now, users, refreshRows, delivered, crashes>>

\* usersService.deleteUser reads the row once more, 404 when it is gone.
DeleteConfirm(r) ==
  /\ At(r, "confirm")
  /\ \/ /\ users[requests[r].user] # None
        /\ Becomes(r, [requests[r] EXCEPT !.pc = "erase"])
     \/ /\ users[requests[r].user] = None
        /\ Becomes(r, Idle)
  /\ UNCHANGED <<now, users, cache, refreshRows, delivered, crashes, retired>>

\* Mutant: the foreign key of refresh_token_entity does not cascade.
DeleteEraseNoCascade(r) ==
  /\ At(r, "erase")
  /\ users' = [users EXCEPT ![requests[r].user] = None]
  /\ Disturbs(r, Idle, requests[r].user)
  /\ UNCHANGED <<now, cache, refreshRows, delivered, crashes, retired>>

\* DELETE of the row; the refresh row goes with it (ON DELETE CASCADE).
DeleteErase(r) ==
  /\ At(r, "erase")
  /\ users' = [users EXCEPT ![requests[r].user] = None]
  /\ refreshRows' = [refreshRows EXCEPT ![requests[r].user] = None]
  /\ Disturbs(r, Idle, requests[r].user)
  /\ UNCHANGED <<now, cache, delivered, crashes, retired>>

\* The database refuses the DELETE, a 500: a verification code or a
\* conversation administered by the user refers to the row without cascade
\* (those tables are not state of this module, so either may happen).
DeleteRefused(r) ==
  /\ At(r, "erase")
  /\ users[requests[r].user] # None
  /\ Becomes(r, Idle)
  /\ UNCHANGED <<now, users, cache, refreshRows, delivered, crashes, retired>>

-----------------------------------------------------------------------------
\* The process dies and is started again; Redis and the database live on.
Crash ==
  /\ crashes < MaxCrashes
  /\ \E r \in Requests : ~At(r, "idle")
  /\ crashes' = crashes + 1
  /\ requests' = [r \in Requests |-> Idle]
  /\ UNCHANGED <<now, users, cache, refreshRows, delivered, retired>>

Tick ==
  /\ now < MaxTime
  /\ now' = now + 1
  /\ UNCHANGED <<users, cache, refreshRows, requests, delivered, crashes, retired>>

\* A client sends a request.
Arrive(r) ==
  \/ \E u \in Users : LoginStart(r, u)
  \/ \E t \in delivered :
       \/ \E op \in {"logout", "delete"} : Present(r, t, op, None, None)
       \/ \E old, new \in Passwords : Present(r, t, "change", old, new)
       \/ PresentRefresh(r, t)

\* A request in flight takes its next step.
Continue(r) ==
  \/ LoginSign(r) \/ LoginStore(r) \/ Reply(r)
  \/ FindUser(r) \/ RefreshGrant(r) \/ Logout(r)
  \/ ChangeSelect(r) \/ ChangeWrite(r) \/ ChangeDrop(r)
  \/ DeleteUncache(r) \/ DeleteConfirm(r) \/ DeleteErase(r) \/ DeleteRefused(r)

Next == \/ \E r \in Requests : Arrive(r) \/ Continue(r)
        \/ Crash
        \/ Tick

\* The database, Redis and bcrypt answer, so a request in flight goes on.
Fairness == \A r \in Requests : WF_vars(Continue(r))

Spec     == Init /\ [][Next]_vars
FairSpec == Spec /\ Fairness

-----------------------------------------------------------------------------
(* Properties *)

TypeOK ==
  /\ now \in Nat
  /\ users \in [Users -> Passwords \cup {None}]
  /\ cache \in [Users -> Nat \cup {None}]
  /\ refreshRows \in [Users -> RefreshRows \cup {None}]
  /\ requests \in [Requests -> RequestRecords]
  /\ delivered \subseteq Tokens
  /\ crashes \in Nat
  /\ retired \subseteq Users \X Nat

\* An access token that a logout, a password change, a deletion or a newer
\* token took out of the cache after the second of its signature is never
\* accepted again, whatever requests were in flight (getAccessToken signs and
\* caches in one turn, so no late set brings an older token back).
RetiredStaysDead == \A t \in retired : cache[t[1]] # t[2]

\* No refresh row outlives its account: a login that is still hashing while
\* the account is deleted leaves no row behind.
RefreshRowHasOwner ==
  \A u \in Users : refreshRows[u] # None => users[u] # None

\* The answer of a login holds tokens that work: if no other request touched
\* the session between signing and answering, the cached token and the
\* refresh row are the ones of this login.
UndisturbedLoginHolds ==
  \A r \in Requests : LET q == requests[r] IN
    q.op = "login" /\ q.pc = "reply" /\ q.alone =>
      /\ cache[q.user] = q.iat
      /\ refreshRows[q.user] =
           [digest |-> Digest(q.iat), until |-> q.iat + RefreshTTL]

\* Requests that may still write the row of u back: a password change that
\* read the account before it was deleted.
Writers(u) == {r \in Requests : /\ requests[r].user = u
                                /\ requests[r].op = "change"
                                /\ requests[r].pc \in {"select", "write"}}

Gone(u) == users[u] = None /\ Writers(u) = {}

\* A deleted account stays deleted, and no request on its tokens gets to write,
\* once the password changes under way at the deletion have ended: a login in
\* flight may cache a token for the account again, the guard then finds no row.
\* This is about the handlers of this module; the save of resetPassword, which can
\* bring the account back too, is in PasswordReset.
GoneForGood == [][\A u \in Users : Gone(u) => Gone(u)']_vars

\* The token cache implements the abstract slot: it is filled with tokens
\* signed now, or emptied, and nothing else ever touches it.
Slot == INSTANCE SessionSlot WITH clock <- now, slot <- cache, ended <- retired
SlotRefinement == Slot!Spec

\* Every request is answered, with success or an error, or dies in a crash.
RequestsSettle == \A r \in Requests : ~At(r, "idle") ~> At(r, "idle")

\* A password change that was written logs the user out, unless the process
\* dies in between.
ChangeEndsSession ==
  \A r \in Requests, u \in Users :
    (At(r, "drop") /\ requests[r].user = u /\ crashes = MaxCrashes)
      ~> (cache[u] = None)

Accepted(t) == IF t.kind = "access" THEN AccessAccepted(t.user, t.iat)
                                    ELSE RefreshAccepted(t.user, t.iat)

\* "log the user out." (changePassword): once the password is changed, no token
\* handed out before is accepted any more.
ChangeLogsOut ==
  [][\A r \in Requests : ChangeDrop(r) =>
       \A t \in delivered : t.user = requests[r].user => ~Accepted(t)']_vars

\* "1. old password must correct": the password a change overwrites is the
\* old password of its request.
ChangeChecksCurrent ==
  [][\A r \in Requests :
       ChangeWrite(r) /\ users' # users => users[requests[r].user] = requests[r].old]_vars

=============================================================================
