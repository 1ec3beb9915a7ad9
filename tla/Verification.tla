----------------------------- MODULE Verification -----------------------------
(* Registration and e-mail verification: register, resendVerifyEmail and     *)
(* verifyEmail of AuthenticationService, the mail queue between them and its *)
(* processor, over user_entity and verification_code_entity.                 *)
(*                                                                           *)
(* A job outlives the process.  Bull hands a job whose worker does not renew *)
(* its lock to a worker once more, while the first execution may go on, and  *)
(* fails it the second time.  The processor swallows its exceptions: a job   *)
(* whose mail was not sent counts as completed.                              *)
(*                                                                           *)
(* A code is generated per execution of a job and names that execution.  It  *)
(* stands for the random string, its row, and the JWT in the link, whose     *)
(* expiry is left open: a link may never be used.  Addresses are left out:   *)
(* their uniqueness refuses a registration.                                  *)
(*                                                                           *)
(* Other handlers write the column verified, too.  A PATCH of a profile      *)
(* takes any value for it, and the save of a reset or a change of the        *)
(* password writes the value it loaded, over the account or in the place of  *)
(* one deleted meanwhile.                                                    *)
EXTENDS Naturals, FiniteSets

CONSTANTS Users,        \* account ids
          Requests,     \* verifyEmail requests that may be in flight together
          Workers,      \* jobs executed together, the concurrency of the queue
          MaxJobs,      \* bound on the registrations and requests to resend
          MaxCodes,     \* bound on the executions of jobs
          MaxFaults     \* bound on failing statements and mails, lost locks, crashes

ASSUME VerificationAssumption ==
  /\ Users # {}
  /\ Workers \in Nat \ {0}
  /\ MaxJobs \in Nat
  /\ MaxCodes \in Nat
  /\ MaxCodes >= 2 * MaxJobs
  /\ MaxFaults \in Nat

VARIABLES users,        \* users[u]: the account u and its column verified, which
                        \* is FALSE for one that is unverified, was never
                        \* verified, and for one that is lapsed, was once
          jobs,         \* jobs[j]: a request to mail a link, from the insert or the
                        \* look-up of its account on
          nextJob,      \* jobs from here on are not requested yet
          step,         \* step[c]: what execution c does next
          nextCode,     \* executions from here on have not begun
          rows,         \* the codes in verification_code_entity
          links,        \* the codes whose link reached its mailbox
          requests,     \* the verifyEmail requests in flight
          faults,       \* faults so far
          work,         \* history: work[c] is the job of execution c
          spoiled,      \* history: executions that a fault ended, swallowed
          cut,          \* history: codes whose mail or whose use was cut short
          passed,       \* history: codes a request found stored
          marked,       \* history: codes whose account a request made verified
          redeemed      \* history: codes whose request was answered with success

history == <<work, spoiled, cut, passed, marked, redeemed>>
vars == <<users, jobs, nextJob, step, nextCode, rows, links, requests, faults, history>>

-----------------------------------------------------------------------------
Codes == 1..MaxCodes
Jobs  == 1..MaxJobs

\* waiting to failed are Bull's; adding is the call of add not executed yet,
\* dropped a call that never was.  user: the account in the data of the job.
JobRecords ==
  [user : Users,
   stage : {"adding", "waiting", "active", "completed", "failed", "dropped"},
   stalls : 0..1]

NoJob == [user |-> CHOOSE u \in Users : TRUE, stage |-> "dropped", stalls |-> 0]

\* code: 0 when no request is in flight; todo: the calls of the transaction not
\* executed yet; confirm is the look-up that ends the update of the account.
Parts == {"remove", "mark", "confirm"}
RequestRecords == [code : Codes \cup {0}, todo : SUBSET Parts, failed : BOOLEAN]

Idle == [code |-> 0, todo |-> {}, failed |-> FALSE]

Init ==
  /\ users = [u \in Users |-> "unborn"]
  /\ jobs = [j \in Jobs |-> NoJob]
  /\ nextJob = 1
  /\ step = [c \in Codes |-> "none"]
  /\ nextCode = 1
  /\ rows = {} /\ links = {}
  /\ requests = [r \in Requests |-> Idle]
  /\ faults = 0
  /\ work = [c \in Codes |-> 0]
  /\ spoiled = {} /\ cut = {}
  /\ passed = {} /\ marked = {} /\ redeemed = {}

-----------------------------------------------------------------------------
Exists(u) == users[u] \in {"unverified", "verified", "lapsed"}

\* The account a generated code is for.
Owner(c) == jobs[work[c]].user

\* The executions under way.
Running == {c \in Codes : step[c] \in {"store", "send"}}

Fault == faults < MaxFaults /\ faults' = faults + 1

-----------------------------------------------------------------------------
(* POST register and POST resend-verification-email *)

\* The handler is about to add a job for account u to the queue.
Asks(u) ==
  /\ nextJob \in Jobs
  /\ jobs' = [jobs EXCEPT ![nextJob] = [user |-> u, stage |-> "adding", stalls |-> 0]]
  /\ nextJob' = nextJob + 1

\* The account is inserted.
Register(u) ==
  /\ users[u] = "unborn"
  /\ users' = [users EXCEPT ![u] = "unverified"]
  /\ Asks(u)
  /\ UNCHANGED <<step, nextCode, rows, links, requests, faults, history>>

\* Only for an account that exists and is not verified, else 404 or 400.
Resend(u) ==
  /\ users[u] \in {"unverified", "lapsed"}
  /\ Asks(u)
  /\ UNCHANGED <<users, step, nextCode, rows, links, requests, faults, history>>

\* Nobody waits for add.
Add(j) ==
  /\ jobs[j].stage = "adding"
  /\ jobs' = [jobs EXCEPT ![j].stage = "waiting"]
  /\ UNCHANGED <<users, nextJob, step, nextCode, rows, links, requests, faults, history>>

-----------------------------------------------------------------------------
(* AuthEmailProcessor *)

\* A worker takes the job and generates a code.
Take(j) ==
  /\ jobs[j].stage = "waiting"
  /\ nextCode \in Codes
  /\ Cardinality(Running) < Workers
  /\ jobs' = [jobs EXCEPT ![j].stage = "active"]
  /\ step' = [step EXCEPT ![nextCode] = "store"]
  /\ work' = [work EXCEPT ![nextCode] = j]
  /\ nextCode' = nextCode + 1
  /\ UNCHANGED <<users, nextJob, rows, links, requests, faults, spoiled, cut, passed,
                 marked, redeemed>>

\* The execution returns; its job is completed unless it was taken from it.
Ends(c) ==
  /\ step' = [step EXCEPT ![c] = "none"]
  /\ jobs' = [jobs EXCEPT ![work[c]].stage = IF @ = "active" THEN "completed" ELSE @]

\* Mutant: an account has one code, and a second one conflicts.
StoreOnce(c) ==
  /\ step[c] = "store"
  /\ IF Exists(Owner(c)) /\ \A d \in rows : Owner(d) # Owner(c)
     THEN /\ rows' = rows \cup {c}
          /\ step' = [step EXCEPT ![c] = "send"]
          /\ UNCHANGED jobs
     ELSE /\ Ends(c)
          /\ UNCHANGED rows
  /\ UNCHANGED <<users, nextJob, nextCode, links, requests, faults, history>>

\* Mutant: no mail for an account that is verified by now.
SendToUnverified(c) ==
  /\ step[c] = "send"
  /\ links' = IF users[Owner(c)] = "verified" THEN links ELSE links \cup {c}
  /\ Ends(c)
  /\ UNCHANGED <<users, nextJob, nextCode, rows, requests, faults, history>>

\* The upsert, which never meets a code it knows.  The foreign key refuses a
\* code of an account that is gone, and the exception is swallowed.
Store(c) ==
  /\ step[c] = "store"
  /\ IF Exists(Owner(c))
     THEN /\ rows' = rows \cup {c}
          /\ step' = [step EXCEPT ![c] = "send"]
          /\ UNCHANGED jobs
     ELSE /\ Ends(c)
          /\ UNCHANGED rows
  /\ UNCHANGED <<users, nextJob, nextCode, links, requests, faults, history>>

Send(c) ==
  /\ step[c] = "send"
  /\ links' = links \cup {c}
  /\ Ends(c)
  /\ UNCHANGED <<users, nextJob, nextCode, rows, requests, faults, history>>

\* The statement or the mailer throws.
Fails(c) ==
  /\ Fault
  /\ c \in Running
  /\ Ends(c)
  /\ spoiled' = spoiled \cup {c}
  /\ UNCHANGED <<users, nextJob, nextCode, rows, links, requests, work, cut, passed,
                 marked, redeemed>>

\* Mutant: stalls without end, counted.
StallsCounted(j) ==
  /\ jobs[j].stage = "active"
  /\ jobs' = [jobs EXCEPT ![j] = [@ EXCEPT !.stage = "waiting", !.stalls = @ + 1]]
  /\ UNCHANGED <<users, nextJob, step, nextCode, rows, links, requests, history>>

\* Mutant: stalls are not counted.
StallsUncounted(j) ==
  /\ jobs[j].stage = "active"
  /\ jobs' = [jobs EXCEPT ![j].stage = "waiting"]
  /\ UNCHANGED <<users, nextJob, step, nextCode, rows, links, requests, history>>

\* The lock of a job ran out: once it waits again, the second time it fails.
Stalls(j) ==
  /\ jobs[j].stage = "active"
  /\ \/ /\ jobs[j].stalls = 0
        /\ jobs' = [jobs EXCEPT ![j] = [user |-> @.user, stage |-> "waiting", stalls |-> 1]]
     \/ /\ jobs[j].stalls = 1
        /\ jobs' = [jobs EXCEPT ![j].stage = "failed"]
  /\ UNCHANGED <<users, nextJob, step, nextCode, rows, links, requests, history>>

Abandoned(j) == \A c \in Running : work[c] # j

\* Bull finds a job of a process that is gone.
Requeue(j) == Abandoned(j) /\ Stalls(j) /\ UNCHANGED faults

\* The process was too busy to renew the lock of a job it still executes.
LoseLock(j) == ~Abandoned(j) /\ Stalls(j) /\ Fault

-----------------------------------------------------------------------------
(* GET verify-email *)

\* The link verifies and its code is stored, so its account exists; else 401.
\* verifyEmail does not look at the expiry of the row.
Verify(r, c) ==
  /\ requests[r].code = 0
  /\ c \in links
  /\ c \in rows
  /\ requests' = [requests EXCEPT ![r] = [code |-> c, todo |-> {"remove", "mark"},
                                          failed |-> FALSE]]
  /\ passed' = passed \cup {c}
  /\ UNCHANGED <<users, jobs, nextJob, step, nextCode, rows, links, faults, work, spoiled,
                 cut, marked, redeemed>>

\* The call p of request r is over, and next is to come.
Settles(r, p, next, failed) ==
  LET q == requests[r]
  IN requests' = [requests EXCEPT ![r] =
       [code |-> q.code, todo |-> (q.todo \ {p}) \cup next, failed |-> q.failed \/ failed]]

VerifyRemove(r) ==
  /\ "remove" \in requests[r].todo
  /\ rows' = rows \ {requests[r].code}
  /\ Settles(r, "remove", {}, FALSE)
  /\ UNCHANGED <<users, jobs, nextJob, step, nextCode, links, faults, history>>

\* The update commits on its own; one that meets no account throws.
VerifyMark(r) ==
  /\ "mark" \in requests[r].todo
  /\ LET u == Owner(requests[r].code)
     IN IF Exists(u)
        THEN /\ users' = [users EXCEPT ![u] = "verified"]
             /\ marked' = marked \cup {requests[r].code}
             /\ Settles(r, "mark", {"confirm"}, FALSE)
        ELSE /\ Settles(r, "mark", {}, TRUE)
             /\ UNCHANGED <<users, marked>>
  /\ UNCHANGED <<jobs, nextJob, step, nextCode, rows, links, faults, work, spoiled, cut,
                 passed, redeemed>>

VerifyConfirm(r) ==
  /\ "confirm" \in requests[r].todo
  /\ Settles(r, "confirm", {}, ~Exists(Owner(requests[r].code)))
  /\ UNCHANGED <<users, jobs, nextJob, step, nextCode, rows, links, faults, history>>

\* One call throws and the other goes on: the transaction holds neither.
PartFails(r, p) ==
  /\ Fault
  /\ p \in requests[r].todo
  /\ Settles(r, p, {}, TRUE)
  /\ cut' = cut \cup {requests[r].code}
  /\ UNCHANGED <<users, jobs, nextJob, step, nextCode, rows, links, work, spoiled, passed,
                 marked, redeemed>>

\* Mutant: success once both calls are settled, failed or not.
VerifyAnswerSettled(r) ==
  /\ requests[r].code # 0
  /\ requests[r].todo = {}
  /\ redeemed' = redeemed \cup {requests[r].code}
  /\ requests' = [requests EXCEPT ![r] = Idle]
  /\ UNCHANGED <<users, jobs, nextJob, step, nextCode, rows, links, faults, work, spoiled,
                 cut, passed, marked>>

\* Mutant: the removal of the code is not awaited.
VerifyAnswerEarly(r) ==
  /\ requests[r].code # 0
  /\ requests[r].todo \subseteq {"remove"}
  /\ redeemed' = IF requests[r].failed THEN redeemed
                 ELSE redeemed \cup {requests[r].code}
  /\ requests' = [requests EXCEPT ![r] = Idle]
  /\ UNCHANGED <<users, jobs, nextJob, step, nextCode, rows, links, faults, work, spoiled,
                 cut, passed, marked>>

\* Success when both calls succeeded, else 401.
VerifyAnswer(r) ==
  /\ requests[r].code # 0
  /\ requests[r].todo = {}
  /\ redeemed' = IF requests[r].failed THEN redeemed
                 ELSE redeemed \cup {requests[r].code}
  /\ requests' = [requests EXCEPT ![r] = Idle]
  /\ UNCHANGED <<users, jobs, nextJob, step, nextCode, rows, links, faults, work, spoiled,
                 cut, passed, marked>>

-----------------------------------------------------------------------------
(* Other writers of accounts *)

\* An access token is given to verified accounts only.  It works on when the
\* flag is taken back.
MayHoldToken(u) == users[u] \in {"verified", "lapsed"}

\* An account that was s once its column verified is v.
Flagged(s, v) == IF v THEN "verified" ELSE IF s = "unverified" THEN s ELSE "lapsed"

\* PATCH of a profile, by anybody with a token: the body is written as it is.
Update(u, v) ==
  /\ \E w \in Users : MayHoldToken(w)
  /\ Exists(u)
  /\ users' = [users EXCEPT ![u] = Flagged(@, v)]
  /\ UNCHANGED <<jobs, nextJob, step, nextCode, rows, links, requests, faults, history>>

\* The save of a reset or a change of the password writes the flag as it was
\* when the account was loaded, which may be any value the account has had:
\* over the account, or in its place when it was deleted since.
SaveUser(u, v) ==
  /\ users[u] \in {"verified", "lapsed", "gone"}
  /\ users' = [users EXCEPT ![u] = Flagged(@, v)]
  /\ UNCHANGED <<jobs, nextJob, step, nextCode, rows, links, requests, faults, history>>

\* Mutant: the codes of the account go with it.
DeleteUserCascades(u) ==
  /\ MayHoldToken(u)
  /\ users' = [users EXCEPT ![u] = "gone"]
  /\ rows' = {c \in rows : Owner(c) # u}
  /\ UNCHANGED <<jobs, nextJob, step, nextCode, links, requests, faults, history>>

\* delete-account takes an access token.  The foreign key keeps an account that
\* has codes.
DeleteUser(u) ==
  /\ MayHoldToken(u)
  /\ \A c \in rows : Owner(c) # u
  /\ users' = [users EXCEPT ![u] = "gone"]
  /\ UNCHANGED <<jobs, nextJob, step, nextCode, rows, links, requests, faults, history>>

\* Jobs that were added and rows persist.  A call of add that is rejected ends
\* the process, too: nobody handles the rejection.
Crash ==
  /\ Fault
  /\ step' = [c \in Codes |-> "none"]
  /\ jobs' = [j \in Jobs |-> IF jobs[j].stage = "adding"
                             THEN [jobs[j] EXCEPT !.stage = "dropped"] ELSE jobs[j]]
  /\ requests' = [r \in Requests |-> Idle]
  /\ cut' = cut \cup Running \cup {requests[r].code : r \in {q \in Requests : requests[q].code # 0}}
  /\ UNCHANGED <<users, nextJob, nextCode, rows, links, work, spoiled, passed, marked,
                 redeemed>>

\* What the process and the queue go on with.
Mailing == \/ \E j \in Jobs : Add(j) \/ Take(j) \/ Requeue(j)
           \/ \E c \in Codes : Store(c) \/ Send(c)

Continue(r) == VerifyRemove(r) \/ VerifyMark(r) \/ VerifyConfirm(r) \/ VerifyAnswer(r)

Next ==
  \/ Mailing
  \/ \E u \in Users : \/ Register(u) \/ Resend(u) \/ DeleteUser(u)
                      \/ \E v \in BOOLEAN : Update(u, v) \/ SaveUser(u, v)
  \/ \E r \in Requests : \/ Continue(r)
                         \/ \E c \in Codes : Verify(r, c)
                         \/ \E p \in Parts : PartFails(r, p)
  \/ \E c \in Codes : Fails(c)
  \/ \E j \in Jobs : LoseLock(j)
  \/ Crash

Spec == Init /\ [][Next]_vars

\* The queue serves every job, and an execution goes on until it returns or
\* its process dies.
Fairness == /\ \A j \in Jobs : WF_vars(Add(j)) /\ WF_vars(Take(j)) /\ WF_vars(Requeue(j))
            /\ \A c \in Codes : WF_vars(Store(c)) /\ WF_vars(Send(c))

FairSpec == Spec /\ Fairness

-----------------------------------------------------------------------------
(* Properties *)

TypeOK ==
  /\ users \in [Users -> {"unborn", "unverified", "verified", "lapsed", "gone"}]
  /\ jobs \in [Jobs -> JobRecords]
  /\ nextJob \in 1..(MaxJobs + 1)
  /\ step \in [Codes -> {"none", "store", "send"}]
  /\ nextCode \in 1..(MaxCodes + 1)
  /\ rows \subseteq Codes /\ links \subseteq Codes
  /\ requests \in [Requests -> RequestRecords]
  /\ faults \in Nat
  /\ work \in [Codes -> Jobs \cup {0}]
  /\ spoiled \subseteq Codes /\ cut \subseteq Codes
  /\ passed \subseteq Codes /\ marked \subseteq Codes /\ redeemed \subseteq Codes

\* The account is verified, or was: another handler may have taken the flag
\* back, or the account may be deleted.
BeenVerified(u) == users[u] \in {"verified", "lapsed", "gone"}

\* A verification that was acknowledged has happened: a request with this very
\* code has made the account verified, whatever other handlers wrote since.
\* And one that was begun is not forgotten: a code that a request used up
\* before its account was ever verified is still held by a request that will
\* verify it, unless a failure or a crash came between the two calls of the
\* transaction that does not hold them.
NothingHalfDone ==
  /\ redeemed \subseteq marked
  /\ \A c \in marked : BeenVerified(Owner(c))
  /\ \A c \in passed \ rows :
       \/ BeenVerified(Owner(c))
       \/ \E r \in Requests : requests[r].code = c /\ "mark" \in requests[r].todo
       \/ c \in cut

\* Every link that was mailed works until a request uses it: its code is stored
\* before the mail goes out, and nothing else removes it, a deletion of the
\* account neither.
LinksWork == links \subseteq rows \cup passed

\* A stored code that nobody was told of, and that keeps its account from being
\* deleted, is one whose mail failed or whose execution a crash ended.
StoredIsReachable ==
  rows \subseteq links \cup spoiled \cup cut \cup {c \in Codes : step[c] = "send"}

\* A job mails two links at the most, however often its lock is lost and
\* whichever execution returns first.
MailsPerJob == \A j \in Jobs : Cardinality({c \in links : work[c] = j}) <= 2

Stage == [c \in Codes |-> IF c >= nextCode THEN "fresh"
                          ELSE IF c \in rows THEN "live"
                          ELSE IF step[c] = "store" THEN "issued"
                          ELSE "dead"]

\* The verification codes are one-time codes.
OneTime == INSTANCE OneTimeCodes WITH stage <- Stage
CodesRefinement == OneTime!Spec

Mailed(j) == \E c \in links : work[c] = j

\* A link is mailed for every job that was added, also when the process dies
\* over it, unless the account is deleted first, a failure is swallowed, or a
\* second stall fails the job.
AskedIsMailed ==
  \A j \in Jobs : jobs[j].stage = "waiting" ~>
    \/ Mailed(j)
    \/ users[jobs[j].user] = "gone"
    \/ \E c \in spoiled : work[c] = j
    \/ jobs[j].stage = "failed"

=============================================================================
