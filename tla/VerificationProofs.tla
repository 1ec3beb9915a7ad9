-------------------------- MODULE VerificationProofs --------------------------
(* Proofs about Verification, for every number of accounts, requests and     *)
(* workers and every bound on jobs, executions and faults.                   *)
EXTENDS Verification, FiniteSetTheorems, TLAPS

-----------------------------------------------------------------------------
(* Type correctness.  Jobs and executions are numbered in the order they     *)
(* begin, and nothing is known of those that have not begun; a requested job *)
(* is for an account that was registered.                                    *)

Begun ==
  /\ \A c \in Codes : c < nextCode => work[c] \in Jobs /\ work[c] < nextJob
  /\ \A c \in Codes : c >= nextCode =>
       /\ step[c] = "none" /\ work[c] = 0
       /\ c \notin rows /\ c \notin links /\ c \notin passed /\ c \notin redeemed
  /\ \A j \in Jobs : j >= nextJob => jobs[j].stage = "dropped"
  /\ \A j \in Jobs : j < nextJob => users[jobs[j].user] # "unborn"

\* A request has a code that was found stored, and calls to execute only then.
Held == \A r \in Requests : /\ requests[r].todo # {} => requests[r].code # 0
                            /\ requests[r].code # 0 => requests[r].code \in passed

Base == TypeOK /\ Begun /\ Held

LEMMA NumbersAreNat == Codes \subseteq Nat /\ Jobs \subseteq Nat
                       /\ MaxCodes \in Nat /\ MaxJobs \in Nat
  BY VerificationAssumption DEF Codes, Jobs

LEMMA BaseInit == Init => Base
<1> SUFFICES ASSUME Init PROVE Base
  OBVIOUS
<1>1. NoJob \in JobRecords /\ NoJob.stage = "dropped"
  BY VerificationAssumption DEF NoJob, JobRecords
<1>2. Idle \in RequestRecords
  BY DEF Idle, RequestRecords, Parts
<1>3. TypeOK
  BY <1>1, <1>2, NumbersAreNat DEF Init, TypeOK
<1>4. Begun
  BY <1>1, NumbersAreNat DEF Init, Begun, Codes, Jobs
<1>5. Held
  BY DEF Init, Held, Idle
<1> QED BY <1>3, <1>4, <1>5 DEF Base

\* A new job.
LEMMA BaseAsks ==
  ASSUME Base, NEW u \in Users, Asks(u),
         users' \in [Users -> {"unborn", "unverified", "verified", "lapsed", "gone"}],
         users'[u] # "unborn",
         \A v \in Users : users[v] # "unborn" => users'[v] # "unborn",
         UNCHANGED <<step, nextCode, rows, links, requests, faults, history>>
  PROVE  Base'
<1>1. jobs' \in [Jobs -> JobRecords] /\ nextJob' \in 1..(MaxJobs + 1)
  BY NumbersAreNat DEF Base, TypeOK, Asks, JobRecords, Jobs
<1>2. TypeOK'
  BY <1>1 DEF Base, TypeOK, history
<1>3. \A j \in Jobs : j # nextJob => jobs'[j] = jobs[j]
  BY DEF Asks, Base, TypeOK
<1>4. jobs'[nextJob].user = u /\ nextJob' = nextJob + 1 /\ nextJob \in Nat
  BY NumbersAreNat DEF Asks, Base, TypeOK, Jobs
<1>6. \A j \in Jobs : jobs[j].user \in Users
  BY DEF Base, TypeOK, JobRecords
<1>7. \A j \in Jobs : j >= nextJob' => j >= nextJob /\ j # nextJob
  BY <1>4, NumbersAreNat
<1>8. \A j \in Jobs : j < nextJob' => j < nextJob \/ j = nextJob
  BY <1>4, NumbersAreNat
<1>9. \A j \in Jobs : j < nextJob => j < nextJob'
  BY <1>4, NumbersAreNat
<1>10. Begun'
  <2>1. \A c \in Codes : c < nextCode' => work'[c] \in Jobs /\ work'[c] < nextJob'
    BY <1>9 DEF Base, Begun, history
  <2>2. \A j \in Jobs : j < nextJob' => users'[jobs'[j].user] # "unborn"
    BY <1>3, <1>4, <1>6, <1>8 DEF Base, Begun
  <2> QED BY <1>3, <1>7, <2>1, <2>2 DEF Base, Begun, history
<1>11. Held'
  BY DEF Base, Held, history
<1> QED BY <1>2, <1>10, <1>11 DEF Base

\* A step that begins nothing keeps Base when it keeps the types: stages of
\* jobs change, not their accounts.
LEMMA BaseQuiet ==
  ASSUME Base, TypeOK', Held',
         UNCHANGED <<nextJob, nextCode, work>>,
         \A j \in Jobs : jobs'[j].user = jobs[j].user,
         \A j \in Jobs : jobs[j].stage = "dropped" => jobs'[j].stage = "dropped",
         \A u \in Users : users[u] # "unborn" => users'[u] # "unborn",
         \A c \in Codes : c >= nextCode =>
           /\ step'[c] = "none"
           /\ c \notin rows' /\ c \notin links' /\ c \notin passed' /\ c \notin redeemed'
  PROVE  Base'
<1>1. \A j \in Jobs : jobs[j].user \in Users
  BY DEF Base, TypeOK, JobRecords
<1> QED BY <1>1 DEF Base, Begun

\* What the end of an execution and a stall make of the jobs.
LEMMA EndsStep ==
  ASSUME Base, NEW c \in Codes, step[c] # "none", Ends(c)
  PROVE  /\ step' \in [Codes -> {"none", "store", "send"}]
         /\ jobs' \in [Jobs -> JobRecords]
         /\ \A j \in Jobs : jobs'[j].user = jobs[j].user
         /\ \A j \in Jobs : jobs[j].stage = "dropped" => jobs'[j].stage = "dropped"
         /\ \A d \in Codes : d # c => step'[d] = step[d]
         /\ step'[c] = "none"
<1>1. work[c] \in Jobs
  BY NumbersAreNat DEF Base, TypeOK, Begun
<1> QED BY <1>1 DEF Ends, Base, TypeOK, JobRecords

LEMMA StallsStep ==
  ASSUME Base, NEW j \in Jobs, Stalls(j), faults' \in Nat
  PROVE  Base'
<1>a. jobs[j] \in JobRecords
  BY DEF Base, TypeOK
<1>1. PICK q \in JobRecords : /\ jobs' = [jobs EXCEPT ![j] = q]
                              /\ q.user = jobs[j].user
  <2>1. CASE jobs[j].stalls = 0
    <3> DEFINE q == [user |-> jobs[j].user, stage |-> "waiting", stalls |-> 1]
    <3>1. q \in JobRecords /\ jobs' = [jobs EXCEPT ![j] = q] /\ q.user = jobs[j].user
      BY <1>a, <2>1 DEF Stalls, JobRecords
    <3> QED BY <3>1
  <2>2. CASE jobs[j].stalls = 1
    <3> DEFINE q == [jobs[j] EXCEPT !.stage = "failed"]
    <3>1. q \in JobRecords /\ jobs' = [jobs EXCEPT ![j] = q] /\ q.user = jobs[j].user
      BY <1>a, <2>2 DEF Stalls, JobRecords
    <3> QED BY <3>1
  <2> QED BY <2>1, <2>2 DEF Stalls
<1>2. /\ jobs' \in [Jobs -> JobRecords]
      /\ \A i \in Jobs : jobs'[i].user = jobs[i].user
      /\ \A i \in Jobs : jobs[i].stage = "dropped" => jobs'[i].stage = "dropped"
  BY <1>1 DEF Stalls, Base, TypeOK
<1>3. TypeOK'
  BY <1>2 DEF Stalls, Base, TypeOK, history
<1>4. Held'
  BY DEF Stalls, Base, Held, history
<1> QED BY <1>2, <1>3, <1>4, BaseQuiet DEF Stalls, Base, Begun, history

\* What a call of verifyEmail makes of its request.
LEMMA SettlesStep ==
  ASSUME Base, NEW r \in Requests, NEW p \in Parts, NEW next \in SUBSET Parts,
         NEW failed \in BOOLEAN, Settles(r, p, next, failed)
  PROVE  /\ requests' \in [Requests -> RequestRecords]
         /\ requests'[r].todo = (requests[r].todo \ {p}) \cup next
         /\ requests'[r].failed <=> requests[r].failed \/ failed
         /\ \A q \in Requests : requests'[q].code = requests[q].code
         /\ \A q \in Requests : q # r => requests'[q] = requests[q]
<1>1. requests[r] \in RequestRecords
  BY DEF Base, TypeOK
<1> DEFINE q == [code |-> requests[r].code,
                 todo |-> (requests[r].todo \ {p}) \cup next,
                 failed |-> requests[r].failed \/ failed]
<1>2. (requests[r].failed \/ failed) \in BOOLEAN
  OBVIOUS
<1>3. q \in RequestRecords
  BY <1>1, <1>2 DEF RequestRecords
<1>4. requests' = [requests EXCEPT ![r] = q]
  BY DEF Settles
<1>5. requests'[r] = q
  BY <1>4 DEF Base, TypeOK
<1>6. q.failed = (requests[r].failed \/ failed)
  OBVIOUS
<1>8. q.code = requests[r].code /\ q.todo = (requests[r].todo \ {p}) \cup next
  OBVIOUS
<1> HIDE DEF q
<1>7. requests'[r].failed <=> requests[r].failed \/ failed
  BY <1>5, <1>6
<1> QED BY <1>3, <1>4, <1>5, <1>7, <1>8 DEF Base, TypeOK

LEMMA CodeHasOwner ==
  ASSUME Base, NEW c \in Codes,
         step[c] # "none" \/ c \in rows \/ c \in links \/ c \in passed \/ c \in redeemed
  PROVE  /\ c \in Nat /\ nextCode \in Nat /\ c < nextCode /\ work[c] \in Jobs
         /\ Owner(c) \in Users /\ users[Owner(c)] # "unborn"
<1>1. c \in Nat /\ nextCode \in Nat
  BY NumbersAreNat DEF Base, TypeOK
<1>2. c < nextCode
  BY <1>1 DEF Base, Begun
<1>3. work[c] \in Jobs /\ work[c] < nextJob
  BY <1>2 DEF Base, Begun
<1> QED BY <1>1, <1>2, <1>3 DEF Base, TypeOK, Begun, JobRecords, Owner

\* A call of verifyEmail that only settles its own part.
LEMMA BaseSettles ==
  ASSUME Base, NEW r \in Requests, NEW p \in Parts, NEW next \in SUBSET Parts,
         NEW failed \in BOOLEAN, p \in requests[r].todo,
         Settles(r, p, next, failed), UNCHANGED passed
  PROVE  Held'
<1>1. requests[r].code # 0
  <2>1. requests[r].todo # {}
    OBVIOUS
  <2> QED BY <2>1 DEF Base, Held
<1> QED BY <1>1, SettlesStep DEF Base, Held

LEMMA BaseMailing == Base /\ Mailing => Base'
<1> SUFFICES ASSUME Base, Mailing PROVE Base'
  OBVIOUS
<1>1. ASSUME NEW j \in Jobs, Add(j) PROVE Base'
  <2>1. TypeOK' /\ Held'
    BY <1>1 DEF Add, Base, TypeOK, JobRecords, Held, history
  <2>2. /\ \A i \in Jobs : jobs'[i].user = jobs[i].user
        /\ \A i \in Jobs : jobs[i].stage = "dropped" => jobs'[i].stage = "dropped"
    BY <1>1 DEF Add, Base, TypeOK, JobRecords
  <2> QED BY <1>1, <2>1, <2>2, BaseQuiet DEF Add, Base, Begun, history
<1>2. ASSUME NEW j \in Jobs, Take(j) PROVE Base'
  <2>a. jobs' \in [Jobs -> JobRecords]
    BY <1>2 DEF Take, Base, TypeOK, JobRecords
  <2>b. nextCode' \in 1..(MaxCodes + 1)
    BY <1>2, NumbersAreNat DEF Take, Codes
  <2>1. jobs' \in [Jobs -> JobRecords] /\ nextCode' \in 1..(MaxCodes + 1)
    BY <2>a, <2>b
  <2>2. TypeOK'
    BY <1>2, <2>1 DEF Take, Base, TypeOK
  <2>3. /\ \A i \in Jobs : jobs'[i].user = jobs[i].user
        /\ \A i \in Jobs : jobs[i].stage = "dropped" => jobs'[i].stage = "dropped"
        /\ jobs[j].stage # "dropped"
    BY <1>2 DEF Take, Base, TypeOK, JobRecords
  <2>4. nextCode \in Nat /\ nextCode' = nextCode + 1 /\ j < nextJob
    BY <1>2, <2>3, NumbersAreNat DEF Take, Base, TypeOK, Begun
  <2>5. /\ \A c \in Codes : c # nextCode => work'[c] = work[c] /\ step'[c] = step[c]
        /\ work'[nextCode] = j
    BY <1>2 DEF Take, Base, TypeOK
  <2>6. \A c \in Codes : c < nextCode' => work'[c] \in Jobs /\ work'[c] < nextJob'
    BY <1>2, <2>4, <2>5, NumbersAreNat DEF Take, Base, Begun
  <2>7. \A c \in Codes : c >= nextCode' => c >= nextCode /\ c # nextCode
    BY <2>4, NumbersAreNat
  <2>8. \A i \in Jobs : i < nextJob' => users'[jobs'[i].user] # "unborn"
    BY <1>2, <2>3 DEF Take, Base, Begun
  <2>9. Begun'
    BY <1>2, <2>3, <2>5, <2>6, <2>7, <2>8 DEF Take, Base, Begun
  <2>10. Held'
    BY <1>2 DEF Take, Base, Held
  <2> QED BY <2>2, <2>9, <2>10 DEF Base
<1>3. ASSUME NEW j \in Jobs, Requeue(j) PROVE Base'
  BY <1>3, StallsStep DEF Requeue, Base, TypeOK
<1>4. ASSUME NEW c \in Codes, Store(c) PROVE Base'
  <2>1. c < nextCode /\ c \in Nat /\ nextCode \in Nat
    BY <1>4, CodeHasOwner DEF Store
  <2>2. Held'
    BY <1>4 DEF Store, Base, Held, history
  <2>3. CASE Exists(Owner(c))
    <3>1. TypeOK'
      BY <1>4, <2>3 DEF Store, Base, TypeOK, history
    <3> QED BY <1>4, <2>1, <2>2, <2>3, <3>1, BaseQuiet DEF Store, Base, TypeOK, Begun, history
  <2>4. CASE ~Exists(Owner(c))
    <3>1. Ends(c) /\ step[c] # "none"
      BY <1>4, <2>4 DEF Store
    <3>2. TypeOK'
      BY <1>4, <2>4, <3>1, EndsStep DEF Store, Base, TypeOK, history
    <3> QED BY <1>4, <2>1, <2>2, <2>4, <3>1, <3>2, EndsStep, BaseQuiet
            DEF Store, Base, Begun, history
  <2> QED BY <2>3, <2>4
<1>5. ASSUME NEW c \in Codes, Send(c) PROVE Base'
  <2>1. c < nextCode /\ c \in Nat /\ nextCode \in Nat
    BY <1>5, CodeHasOwner DEF Send
  <2>2. Ends(c) /\ step[c] # "none"
    BY <1>5 DEF Send
  <2>3. TypeOK' /\ Held'
    BY <1>5, <2>2, EndsStep DEF Send, Base, TypeOK, Held, history
  <2> QED BY <1>5, <2>1, <2>2, <2>3, EndsStep, BaseQuiet DEF Send, Base, Begun, history
<1> QED BY <1>1, <1>2, <1>3, <1>4, <1>5 DEF Mailing

LEMMA BaseVerify ==
  ASSUME Base, NEW r \in Requests, Continue(r)
  PROVE  Base'
<1>1. requests[r].code # 0 => requests[r].code \in Codes /\ requests[r].code \in passed
  BY DEF Base, Held, TypeOK, RequestRecords
<1>2. CASE VerifyRemove(r)
  <2>1. /\ Settles(r, "remove", {}, FALSE) /\ "remove" \in requests[r].todo
        /\ "remove" \in Parts
    BY <1>2 DEF VerifyRemove, Parts
  <2>2. Held'
    BY <1>2, <2>1, BaseSettles DEF VerifyRemove, history
  <2>3. TypeOK'
    BY <1>2, <2>1, SettlesStep DEF VerifyRemove, Base, TypeOK, history
  <2> QED BY <1>2, <2>2, <2>3, BaseQuiet DEF VerifyRemove, Base, Begun, history
<1>3. CASE VerifyMark(r)
  <2>1. "mark" \in requests[r].todo /\ "mark" \in Parts
    BY <1>3 DEF VerifyMark, Parts
  <2>2. \/ /\ Settles(r, "mark", {"confirm"}, FALSE)
           /\ Exists(Owner(requests[r].code))
           /\ users' = [users EXCEPT ![Owner(requests[r].code)] = "verified"]
           /\ marked' = marked \cup {requests[r].code}
        \/ Settles(r, "mark", {}, TRUE) /\ UNCHANGED <<users, marked>>
    BY <1>3 DEF VerifyMark
  <2>3. Held' /\ requests' \in [Requests -> RequestRecords]
    BY <1>3, <2>1, <2>2, BaseSettles, SettlesStep DEF VerifyMark, Parts
  <2>6. requests[r].code \in Codes
    BY <1>1, <2>1 DEF Base, Held
  <2>4. TypeOK'
    BY <1>3, <2>2, <2>3, <2>6 DEF VerifyMark, Base, TypeOK
  <2>5. \A u \in Users : users[u] # "unborn" => users'[u] # "unborn"
    BY <2>2 DEF Base, TypeOK
  <2> QED BY <1>3, <2>3, <2>4, <2>5, BaseQuiet DEF VerifyMark, Base, Begun
<1>4. CASE VerifyConfirm(r)
  <2>1. PICK failed \in BOOLEAN : Settles(r, "confirm", {}, failed)
    BY <1>4 DEF VerifyConfirm
  <2>2. "confirm" \in requests[r].todo /\ "confirm" \in Parts
    BY <1>4 DEF VerifyConfirm, Parts
  <2>3. Held'
    BY <1>4, <2>1, <2>2, BaseSettles DEF VerifyConfirm, history
  <2>4. TypeOK'
    BY <1>4, <2>1, <2>2, SettlesStep DEF VerifyConfirm, Base, TypeOK, history
  <2> QED BY <1>4, <2>3, <2>4, BaseQuiet DEF VerifyConfirm, Base, Begun, history
<1>5. CASE VerifyAnswer(r)
  <2>1. Idle \in RequestRecords /\ Idle.code = 0 /\ Idle.todo = {}
    BY DEF Idle, RequestRecords, Parts
  <2>2. requests' = [requests EXCEPT ![r] = Idle]
        /\ requests' \in [Requests -> RequestRecords]
    BY <1>5, <2>1 DEF VerifyAnswer, Base, TypeOK
  <2>3. Held'
    BY <1>5, <2>1, <2>2 DEF VerifyAnswer, Base, TypeOK, Held
  <2>4. TypeOK'
    BY <1>1, <1>5, <2>2 DEF VerifyAnswer, Base, TypeOK
  <2>5. requests[r].code < nextCode /\ requests[r].code \in Nat /\ nextCode \in Nat
    BY <1>1, <1>5, CodeHasOwner DEF VerifyAnswer
  <2> QED BY <1>5, <2>3, <2>4, <2>5, BaseQuiet DEF VerifyAnswer, Base, Begun
<1> QED BY <1>2, <1>3, <1>4, <1>5 DEF Continue

\* What the other writers of an account do.
Overwrites(u) == \/ DeleteUser(u)
                 \/ \E v \in BOOLEAN : Update(u, v) \/ SaveUser(u, v)

LEMMA OverwritesOne ==
  ASSUME NEW u \in Users, Overwrites(u)
  PROVE  UNCHANGED <<jobs, nextJob, step, nextCode, rows, links, requests, faults,
                     work, spoiled, cut, passed, marked, redeemed>>
  BY DEF Overwrites, DeleteUser, Update, SaveUser, history

LEMMA AccountWritten ==
  ASSUME Base, NEW u \in Users, Overwrites(u)
  PROVE  /\ users' \in [Users -> {"unborn", "unverified", "verified", "lapsed", "gone"}]
         /\ \A v \in Users : users[v] # "unborn" => users'[v] # "unborn"
         /\ \A v \in Users : BeenVerified(v) => BeenVerified(v)'
<1>1. CASE DeleteUser(u)
  BY <1>1 DEF DeleteUser, MayHoldToken, BeenVerified, Base, TypeOK
<1>2. ASSUME NEW v \in BOOLEAN, Update(u, v) \/ SaveUser(u, v)
      PROVE  /\ users' \in [Users -> {"unborn", "unverified", "verified", "lapsed", "gone"}]
             /\ \A w \in Users : users[w] # "unborn" => users'[w] # "unborn"
             /\ \A w \in Users : BeenVerified(w) => BeenVerified(w)'
  <2>1. users' = [users EXCEPT ![u] = Flagged(users[u], v)]
    BY <1>2 DEF Update, SaveUser, Base, TypeOK
  <2>2. /\ Flagged(users[u], v) \in {"unverified", "verified", "lapsed"}
        /\ Flagged(users[u], v) = "unverified" => users[u] = "unverified"
    BY DEF Flagged
  <2> QED BY <2>1, <2>2 DEF BeenVerified, Base, TypeOK
<1> QED BY <1>1, <1>2 DEF Overwrites

LEMMA BaseNext == Base /\ [Next]_vars => Base'
<1> SUFFICES ASSUME Base, [Next]_vars PROVE Base'
  OBVIOUS
<1>1. ASSUME NEW u \in Users, Register(u) \/ Resend(u) PROVE Base'
  BY <1>1, BaseAsks DEF Register, Resend, Base, TypeOK
<1>2. ASSUME NEW u \in Users, Overwrites(u) PROVE Base'
  <2>1. TypeOK' /\ Held'
    BY <1>2, OverwritesOne, AccountWritten DEF Base, TypeOK, Held
  <2> QED BY <1>2, <2>1, OverwritesOne, AccountWritten, BaseQuiet DEF Base, Begun
<1>3. ASSUME NEW r \in Requests, NEW c \in Codes, Verify(r, c) PROVE Base'
  <2>1. c < nextCode /\ c \in Nat /\ nextCode \in Nat /\ c # 0
    BY <1>3, CodeHasOwner DEF Verify, Codes
  <2> DEFINE q == [code |-> c, todo |-> {"remove", "mark"}, failed |-> FALSE]
  <2>2. q \in RequestRecords /\ q.code = c
    BY DEF RequestRecords, Parts
  <2>3. requests' = [requests EXCEPT ![r] = q]
    BY <1>3 DEF Verify
  <2> HIDE DEF q
  <2>4. TypeOK' /\ Held'
    BY <1>3, <2>1, <2>2, <2>3 DEF Verify, Base, TypeOK, Held
  <2> QED BY <1>3, <2>1, <2>4, BaseQuiet DEF Verify, Base, Begun
<1>4. ASSUME NEW r \in Requests, NEW p \in Parts, PartFails(r, p) PROVE Base'
  <2>1. Settles(r, p, {}, TRUE) /\ p \in requests[r].todo
    BY <1>4 DEF PartFails
  <2>2. Held'
    BY <1>4, <2>1, BaseSettles DEF PartFails
  <2>3. requests[r].code # 0 /\ requests[r].code \in Codes
    <3>1. requests[r].todo # {}
      BY <2>1
    <3> QED BY <3>1 DEF Base, Held, TypeOK, RequestRecords
  <2>a. requests' \in [Requests -> RequestRecords]
    BY <2>1, SettlesStep
  <2>4. TypeOK'
    BY <1>4, <2>3, <2>a DEF PartFails, Fault, Base, TypeOK
  <2> QED BY <1>4, <2>2, <2>4, BaseQuiet DEF PartFails, Base, Begun
<1>5. ASSUME NEW c \in Codes, Fails(c) PROVE Base'
  <2>1. Ends(c) /\ step[c] # "none"
    BY <1>5 DEF Fails, Running
  <2>2. c < nextCode /\ c \in Nat /\ nextCode \in Nat
    BY <2>1, CodeHasOwner
  <2>3. TypeOK' /\ Held'
    BY <1>5, <2>1, EndsStep DEF Fails, Fault, Base, TypeOK, Held
  <2> QED BY <1>5, <2>1, <2>2, <2>3, EndsStep, BaseQuiet DEF Fails, Base, Begun
<1>6. ASSUME NEW j \in Jobs, LoseLock(j) PROVE Base'
  BY <1>6, StallsStep DEF LoseLock, Fault, Base, TypeOK
<1>7. CASE Crash
  <2>1. Idle \in RequestRecords /\ Idle.code = 0 /\ Idle.todo = {}
    BY DEF Idle, RequestRecords, Parts
  <2>2. /\ jobs' \in [Jobs -> JobRecords]
        /\ \A j \in Jobs : jobs'[j].user = jobs[j].user
        /\ \A j \in Jobs : jobs[j].stage = "dropped" => jobs'[j].stage = "dropped"
    BY <1>7 DEF Crash, Base, TypeOK, JobRecords
  <2>3. cut' \subseteq Codes
    BY <1>7 DEF Crash, Running, Base, TypeOK, RequestRecords
  <2>4. TypeOK' /\ Held'
    BY <1>7, <2>1, <2>2, <2>3 DEF Crash, Fault, Base, TypeOK, Held
  <2> QED BY <1>7, <2>2, <2>4, BaseQuiet DEF Crash, Base, Begun
<1>8. CASE UNCHANGED vars
  BY <1>8 DEF vars, history, Base, TypeOK, Begun, Held
<1> QED BY <1>1, <1>2, <1>3, <1>4, <1>5, <1>6, <1>7, <1>8, BaseMailing, BaseVerify
        DEF Next, Overwrites

LEMMA BaseAlways == Spec => []Base
  BY BaseInit, BaseNext, PTL DEF Spec

\* The state of the component always has its type.
THEOREM TypeCorrect == Spec => []TypeOK
<1>1. Base => TypeOK
  BY DEF Base
<1> QED BY <1>1, BaseAlways, PTL

-----------------------------------------------------------------------------
(* Links and rows: a code is stored before its mail goes out, and only a     *)
(* request that found it stored removes it.                                  *)

Shelf ==
  /\ \A c \in Codes : step[c] = "store" => c \notin rows \cup passed
  /\ \A c \in Codes : step[c] = "send" => c \in rows \cup passed
  /\ LinksWork
  /\ StoredIsReachable

LEMMA ShelfQuiet ==
  ASSUME Shelf, UNCHANGED <<step, rows, links, passed>>,
         spoiled \subseteq spoiled', cut \subseteq cut'
  PROVE  Shelf'
  BY DEF Shelf, LinksWork, StoredIsReachable

\* An execution ends: it was not to mail, or it mailed, failed or crashed.
LEMMA ShelfEnds ==
  ASSUME Base, Shelf, NEW c \in Codes, UNCHANGED <<rows, passed, cut>>,
         step'[c] = "none", \A d \in Codes : d # c => step'[d] = step[d],
         links \subseteq links', links' \subseteq links \cup {c},
         spoiled \subseteq spoiled',
         c \in rows => c \in links' \cup spoiled',
         c \in links' => c \in rows \cup passed
  PROVE  Shelf'
<1>1. links \subseteq Codes /\ rows \subseteq Codes
  BY DEF Base, TypeOK
<1>2. LinksWork'
  BY DEF Shelf, LinksWork
<1>3. StoredIsReachable'
  BY <1>1 DEF Shelf, StoredIsReachable
<1>4. /\ \A d \in Codes : step'[d] = "store" => d \notin rows' \cup passed'
      /\ \A d \in Codes : step'[d] = "send" => d \in rows' \cup passed'
  BY DEF Shelf
<1> QED BY <1>2, <1>3, <1>4 DEF Shelf

LEMMA ShelfNext == Base /\ Shelf /\ [Next]_vars => Shelf'
<1> SUFFICES ASSUME Base, Shelf, [Next]_vars PROVE Shelf'
  OBVIOUS
<1>1. ASSUME NEW j \in Jobs, Add(j) \/ Requeue(j) \/ LoseLock(j) PROVE Shelf'
  BY <1>1, ShelfQuiet DEF Add, Requeue, LoseLock, Stalls, history
<1>2. ASSUME NEW j \in Jobs, Take(j) PROVE Shelf'
  <2>1. nextCode \in Codes /\ nextCode \notin rows \cup passed /\ nextCode \in Nat
    BY <1>2, NumbersAreNat DEF Take, Base, Begun
  <2>2. step[nextCode] = "none"
    BY <2>1 DEF Base, Begun
  <2>3. \A c \in Codes : step'[c] = IF c = nextCode THEN "store" ELSE step[c]
    BY <1>2 DEF Take, Base, TypeOK
  <2> QED BY <1>2, <2>1, <2>2, <2>3 DEF Take, Shelf, LinksWork, StoredIsReachable
<1>3. ASSUME NEW c \in Codes, Store(c) PROVE Shelf'
  <2>1. step[c] = "store" /\ c \notin rows /\ UNCHANGED <<links, passed, spoiled, cut>>
    BY <1>3 DEF Store, Shelf, history
  <2>2. c \notin links \/ c \in passed
    BY <2>1 DEF Shelf, LinksWork
  <2>3. CASE Exists(Owner(c))
    <3>1. rows' = rows \cup {c} /\ step' = [step EXCEPT ![c] = "send"]
      BY <1>3, <2>3 DEF Store
    <3>2. \A d \in Codes : step'[d] = IF d = c THEN "send" ELSE step[d]
      BY <3>1 DEF Base, TypeOK
    <3> QED BY <2>1, <3>1, <3>2 DEF Shelf, LinksWork, StoredIsReachable
  <2>4. CASE ~Exists(Owner(c))
    <3>1. Ends(c) /\ UNCHANGED rows
      BY <1>3, <2>4 DEF Store
    <3> QED BY <2>1, <2>2, <3>1, EndsStep, ShelfEnds
  <2> QED BY <2>3, <2>4
<1>4. ASSUME NEW c \in Codes, Send(c) PROVE Shelf'
  <2>1. step[c] = "send" /\ Ends(c) /\ links' = links \cup {c}
        /\ UNCHANGED <<rows, passed, spoiled, cut>>
    BY <1>4 DEF Send, history
  <2> QED BY <2>1, EndsStep, ShelfEnds DEF Shelf
<1>5. ASSUME NEW c \in Codes, Fails(c) PROVE Shelf'
  <2>1. Ends(c) /\ step[c] # "none" /\ spoiled' = spoiled \cup {c}
        /\ UNCHANGED <<rows, links, passed, cut>>
    BY <1>5 DEF Fails, Running
  <2>2. c \in links => c \in rows \cup passed
    BY DEF Shelf, LinksWork
  <2> QED BY <2>1, <2>2, EndsStep, ShelfEnds
<1>6. ASSUME NEW u \in Users, Register(u) \/ Resend(u) \/ Overwrites(u) PROVE Shelf'
  BY <1>6, ShelfQuiet, OverwritesOne DEF Register, Resend, history
<1>7. ASSUME NEW r \in Requests, VerifyRemove(r) PROVE Shelf'
  <2>1. requests[r].code \in passed
    <3>1. requests[r].todo # {}
      BY <1>7 DEF VerifyRemove
    <3> QED BY <3>1 DEF Base, Held
  <2>2. rows' = rows \ {requests[r].code} /\ UNCHANGED <<step, links, history>>
    BY <1>7 DEF VerifyRemove
  <2> QED BY <2>1, <2>2 DEF Shelf, LinksWork, StoredIsReachable, history
<1>8. ASSUME NEW r \in Requests,
             \/ VerifyMark(r) \/ VerifyConfirm(r) \/ VerifyAnswer(r)
             \/ \E p \in Parts : PartFails(r, p)
      PROVE  Shelf'
  BY <1>8, ShelfQuiet DEF VerifyMark, VerifyConfirm, VerifyAnswer, PartFails, history
<1>11. ASSUME NEW r \in Requests, NEW c \in Codes, Verify(r, c) PROVE Shelf'
  BY <1>11 DEF Verify, Shelf, LinksWork, StoredIsReachable
<1>9. CASE Crash
  BY <1>9 DEF Crash, Running, Shelf, LinksWork, StoredIsReachable
<1>10. CASE UNCHANGED vars
  BY <1>10, ShelfQuiet DEF vars, history
<1> QED BY <1>1, <1>2, <1>3, <1>4, <1>5, <1>6, <1>7, <1>8, <1>9, <1>10, <1>11
        DEF Next, Mailing, Continue, Overwrites

LEMMA ShelfAlways == Spec => [](Base /\ Shelf)
<1>1. Init => Shelf
  BY DEF Init, Shelf, LinksWork, StoredIsReachable
<1> QED BY <1>1, ShelfNext, BaseAlways, PTL DEF Spec

\* Every link that was mailed works until a request uses it.
THEOREM MailedLinksWork == Spec => []LinksWork
<1>1. Shelf => LinksWork
  BY DEF Shelf
<1> QED BY <1>1, ShelfAlways, PTL

\* A stored code was mailed, is about to be, or is what a fault left.
THEOREM StoredCodesAreReachable == Spec => []StoredIsReachable
<1>1. Shelf => StoredIsReachable
  BY DEF Shelf
<1> QED BY <1>1, ShelfAlways, PTL

-----------------------------------------------------------------------------
(* Nothing is half done: a code is used up by a request that verifies its    *)
(* account, or that a fault cut short.                                       *)

\* An account that was verified once remains one that was, whoever writes it,
\* and an execution keeps its account.
LEMMA AccountsStay ==
  ASSUME Base, [Next]_vars
  PROVE  /\ \A u \in Users : BeenVerified(u) => BeenVerified(u)'
         /\ \A c \in Codes : c < nextCode => Owner(c)' = Owner(c)
<1>1. \A u \in Users : BeenVerified(u) => BeenVerified(u)'
  <2>1. ASSUME NEW u \in Users, Register(u) \/ Resend(u)
        PROVE  \A v \in Users : BeenVerified(v) => BeenVerified(v)'
    BY <2>1 DEF Register, Resend, BeenVerified, Base, TypeOK
  <2>2. ASSUME NEW r \in Requests, VerifyMark(r)
        PROVE  \A v \in Users : BeenVerified(v) => BeenVerified(v)'
    BY <2>2 DEF VerifyMark, BeenVerified, Base, TypeOK
  <2>3. CASE UNCHANGED users
    BY <2>3 DEF BeenVerified
  <2> QED BY <2>1, <2>2, <2>3, AccountWritten
          DEF Next, Mailing, Continue, Add, Take, Requeue, LoseLock, Stalls, Store, Send,
              Fails, VerifyRemove, VerifyConfirm, VerifyAnswer, Verify, PartFails, Crash, vars,
              Overwrites
<1>2. \A j \in Jobs : j < nextJob => jobs'[j].user = jobs[j].user
  <2>1. ASSUME NEW u \in Users, Asks(u)
        PROVE  \A j \in Jobs : j < nextJob => jobs'[j].user = jobs[j].user
    BY <2>1, NumbersAreNat DEF Asks, Base, TypeOK
  <2>2. ASSUME NEW j \in Jobs, Add(j) \/ Take(j)
        PROVE  \A i \in Jobs : jobs'[i].user = jobs[i].user
    <3>1. CASE Add(j)
      BY <3>1 DEF Add, Base, TypeOK, JobRecords
    <3>2. CASE Take(j)
      BY <3>2 DEF Take, Base, TypeOK, JobRecords
    <3> QED BY <2>2, <3>1, <3>2
  <2>3. ASSUME NEW j \in Jobs, Stalls(j)
        PROVE  \A i \in Jobs : jobs'[i].user = jobs[i].user
    BY <2>3 DEF Stalls, Base, TypeOK, JobRecords
  <2>4. ASSUME NEW c \in Codes, step[c] # "none", Ends(c)
        PROVE  \A i \in Jobs : jobs'[i].user = jobs[i].user
    BY <2>4, EndsStep
  <2>5. CASE Crash
    BY <2>5 DEF Crash, Base, TypeOK, JobRecords
  <2>6. CASE UNCHANGED jobs
    BY <2>6
  <2> QED BY <2>1, <2>2, <2>3, <2>4, <2>5, <2>6, OverwritesOne
          DEF Next, Mailing, Continue, Register, Resend, Overwrites, Requeue, LoseLock,
              Store, Send, Fails, Running, VerifyRemove, VerifyMark, VerifyConfirm,
              VerifyAnswer, Verify, PartFails, vars
<1>3. \A c \in Codes : c < nextCode => work'[c] = work[c]
  <2>1. ASSUME NEW j \in Jobs, Take(j)
        PROVE  \A c \in Codes : c < nextCode => work'[c] = work[c]
    BY <2>1, NumbersAreNat DEF Take, Base, TypeOK
  <2>2. CASE UNCHANGED work
    BY <2>2
  <2> QED BY <2>1, <2>2, OverwritesOne
          DEF Next, Mailing, Continue, Register, Resend, Overwrites, Add, Requeue, LoseLock,
              Stalls, Store, Send, Fails, VerifyRemove, VerifyMark, VerifyConfirm,
              VerifyAnswer, Verify, PartFails, Crash, vars, history
<1>4. \A c \in Codes : c < nextCode => work[c] \in Jobs /\ work[c] < nextJob
  BY DEF Base, Begun
<1> QED BY <1>1, <1>2, <1>3, <1>4 DEF Owner

\* The update of request r is over: it took place, or r failed and says so,
\* for a fault or because the account, verified before, was deleted.
Steady(r) ==
  requests[r].code # 0 /\ "mark" \notin requests[r].todo =>
    \/ requests[r].code \in marked
    \/ /\ requests[r].failed
       /\ requests[r].code \in cut \/ BeenVerified(Owner(requests[r].code))

Half == NothingHalfDone /\ marked \subseteq passed /\ \A r \in Requests : Steady(r)

\* The account of a code in use, when a step leaves the code in use.
LEMMA CodesInUse ==
  ASSUME Base, [Next]_vars, NEW c \in Codes,
         c \in passed \/ c \in redeemed
  PROVE  /\ Owner(c) \in Users /\ Owner(c)' = Owner(c)
         /\ BeenVerified(Owner(c)) => BeenVerified(Owner(c))'
<1>1. c < nextCode /\ Owner(c) \in Users
  BY CodeHasOwner
<1>2. Owner(c)' = Owner(c)
  BY <1>1, AccountsStay
<1> QED BY <1>1, <1>2, AccountsStay DEF BeenVerified

LEMMA RequestCode ==
  ASSUME Base, NEW r \in Requests, requests[r].code # 0 \/ requests[r].todo # {}
  PROVE  requests[r].code \in Codes /\ requests[r].code # 0 /\ requests[r].code \in passed
  BY DEF Base, Held, TypeOK, RequestRecords

LEMMA SteadyStays ==
  ASSUME Base, [Next]_vars, NEW r \in Requests, Steady(r),
         UNCHANGED requests[r].code,
         "mark" \in requests'[r].todo <=> "mark" \in requests[r].todo,
         requests[r].failed => requests'[r].failed,
         cut \subseteq cut', marked \subseteq marked'
  PROVE  Steady(r)'
<1> SUFFICES ASSUME requests'[r].code # 0, "mark" \notin requests'[r].todo
             PROVE  \/ requests'[r].code \in marked'
                    \/ /\ requests'[r].failed
                       /\ \/ requests'[r].code \in cut'
                          \/ BeenVerified(Owner(requests[r].code))'
  BY DEF Steady
<1>1. requests[r].code \in Codes /\ requests[r].code \in passed
  BY RequestCode
<1>2. BeenVerified(Owner(requests[r].code)) => BeenVerified(Owner(requests[r].code))'
  <2> DEFINE c == requests[r].code
  <2>1. BeenVerified(Owner(c)) => users'[Owner(c)] \in {"verified", "lapsed", "gone"}
    BY <1>1, CodeHasOwner, AccountsStay DEF BeenVerified
  <2>2. jobs'[work'[c]].user = Owner(c)
    BY <1>1, CodeHasOwner, AccountsStay DEF Owner
  <2>3. Owner(requests[r].code)' = jobs'[work'[c]].user
    BY DEF Owner
  <2> QED BY <2>1, <2>2, <2>3 DEF BeenVerified
<1> QED BY <1>1, <1>2 DEF Steady

\* Steps that remove no code and answer nothing.
LEMMA HalfStays ==
  ASSUME Base, [Next]_vars, Half, \A r \in Requests : Steady(r)',
         passed \subseteq passed', rows \subseteq rows', redeemed' = redeemed,
         \A c \in passed' \ rows' : c \in passed, cut \subseteq cut',
         marked \subseteq marked',
         \A c \in marked' \ marked : c \in passed /\ BeenVerified(Owner(c))',
         \A r \in Requests, c \in Codes :
           requests[r].code = c /\ "mark" \in requests[r].todo =>
             \/ requests'[r].code = c /\ "mark" \in requests'[r].todo
             \/ c \in cut' \/ BeenVerified(Owner(c))'
  PROVE  Half'
<1>1. ASSUME NEW c \in marked' PROVE BeenVerified(Owner(c))'
  BY CodesInUse DEF Half, NothingHalfDone, Base, TypeOK
<1>2. ASSUME NEW c \in passed' \ rows'
      PROVE  \/ BeenVerified(Owner(c))'
             \/ \E r \in Requests : requests'[r].code = c /\ "mark" \in requests'[r].todo
             \/ c \in cut'
  <2>1. c \in passed \ rows /\ c \in Codes
    BY <1>2 DEF Base, TypeOK
  <2> QED BY <2>1, CodesInUse DEF Half, NothingHalfDone
<1>3. redeemed' \subseteq marked' /\ marked' \subseteq passed'
  BY DEF Half, NothingHalfDone
<1> QED BY <1>1, <1>2, <1>3 DEF Half, NothingHalfDone

LEMMA HalfVerify ==
  ASSUME Base, [Next]_vars, Half, NEW r \in Requests, Continue(r)
  PROVE  Half'
<1>2. CASE VerifyRemove(r)
  <2>1. /\ Settles(r, "remove", {}, FALSE) /\ "remove" \in requests[r].todo
        /\ "remove" \in Parts
        /\ rows' = rows \ {requests[r].code} /\ UNCHANGED history
    BY <1>2 DEF VerifyRemove, Parts
  <2>2. /\ requests'[r].todo = (requests[r].todo \ {"remove"}) \cup {}
        /\ requests[r].failed => requests'[r].failed
        /\ \A q \in Requests : requests'[q].code = requests[q].code
        /\ \A q \in Requests : q # r => requests'[q] = requests[q]
    BY <2>1, SettlesStep
  <2>3. \A q \in Requests : "mark" \in requests'[q].todo <=> "mark" \in requests[q].todo
    BY <2>2
  <2>4. \A q \in Requests : Steady(q)'
    BY <2>1, <2>2, <2>3, SteadyStays DEF Half, history
  <2>5. requests[r].code \in Codes /\ requests[r].code # 0 /\ requests[r].code \in passed
    <3>1. requests[r].todo # {}
      BY <2>1
    <3> QED BY <3>1, RequestCode
  <2>6. ASSUME NEW c \in marked' PROVE BeenVerified(Owner(c))'
    BY <2>1, <2>6, CodesInUse DEF Half, NothingHalfDone, Base, TypeOK, history
  <2>8. redeemed' \subseteq marked' /\ marked' \subseteq passed'
    BY <2>1 DEF Half, NothingHalfDone, history
  <2>7. ASSUME NEW c \in passed' \ rows'
        PROVE  \/ BeenVerified(Owner(c))'
               \/ \E q \in Requests : requests'[q].code = c /\ "mark" \in requests'[q].todo
               \/ c \in cut'
    <3>1. c \in passed /\ c \in Codes
      BY <2>1, <2>7 DEF Base, TypeOK, history
    <3>2. CASE c \in rows
      <4>1. requests'[r].code = c
        BY <2>1, <2>2, <2>7, <3>2
      <4>2. \/ "mark" \in requests'[r].todo
            \/ c \in marked' \/ c \in cut'
            \/ BeenVerified(Owner(requests[r].code))'
        BY <2>2, <2>4, <2>5, <4>1 DEF Steady
      <4>3. BeenVerified(Owner(requests[r].code))' => BeenVerified(Owner(c))'
        BY <4>1
      <4> QED BY <2>6, <4>1, <4>2, <4>3
    <3>3. CASE c \notin rows
      BY <2>1, <2>2, <2>3, <3>1, <3>3, CodesInUse DEF Half, NothingHalfDone, history
    <3> QED BY <3>2, <3>3
  <2> QED BY <2>4, <2>6, <2>7, <2>8 DEF Half, NothingHalfDone
<1>3. CASE VerifyMark(r)
  <2>1. "mark" \in requests[r].todo /\ UNCHANGED <<rows, work, cut, passed, redeemed>>
    BY <1>3 DEF VerifyMark
  <2>2. requests[r].code \in Codes /\ requests[r].code \in passed
    <3>1. requests[r].todo # {}
      BY <2>1
    <3> QED BY <3>1, RequestCode
  <2>3. Owner(requests[r].code) \in Users /\ users[Owner(requests[r].code)] # "unborn"
    BY <2>2, CodeHasOwner
  <2>4. BeenVerified(Owner(requests[r].code))'
    <3>1. users'[Owner(requests[r].code)] \in {"verified", "gone"}
      BY <1>3, <2>3 DEF VerifyMark, Exists, Base, TypeOK
    <3>2. Owner(requests[r].code)' = Owner(requests[r].code)
      <4>1. PICK failed \in BOOLEAN, next \in SUBSET Parts : Settles(r, "mark", next, failed)
        BY <1>3 DEF VerifyMark, Parts
      <4>2. requests'[r].code = requests[r].code
        BY <4>1, SettlesStep DEF Parts
      <4> QED BY <1>3, <4>2 DEF VerifyMark, Owner
    <3> QED BY <3>1, <3>2 DEF BeenVerified
  <2>5. /\ \A q \in Requests : requests'[q].code = requests[q].code
        /\ \A q \in Requests : q # r => requests'[q] = requests[q]
    BY <1>3, SettlesStep DEF VerifyMark, Parts
  <2>8. marked' = marked \/ marked' = marked \cup {requests[r].code}
    BY <1>3 DEF VerifyMark
  <2>9. ASSUME NEW c \in marked' \ marked PROVE c \in passed /\ BeenVerified(Owner(c))'
    <3>1. c = requests[r].code /\ requests'[r].code = c
      BY <2>5, <2>8, <2>9
    <3>2. Owner(requests[r].code)' = Owner(c)'
      BY <3>1
    <3> QED BY <2>2, <2>4, <3>1, <3>2 DEF BeenVerified
  <2>6. \A q \in Requests : Steady(q)'
    <3>1. Steady(r)'
      <4>1. CASE marked' = marked \cup {requests[r].code}
        BY <2>5, <4>1 DEF Steady
      <4>2. CASE Settles(r, "mark", {}, TRUE)
        <5>1. requests'[r].failed
          BY <4>2, SettlesStep DEF Parts
        <5> QED BY <2>4, <5>1 DEF Steady
      <4> QED BY <1>3, <4>1, <4>2 DEF VerifyMark
    <3>2. ASSUME NEW q \in Requests, q # r PROVE Steady(q)'
      BY <2>1, <2>5, <2>8, <3>2, SteadyStays DEF Half
    <3> QED BY <3>1, <3>2
  <2>7. ASSUME NEW q \in Requests, NEW c \in Codes,
               requests[q].code = c, "mark" \in requests[q].todo
        PROVE  (requests'[q].code = c /\ "mark" \in requests'[q].todo) \/ BeenVerified(Owner(c))'
    <3>1. CASE q = r
      <4>1. Owner(requests[r].code)' = Owner(c)'
        BY <2>5, <2>7, <3>1
      <4> QED BY <2>4, <4>1 DEF BeenVerified
    <3>2. CASE q # r
      BY <2>5, <2>7, <3>2
    <3> QED BY <3>1, <3>2
  <2> QED BY <2>1, <2>6, <2>7, <2>8, <2>9, HalfStays
<1>4. CASE VerifyConfirm(r)
  <2>1. PICK failed \in BOOLEAN : Settles(r, "confirm", {}, failed)
    BY <1>4 DEF VerifyConfirm
  <2>2. UNCHANGED <<rows, history>>
    BY <1>4 DEF VerifyConfirm
  <2>3. /\ requests'[r].todo = (requests[r].todo \ {"confirm"}) \cup {}
        /\ requests[r].failed => requests'[r].failed
        /\ \A q \in Requests : requests'[q].code = requests[q].code
        /\ \A q \in Requests : q # r => requests'[q] = requests[q]
    <3>1. "confirm" \in Parts /\ {} \in SUBSET Parts
      BY DEF Parts
    <3> QED BY <2>1, <3>1, SettlesStep
  <2>4. \A q \in Requests : "mark" \in requests'[q].todo <=> "mark" \in requests[q].todo
    BY <2>3
  <2>5. \A q \in Requests : Steady(q)'
    BY <2>2, <2>3, <2>4, SteadyStays DEF Half, history
  <2> QED BY <2>2, <2>3, <2>4, <2>5, HalfStays DEF history
<1>5. CASE VerifyAnswer(r)
  <2>1. /\ requests[r].code # 0 /\ requests[r].todo = {}
        /\ redeemed' = IF requests[r].failed THEN redeemed
                       ELSE redeemed \cup {requests[r].code}
        /\ UNCHANGED <<rows, passed, cut, marked>>
    BY <1>5 DEF VerifyAnswer
  <2>2. /\ requests'[r].code = 0
        /\ \A q \in Requests : q # r => requests'[q] = requests[q]
    BY <1>5 DEF VerifyAnswer, Idle, Base, TypeOK
  <2>3. \A q \in Requests : Steady(q)'
    <3>1. Steady(r)'
      BY <2>2 DEF Steady
    <3>2. ASSUME NEW q \in Requests, q # r PROVE Steady(q)'
      BY <2>1, <2>2, <3>2, SteadyStays DEF Half
    <3> QED BY <3>1, <3>2
  <2>4. requests[r].code \in Codes /\ requests[r].code \in passed
    BY <2>1, RequestCode
  <2>5. ASSUME NEW c \in marked' PROVE BeenVerified(Owner(c))'
    BY <2>1, <2>5, CodesInUse DEF Half, NothingHalfDone, Base, TypeOK
  <2>7. redeemed' \subseteq marked' /\ marked' \subseteq passed'
    BY <2>1 DEF Half, NothingHalfDone, Steady
  <2>6. ASSUME NEW c \in passed' \ rows'
        PROVE  \/ BeenVerified(Owner(c))'
               \/ \E q \in Requests : requests'[q].code = c /\ "mark" \in requests'[q].todo
               \/ c \in cut'
    <3>1. c \in passed \ rows /\ c \in Codes
      BY <2>1, <2>6 DEF Base, TypeOK
    <3> QED BY <2>1, <2>2, <3>1, CodesInUse DEF Half, NothingHalfDone
  <2> QED BY <2>3, <2>5, <2>6, <2>7 DEF Half, NothingHalfDone
<1> QED BY <1>2, <1>3, <1>4, <1>5 DEF Continue

LEMMA HalfNext == Base /\ Half /\ [Next]_vars => Half'
<1> SUFFICES ASSUME Base, Half, [Next]_vars PROVE Half'
  OBVIOUS
<1>1. CASE UNCHANGED <<requests, passed, cut, marked, redeemed>> /\ rows \subseteq rows'
  BY <1>1, SteadyStays, HalfStays DEF Half
<1>2. ASSUME NEW r \in Requests, NEW c \in Codes, Verify(r, c) PROVE Half'
  <2>1. /\ requests[r].code = 0 /\ c \in rows /\ passed' = passed \cup {c}
        /\ UNCHANGED <<rows, cut, marked, redeemed>>
    BY <1>2 DEF Verify
  <2>2. requests[r].todo = {}
    BY <2>1 DEF Base, Held
  <2>3. /\ "mark" \in requests'[r].todo
        /\ \A q \in Requests : q # r => requests'[q] = requests[q]
    BY <1>2 DEF Verify, Base, TypeOK
  <2>4. \A q \in Requests : Steady(q)'
    <3>1. Steady(r)'
      BY <2>3 DEF Steady
    <3>2. ASSUME NEW q \in Requests, q # r PROVE Steady(q)'
      BY <2>1, <2>3, <3>2, SteadyStays DEF Half
    <3> QED BY <3>1, <3>2
  <2>5. /\ passed \subseteq passed' /\ \A d \in passed' \ rows' : d \in passed
        /\ \A q \in Requests, d \in Codes :
             requests[q].code = d /\ "mark" \in requests[q].todo =>
               requests'[q].code = d /\ "mark" \in requests'[q].todo
    BY <2>1, <2>2, <2>3
  <2> QED BY <2>1, <2>4, <2>5, HalfStays
<1>3. ASSUME NEW r \in Requests, NEW p \in Parts, PartFails(r, p) PROVE Half'
  <2>1. /\ p \in requests[r].todo /\ cut' = cut \cup {requests[r].code}
        /\ UNCHANGED <<rows, passed, marked, redeemed>>
    BY <1>3 DEF PartFails
  <2>2. /\ requests'[r].failed
        /\ \A q \in Requests : requests'[q].code = requests[q].code
        /\ \A q \in Requests : q # r => requests'[q] = requests[q]
    <3>1. Settles(r, p, {}, TRUE) /\ {} \in SUBSET Parts /\ TRUE \in BOOLEAN
      BY <1>3 DEF PartFails
    <3> QED BY <3>1, SettlesStep
  <2>3. \A q \in Requests : Steady(q)'
    <3>1. Steady(r)'
      BY <2>1, <2>2 DEF Steady
    <3>2. ASSUME NEW q \in Requests, q # r PROVE Steady(q)'
      BY <2>1, <2>2, <3>2, SteadyStays DEF Half
    <3> QED BY <3>1, <3>2
  <2>4. \A q \in Requests, d \in Codes :
          requests[q].code = d /\ "mark" \in requests[q].todo =>
            \/ requests'[q].code = d /\ "mark" \in requests'[q].todo
            \/ d \in cut'
    BY <2>1, <2>2
  <2> QED BY <2>1, <2>3, <2>4, HalfStays
<1>4. CASE Crash
  <2>1. \A r \in Requests : requests'[r].code = 0
    BY <1>4 DEF Crash, Idle
  <2>2. /\ \A r \in Requests : requests[r].code # 0 => requests[r].code \in cut'
        /\ cut \subseteq cut' /\ UNCHANGED <<rows, passed, marked, redeemed>>
    BY <1>4 DEF Crash
  <2>3. \A r \in Requests : Steady(r)'
    BY <2>1 DEF Steady
  <2>4. 0 \notin Codes
    BY DEF Codes
  <2> QED BY <2>2, <2>3, <2>4, HalfStays
<1>5. ASSUME NEW j \in Jobs, Add(j) \/ Take(j) \/ Requeue(j) \/ LoseLock(j) PROVE Half'
  BY <1>1, <1>5 DEF Add, Take, Requeue, LoseLock, Stalls, history
<1>6. ASSUME NEW c \in Codes, Store(c) \/ Send(c) \/ Fails(c) PROVE Half'
  BY <1>1, <1>6 DEF Store, Send, Fails, history
<1>7. ASSUME NEW u \in Users, Register(u) \/ Resend(u) \/ Overwrites(u) PROVE Half'
  BY <1>1, <1>7, OverwritesOne DEF Register, Resend, history
<1>8. CASE UNCHANGED vars
  BY <1>1, <1>8 DEF vars, history
<1> QED BY <1>2, <1>3, <1>4, <1>5, <1>6, <1>7, <1>8, HalfVerify DEF Next, Mailing, Overwrites

\* A verification that was acknowledged has happened, whatever other handlers
\* wrote since, and one that was begun has, or will, unless a fault came between
\* the two calls of its transaction.
THEOREM NothingIsHalfDone == Spec => []NothingHalfDone
<1>1. Init => Half
  BY DEF Init, Half, Steady, NothingHalfDone, Idle
<1>2. Half => NothingHalfDone
  BY DEF Half
<1> QED BY <1>1, <1>2, HalfNext, BaseAlways, PTL DEF Spec

-----------------------------------------------------------------------------
(* Mails per job: an execution begins when its job is taken, and a job that  *)
(* stalled waits once more at the most.                                      *)

Executions(j) == {c \in Codes : work[c] = j}

\* The executions that may have begun.
Allowance(j) == IF jobs[j].stage \in {"adding", "dropped"} THEN 0
                ELSE jobs[j].stalls + (IF jobs[j].stage = "waiting" THEN 0 ELSE 1)

Rationed == \A j \in Jobs : Cardinality(Executions(j)) <= Allowance(j)

LEMMA ExecutionsAreFinite ==
  \A S \in SUBSET Codes : IsFiniteSet(S) /\ Cardinality(S) \in Nat
<1>1. IsFiniteSet(Codes)
  BY NumbersAreNat, FS_Interval DEF Codes
<1> QED BY <1>1, FS_Subset, FS_CardinalityType

LEMMA AllowanceIsNat == Base => \A j \in Jobs : Allowance(j) \in 0..2
  BY DEF Base, TypeOK, JobRecords, Allowance

LEMMA RationedQuiet ==
  ASSUME Base, Base', Rationed, UNCHANGED work,
         \A j \in Jobs : Allowance(j) <= Allowance(j)'
  PROVE  Rationed'
<1> SUFFICES ASSUME NEW j \in Jobs PROVE Cardinality(Executions(j)') <= Allowance(j)'
  BY DEF Rationed
<1>1. Executions(j)' = Executions(j)
  BY DEF Executions
<1>2. Cardinality(Executions(j)) \in Nat
  BY ExecutionsAreFinite DEF Executions
<1>3. Allowance(j) \in Nat /\ Allowance(j)' \in Nat
  BY AllowanceIsNat DEF Base, TypeOK, JobRecords, Allowance
<1> QED BY <1>1, <1>2, <1>3 DEF Rationed

LEMMA RationedTake ==
  ASSUME Base, Rationed, NEW k \in Jobs, Take(k)
  PROVE  Rationed'
<1> SUFFICES ASSUME NEW j \in Jobs PROVE Cardinality(Executions(j)') <= Allowance(j)'
  BY DEF Rationed
<1>1. \A c \in Codes : work'[c] = IF c = nextCode THEN k ELSE work[c]
  BY DEF Take, Base, TypeOK
<1>2. nextCode \in Codes /\ work[nextCode] = 0 /\ nextCode \in Nat
  BY NumbersAreNat DEF Take, Base, Begun
<1>3. IsFiniteSet(Executions(j)) /\ Cardinality(Executions(j)) \in Nat
  BY ExecutionsAreFinite DEF Executions
<1>4. Cardinality(Executions(j)) <= Allowance(j) /\ Allowance(j) \in Nat
  BY AllowanceIsNat DEF Rationed
<1>5. CASE j = k
  <2>1. Executions(j)' = Executions(j) \cup {nextCode}
    BY <1>1, <1>2, <1>5 DEF Executions
  <2>2. nextCode \notin Executions(j)
    BY <1>2 DEF Executions, Jobs
  <2>3. Cardinality(Executions(j)') = Cardinality(Executions(j)) + 1
    BY <1>3, <2>1, <2>2, FS_AddElement
  <2>4. Allowance(j)' = Allowance(j) + 1
    BY <1>5 DEF Take, Allowance, Base, TypeOK, JobRecords
  <2> QED BY <1>3, <1>4, <2>3, <2>4
<1>6. CASE j # k
  <2>1. Executions(j)' = Executions(j)
    <3>1. j # 0
      BY DEF Jobs
    <3>2. \A c \in Codes : work'[c] = j <=> work[c] = j
      BY <1>1, <1>2, <1>6, <3>1
    <3> QED BY <3>2 DEF Executions
  <2>2. Allowance(j)' = Allowance(j)
    BY <1>6 DEF Take, Allowance, Base, TypeOK
  <2> QED BY <1>4, <2>1, <2>2
<1> QED BY <1>5, <1>6

LEMMA RationedNext == Base /\ Base' /\ Rationed /\ [Next]_vars => Rationed'
<1> SUFFICES ASSUME Base, Base', Rationed, [Next]_vars PROVE Rationed'
  OBVIOUS
<1>1. ASSUME NEW u \in Users, Asks(u), UNCHANGED history PROVE Rationed'
  <2>1. nextJob \in Jobs /\ jobs[nextJob].stage = "dropped"
    BY <1>1, NumbersAreNat DEF Asks, Base, Begun
  <2>2. \A j \in Jobs : Allowance(j) <= Allowance(j)'
    BY <1>1, <2>1, AllowanceIsNat DEF Asks, Allowance, Base, TypeOK
  <2> QED BY <1>1, <2>2, RationedQuiet DEF history
<1>2. ASSUME NEW j \in Jobs, Add(j) PROVE Rationed'
  <2>1. \A i \in Jobs : Allowance(i) <= Allowance(i)'
    BY <1>2 DEF Add, Allowance, Base, TypeOK, JobRecords
  <2> QED BY <1>2, <2>1, RationedQuiet DEF Add, history
<1>3. ASSUME NEW j \in Jobs, Stalls(j) PROVE Rationed'
  <2>1. \A i \in Jobs : i # j => jobs'[i] = jobs[i]
    BY <1>3 DEF Stalls, Base, TypeOK
  <2>2. Allowance(j) <= Allowance(j)'
    <3>1. jobs[j] \in JobRecords
      BY DEF Base, TypeOK
    <3>2. /\ jobs[j].stage = "active"
          /\ \/ /\ jobs[j].stalls = 0
                /\ jobs'[j].stage = "waiting" /\ jobs'[j].stalls = 1
             \/ /\ jobs[j].stalls = 1
                /\ jobs'[j].stage = "failed" /\ jobs'[j].stalls = 1
      BY <1>3, <3>1 DEF Stalls, Base, TypeOK, JobRecords
    <3> QED BY <3>2 DEF Allowance
  <2>3. \A i \in Jobs : Allowance(i) <= Allowance(i)'
    BY <2>1, <2>2, AllowanceIsNat DEF Allowance
  <2> QED BY <1>3, <2>3, RationedQuiet DEF Stalls, history
<1>4. ASSUME NEW c \in Codes, step[c] # "none", Ends(c), UNCHANGED work PROVE Rationed'
  <2>1. work[c] \in Jobs
    BY <1>4, CodeHasOwner
  <2>2. \A i \in Jobs : Allowance(i) <= Allowance(i)'
    BY <1>4, <2>1, AllowanceIsNat DEF Ends, Allowance, Base, TypeOK, JobRecords
  <2> QED BY <1>4, <2>2, RationedQuiet
<1>5. CASE Crash
  <2>1. \A i \in Jobs : Allowance(i) <= Allowance(i)'
    BY <1>5, AllowanceIsNat DEF Crash, Allowance, Base, TypeOK, JobRecords
  <2> QED BY <1>5, <2>1, RationedQuiet DEF Crash
<1>6. CASE UNCHANGED <<jobs, work>>
  <2>1. \A i \in Jobs : Allowance(i) <= Allowance(i)'
    BY <1>6, AllowanceIsNat DEF Allowance
  <2> QED BY <1>6, <2>1, RationedQuiet
<1>7. ASSUME NEW u \in Users, Register(u) \/ Resend(u) \/ Overwrites(u) PROVE Rationed'
  BY <1>1, <1>6, <1>7, OverwritesOne DEF Register, Resend, history
<1>8. ASSUME NEW c \in Codes, Store(c) \/ Send(c) \/ Fails(c) PROVE Rationed'
  BY <1>4, <1>6, <1>8 DEF Store, Send, Fails, Running, history
<1>9. ASSUME NEW r \in Requests,
             \/ Continue(r)
             \/ \E c \in Codes : Verify(r, c)
             \/ \E p \in Parts : PartFails(r, p)
      PROVE  Rationed'
  BY <1>6, <1>9 DEF Continue, VerifyRemove, VerifyMark, VerifyConfirm, VerifyAnswer,
                    Verify, PartFails, history
<1>10. CASE UNCHANGED vars
  BY <1>6, <1>10 DEF vars, history
<1> QED BY <1>2, <1>3, <1>5, <1>7, <1>8, <1>9, <1>10, RationedTake
        DEF Next, Mailing, Requeue, LoseLock, Overwrites

LEMMA RationedAlways == Spec => []Rationed
<1>1. Init => Rationed
  <2> SUFFICES ASSUME Init, NEW j \in Jobs PROVE Cardinality(Executions(j)) <= Allowance(j)
    BY DEF Rationed
  <2>1. Executions(j) = {}
    BY DEF Init, Executions, Jobs
  <2>2. Allowance(j) = 0
    BY DEF Init, Allowance, NoJob
  <2> QED BY <2>1, <2>2, FS_EmptySet
<1> QED BY <1>1, RationedNext, BaseAlways, PTL DEF Spec

\* No job mails more than two links, whichever of its executions is slow.
THEOREM AtMostTwoMails == Spec => []MailsPerJob
<1>1. Base /\ Rationed => MailsPerJob
  <2> SUFFICES ASSUME Base, Rationed, NEW j \in Jobs
               PROVE  Cardinality({c \in links : work[c] = j}) <= 2
    BY DEF MailsPerJob
  <2>1. {c \in links : work[c] = j} \subseteq Executions(j) /\ Executions(j) \subseteq Codes
    BY DEF Executions, Base, TypeOK
  <2>2. IsFiniteSet(Executions(j)) /\ Cardinality(Executions(j)) \in Nat
    BY <2>1, ExecutionsAreFinite
  <2>3. /\ Cardinality({c \in links : work[c] = j}) <= Cardinality(Executions(j))
        /\ Cardinality({c \in links : work[c] = j}) \in Nat
    BY <2>1, <2>2, FS_Subset, FS_CardinalityType
  <2>4. Cardinality(Executions(j)) <= Allowance(j) /\ Allowance(j) \in 0..2
    BY AllowanceIsNat DEF Rationed
  <2> QED BY <2>2, <2>3, <2>4
<1> QED BY <1>1, RationedAlways, BaseAlways, PTL

-----------------------------------------------------------------------------
(* The codes are one-time codes: every step is a step of OneTimeCodes, or    *)
(* leaves the stages alone.                                                  *)

\* What is known of a code before its stage is compared.
LEMMA StageNumbers ==
  ASSUME Base, NEW c \in Codes
  PROVE  c \in Nat /\ nextCode \in Nat
  BY NumbersAreNat DEF Base, TypeOK

LEMMA StageQuiet ==
  ASSUME UNCHANGED <<step, nextCode, rows, passed, redeemed>>
  PROVE  UNCHANGED OneTime!vars
  BY DEF Stage, OneTime!vars

\* The codes in out are given up.
LEMMA StageRetires ==
  ASSUME Base, Shelf, NEW out \in SUBSET Codes,
         UNCHANGED <<nextCode, passed, redeemed>>,
         \A c \in out : c < nextCode /\ (c \in rows \/ step[c] = "store"),
         \A c \in Codes : Stage'[c] = IF c \in out THEN "dead" ELSE Stage[c]
  PROVE  OneTime!Next
<1>1. \A c \in out : Stage[c] \in {"issued", "live"}
  BY StageNumbers DEF Stage
<1>2. Stage' = [c \in Codes |-> IF c \in out THEN "dead" ELSE Stage[c]]
  BY DEF Stage
<1>3. OneTime!Retire(out)
  BY <1>1, <1>2 DEF OneTime!Retire
<1> QED BY <1>3 DEF OneTime!Next

LEMMA StageEnds ==
  ASSUME Base, Shelf, NEW c \in Codes, step[c] # "none", Ends(c),
         UNCHANGED <<nextCode, rows, passed, redeemed>>
  PROVE  OneTime!Next
<1>1. step'[c] = "none" /\ \A d \in Codes : d # c => step'[d] = step[d]
  BY EndsStep
<1>2. c < nextCode
  BY CodeHasOwner
<1> DEFINE out == IF step[c] = "store" THEN {c} ELSE {}
<1>3. /\ out \in SUBSET Codes
      /\ \A d \in out : d < nextCode /\ (d \in rows \/ step[d] = "store")
  BY <1>2
<1>4. ASSUME NEW d \in Codes PROVE Stage'[d] = IF d \in out THEN "dead" ELSE Stage[d]
  BY <1>1, <1>2, StageNumbers DEF Stage, Shelf
<1> HIDE DEF out
<1> QED BY <1>3, <1>4, StageRetires

\* A request that removed its code, and did not fail, has no code left to use.
Spent == \A r \in Requests : requests[r].code # 0 /\ "remove" \notin requests[r].todo =>
           requests[r].failed \/ requests[r].code \notin rows

\* Codes that requests hold are not stored again.
LEMMA SpentQuiet ==
  ASSUME Base, Spent, rows' \cap passed \subseteq rows,
         \A r \in Requests :
           /\ requests'[r].code \in {requests[r].code, 0}
           /\ requests'[r].code # 0 /\ "remove" \notin requests'[r].todo =>
                \/ "remove" \notin requests[r].todo
                \/ requests'[r].failed \/ requests'[r].code \notin rows'
           /\ requests'[r].code # 0 /\ requests[r].failed => requests'[r].failed
  PROVE  Spent'
  BY RequestCode DEF Spent

LEMMA SpentNext == Base /\ Shelf /\ Spent /\ [Next]_vars => Spent'
<1> SUFFICES ASSUME Base, Shelf, Spent, [Next]_vars PROVE Spent'
  OBVIOUS
<1>1. CASE UNCHANGED <<requests>> /\ rows' \cap passed \subseteq rows
  BY <1>1, SpentQuiet
<1>2. ASSUME NEW c \in Codes, Store(c) PROVE Spent'
  <2>1. UNCHANGED <<requests>> /\ rows' \subseteq rows \cup {c} /\ c \notin passed
    BY <1>2 DEF Store, Shelf
  <2> QED BY <1>1, <2>1
<1>3. ASSUME NEW r \in Requests, NEW p \in Parts, NEW next \in SUBSET Parts,
             NEW failed \in BOOLEAN, Settles(r, p, next, failed), UNCHANGED rows,
             p = "remove" => failed
      PROVE  Spent'
  BY <1>3, SettlesStep, SpentQuiet
<1>4. ASSUME NEW r \in Requests, VerifyRemove(r) PROVE Spent'
  <2>1. /\ Settles(r, "remove", {}, FALSE) /\ rows' = rows \ {requests[r].code}
        /\ "remove" \in Parts /\ {} \in SUBSET Parts
    BY <1>4 DEF VerifyRemove, Parts
  <2>2. /\ requests[r].failed => requests'[r].failed
        /\ \A q \in Requests : requests'[q].code = requests[q].code
        /\ \A q \in Requests : q # r => requests'[q] = requests[q]
    BY <2>1, SettlesStep
  <2> QED BY <2>1, <2>2, SpentQuiet
<1>5. ASSUME NEW r \in Requests, VerifyMark(r) \/ VerifyConfirm(r) PROVE Spent'
  <2>1. PICK p \in {"mark", "confirm"}, next \in SUBSET Parts, failed \in BOOLEAN :
          Settles(r, p, next, failed)
    BY <1>5 DEF VerifyMark, VerifyConfirm, Parts
  <2>2. UNCHANGED rows /\ p \in Parts
    BY <1>5 DEF VerifyMark, VerifyConfirm, Parts
  <2> QED BY <1>3, <2>1, <2>2
<1>6. ASSUME NEW r \in Requests, NEW p \in Parts, PartFails(r, p) PROVE Spent'
  <2>1. Settles(r, p, {}, TRUE) /\ UNCHANGED rows /\ {} \in SUBSET Parts
    BY <1>6 DEF PartFails
  <2> QED BY <1>3, <2>1
<1>7. ASSUME NEW r \in Requests, NEW c \in Codes, Verify(r, c) PROVE Spent'
  <2>1. /\ "remove" \in requests'[r].todo /\ UNCHANGED rows
        /\ \A q \in Requests : q # r => requests'[q] = requests[q]
    BY <1>7 DEF Verify, Base, TypeOK
  <2> QED BY <2>1 DEF Spent
<1>8. ASSUME NEW r \in Requests, VerifyAnswer(r) PROVE Spent'
  <2>1. /\ requests'[r].code = 0 /\ UNCHANGED rows
        /\ \A q \in Requests : q # r => requests'[q] = requests[q]
    BY <1>8 DEF VerifyAnswer, Idle, Base, TypeOK
  <2> QED BY <2>1 DEF Spent
<1>9. CASE Crash
  BY <1>9 DEF Crash, Idle, Spent
<1>10. ASSUME NEW j \in Jobs, Add(j) \/ Take(j) \/ Requeue(j) \/ LoseLock(j) PROVE Spent'
  BY <1>1, <1>10 DEF Add, Take, Requeue, LoseLock, Stalls
<1>11. ASSUME NEW c \in Codes, Send(c) \/ Fails(c) PROVE Spent'
  BY <1>1, <1>11 DEF Send, Fails
<1>12. ASSUME NEW u \in Users, Register(u) \/ Resend(u) \/ Overwrites(u) PROVE Spent'
  BY <1>1, <1>12, OverwritesOne DEF Register, Resend
<1>13. CASE UNCHANGED vars
  BY <1>1, <1>13 DEF vars
<1> QED BY <1>2, <1>4, <1>5, <1>6, <1>7, <1>8, <1>9, <1>10, <1>11, <1>12, <1>13
        DEF Next, Mailing, Continue, Overwrites

LEMMA StageNext ==
  Base /\ Shelf /\ Spent /\ [Next]_vars => [OneTime!Next]_(OneTime!vars)
<1> SUFFICES ASSUME Base, Shelf, Spent, [Next]_vars
             PROVE  OneTime!Next \/ UNCHANGED OneTime!vars
  OBVIOUS
<1>1. ASSUME NEW j \in Jobs, Add(j) \/ Requeue(j) \/ LoseLock(j)
      PROVE  UNCHANGED OneTime!vars
  BY <1>1, StageQuiet DEF Add, Requeue, LoseLock, Stalls, history
<1>2. ASSUME NEW u \in Users, Register(u) \/ Resend(u) \/ Overwrites(u)
      PROVE  UNCHANGED OneTime!vars
  BY <1>2, StageQuiet, OverwritesOne DEF Register, Resend, history
<1>3. ASSUME NEW j \in Jobs, Take(j) PROVE OneTime!Next
  <2>1. nextCode \in Codes /\ nextCode' = nextCode + 1
        /\ step' = [step EXCEPT ![nextCode] = "store"]
        /\ UNCHANGED <<rows, passed, redeemed>>
    BY <1>3 DEF Take
  <2>2. nextCode \in Nat /\ nextCode \notin rows
    BY <2>1, StageNumbers DEF Base, Begun
  <2>3. ASSUME NEW c \in Codes
        PROVE  Stage'[c] = IF c = nextCode THEN "issued" ELSE Stage[c]
    <3>1. step'[c] = IF c = nextCode THEN "store" ELSE step[c]
      BY <2>1 DEF Base, TypeOK
    <3> QED BY <2>1, <2>2, <3>1, StageNumbers DEF Stage
  <2>4. Stage[nextCode] = "fresh"
    BY <2>1, <2>2 DEF Stage
  <2>5. Stage' = [Stage EXCEPT ![nextCode] = "issued"]
    BY <2>3 DEF Stage
  <2>6. OneTime!Issue(nextCode)
    BY <2>1, <2>4, <2>5 DEF OneTime!Issue
  <2> QED BY <2>1, <2>6 DEF OneTime!Next
<1>4. ASSUME NEW c \in Codes, Store(c) PROVE OneTime!Next
  <2>1. /\ step[c] = "store" /\ c < nextCode /\ c \notin rows
        /\ UNCHANGED <<nextCode, passed, redeemed>>
    BY <1>4, CodeHasOwner DEF Store, Shelf, history
  <2>2. CASE Exists(Owner(c))
    <3>1. rows' = rows \cup {c} /\ step' = [step EXCEPT ![c] = "send"]
      BY <1>4, <2>2 DEF Store
    <3>2. Stage[c] = "issued"
      BY <2>1, StageNumbers DEF Stage
    <3>3. ASSUME NEW d \in Codes PROVE Stage'[d] = IF d = c THEN "live" ELSE Stage[d]
      <4>1. step'[d] = IF d = c THEN "send" ELSE step[d]
        BY <3>1 DEF Base, TypeOK
      <4> QED BY <2>1, <3>1, <4>1, StageNumbers DEF Stage
    <3>4. Stage' = [d \in Codes |-> IF d = c THEN "live"
                                    ELSE IF d \in {} THEN "dead" ELSE Stage[d]]
      BY <3>3 DEF Stage
    <3>5. OneTime!Publish(c, {})
      BY <2>1, <3>2, <3>4 DEF OneTime!Publish
    <3> QED BY <3>5 DEF OneTime!Next
  <2>3. CASE ~Exists(Owner(c))
    BY <1>4, <2>1, <2>3, StageEnds DEF Store
  <2> QED BY <2>2, <2>3
<1>5. ASSUME NEW c \in Codes, Send(c) \/ Fails(c) PROVE OneTime!Next
  BY <1>5, StageEnds DEF Send, Fails, Running, history
<1>6. ASSUME NEW r \in Requests, VerifyRemove(r) PROVE OneTime!Next
  <2>1. /\ rows' = rows \ {requests[r].code}
        /\ UNCHANGED <<step, nextCode, passed, redeemed>>
    BY <1>6 DEF VerifyRemove, history
  <2> DEFINE out == rows \cap {requests[r].code}
  <2>2. out \in SUBSET Codes /\ \A c \in out : c < nextCode /\ c \in rows
    BY CodeHasOwner DEF Base, TypeOK
  <2>3. ASSUME NEW c \in Codes PROVE Stage'[c] = IF c \in out THEN "dead" ELSE Stage[c]
    BY <2>1, <2>2, StageNumbers DEF Stage, Shelf
  <2> HIDE DEF out
  <2> QED BY <2>1, <2>2, <2>3, StageRetires
<1>7. ASSUME NEW r \in Requests, NEW c \in Codes, Verify(r, c) PROVE OneTime!Next
  <2>1. /\ c \in rows /\ c < nextCode /\ passed' = passed \cup {c}
        /\ UNCHANGED <<step, nextCode, rows, redeemed>>
    BY <1>7, CodeHasOwner DEF Verify
  <2>2. Stage[c] = "live" /\ UNCHANGED Stage
    BY <2>1, StageNumbers DEF Stage
  <2> QED BY <2>1, <2>2 DEF OneTime!Pass, OneTime!Next
<1>8. ASSUME NEW r \in Requests, VerifyMark(r) \/ VerifyConfirm(r) PROVE UNCHANGED OneTime!vars
  BY <1>8, StageQuiet DEF VerifyMark, VerifyConfirm, history
<1>9. ASSUME NEW r \in Requests, NEW p \in Parts, PartFails(r, p)
      PROVE  UNCHANGED OneTime!vars
  BY <1>9, StageQuiet DEF PartFails
<1>10. CASE UNCHANGED vars
  BY <1>10, StageQuiet DEF vars, history

<1>11. ASSUME NEW r \in Requests, VerifyAnswer(r)
       PROVE  OneTime!Next \/ UNCHANGED OneTime!vars
  <2> DEFINE c == requests[r].code
  <2>1. /\ c \in Codes /\ c \in passed /\ "remove" \notin requests[r].todo /\ c # 0
        /\ redeemed' = IF requests[r].failed THEN redeemed ELSE redeemed \cup {c}
        /\ UNCHANGED <<step, nextCode, rows, passed>>
    BY <1>11, RequestCode DEF VerifyAnswer
  <2>2. CASE requests[r].failed
    BY <2>1, <2>2, StageQuiet
  <2>3. CASE ~requests[r].failed
    <3>1. c < nextCode /\ c \notin rows /\ step[c] # "store"
      BY <2>1, <2>3, CodeHasOwner DEF Spent, Shelf
    <3>2. Stage[c] = "dead" /\ UNCHANGED Stage
      BY <2>1, <3>1, StageNumbers DEF Stage
    <3>3. OneTime!Redeem(c)
      BY <2>1, <2>3, <3>2 DEF OneTime!Redeem
    <3> QED BY <2>1, <3>3 DEF OneTime!Next
  <2> QED BY <2>2, <2>3
<1>12. CASE Crash
  <2>1. /\ step' = [c \in Codes |-> "none"]
        /\ UNCHANGED <<nextCode, rows, passed, redeemed>>
    BY <1>12 DEF Crash
  <2> DEFINE out == {c \in Codes : step[c] = "store"}
  <2>2. out \in SUBSET Codes /\ \A c \in out : c < nextCode /\ step[c] = "store"
    BY CodeHasOwner
  <2>3. ASSUME NEW c \in Codes PROVE Stage'[c] = IF c \in out THEN "dead" ELSE Stage[c]
    BY <2>1, <2>2, StageNumbers DEF Stage, Shelf
  <2> HIDE DEF out
  <2> QED BY <2>1, <2>2, <2>3, StageRetires
<1> QED BY <1>1, <1>2, <1>3, <1>4, <1>5, <1>6, <1>7, <1>8, <1>9, <1>10, <1>11, <1>12
        DEF Next, Mailing, Continue, Overwrites

\* The verification codes are one-time codes.
THEOREM ImplementsOneTimeCodes == Spec => CodesRefinement
<1>1. Init => OneTime!Init
  BY NumbersAreNat DEF Init, OneTime!Init, Stage, Codes
<1>2. Init => Spent
  BY DEF Init, Spent, Idle
<1> QED BY <1>1, <1>2, SpentNext, StageNext, ShelfAlways, PTL
        DEF Spec, CodesRefinement, OneTime!Spec

-----------------------------------------------------------------------------
(* The bound on executions never stops a job.  Every execution is the first  *)
(* or the second of its job, a job that waits has used one at the most, and  *)
(* MaxCodes leaves two for every job.                                        *)

\* Which execution of its job c is.
Rank(c) == Cardinality({d \in Executions(work[c]) : d <= c})

LEMMA RanksDiffer ==
  ASSUME Base, Rationed, NEW c \in Codes, NEW d \in Codes,
         c < nextCode, d < nextCode, c # d, work[c] = work[d]
  PROVE  /\ Rank(c) \in 1..Cardinality(Executions(work[c]))
         /\ Rank(c) # Rank(d)
<1> DEFINE E(x) == {e \in Executions(work[c]) : e <= x}
<1>1. c \in Nat /\ d \in Nat /\ Codes \subseteq Nat
  BY NumbersAreNat
<1>2. \A x \in {c, d} : /\ IsFiniteSet(E(x)) /\ Cardinality(E(x)) \in Nat
                        /\ x \in E(x) /\ E(x) # {}
  BY <1>1, ExecutionsAreFinite DEF Executions
<1>3. IsFiniteSet(Executions(work[c])) /\ Cardinality(Executions(work[c])) \in Nat
  BY ExecutionsAreFinite DEF Executions
<1>4. /\ Cardinality(E(c)) <= Cardinality(Executions(work[c]))
      /\ Cardinality(E(c)) # 0
  BY <1>2, <1>3, FS_Subset, FS_EmptySet
<1>5. CASE c < d
  <2>1. E(c) \subseteq E(d) /\ E(c) # E(d)
    <3>1. d \in E(d) /\ d \notin E(c)
      BY <1>1, <1>5 DEF Executions
    <3>2. \A e \in Executions(work[c]) : e <= c => e <= d
      BY <1>1, <1>5 DEF Executions
    <3> QED BY <3>1, <3>2
  <2>3. Cardinality(E(c)) = Cardinality(E(d)) => E(c) = E(d)
    <3>1. IsFiniteSet(E(d)) /\ E(c) \in SUBSET E(d)
      BY <1>2, <2>1
    <3> HIDE DEF E
    <3> QED BY <3>1, FS_Subset
  <2>2. Cardinality(E(c)) # Cardinality(E(d))
    BY <2>1, <2>3
  <2> QED BY <1>2, <1>3, <1>4, <2>2 DEF Rank
<1>6. CASE d < c
  <2>1. E(d) \subseteq E(c) /\ E(c) # E(d)
    <3>1. c \in E(c) /\ c \notin E(d)
      BY <1>1, <1>6 DEF Executions
    <3>2. \A e \in Executions(work[c]) : e <= d => e <= c
      BY <1>1, <1>6 DEF Executions
    <3> QED BY <3>1, <3>2
  <2>3. Cardinality(E(d)) = Cardinality(E(c)) => E(d) = E(c)
    <3>1. IsFiniteSet(E(c)) /\ E(d) \in SUBSET E(c)
      BY <1>2, <2>1
    <3> HIDE DEF E
    <3> QED BY <3>1, FS_Subset
  <2>2. Cardinality(E(c)) # Cardinality(E(d))
    BY <2>1, <2>3
  <2> QED BY <1>2, <1>3, <1>4, <2>2 DEF Rank
<1> QED BY <1>1, <1>5, <1>6

LEMMA RankIsFirstOrSecond ==
  ASSUME Base, Rationed, NEW c \in Codes, c < nextCode
  PROVE  /\ work[c] \in Jobs
         /\ Rank(c) \in 1..2
         /\ jobs[work[c]].stage = "waiting" => Rank(c) = 1
<1> DEFINE j == work[c]
           E == {d \in Executions(j) : d <= c}
<1>1. j \in Jobs /\ c \in Nat
  BY NumbersAreNat DEF Base, Begun
<1>2. IsFiniteSet(Executions(j)) /\ Cardinality(Executions(j)) \in Nat
      /\ IsFiniteSet(E) /\ Cardinality(E) \in Nat
  BY ExecutionsAreFinite DEF Executions
<1>3. c \in E
  BY <1>1 DEF Executions
<1>4. Cardinality(E) # 0 /\ Cardinality(E) <= Cardinality(Executions(j))
  BY <1>2, <1>3, FS_EmptySet, FS_Subset
<1>5. Cardinality(Executions(j)) <= Allowance(j) /\ Allowance(j) \in 0..2
  BY <1>1, AllowanceIsNat DEF Rationed
<1>6. jobs[j].stage = "waiting" => Allowance(j) \in 0..1
  BY <1>1 DEF Allowance, Base, TypeOK, JobRecords
<1> QED BY <1>1, <1>2, <1>4, <1>5, <1>6 DEF Rank

LEMMA NeverShort ==
  ASSUME Base, Rationed, NEW j \in Jobs, jobs[j].stage = "waiting"
  PROVE  nextCode \in Codes
<1> SUFFICES ASSUME nextCode = MaxCodes + 1 PROVE FALSE
  BY NumbersAreNat DEF Base, TypeOK, Codes
<1> DEFINE T == (Jobs \X (1..2)) \ {<<j, 2>>}
           f == [c \in Codes |-> <<work[c], Rank(c)>>]
<1>1. \A c \in Codes : c \in Nat /\ c < nextCode
  BY NumbersAreNat DEF Codes
<1>2. f \in [Codes -> T]
  BY <1>1, RankIsFirstOrSecond
<1>3. \A c, d \in Codes : c # d => f[c] # f[d]
  BY <1>1, RanksDiffer
<1>4. /\ IsFiniteSet(Codes) /\ Cardinality(Codes) = MaxCodes
      /\ IsFiniteSet(Jobs) /\ Cardinality(Jobs) = MaxJobs
      /\ IsFiniteSet(1..2) /\ Cardinality(1..2) = 2
  <2>1. /\ IsFiniteSet(1..MaxCodes)
        /\ Cardinality(1..MaxCodes) = IF 1 > MaxCodes THEN 0 ELSE MaxCodes - 1 + 1
    BY NumbersAreNat, FS_Interval
  <2>2. /\ IsFiniteSet(1..MaxJobs)
        /\ Cardinality(1..MaxJobs) = IF 1 > MaxJobs THEN 0 ELSE MaxJobs - 1 + 1
    BY NumbersAreNat, FS_Interval
  <2>3. IsFiniteSet(1..2) /\ Cardinality(1..2) = IF 1 > 2 THEN 0 ELSE 2 - 1 + 1
    <3>1. 1 \in Int /\ 2 \in Int
      OBVIOUS
    <3> QED BY <3>1, FS_Interval
  <2> QED BY <2>1, <2>2, <2>3, NumbersAreNat DEF Codes, Jobs
<1>5. IsFiniteSet(Jobs \X (1..2)) /\ Cardinality(Jobs \X (1..2)) = MaxJobs * 2
  BY <1>4, FS_Product
<1>6. IsFiniteSet(T) /\ Cardinality(T) = MaxJobs * 2 - 1
  <2> DEFINE U == Jobs \X (1..2)
             x == <<j, 2>>
  <2>1. x \in U /\ T = U \ {x} /\ IsFiniteSet(U) /\ Cardinality(U) = MaxJobs * 2
    BY <1>5
  <2> HIDE DEF T, U, x
  <2> QED BY <2>1, FS_RemoveElement
<1>7. Cardinality(T) < Cardinality(Codes)
  <2> HIDE DEF T
  <2> QED BY <1>4, <1>6, VerificationAssumption, NumbersAreNat
<1> HIDE DEF f, T
<1>8. \E c, d \in Codes : c # d /\ f[c] = f[d]
  <2>1. IsFiniteSet(Codes)
    BY <1>4
  <2>2. IsFiniteSet(T)
    BY <1>6
  <2> QED BY <1>2, <1>7, <2>1, <2>2, FS_PigeonHole
<1> QED BY <1>3, <1>8

-----------------------------------------------------------------------------
(* Every job is mailed.  What a step does to a job and to an execution that  *)
(* are under way.                                                            *)

Settled(j) == \/ Mailed(j)
              \/ users[jobs[j].user] = "gone"
              \/ \E c \in spoiled : work[c] = j
              \/ jobs[j].stage = "failed"

\* The steps of the queue and its worker, and the others.
LEMMA MailSteps ==
  ASSUME [Next]_vars
  PROVE  \/ \E j \in Jobs : Add(j) \/ Take(j) \/ Requeue(j) \/ LoseLock(j)
         \/ \E c \in Codes : Store(c) \/ Send(c) \/ Fails(c)
         \/ \E u \in Users : Asks(u) /\ UNCHANGED <<step, work>>
         \/ Crash
         \/ UNCHANGED <<jobs, step, work>>
<1>1. ASSUME NEW u \in Users, Register(u) \/ Resend(u)
      PROVE  Asks(u) /\ UNCHANGED <<step, work>>
  BY <1>1 DEF Register, Resend, history
<1>2. ASSUME NEW u \in Users, Overwrites(u) PROVE UNCHANGED <<jobs, step, work>>
  BY <1>2, OverwritesOne
<1>3. ASSUME NEW r \in Requests, Continue(r) PROVE UNCHANGED <<jobs, step, work>>
  BY <1>3 DEF Continue, VerifyRemove, VerifyMark, VerifyConfirm, VerifyAnswer, history
<1>4. ASSUME NEW r \in Requests,
             (\E c \in Codes : Verify(r, c)) \/ (\E p \in Parts : PartFails(r, p))
      PROVE  UNCHANGED <<jobs, step, work>>
  BY <1>4 DEF Verify, PartFails
<1>5. CASE UNCHANGED vars
  BY <1>5 DEF vars, history
<1> QED BY <1>1, <1>2, <1>3, <1>4, <1>5 DEF Next, Mailing, Overwrites

\* An execution that returns settles its job.
LEMMA EndSettles ==
  ASSUME Base, NEW c \in Codes,
         \/ Store(c) /\ ~Exists(Owner(c))
         \/ Send(c) \/ Fails(c)
  PROVE  /\ Settled(work[c])'
         /\ work' = work /\ Ends(c) /\ step[c] # "none"
<1>1. Ends(c) /\ step[c] # "none" /\ work' = work
  BY DEF Store, Send, Fails, Running, history
<1>2. work[c] \in Jobs /\ Owner(c) \in Users /\ users[Owner(c)] # "unborn"
  BY <1>1, CodeHasOwner
<1>3. CASE Store(c) /\ ~Exists(Owner(c))
  <2>1. users[Owner(c)] = "gone" /\ users' = users
    BY <1>2, <1>3 DEF Store, Exists, Base, TypeOK
  <2>2. jobs'[work[c]].user = jobs[work[c]].user
    BY <1>1, <1>2, EndsStep
  <2> QED BY <1>1, <2>1, <2>2 DEF Owner, Settled
<1>4. CASE Send(c)
  BY <1>1, <1>4 DEF Send, Settled, Mailed
<1>5. CASE Fails(c)
  BY <1>1, <1>5 DEF Fails, Settled
<1> QED BY <1>1, <1>3, <1>4, <1>5

\* A job that waits does so until it is taken.
LEMMA WaitingMoves ==
  ASSUME Base, [Next]_vars, NEW j \in Jobs, jobs[j].stage = "waiting"
  PROVE  \/ jobs'[j] = jobs[j]
         \/ /\ Take(j)
            /\ jobs'[j].stage = "active" /\ jobs'[j].stalls = jobs[j].stalls
<1>t. jobs \in [Jobs -> JobRecords]
  BY DEF Base, TypeOK
<1>1. ASSUME NEW i \in Jobs, Add(i) \/ Take(i) \/ Requeue(i) \/ LoseLock(i)
      PROVE  jobs'[j] = jobs[j] \/ Take(j)
  BY <1>t, <1>1 DEF Add, Take, Requeue, LoseLock, Stalls
<1>2. ASSUME NEW c \in Codes, Store(c) \/ Send(c) \/ Fails(c) PROVE jobs'[j] = jobs[j]
  <2>1. jobs' = jobs \/ (Ends(c) /\ step[c] # "none")
    BY <1>2 DEF Store, Send, Fails, Running
  <2>2. CASE Ends(c) /\ step[c] # "none"
    <3>1. work[c] \in Jobs
      BY <2>2, CodeHasOwner
    <3>2. jobs[work[c]].stage # "active" =>
            [jobs[work[c]] EXCEPT !.stage = jobs[work[c]].stage] = jobs[work[c]]
      BY <1>t, <3>1 DEF JobRecords
    <3> QED BY <1>t, <2>2, <3>1, <3>2 DEF Ends
  <2> QED BY <2>1, <2>2
<1>3. ASSUME NEW u \in Users, Asks(u) PROVE jobs'[j] = jobs[j]
  <2>1. jobs[nextJob].stage = "dropped"
    BY <1>3, NumbersAreNat DEF Asks, Base, Begun
  <2> QED BY <1>t, <1>3, <2>1 DEF Asks
<1>4. CASE Crash
  BY <1>t, <1>4 DEF Crash
<1>5. Take(j) => jobs'[j].stage = "active" /\ jobs'[j].stalls = jobs[j].stalls
  BY <1>t DEF Take, JobRecords
<1> QED BY <1>1, <1>2, <1>3, <1>4, <1>5, MailSteps

\* A job that is executed stays so until one of its executions settles it or
\* it stalls.
LEMMA ActiveMoves ==
  ASSUME Base, [Next]_vars, NEW j \in Jobs, jobs[j].stage = "active"
  PROVE  \/ jobs'[j] = jobs[j]
         \/ Settled(j)'
         \/ /\ jobs[j].stalls = 0
            /\ jobs'[j].stage = "waiting" /\ jobs'[j].stalls = 1
<1>t. jobs \in [Jobs -> JobRecords]
  BY DEF Base, TypeOK
<1>1. ASSUME Stalls(j) PROVE
         \/ Settled(j)'
         \/ /\ jobs[j].stalls = 0
            /\ jobs'[j].stage = "waiting" /\ jobs'[j].stalls = 1
  <2>1. CASE jobs[j].stalls = 0
    BY <1>t, <1>1, <2>1 DEF Stalls
  <2>2. CASE jobs[j].stalls = 1
    <3>1. jobs'[j].stage = "failed"
      BY <1>t, <1>1, <2>2 DEF Stalls, JobRecords
    <3> QED BY <3>1 DEF Settled
  <2> QED BY <1>1, <2>1, <2>2 DEF Stalls
<1>2. ASSUME NEW i \in Jobs, Add(i) \/ Take(i) \/ Requeue(i) \/ LoseLock(i)
      PROVE  jobs'[j] = jobs[j] \/ Stalls(j)
  BY <1>t, <1>2 DEF Add, Take, Requeue, LoseLock, Stalls
<1>3. ASSUME NEW c \in Codes, Store(c) \/ Send(c) \/ Fails(c)
      PROVE  jobs'[j] = jobs[j] \/ Settled(j)'
  <2>1. CASE Store(c) /\ Exists(Owner(c))
    BY <2>1 DEF Store
  <2>2. CASE ~(Store(c) /\ Exists(Owner(c)))
    <3>1. Settled(work[c])' /\ Ends(c) /\ step[c] # "none"
      BY <1>3, <2>2, EndSettles
    <3>2. work[c] \in Jobs
      BY <3>1, CodeHasOwner
    <3>3. work[c] # j => jobs'[j] = jobs[j]
      BY <1>t, <3>1, <3>2 DEF Ends
    <3>4. CASE work[c] = j
      <4>1. work' = work
        BY <1>3 DEF Store, Send, Fails, history
      <4> QED BY <3>1, <3>4, <4>1
    <3> QED BY <3>3, <3>4
  <2> QED BY <2>1, <2>2
<1>4. ASSUME NEW u \in Users, Asks(u) PROVE jobs'[j] = jobs[j]
  <2>1. jobs[nextJob].stage = "dropped"
    BY <1>4, NumbersAreNat DEF Asks, Base, Begun
  <2> QED BY <1>t, <1>4, <2>1 DEF Asks
<1>5. CASE Crash
  BY <1>t, <1>5 DEF Crash
<1> QED BY <1>1, <1>2, <1>3, <1>4, <1>5, MailSteps

\* An execution goes on until it settles its job or its process dies.
LEMMA RunMoves ==
  ASSUME Base, [Next]_vars, NEW c \in Running
  PROVE  /\ work'[c] = work[c]
         /\ \/ step'[c] = step[c]
            \/ Store(c) /\ step'[c] = "send"
            \/ Settled(work[c])' /\ c \notin Running'
            \/ Running' = {}
<1>1. c \in Codes /\ c # nextCode /\ step[c] # "none"
  BY CodeHasOwner DEF Running
<1>2. ASSUME NEW j \in Jobs, Add(j) \/ Requeue(j) \/ LoseLock(j)
      PROVE  UNCHANGED <<step, work>>
  BY <1>2 DEF Add, Requeue, LoseLock, Stalls, history
<1>3. ASSUME NEW j \in Jobs, Take(j) PROVE work'[c] = work[c] /\ step'[c] = step[c]
  BY <1>1, <1>3 DEF Take, Base, TypeOK
<1>4. ASSUME NEW d \in Codes, Store(d) \/ Send(d) \/ Fails(d)
      PROVE  /\ work' = work
             /\ \/ step'[c] = step[c]
                \/ Store(c) /\ step'[c] = "send"
                \/ Settled(work[c])' /\ c \notin Running'
  <2>1. work' = work
    BY <1>4 DEF Store, Send, Fails, history
  <2>2. CASE Store(d) /\ Exists(Owner(d))
    BY <1>1, <2>1, <2>2 DEF Store, Base, TypeOK
  <2>3. CASE ~(Store(d) /\ Exists(Owner(d)))
    <3>1. Settled(work[d])' /\ Ends(d) /\ step[d] # "none"
      BY <1>4, <2>3, EndSettles
    <3> QED BY <1>1, <2>1, <3>1, EndsStep DEF Running
  <2> QED BY <2>1, <2>2, <2>3
<1>5. CASE Crash
  BY <1>5 DEF Crash, Running
<1> QED BY <1>2, <1>3, <1>4, <1>5, MailSteps

\* Executions begin when their jobs are taken.
LEMMA RunningGrows ==
  ASSUME Base, [Next]_vars, NEW c \in Running', c \notin Running
  PROVE  /\ c = nextCode
         /\ \E j \in Jobs : Take(j) /\ work'[c] = j
<1>1. ASSUME NEW j \in Jobs, Add(j) \/ Requeue(j) \/ LoseLock(j) PROVE FALSE
  BY <1>1 DEF Add, Requeue, LoseLock, Stalls, Running
<1>2. ASSUME NEW j \in Jobs, Take(j) PROVE c = nextCode /\ work'[c] = j
  BY <1>2 DEF Take, Base, TypeOK, Running
<1>3. ASSUME NEW d \in Codes, Store(d) \/ Send(d) \/ Fails(d) PROVE FALSE
  <2>1. step[d] \in {"store", "send"}
    BY <1>3 DEF Store, Send, Fails, Running
  <2>2. \A e \in Codes : e # d => step'[e] = step[e]
    BY <1>3 DEF Store, Send, Fails, Ends, Base, TypeOK
  <2> QED BY <2>1, <2>2 DEF Running
<1>4. CASE Crash
  BY <1>4 DEF Crash, Running
<1> QED BY <1>1, <1>2, <1>3, <1>4, MailSteps DEF Running

LEMMA AbandonedKeeps ==
  ASSUME Base, [Next]_vars, NEW j \in Jobs, jobs[j].stage = "active", Abandoned(j)
  PROVE  Abandoned(j)'
<1> SUFFICES ASSUME NEW c \in Running', work'[c] = j PROVE FALSE
  BY DEF Abandoned
<1>1. CASE c \in Running
  BY <1>1, RunMoves DEF Abandoned
<1>2. CASE c \notin Running
  <2>1. Take(j)
    BY <1>2, RunningGrows
  <2> QED BY <2>1 DEF Take
<1> QED BY <1>1, <1>2

-----------------------------------------------------------------------------
(* Workers get free again and again: every execution ends, and none begins   *)
(* in the step in which one ends.                                            *)

Room == Cardinality(Running) < Workers
Crew == Cardinality(Running) <= Workers

LEMMA RunningIsFinite == IsFiniteSet(Running) /\ Cardinality(Running) \in Nat
  BY ExecutionsAreFinite DEF Running

LEMMA CrewNext == Base /\ Crew /\ [Next]_vars => Crew'
<1> SUFFICES ASSUME Base, Crew, [Next]_vars PROVE Crew'
  OBVIOUS
<1>1. Workers \in Nat /\ IsFiniteSet(Running) /\ Cardinality(Running) \in Nat
      /\ IsFiniteSet(Running') /\ Cardinality(Running') \in Nat
  BY VerificationAssumption, ExecutionsAreFinite DEF Running
<1>2. CASE Running' \subseteq Running
  BY <1>1, <1>2, FS_Subset DEF Crew
<1>3. ASSUME NEW c \in Running', c \notin Running PROVE Crew'
  <2>1. c = nextCode /\ Room
    BY <1>3, RunningGrows DEF Take, Room
  <2>2. Running' \subseteq Running \cup {nextCode}
    BY RunningGrows
  <2>3. /\ IsFiniteSet(Running \cup {nextCode})
        /\ Cardinality(Running \cup {nextCode}) = Cardinality(Running) + 1
    BY <1>1, <1>3, <2>1, FS_AddElement
  <2>4. Cardinality(Running') <= Cardinality(Running \cup {nextCode})
    BY <2>2, <2>3, FS_Subset
  <2> QED BY <1>1, <2>1, <2>3, <2>4 DEF Crew, Room
<1> QED BY <1>2, <1>3

LEMMA CrewAlways == Spec => []Crew
<1>1. Init => Crew
  <2> SUFFICES ASSUME Init PROVE Crew
    OBVIOUS
  <2>1. Running = {}
    BY DEF Init, Running
  <2> QED BY <2>1, FS_EmptySet, VerificationAssumption DEF Crew
<1> QED BY <1>1, CrewNext, BaseAlways, PTL DEF Spec

\* A worker that ends its execution is free.
LEMMA RoomAfterEnd ==
  ASSUME Base, Crew, [Next]_vars, NEW c \in Running, c \notin Running'
  PROVE  Room'
<1>1. Workers \in Nat \ {0} /\ IsFiniteSet(Running) /\ Cardinality(Running) \in Nat
  BY VerificationAssumption, RunningIsFinite
<1>2. c \in Codes /\ step[c] # step'[c] /\ c # nextCode
  BY CodeHasOwner DEF Running
<1>3. Running' \subseteq Running
  <2> SUFFICES ASSUME NEW d \in Running', d \notin Running PROVE FALSE
    OBVIOUS
  <2>1. PICK j \in Jobs : Take(j)
    BY RunningGrows
  <2>2. step'[c] = step[c]
    BY <1>2, <2>1 DEF Take, Base, TypeOK
  <2> QED BY <1>2, <2>2
<1>4. Running' \in SUBSET (Running \ {c})
  BY <1>3
<1>5. /\ IsFiniteSet(Running \ {c})
      /\ Cardinality(Running \ {c}) = Cardinality(Running) - 1
  BY <1>1, FS_RemoveElement
<1>6. /\ Cardinality(Running') <= Cardinality(Running \ {c})
      /\ Cardinality(Running') \in Nat
  BY <1>4, <1>5, FS_Subset, FS_CardinalityType
<1> QED BY <1>1, <1>5, <1>6 DEF Room, Crew

-----------------------------------------------------------------------------
(* Fairness, written out.  Requeue, Store and Send are weakly fair; Take is  *)
(* strongly fair, since other jobs may hold the workers whenever one is      *)
(* about to be free: Bull hands out the jobs in the order in which they      *)
(* wait.  The formulas speak of the infinite future, so that the [] before   *)
(* MailServed adds nothing.                                                  *)

CanTake(j)    == jobs[j].stage = "waiting" /\ nextCode \in Codes /\ Room
CanRequeue(j) == jobs[j].stage = "active" /\ Abandoned(j)

MailServed ==
  /\ \A j \in Jobs : /\ <>[]~CanTake(j)    \/ []<><<Take(j)>>_vars
                     /\ []<>~CanRequeue(j) \/ []<><<Requeue(j)>>_vars
  /\ \A c \in Codes : /\ []<>(step[c] # "store") \/ []<><<Store(c)>>_vars
                      /\ []<>(step[c] # "send")  \/ []<><<Send(c)>>_vars

MailInv == Base /\ Rationed /\ Crew
MailRun == []MailInv /\ [][Next]_vars /\ []MailServed

LEMMA MailRunStays == MailRun => []MailRun
  BY PTL DEF MailRun

LEMMA StoreServed ==
  ASSUME NEW c \in Codes
  PROVE  /\ MailRun => []<>(step[c] # "store") \/ []<><<Store(c)>>_vars
         /\ MailRun => []<>(step[c] # "send")  \/ []<><<Send(c)>>_vars
<1>1. MailServed => /\ []<>(step[c] # "store") \/ []<><<Store(c)>>_vars
                    /\ []<>(step[c] # "send")  \/ []<><<Send(c)>>_vars
  BY DEF MailServed
<1> QED BY <1>1, PTL DEF MailRun

LEMMA TakeServed ==
  ASSUME NEW j \in Jobs
  PROVE  /\ MailRun => <>[]~CanTake(j) \/ []<><<Take(j)>>_vars
         /\ MailRun => []<>~CanRequeue(j) \/ []<><<Requeue(j)>>_vars
<1>1. MailServed => /\ <>[]~CanTake(j)    \/ []<><<Take(j)>>_vars
                    /\ []<>~CanRequeue(j) \/ []<><<Requeue(j)>>_vars
  BY DEF MailServed
<1> QED BY <1>1, PTL DEF MailRun

\* Every execution ends.
LEMMA RoomAgain == MailRun => []<>Room
<1> DEFINE Full(c, k) == c \in Codes /\ ~Room /\ step[c] = k
<1>1. ASSUME NEW c \in Codes
      PROVE  MailRun => (Full(c, "store") \/ Full(c, "send") ~> Room)
  <2>1. MailInv /\ Full(c, "send") /\ [Next]_vars => Full(c, "send")' \/ Room'
    BY RunMoves, RoomAfterEnd DEF MailInv, Running, Store
  <2>2. MailInv /\ Full(c, "store") /\ [Next]_vars =>
          Full(c, "store")' \/ Full(c, "send")' \/ Room'
    BY RunMoves, RoomAfterEnd DEF MailInv, Running
  <2>3. MailInv /\ Full(c, "send") /\ [Next]_vars /\ <<Send(c)>>_vars => Room'
    BY EndSettles, EndsStep, RoomAfterEnd DEF MailInv, Running
  <2>4. MailInv /\ Full(c, "store") /\ [Next]_vars /\ <<Store(c)>>_vars =>
          Full(c, "send")' \/ Room'
    <3> SUFFICES ASSUME MailInv, Full(c, "store"), [Next]_vars, Store(c)
                 PROVE  step'[c] = "send" \/ c \notin Running'
      BY RoomAfterEnd DEF MailInv, Running
    <3>1. CASE Exists(Owner(c))
      BY <3>1 DEF Store, MailInv, Base, TypeOK
    <3>2. CASE ~Exists(Owner(c))
      BY <3>2, EndSettles, EndsStep DEF MailInv, Running
    <3> QED BY <3>1, <3>2
  <2>5. /\ MailRun => []<>(step[c] # "store") \/ []<><<Store(c)>>_vars
        /\ MailRun => []<>(step[c] # "send")  \/ []<><<Send(c)>>_vars
    BY StoreServed
  <2>6. /\ Full(c, "store") => ~(step[c] # "store")
        /\ Full(c, "send") => ~(step[c] # "send")
    OBVIOUS
  <2> HIDE DEF Full
  <2> QED BY <2>1, <2>2, <2>3, <2>4, <2>5, <2>6, PTL DEF MailRun
<1>2. MailRun => \A c \in Codes : (Full(c, "store") \/ Full(c, "send") ~> Room)
  BY <1>1
<1>3. (\A c \in Codes : (Full(c, "store") \/ Full(c, "send") ~> Room)) =>
        ((\E c \in Codes : Full(c, "store") \/ Full(c, "send")) => <>Room)
  <2> SUFFICES ASSUME NEW c \in Codes
               PROVE  (Full(c, "store") \/ Full(c, "send") ~> Room) =>
                        (Full(c, "store") \/ Full(c, "send") => <>Room)
    OBVIOUS
  <2> HIDE DEF Full
  <2> QED BY PTL
<1>4. MailInv => Room \/ \E c \in Codes : Full(c, "store") \/ Full(c, "send")
  <2> SUFFICES ASSUME MailInv, ~Room PROVE Running # {}
    BY DEF Running
  <2> QED BY FS_EmptySet, VerificationAssumption DEF Room
<1> HIDE DEF Full
<1> QED BY <1>2, <1>3, <1>4, MailRunStays, PTL DEF MailRun

Waits(j, s) == jobs[j].stage = "waiting" /\ jobs[j].stalls = s
Works(j, s) == jobs[j].stage = "active" /\ jobs[j].stalls = s

\* A waiting job is taken.
LEMMA WaitEnds ==
  ASSUME NEW j \in Jobs, NEW s \in 0..1
  PROVE  MailRun => (Waits(j, s) ~> Works(j, s))
<1>1. MailInv /\ Waits(j, s) /\ [Next]_vars => Waits(j, s)' \/ Works(j, s)'
  BY WaitingMoves DEF MailInv, Waits, Works
<1>2. MailInv /\ Waits(j, s) /\ <<Take(j)>>_vars => Works(j, s)'
  BY DEF MailInv, Waits, Works, Take, Base, TypeOK, JobRecords
<1>3. MailInv /\ Waits(j, s) /\ Room => CanTake(j)
  BY NeverShort DEF MailInv, Waits, CanTake
<1>4. MailRun => <>[]~CanTake(j) \/ []<><<Take(j)>>_vars
  BY TakeServed
<1> QED BY <1>1, <1>2, <1>3, <1>4, RoomAgain, PTL DEF MailRun

\* What the first and the second turn of a job end with.
Turned(j, s) == Settled(j) \/ (s = 0 /\ Waits(j, 1))
Left(j, s)   == Works(j, s) /\ Abandoned(j)
Runs(j, s, c, k) == Works(j, s) /\ work[c] = j /\ step[c] = k

\* A job whose process is gone is handed out again or failed.
LEMMA LeftEnds ==
  ASSUME NEW j \in Jobs, NEW s \in 0..1
  PROVE  MailRun => (Left(j, s) ~> Turned(j, s))
<1>1. MailInv /\ Left(j, s) /\ [Next]_vars => Left(j, s)' \/ Turned(j, s)'
  BY ActiveMoves, AbandonedKeeps DEF MailInv, Left, Works, Waits, Turned
<1>2. MailInv /\ Left(j, s) /\ [Next]_vars /\ <<Requeue(j)>>_vars => Turned(j, s)'
  <2> SUFFICES ASSUME MailInv, Left(j, s), [Next]_vars, Stalls(j) PROVE Turned(j, s)'
    BY DEF Requeue
  <2>1. jobs'[j] # jobs[j]
    BY DEF Stalls, MailInv, Base, TypeOK, JobRecords
  <2> QED BY <2>1, ActiveMoves DEF MailInv, Left, Works, Waits, Turned
<1>3. Left(j, s) => CanRequeue(j)
  BY DEF Left, Works, CanRequeue
<1>4. MailRun => []<>~CanRequeue(j) \/ []<><<Requeue(j)>>_vars
  BY TakeServed
<1> QED BY <1>1, <1>2, <1>3, <1>4, PTL DEF MailRun

\* An execution settles its job, or loses it, or dies.
LEMMA RunEnds ==
  ASSUME NEW j \in Jobs, NEW s \in 0..1, NEW c \in Codes
  PROVE  MailRun => (Runs(j, s, c, "store") \/ Runs(j, s, c, "send")
                       ~> Turned(j, s) \/ Left(j, s))
<1> DEFINE Out == Turned(j, s) \/ Left(j, s)
<1>1. ASSUME MailInv, [Next]_vars, NEW k \in {"store", "send"}, Runs(j, s, c, k)
      PROVE  \/ Runs(j, s, c, k)' \/ Out'
             \/ Store(c) /\ Runs(j, s, c, "send")'
  <2>1. c \in Running
    BY <1>1 DEF Runs, Running
  <2>2. CASE Running' = {}
    BY <1>1, <2>2, ActiveMoves DEF MailInv, Runs, Works, Turned, Waits, Left, Abandoned
  <2>3. CASE Running' # {}
    BY <1>1, <2>1, <2>3, ActiveMoves, RunMoves DEF MailInv, Runs, Works, Turned, Waits
  <2> QED BY <2>2, <2>3
<1>2. /\ MailInv /\ Runs(j, s, c, "store") /\ [Next]_vars =>
           Runs(j, s, c, "store")' \/ Runs(j, s, c, "send")' \/ Out'
      /\ MailInv /\ Runs(j, s, c, "send") /\ [Next]_vars =>
           Runs(j, s, c, "send")' \/ Out'
  BY <1>1
<1>3. MailInv /\ Runs(j, s, c, "store") /\ [Next]_vars /\ <<Store(c)>>_vars =>
        Runs(j, s, c, "send")' \/ Out'
  <2> SUFFICES ASSUME MailInv, Runs(j, s, c, "store"), [Next]_vars, Store(c)
               PROVE  Runs(j, s, c, "send")' \/ Out'
    OBVIOUS
  <2>1. step'[c] # "store"
    BY DEF Store, Ends, MailInv, Base, TypeOK
  <2> QED BY <1>2, <2>1 DEF Runs
<1>4. MailInv /\ Runs(j, s, c, "send") /\ <<Send(c)>>_vars => Out'
  BY EndSettles DEF MailInv, Runs, Turned
<1>5. /\ MailRun => []<>(step[c] # "store") \/ []<><<Store(c)>>_vars
      /\ MailRun => []<>(step[c] # "send")  \/ []<><<Send(c)>>_vars
  BY StoreServed
<1>6. /\ Runs(j, s, c, "store") => ~(step[c] # "store")
      /\ Runs(j, s, c, "send") => ~(step[c] # "send")
  BY DEF Runs
<1> HIDE DEF Out
<1>7. MailRun => (Runs(j, s, c, "store") \/ Runs(j, s, c, "send") ~> Out)
  BY <1>2, <1>3, <1>4, <1>5, <1>6, PTL DEF MailRun
<1> QED BY <1>7 DEF Out

\* A job that is executed has its turn.
LEMMA WorkEnds ==
  ASSUME NEW j \in Jobs, NEW s \in 0..1
  PROVE  MailRun => (Works(j, s) ~> Turned(j, s))
<1> DEFINE R(c) == Runs(j, s, c, "store") \/ Runs(j, s, c, "send")
           Out  == Turned(j, s) \/ Left(j, s)
<1>1. MailRun => \A c \in Codes : (R(c) ~> Out)
  BY RunEnds
<1>2. (\A c \in Codes : (R(c) ~> Out)) => ((\E c \in Codes : R(c)) => <>Out)
  <2> SUFFICES ASSUME NEW c \in Codes PROVE (R(c) ~> Out) => (R(c) => <>Out)
    OBVIOUS
  <2> HIDE DEF R, Out
  <2> QED BY PTL
<1>3. Works(j, s) => Left(j, s) \/ \E c \in Codes : R(c)
  BY DEF Works, Left, Runs, Abandoned, Running
<1>4. MailRun => (Left(j, s) ~> Turned(j, s))
  BY LeftEnds
<1> HIDE DEF R
<1> QED BY <1>1, <1>2, <1>3, <1>4, MailRunStays, PTL

TurnEnds(j, s) == Waits(j, s) ~> Turned(j, s)

\* A job that waits has its turn.
LEMMA TurnsEnd ==
  ASSUME NEW j \in Jobs, NEW s \in 0..1
  PROVE  MailRun => TurnEnds(j, s)
<1>1. MailRun => (Waits(j, s) ~> Works(j, s))
  BY WaitEnds
<1>2. MailRun => (Works(j, s) ~> Turned(j, s))
  BY WorkEnds
<1> QED BY <1>1, <1>2, PTL DEF TurnEnds

(* A link is mailed for every job that was added, whatever the faults, if    *)
(* the queue and its worker are served: a job is executed to its end twice   *)
(* at the most, and neither a crash nor a lost lock makes it vanish.         *)
THEOREM ServedJobsAreMailed == Spec /\ []MailServed => AskedIsMailed
<1> SUFFICES ASSUME NEW j \in Jobs
             PROVE  Spec /\ []MailServed =>
                      (jobs[j].stage = "waiting" ~>
                         \/ Mailed(j)
                         \/ users[jobs[j].user] = "gone"
                         \/ \E c \in spoiled : work[c] = j
                         \/ jobs[j].stage = "failed")
  BY DEF AskedIsMailed
<1>1. Spec /\ []MailServed => MailRun
  BY BaseAlways, RationedAlways, CrewAlways, PTL DEF Spec, MailRun, MailInv
<1>2. MailInv => (jobs[j].stage = "waiting" => Waits(j, 0) \/ Waits(j, 1))
  BY DEF MailInv, Base, TypeOK, JobRecords, Waits
<1>3. MailRun => TurnEnds(j, 0) /\ TurnEnds(j, 1)
  BY TurnsEnd
<1>4. /\ Turned(j, 0) => Settled(j) \/ Waits(j, 1)
      /\ Turned(j, 1) => Settled(j)
  BY DEF Turned
<1>5. MailRun => (jobs[j].stage = "waiting" ~> Settled(j))
  BY <1>2, <1>3, <1>4, PTL DEF MailRun, TurnEnds
<1>6. Spec /\ []MailServed => (jobs[j].stage = "waiting" ~> Settled(j))
  BY <1>1, <1>5, PTL
<1> QED BY <1>6 DEF Settled

-----------------------------------------------------------------------------
(* What the one-time codes promise, of the verification codes.               *)

Promise == INSTANCE OneTimeCodesProofs WITH stage <- Stage

(* Once GET verify-email was answered with success for a code, its row never *)
(* comes back, so the link never verifies again.                             *)
THEOREM AcknowledgedLinksAreSpent ==
  ASSUME NEW c \in Codes
  PROVE  Spec => [](c \in redeemed => c \in passed /\ [](c \notin rows))
<1>1. Promise!Spec => [](c \in redeemed => c \in passed /\ [](Stage[c] = "dead"))
  BY Promise!AcknowledgedUseIsTheLast
<1>2. OneTime!Spec => Promise!Spec
  <2>1. OneTime!Init => Promise!Init
    BY DEF OneTime!Init, Promise!Init
  <2>2. [OneTime!Next]_(OneTime!vars) => [Promise!Next]_(Promise!vars)
    BY DEF OneTime!Next, OneTime!Issue, OneTime!Pass, OneTime!Redeem, OneTime!Publish,
           OneTime!Retire, OneTime!vars,
           Promise!Next, Promise!Issue, Promise!Pass, Promise!Redeem, Promise!Publish,
           Promise!Retire, Promise!vars
  <2> QED BY <2>1, <2>2, PTL DEF OneTime!Spec, Promise!Spec
<1>3. Stage[c] = "dead" => c \notin rows
  BY DEF Stage
<1> QED BY <1>1, <1>2, <1>3, ImplementsOneTimeCodes, PTL DEF CodesRefinement

=============================================================================
