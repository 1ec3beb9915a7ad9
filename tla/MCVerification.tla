---------------------------- MODULE MCVerification ----------------------------
(* Verification for TLC: accounts and requests are model values.             *)
EXTENDS Verification, TLC

Busy == Cardinality({r \in Requests : requests[r].code # 0})

\* While there is one job, every fault and overlapping requests; while there are
\* two for one account, no more than two faults and requests under way together;
\* while there are two accounts, overlapping requests and no fault.  Only steps
\* without fairness leave these states.
Bounded == /\ nextJob > 2 => faults + Busy <= 2
           /\ (\A u \in Users : users[u] # "unborn") => faults = 0

=============================================================================
