--------------------------- MODULE MCPasswordReset ---------------------------
(* PasswordReset for TLC: accounts, addresses and requests are model values. *)
EXTENDS PasswordReset, FiniteSets, TLC

\* Nothing tells two accounts, two addresses or two request slots apart.
Symmetry == Permutations(Users) \cup Permutations(Emails) \cup Permutations(Requests)

Accounts == Cardinality({u \in Users : users[u] # None})
Busy     == Cardinality({r \in Requests : requests[r].pc # "idle"})
Ops      == {requests[r].op : r \in Requests}

\* While there is one account: overlapping requests with one fault or one other
\* write, the write beside at least one reset, and requests one after the other
\* with two.  While there are two accounts: one request and no fault.  A change,
\* which leaves the token rows alone, overlaps a reset or another change, without
\* a fault, once the first code is generated.
Bounded ==
  \/ /\ Accounts <= 1
     /\ faults + edits <= 2
     /\ Busy > 1 \/ "change" \in Ops => faults + edits <= 1
     /\ Busy > 1 /\ edits > 0 => "reset" \in Ops
     /\ Busy > 1 /\ "change" \in Ops => /\ "forgot" \notin Ops
                                        /\ faults = 0 /\ nextCode = 2
  \/ Busy <= 1 /\ faults = 0 /\ "change" \notin Ops

=============================================================================
