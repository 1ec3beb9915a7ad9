---------------------------- MODULE SessionSlot ----------------------------
(* What the access-token cache promises: one slot per user holding the       *)
(* second at which its token was signed.  A slot is filled only with a token *)
(* signed now, or emptied.  Hence a token that has once been taken out after *)
(* its own second can never be the accepted one again.                       *)
EXTENDS Naturals

CONSTANTS Users,    \* account ids
          None      \* an empty slot

VARIABLES clock,    \* the current second
          slot,     \* slot[u]: iat of the accepted token of u, or None
          ended     \* the tokens <<u, iat>> taken out later than second iat

vars == <<clock, slot, ended>>

TypeOK == /\ clock \in Nat
          /\ slot \in [Users -> Nat \cup {None}]
          /\ ended \subseteq Users \X Nat

Init == /\ clock = 0
        /\ slot = [u \in Users |-> None]
        /\ ended = {}

\* The token that a write of e into the slot of u takes out for good.
TakenOut(u, e) == {<<u, i>> : i \in {slot[u]} \ {None, e, clock}}

Write(u, e) == /\ slot' = [slot EXCEPT ![u] = e]
               /\ ended' = ended \cup TakenOut(u, e)
               /\ UNCHANGED clock

Issue(u) == Write(u, clock)
Drop(u)  == Write(u, None)
Pass     == clock' = clock + 1 /\ UNCHANGED <<slot, ended>>

Next == Pass \/ \E u \in Users : Issue(u) \/ Drop(u)

Spec == Init /\ [][Next]_vars

\* A token taken out after the second of its signature is never accepted again.
EndedStaysEnded == \A t \in ended : slot[t[1]] # t[2]

=============================================================================
