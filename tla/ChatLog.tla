------------------------------ MODULE ChatLog ------------------------------
(* What the chat promises its listeners: a message is posted once, under an  *)
(* id above all earlier ones, announced at most once and only after it was   *)
(* posted, and whoever hears it hears it at the end of what they heard.      *)
EXTENDS Naturals, Sequences

CONSTANTS Sockets,    \* the listeners
          Ids         \* the numbers a message may get

VARIABLES posted,     \* ids of the messages posted so far
          announced,  \* ids of the messages announced so far
          heard       \* heard[s]: the ids that reached listener s, in order

vars == <<posted, announced, heard>>

Init == /\ posted = {}
        /\ announced = {}
        /\ heard = [s \in Sockets |-> <<>>]

Post(m) == /\ \A n \in posted : n < m
           /\ posted' = posted \cup {m}
           /\ UNCHANGED <<announced, heard>>

Announce(m, audience) ==
  /\ m \in posted \ announced
  /\ announced' = announced \cup {m}
  /\ heard' = [s \in Sockets |-> IF s \in audience THEN Append(heard[s], m)
                                                   ELSE heard[s]]
  /\ UNCHANGED posted

Next == \/ \E m \in Ids : Post(m)
        \/ \E m \in posted, audience \in SUBSET Sockets : Announce(m, audience)

Spec == Init /\ [][Next]_vars

=============================================================================
