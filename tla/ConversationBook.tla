-------------------------- MODULE ConversationBook --------------------------
(* What the conversations promise: they are opened under growing ids with a  *)
(* list of the people asked for and an owner among them; only people on the  *)
(* list get in; and people leave all conversations at once, which the owner  *)
(* of one can never do.                                                      *)
EXTENDS Naturals

CONSTANTS People,    \* those who may take part
          Ids,       \* the numbers a conversation may get
          None       \* nobody

VARIABLES asked,     \* asked[c]: the people conversation c is for, or {}
          owner,     \* owner[c]: who opened conversation c, or None
          inside     \* pairs <<c, p>>: person p takes part in conversation c

vars == <<asked, owner, inside>>

Opened == {c \in Ids : asked[c] # {}}

Init == /\ asked = [c \in Ids |-> {}]
        /\ owner = [c \in Ids |-> None]
        /\ inside = {}

Open(c, p, list) ==
  /\ \A d \in Opened : d < c
  /\ p \in list
  /\ asked' = [asked EXCEPT ![c] = list]
  /\ owner' = [owner EXCEPT ![c] = p]
  /\ UNCHANGED inside

Enter(c, p) == /\ c \in Opened /\ p \in asked[c]
               /\ inside' = inside \cup {<<c, p>>}
               /\ UNCHANGED <<asked, owner>>

Leave(p) == /\ \A c \in Ids : owner[c] # p
            /\ inside' = {i \in inside : i[2] # p}
            /\ UNCHANGED <<asked, owner>>

Next == \/ \E c \in Ids, p \in People, list \in SUBSET People : Open(c, p, list)
        \/ \E c \in Ids, p \in People : Enter(c, p)
        \/ \E p \in People : Leave(p)

Spec == Init /\ [][Next]_vars

=============================================================================
