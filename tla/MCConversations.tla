-------------------------- MODULE MCConversations --------------------------
(* Conversations for TLC: users and request slots are model values.          *)
EXTENDS Conversations, TLC

\* Neither users nor the slots of the requests differ in more than their name.
Symmetry == Permutations(Users) \cup Permutations(Requests)

=============================================================================
