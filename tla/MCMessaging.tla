---------------------------- MODULE MCMessaging ----------------------------
(* Messaging for TLC: users, conversations and sockets are model values.     *)
EXTENDS Messaging, TLC

\* The slots of the requests in flight are interchangeable.
Symmetry == Permutations(Requests)

=============================================================================
