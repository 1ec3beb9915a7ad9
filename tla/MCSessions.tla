----------------------------- MODULE MCSessions -----------------------------
(* Sessions for TLC: accounts, passwords and request slots are model values. *)
EXTENDS Sessions, TLC

\* Two request slots of the server differ in nothing but their name.
RequestSymmetry == Permutations(Requests)
PasswordSymmetry == Permutations(Passwords)
Symmetry == RequestSymmetry \cup PasswordSymmetry

=============================================================================
