---------------------------- MODULE OneTimeCodes ----------------------------
(* What the codes in mailed links promise.  A code is issued once, becomes   *)
(* live when it is stored, and is dead from the moment it is used, replaced  *)
(* or given up: nothing brings it back.  A request passes with a code only   *)
(* while it is live, and is told that it succeeded only when the code it     *)
(* passed with is dead, so no request that begins later passes with it.      *)

CONSTANT Codes          \* the codes that are ever generated

VARIABLES stage,        \* stage[c]: fresh, then issued, then live, then dead
          passed,       \* codes with which a request passed
          redeemed      \* codes whose use was acknowledged

vars == <<stage, passed, redeemed>>

Stages == {"fresh", "issued", "live", "dead"}

TypeOK == /\ stage \in [Codes -> Stages]
          /\ passed \subseteq Codes
          /\ redeemed \subseteq Codes

Init == /\ stage = [c \in Codes |-> "fresh"]
        /\ passed = {}
        /\ redeemed = {}

Issue(c) == /\ stage[c] = "fresh"
            /\ stage' = [stage EXCEPT ![c] = "issued"]
            /\ UNCHANGED <<passed, redeemed>>

\* c is stored, in the place of the live codes in out.
Publish(c, out) ==
  /\ stage[c] = "issued"
  /\ \A d \in out : stage[d] = "live"
  /\ stage' = [d \in Codes |-> IF d = c THEN "live"
                               ELSE IF d \in out THEN "dead" ELSE stage[d]]
  /\ UNCHANGED <<passed, redeemed>>

\* Codes are given up before they are stored, or removed.
Retire(out) ==
  /\ \A d \in out : stage[d] \in {"issued", "live"}
  /\ stage' = [d \in Codes |-> IF d \in out THEN "dead" ELSE stage[d]]
  /\ UNCHANGED <<passed, redeemed>>

Pass(c) == /\ stage[c] = "live"
           /\ passed' = passed \cup {c}
           /\ UNCHANGED <<stage, redeemed>>

Redeem(c) == /\ c \in passed
             /\ stage[c] = "dead"
             /\ redeemed' = redeemed \cup {c}
             /\ UNCHANGED <<stage, passed>>

Next == \/ \E c \in Codes : Issue(c) \/ Pass(c) \/ Redeem(c)
        \/ \E c \in Codes, out \in SUBSET Codes : Publish(c, out)
        \/ \E out \in SUBSET Codes : Retire(out)

Spec == Init /\ [][Next]_vars

=============================================================================
