------------------------- MODULE OneTimeCodesProofs -------------------------
(* What follows from the promise of the one-time codes, for any set of codes *)
(* and so for every component that implements it.                            *)
EXTENDS OneTimeCodes, TLAPS

-----------------------------------------------------------------------------
LEMMA TypeInit == Init => TypeOK
  BY DEF Init, TypeOK, Stages

LEMMA TypeNext == TypeOK /\ [Next]_vars => TypeOK'
<1> SUFFICES ASSUME TypeOK, [Next]_vars PROVE TypeOK'
  OBVIOUS
<1> USE DEF TypeOK, Stages
<1>1. ASSUME NEW c \in Codes, Issue(c) PROVE TypeOK'
  BY <1>1 DEF Issue
<1>2. ASSUME NEW c \in Codes, Pass(c) \/ Redeem(c) PROVE TypeOK'
  BY <1>2 DEF Pass, Redeem
<1>3. ASSUME NEW c \in Codes, NEW out \in SUBSET Codes, Publish(c, out) PROVE TypeOK'
  BY <1>3 DEF Publish
<1>4. ASSUME NEW out \in SUBSET Codes, Retire(out) PROVE TypeOK'
  BY <1>4 DEF Retire
<1>5. CASE UNCHANGED vars
  BY <1>5 DEF vars
<1> QED BY <1>1, <1>2, <1>3, <1>4, <1>5 DEF Next

\* Every code is at one of the stages.
THEOREM TypeCorrect == Spec => []TypeOK
  BY TypeInit, TypeNext, PTL DEF Spec

-----------------------------------------------------------------------------
(* The life of a code *)

Moves == {<<"fresh", "issued">>, <<"issued", "live">>, <<"issued", "dead">>,
          <<"live", "dead">>}

Forward(c) == stage'[c] = stage[c] \/ <<stage[c], stage'[c]>> \in Moves

LEMMA StepsForward == TypeOK /\ [Next]_vars => \A c \in Codes : Forward(c)
<1> SUFFICES ASSUME TypeOK, [Next]_vars, NEW c \in Codes PROVE Forward(c)
  OBVIOUS
<1> USE DEF TypeOK, Forward, Moves
<1>1. ASSUME NEW d \in Codes, Issue(d) PROVE Forward(c)
  BY <1>1 DEF Issue
<1>2. ASSUME NEW d \in Codes, Pass(d) \/ Redeem(d) PROVE Forward(c)
  BY <1>2 DEF Pass, Redeem
<1>3. ASSUME NEW d \in Codes, NEW out \in SUBSET Codes, Publish(d, out) PROVE Forward(c)
  BY <1>3 DEF Publish
<1>4. ASSUME NEW out \in SUBSET Codes, Retire(out) PROVE Forward(c)
  BY <1>4 DEF Retire
<1>5. CASE UNCHANGED vars
  BY <1>5 DEF vars
<1> QED BY <1>1, <1>2, <1>3, <1>4, <1>5 DEF Next

(* A code never goes back: it is issued once, stored at most once, and what  *)
(* is dead is not stored again.                                              *)
THEOREM CodesMoveForward == Spec => [][\A c \in Codes : Forward(c)]_vars
  BY TypeCorrect, StepsForward, PTL DEF Spec

\* A request passes only with a code that was stored, and is told so only when
\* the code is dead.
Accounted == /\ redeemed \subseteq passed
             /\ \A c \in passed : stage[c] \in {"live", "dead"}
             /\ \A c \in redeemed : stage[c] = "dead"

LEMMA AccountedNext == TypeOK /\ Accounted /\ [Next]_vars => Accounted'
<1> SUFFICES ASSUME TypeOK, Accounted, [Next]_vars PROVE Accounted'
  OBVIOUS
<1>f. \A c \in Codes : Forward(c)
  BY StepsForward
<1>1. ASSUME passed' = passed, redeemed' = redeemed PROVE Accounted'
  BY <1>1, <1>f DEF Accounted, Forward, Moves, TypeOK
<1>2. ASSUME NEW c \in Codes, Pass(c) PROVE Accounted'
  BY <1>2 DEF Pass, Accounted
<1>3. ASSUME NEW c \in Codes, Redeem(c) PROVE Accounted'
  BY <1>3 DEF Redeem, Accounted
<1> QED BY <1>1, <1>2, <1>3 DEF Next, Issue, Publish, Retire, vars

(* Once a request was told that it succeeded, the code it passed with is     *)
(* dead for good, so that no later request passes with it.                   *)
THEOREM AcknowledgedUseIsTheLast ==
  ASSUME NEW c \in Codes
  PROVE  Spec => [](c \in redeemed => c \in passed /\ [](stage[c] = "dead"))
<1>1. Init => Accounted
  BY DEF Init, Accounted
<1>2. TypeOK /\ stage[c] = "dead" /\ [Next]_vars => (stage[c] = "dead")'
  BY StepsForward DEF Forward, Moves
<1>3. Accounted => (c \in redeemed => c \in passed /\ stage[c] = "dead")
  BY DEF Accounted
<1> QED BY <1>1, <1>2, <1>3, AccountedNext, TypeCorrect, PTL DEF Spec

=============================================================================
