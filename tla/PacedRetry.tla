----------------------------- MODULE PacedRetry -----------------------------
(* What a resilient client promises its dependency and its operator: it     *)
(* rests between two attempts, and it never gives up until it is stopped.   *)
EXTENDS Naturals

CONSTANTS MinRest   \* least time between the end of an attempt and the next

VARIABLES link,     \* "resting", "busy" (an attempt or a session), "stopped"
          rested    \* time since the last attempt ended, up to MinRest

retryVars == <<link, rested>>

Init == link \in {"resting", "stopped"} /\ rested = MinRest

Rest ==
  /\ link = "resting"
  /\ rested < MinRest
  /\ rested' = rested + 1
  /\ UNCHANGED link

Try ==
  /\ link = "resting"
  /\ rested = MinRest
  /\ link' = "busy"
  /\ UNCHANGED rested

Lose ==
  /\ link = "busy"
  /\ link' = "resting"
  /\ rested' = 0

Stop ==
  /\ link # "stopped"
  /\ link' = "stopped"
  /\ UNCHANGED rested

Next == Rest \/ Try \/ Lose \/ Stop

Spec == Init /\ [][Next]_retryVars /\ WF_retryVars(Rest \/ Try)
=============================================================================
