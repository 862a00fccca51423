---------------------------- MODULE RateLimiter -----------------------------
(***************************************************************************)
(* What a rate limiter promises: a call is charged to several windows at   *)
(* once, and no limited window is ever charged beyond its cap.             *)
(***************************************************************************)
EXTENDS Naturals

CONSTANTS
  Window,     \* the windows a call may be charged to
  Charges,    \* the sets of windows that one call is charged to
  Limited,    \* the windows that have a cap
  Cap         \* the cap of each of them

VARIABLE granted

Init == granted = [w \in Window |-> 0]

Admit(S) ==
  /\ \A w \in S \cap Limited : granted[w] < Cap[w]
  /\ granted' = [w \in Window |-> IF w \in S THEN granted[w] + 1 ELSE granted[w]]

Next == \E S \in Charges : Admit(S)

Spec == Init /\ [][Next]_granted
=============================================================================
