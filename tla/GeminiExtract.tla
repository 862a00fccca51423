---------------------------- MODULE GeminiExtract ---------------------------
(***************************************************************************)
(* extract_with_blueprint: one page reserves a slot of the quota and then  *)
(* calls Gemini until it has data, gives up or meets an error it cannot    *)
(* wait out.  Each caller of QuotaManager is the extraction of one page.   *)
(*                                                                         *)
(* Left out: the file put on the Files API and deleted again (its failure  *)
(* falls back to images), prompts, and what the data says.                 *)
(***************************************************************************)
EXTENDS QuotaManager

CONSTANTS
  MaxRetries,        \* MAX_RETRIES
  Max503,            \* _MAX_503_ATTEMPTS
  Max429             \* _MAX_429_ATTEMPTS

ASSUME LadderAssumption ==
  /\ MaxRetries \in Nat \ {0} /\ Max503 \in Nat \ {0} /\ Max429 \in Nat \ {0}

VARIABLES
  stage,          \* where the extraction of a page is
  attempt,        \* the loop's counters
  busy,           \* consecutive_503
  limited,        \* consecutive_429
  calls           \* history: the calls of Gemini a page has made

ladder == <<attempt, busy, limited>>
evars  == <<stage, ladder, calls>>
vars   == <<qvars, evars>>

Over  == {"data", "none", "raised"}
Stage == {"reserve", "prepare", "call", "sleep"} \cup Over

\* The exceptions the handler tells apart, and an answer that is not JSON.
Failure == {"badJson", "notFound", "timeout", "unavailable", "limited", "other"}

Init ==
  /\ QInit
  /\ stage = [c \in Caller |-> "reserve"]
  /\ attempt = [c \in Caller |-> 0]
  /\ busy = [c \in Caller |-> 0]
  /\ limited = [c \in Caller |-> 0]
  /\ calls = [c \in Caller |-> 0]

-----------------------------------------------------------------------------
Goto(c, to) == stage' = [stage EXCEPT ![c] = to]

\* A refusal is an answer of None, any other exception is the caller's.
Reserved(c) ==
  /\ stage[c] = "reserve" /\ pc[c] \in Ended
  /\ stage' = [stage EXCEPT ![c] = CASE pc[c] = "granted" -> "prepare"
                                     [] pc[c] = "refused" -> "none"
                                     [] pc[c] = "raised"  -> "raised"]
  /\ UNCHANGED <<qvars, ladder, calls>>

Generate(c) ==
  /\ stage[c] = "prepare"
  /\ Goto(c, "call")
  /\ calls' = [calls EXCEPT ![c] = @ + 1]
  /\ UNCHANGED <<qvars, ladder>>

Answered(c) ==
  /\ stage[c] = "call"
  /\ Goto(c, "data")
  /\ UNCHANGED <<qvars, ladder, calls>>

\* Mutants: one round too many; a counter that starts over when the other kind
\* of error comes between.
MutSpent(n, limit) == n > limit
MutCounted(counter, other, c) == counter' = [counter EXCEPT ![c] = @ + 1] /\ other' = [other EXCEPT ![c] = 0]

Spent(n, limit) == n >= limit
Counted(counter, other, c) == counter' = [counter EXCEPT ![c] = @ + 1] /\ UNCHANGED other

\* What the loop does after a failure of the call, or before it while the
\* contents are prepared.  The end of the 429 ladder raises, the others are None.
Fails(c, kind) ==
  \/ /\ kind = "notFound"
     /\ Goto(c, "raised")
     /\ UNCHANGED ladder
  \/ /\ kind \in {"badJson", "timeout", "other"}
     /\ attempt' = [attempt EXCEPT ![c] = @ + 1]
     /\ stage' = [stage EXCEPT ![c] = IF Spent(attempt[c] + 1, MaxRetries) THEN "none"
                                      ELSE IF kind = "badJson" THEN "prepare" ELSE "sleep"]
     /\ UNCHANGED <<busy, limited>>
  \/ /\ kind = "unavailable"
     /\ Counted(busy, limited, c)
     /\ stage' = [stage EXCEPT ![c] = IF Spent(busy[c] + 1, Max503) THEN "none" ELSE "sleep"]
     /\ UNCHANGED attempt
  \/ /\ kind = "limited"
     /\ Counted(limited, busy, c)
     /\ stage' = [stage EXCEPT ![c] = IF Spent(limited[c] + 1, Max429) THEN "raised" ELSE "sleep"]
     /\ UNCHANGED attempt

CallFails(c) == \E kind \in Failure :
  /\ stage[c] = "call"
  /\ Fails(c, kind)
  /\ UNCHANGED <<qvars, calls>>

\* What turns the file into images has only its own errors, told apart by text.
PrepareFails(c) == \E kind \in {"notFound", "other"} :
  /\ stage[c] = "prepare"
  /\ Fails(c, kind)
  /\ UNCHANGED <<qvars, calls>>

BackOff(c) ==
  /\ stage[c] = "sleep"
  /\ Goto(c, "prepare")
  /\ UNCHANGED <<qvars, ladder, calls>>

QuotaStep ==
  /\ \/ \E c \in Caller : CheckAndReserve(c) \/ ReserveStep(c) \/ StatementRaises(c)
     \/ CleanupOldWindows \/ Tick
  /\ UNCHANGED evars

ExtractStep(c) ==
  Reserved(c) \/ Generate(c) \/ Answered(c) \/ CallFails(c) \/ PrepareFails(c) \/ BackOff(c)

Next ==
  \/ QuotaStep
  \/ \E c \in Caller : ExtractStep(c)

Spec == Init /\ [][Next]_vars

\* asyncio and PostgreSQL serve every coroutine and every lock in the queue, a
\* call and a sleep have an end, and time passes.
Fairness ==
  /\ \A c \in Caller : WF_vars((CheckAndReserve(c) \/ ReserveStep(c)) /\ UNCHANGED evars)
  /\ \A c \in Caller : WF_vars(ExtractStep(c))
  /\ WF_vars(Tick /\ UNCHANGED evars)

FairSpec == Spec /\ Fairness

-----------------------------------------------------------------------------
ExtractTypeOK ==
  /\ QTypeOK
  /\ stage \in [Caller -> Stage]
  /\ attempt \in [Caller -> 0 .. MaxRetries]
  /\ busy \in [Caller -> 0 .. Max503]
  /\ limited \in [Caller -> 0 .. Max429]
  /\ calls \in [Caller -> Nat]

\* However errors of different kinds alternate, a page costs no more calls than
\* its three counters allow together (each has its own limit in the loop).
LadderBounded ==
  \A c \in Caller : calls[c] <= MaxRetries + Max503 + Max429 - 2

\* Every extraction comes to an end: no wait for the quota and no ladder of
\* errors goes on for ever (the batch waits for all its pages).
ExtractionEnds == \A c \in Caller : stage[c] \in Stage \ Over ~> stage[c] \in Over

\* Every call of Gemini has a slot of the quota (check_and_reserve: "Acquire a
\* quota slot before calling Gemini").
CallsReserved == \A c \in Caller : calls[c] <= IF pc[c] = "granted" THEN 1 ELSE 0
=============================================================================
