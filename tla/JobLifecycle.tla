---------------------------- MODULE JobLifecycle ----------------------------
(***************************************************************************)
(* What a job promises the person who submitted it, whatever the server    *)
(* does inside: pages are delivered while the job is active and are never  *)
(* taken back, "done" is said only of a job whose every page is delivered, *)
(* and a closed job opens again only while there is something left to      *)
(* deliver, when its failed pages are retried.                             *)
(***************************************************************************)
CONSTANT Page

VARIABLES status, delivered

vars == <<status, delivered>>

Verdict == {"done", "completed_with_errors", "error"}

Init == status = "none" /\ delivered = {}

Submit ==
  /\ status = "none"
  /\ status' = "active"
  /\ UNCHANGED delivered

Deliver(p) ==
  /\ status = "active" /\ p \notin delivered
  /\ delivered' = delivered \cup {p}
  /\ UNCHANGED status

Close(verdict) ==
  /\ status = "active"
  /\ verdict = "done" => delivered = Page
  /\ status' = verdict
  /\ UNCHANGED delivered

Reopen ==
  /\ status \in {"completed_with_errors", "error"}
  /\ delivered # Page
  /\ status' = "active"
  /\ UNCHANGED delivered

Next ==
  \/ Submit \/ Reopen
  \/ \E p \in Page : Deliver(p)
  \/ \E verdict \in Verdict : Close(verdict)

Spec == Init /\ [][Next]_vars
=============================================================================
