---------------------------- MODULE JobLifecycle ----------------------------
(***************************************************************************)
(* What the durable execution record promises whoever submitted a job      *)
(* (docs/adr/0038, docs/adr/0040): no workers, no revisions, no races.     *)
(***************************************************************************)
EXTENDS Naturals

CONSTANT MaxRetries         \* operational retries a job is granted

VARIABLES
  stage,      \* where the job stands
  canceling,  \* its owner has asked for it to be canceled
  retries     \* retries used up; a failed job has none left

vars == <<stage, canceling, retries>>

Stage == {"waiting", "running", "review", "done", "canceled", "failed"}
UnderWay == {"waiting", "running"}

Init == stage = "waiting" /\ canceling = FALSE /\ retries = 0

Begin ==
  /\ stage = "waiting"
  /\ stage' = "running"
  /\ UNCHANGED <<canceling, retries>>

\* The engine's work ends, in a result or in a request for review.
End ==
  /\ stage = "running" /\ ~canceling
  /\ stage' \in {"done", "review"}
  /\ UNCHANGED <<canceling, retries>>

\* Only a reviewed job is taken up again.
Resume ==
  /\ stage = "review"
  /\ stage' = "running"
  /\ UNCHANGED <<canceling, retries>>

Retry ==
  /\ stage \in UnderWay /\ ~canceling
  /\ retries < MaxRetries
  /\ stage' = "running"
  /\ retries' = retries + 1
  /\ UNCHANGED canceling

Fail ==
  /\ stage \in UnderWay /\ ~canceling
  /\ stage' = "failed"
  /\ retries' = MaxRetries
  /\ UNCHANGED canceling

AskToCancel ==
  /\ stage \in UnderWay
  /\ canceling' = TRUE
  /\ UNCHANGED <<stage, retries>>

Cancel ==
  /\ stage \in UnderWay /\ canceling
  /\ stage' = "canceled"
  /\ UNCHANGED <<canceling, retries>>

Next == Begin \/ End \/ Resume \/ Retry \/ Fail \/ AskToCancel \/ Cancel

Spec == Init /\ [][Next]_vars
=============================================================================
