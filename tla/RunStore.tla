------------------------------ MODULE RunStore ------------------------------
(***************************************************************************)
(* The durable execution record of one K-Slide job and the compare-and-set *)
(* operations of its run store (src/src/k_slide/execution.py).             *)
(*                                                                         *)
(* Every operation of _FilesystemRunStore loads the record, decides, and   *)
(* hands a candidate to commit_job, which compares revisions again under   *)
(* the file lock.  An operation here is the operator that maps the record  *)
(* it finds, and the revision its caller expects, to a StoreWriteResult.   *)
(* StoreOutcomes adds what the gap between the two locked sections makes   *)
(* possible.                                                               *)
(*                                                                         *)
(* Abstracted: identities, timestamps, hashes and metadata.  The eighteen  *)
(* engine phases are three: COMPLETE, NEEDS_REVIEW and any other.          *)
(***************************************************************************)
EXTENDS Naturals

CONSTANT MaxAttempts        \* RetryState.max_attempts of the submitted job

\* RetryState refuses a limit outside 1..32.
ASSUME AttemptsAssumption == MaxAttempts \in 1..32

Lifecycle == {"QUEUED", "RUNNING", "RETRYING", "COMPLETED", "CANCELED", "PROCESSING_FAILED"}
Outcome == {"NONE", "DONE", "NEEDS_REVIEW", "CANCELED", "PROCESSING_FAILED"}
Eligibility == {"ELIGIBLE", "NOT_ELIGIBLE"}
Disposition == {"NONE", "RETRYABLE", "NOT_RETRYABLE", "EXHAUSTED"}
WriteStatus == {"ACCEPTED", "IDEMPOTENT", "STALE", "CONFLICT", "RAISED"}
\* requested and acknowledged: the constructor refuses the fourth combination.
Cancellation == {"NONE", "REQUESTED", "ACKNOWLEDGED"}
Phase == {"WORKING", "NEEDS_REVIEW", "COMPLETE"}
\* How classify_operational_failure, and the EXECUTION_STALE test of the
\* worker, sort what an engine step may raise.
Failure == {"RETRYABLE", "NOT_RETRYABLE", "SEMANTIC_REPAIR", "STALE"}

Checkpoint == [revision : Nat, phase : Phase]
Marker == [op : Nat, result : Phase]
Job == [lifecycle : Lifecycle, outcome : Outcome, eligibility : Eligibility,
        revision : Nat, checkpoint : Checkpoint, cancellation : Cancellation,
        attempt : 0..MaxAttempts, disposition : Disposition,
        markers : SUBSET Marker]

Live == {"QUEUED", "RUNNING", "RETRYING"}
Terminal == {"COMPLETED", "CANCELED", "PROCESSING_FAILED"}

NewJob ==
  [lifecycle |-> "QUEUED", outcome |-> "NONE", eligibility |-> "ELIGIBLE",
   revision |-> 0, checkpoint |-> [revision |-> 0, phase |-> "WORKING"],
   cancellation |-> "NONE", attempt |-> 0, disposition |-> "NONE",
   markers |-> {}]

\* What the constructor of ExecutionJob demands of every record: it raises on
\* any other, so that such a record can be neither written nor read back.
WellFormed(job) ==
  /\ job.lifecycle = "CANCELED" =>
       job.cancellation = "ACKNOWLEDGED" /\ job.outcome = "CANCELED"
  /\ job.lifecycle = "PROCESSING_FAILED" => job.outcome = "PROCESSING_FAILED"
  /\ job.lifecycle = "COMPLETED" => job.outcome \in {"DONE", "NEEDS_REVIEW"}
  /\ job.lifecycle \in Live => job.outcome = "NONE"
  /\ \A m, n \in job.markers : m.op = n.op => m = n
  /\ job.disposition = "EXHAUSTED" => job.attempt = MaxAttempts

-----------------------------------------------------------------------------
(* StoreWriteResult and commit_job *)

Result(status, job) == [status |-> status, job |-> job]
Accepted(r) == r.status \in {"ACCEPTED", "IDEMPOTENT"}

CommitJob_NoCompare(current, job, expected) == Result("ACCEPTED", job)

\* The compare-and-set every write ends in.
CommitJob(current, job, expected) ==
  IF current = job THEN Result("IDEMPOTENT", current)
  ELSE IF expected # current.revision THEN Result("STALE", current)
  ELSE IF job.revision # current.revision + 1 THEN Result("CONFLICT", current)
  ELSE Result("ACCEPTED", job)

CommitNext_Unchecked(current, candidate) ==
  CommitJob(current, [candidate EXCEPT !.revision = current.revision + 1],
            current.revision)

\* replace(current, ..., revision=current.revision + 1) handed to commit_job.
\* The constructor behind replace raises before anything is written; RAISED
\* stands for that exception.
CommitNext(current, candidate) ==
  IF WellFormed(candidate)
    THEN CommitJob(current, [candidate EXCEPT !.revision = current.revision + 1],
                   current.revision)
    ELSE Result("RAISED", current)

\* An operation called with a stale expected revision may also have loaded the
\* record before the write that made it stale: it then goes on to commit_job
\* and is refused there.
StoreOutcomes(current, expected, r) ==
  IF expected = current.revision THEN {r} ELSE {r, Result("STALE", current)}

-----------------------------------------------------------------------------
(* Checkpoints and result markers *)

CommitCheckpoint(current, checkpoint, expected) ==
  IF checkpoint = current.checkpoint THEN Result("IDEMPOTENT", current)
  ELSE IF expected # current.revision THEN Result("STALE", current)
  ELSE IF checkpoint.revision # current.checkpoint.revision + 1
         THEN Result("CONFLICT", current)
  ELSE CommitNext(current, [current EXCEPT !.checkpoint = checkpoint])

HasMarker(job, op) == \E m \in job.markers : m.op = op

CommitStep_NoExpected(current, checkpoint, marker, expected) ==
  IF HasMarker(current, marker.op) THEN Result("CONFLICT", current)
  ELSE CommitNext(current, [current EXCEPT !.checkpoint = checkpoint,
                                           !.markers = @ \cup {marker}])

CommitStep_MarkerOnly(current, checkpoint, marker, expected) ==
  IF HasMarker(current, marker.op) \/ expected # current.revision
    THEN Result("STALE", current)
    ELSE CommitNext(current, [current EXCEPT !.markers = @ \cup {marker}])

\* A marker whose operation is already recorded is a replay when marker and
\* checkpoint are the recorded ones, and a conflict otherwise.
CommitStep(current, checkpoint, marker, expected) ==
  IF HasMarker(current, marker.op)
    THEN IF marker \in current.markers /\ checkpoint = current.checkpoint
           THEN Result("IDEMPOTENT", current)
           ELSE Result("CONFLICT", current)
  ELSE IF expected # current.revision THEN Result("STALE", current)
  ELSE IF checkpoint.revision # current.checkpoint.revision + 1
         THEN Result("CONFLICT", current)
  ELSE CommitNext(current, [current EXCEPT !.checkpoint = checkpoint,
                                           !.markers = @ \cup {marker}])

-----------------------------------------------------------------------------
(* Cancellation *)

\* The two refusals request_cancellation decides on the record it loads...
RequestRefused(current) ==
  \/ current.cancellation # "NONE"
  \/ current.lifecycle \in Terminal

\* ...and what it commits otherwise, on the revision it loaded.
CommitRequest(current, loaded) ==
  CommitJob(current,
            [loaded EXCEPT !.cancellation = "REQUESTED", !.revision = @ + 1],
            loaded.revision)

AcknowledgeCancellation_FlagOnly(current, expected) ==
  IF current.cancellation # "REQUESTED" \/ expected # current.revision
    THEN Result("STALE", current)
    ELSE CommitNext(current, [current EXCEPT !.cancellation = "ACKNOWLEDGED"])

\* Every caller is at a safe boundary.  The lifecycle is not looked at.
AcknowledgeCancellation(current, expected) ==
  IF current.cancellation = "ACKNOWLEDGED" THEN Result("IDEMPOTENT", current)
  ELSE IF current.cancellation = "NONE" THEN Result("CONFLICT", current)
  ELSE IF expected # current.revision THEN Result("STALE", current)
  ELSE CommitNext(current, [current EXCEPT !.cancellation = "ACKNOWLEDGED",
                                           !.lifecycle = "CANCELED",
                                           !.eligibility = "NOT_ELIGIBLE",
                                           !.outcome = "CANCELED"])

-----------------------------------------------------------------------------
(* Operational transitions and retry accounting *)

\* _OPERATIONAL_TRANSITIONS.
Successors ==
  [QUEUED            |-> {"RUNNING", "CANCELED", "PROCESSING_FAILED"},
   RUNNING           |-> {"RETRYING", "COMPLETED", "CANCELED", "PROCESSING_FAILED"},
   RETRYING          |-> {"RUNNING", "RETRYING", "COMPLETED", "CANCELED",
                          "PROCESSING_FAILED"},
   COMPLETED         |-> {"RETRYING"},
   CANCELED          |-> {},
   PROCESSING_FAILED |-> {}]

TransitionOperational_NoExpected(current, expected, lifecycle, outcome, eligibility) ==
  IF lifecycle \notin Successors[current.lifecycle] THEN Result("CONFLICT", current)
  ELSE CommitNext(current, [current EXCEPT !.lifecycle = lifecycle,
                                           !.outcome = outcome,
                                           !.eligibility = eligibility])

\* A call that finds lifecycle and outcome as wanted is accepted before its
\* expected revision is compared.  A caller that passes no eligibility passes
\* the current one.  No caller transitions to PROCESSING_FAILED.
TransitionOperational(current, expected, lifecycle, outcome, eligibility) ==
  IF current.lifecycle = lifecycle /\ current.outcome = outcome
    THEN Result("IDEMPOTENT", current)
  ELSE IF expected # current.revision THEN Result("STALE", current)
  ELSE IF \/ lifecycle \notin Successors[current.lifecycle]
          \/ lifecycle = "COMPLETED" /\ outcome \notin {"DONE", "NEEDS_REVIEW"}
         THEN Result("CONFLICT", current)
  ELSE CommitNext(current, [current EXCEPT !.lifecycle = lifecycle,
                                           !.outcome = outcome,
                                           !.eligibility = eligibility])

Failed(current, disposition, attempt) ==
  [current EXCEPT !.lifecycle = "PROCESSING_FAILED",
                  !.outcome = "PROCESSING_FAILED",
                  !.eligibility = "NOT_ELIGIBLE",
                  !.disposition = disposition,
                  !.attempt = attempt]

RecordRetry_NoLifecycleCheck(current, expected, failure) ==
  IF failure = "RETRYABLE" /\ current.attempt + 1 < MaxAttempts
    THEN CommitNext(current, [current EXCEPT !.lifecycle = "RETRYING",
                                             !.attempt = @ + 1,
                                             !.disposition = "RETRYABLE"])
  ELSE CommitNext(current, Failed(current, "NOT_RETRYABLE", current.attempt))

RecordRetry_OffByOne(current, expected, failure) ==
  IF current.lifecycle \in Terminal THEN Result("CONFLICT", current)
  ELSE IF expected # current.revision THEN Result("STALE", current)
  ELSE IF failure = "RETRYABLE" /\ current.attempt < MaxAttempts
    THEN CommitNext(current, [current EXCEPT !.lifecycle = "RETRYING",
                                             !.attempt = @ + 1,
                                             !.disposition = "RETRYABLE"])
  ELSE CommitNext(current, Failed(current, "EXHAUSTED", MaxAttempts))

RecordRetry_Unbounded(current, expected, failure) ==
  IF current.lifecycle \in Terminal THEN Result("CONFLICT", current)
  ELSE IF expected # current.revision THEN Result("STALE", current)
  ELSE CommitNext(current, [current EXCEPT !.lifecycle = "RETRYING",
                                           !.attempt = @ + 1,
                                           !.disposition = "RETRYABLE"])

\* Called for a RETRYABLE or a NOT_RETRYABLE failure.  A job that has failed
\* without exhausting its attempts is not turned away here: a late RETRYABLE
\* failure asks for a RETRYING record that still carries the failed outcome,
\* which the constructor refuses.
RecordRetry(current, expected, failure) ==
  IF current.lifecycle = "PROCESSING_FAILED" /\ current.disposition = "EXHAUSTED"
    THEN Result("IDEMPOTENT", current)
  ELSE IF current.lifecycle \in {"CANCELED", "COMPLETED"}
    THEN Result("CONFLICT", current)
  ELSE IF expected # current.revision THEN Result("STALE", current)
  ELSE IF failure = "RETRYABLE" /\ current.attempt + 1 < MaxAttempts
    THEN CommitNext(current, [current EXCEPT !.lifecycle = "RETRYING",
                                             !.attempt = @ + 1,
                                             !.disposition = "RETRYABLE"])
  ELSE IF failure = "RETRYABLE"
    THEN CommitNext(current, Failed(current, "EXHAUSTED", MaxAttempts))
  ELSE CommitNext(current, Failed(current, "NOT_RETRYABLE", current.attempt))

=============================================================================
