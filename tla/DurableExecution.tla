--------------------------- MODULE DurableExecution ---------------------------
(***************************************************************************)
(* One durable job, the PaaS workers that run it and the caller that may   *)
(* cancel it (src/src/k_slide/paas.py PaaSWorker, execution.py             *)
(* ExecutionController and _FilesystemRunStore).                           *)
(*                                                                         *)
(* There is no lease: any worker may attach to the job at any time, and    *)
(* what it does between two store calls interleaves with everybody else.   *)
(* worker[w].pc names the next store call of PaaSWorker.run_once; what the *)
(* worker remembers of an earlier load is in its other fields.  A crash    *)
(* loses exactly those.                                                    *)
(***************************************************************************)
EXTENDS RunStore

CONSTANTS
  Workers,      \* worker processes
  Failures,     \* the kinds of error the engine may raise
  MaxSteps,     \* bound: engine steps that may be committed
  MaxCrashes    \* bound: worker crashes

ASSUME WorkersAssumption == Failures \subseteq Failure
ASSUME BoundsAssumption == MaxSteps \in Nat /\ MaxCrashes \in Nat

VARIABLES
  job,          \* the record on disk
  worker,       \* what each worker process holds in memory
  canceller,    \* the caller of request_cancellation
  crashes       \* how many times a worker has crashed

vars == <<job, worker, canceller, crashes>>

-----------------------------------------------------------------------------
\* The store call a worker is about to make:
\*   idle    claim and first load           start   RETRYING -> RUNNING
\*   name    load for the operation id      step    load of run_step
\*   resume  COMPLETED -> RETRYING          begin   QUEUED -> RUNNING
\*   engine  the engine runs, then commits  failed  load of _record_failure
\*   retry   record_retry                   settle  load of _reconcile
\*   finish  transition to COMPLETED        ack     acknowledge_cancellation
PC == {"idle", "start", "name", "step", "resume", "begin", "engine",
       "failed", "retry", "settle", "finish", "ack"}

\* seen: revision of the last load, from: its checkpoint's revision, op: the
\* operation id, note: the failure or the outcome in hand, said: the status of
\* the last WorkerResult that reported the end of the job.
Report == {"NONE", "DONE", "NEEDS_REVIEW", "CANCELED", "PROCESSING_FAILED"}
WorkerState == [pc : PC, seen : Nat, from : Nat, op : Nat,
                note : Failure \cup {"NONE", "DONE", "NEEDS_REVIEW"},
                said : Report]

IdleWorker(said) ==
  [pc |-> "idle", seen |-> 0, from |-> 0, op |-> 0, note |-> "NONE",
   said |-> IF said \in Report THEN said ELSE "NONE"]

CancellerState == [pc : {"idle", "commit"}, loaded : Job]
IdleCanceller == [pc |-> "idle", loaded |-> NewJob]

Init ==
  /\ job = NewJob
  /\ worker = [w \in Workers |-> IdleWorker("NONE")]
  /\ canceller = IdleCanceller
  /\ crashes = 0

-----------------------------------------------------------------------------
(* Moves of a worker *)

\* Go on at pc, forgetting what earlier calls returned.
Goto(w, pc) == worker' = [worker EXCEPT ![w] = [IdleWorker("NONE") EXCEPT !.pc = pc]]

\* Go on at pc with the record just loaded, and a failure or an outcome in hand.
Holding(w, pc, loaded, note) ==
  worker' = [worker EXCEPT ![w] = [IdleWorker("NONE") EXCEPT !.pc = pc,
                                                            !.seen = loaded.revision,
                                                            !.note = note]]

\* Enter the engine, or go on towards it, for the operation already named.
Towards(w, pc, loaded) ==
  worker' = [worker EXCEPT ![w].pc = pc,
                           ![w].seen = loaded.revision,
                           ![w].from = loaded.checkpoint.revision]

\* run_once returns a WorkerResult with this status.
Return(w, status) == worker' = [worker EXCEPT ![w] = IdleWorker(status)]

Others == UNCHANGED <<canceller, crashes>>
OnlyWorker == UNCHANGED <<job, canceller, crashes>>

TerminalStatus(j) == IF j.lifecycle = "COMPLETED" THEN j.outcome ELSE j.lifecycle

-----------------------------------------------------------------------------
(* PaaSWorker.run_once *)

\* Claiming a job outside a scope changes nothing.  A COMPLETED job returns
\* here whatever its outcome: the NEEDS_REVIEW branch below is never reached.
Claim(w) ==
  /\ worker[w].pc = "idle"
  /\ \/ job.lifecycle \in Terminal /\ Return(w, TerminalStatus(job))
     \/ job.lifecycle = "RETRYING" /\ Holding(w, "start", job, "NONE")
     \/ job.lifecycle \in {"QUEUED", "RUNNING"} /\ Goto(w, "name")
  /\ OnlyWorker

Start(w) ==
  /\ worker[w].pc = "start"
  /\ \E r \in StoreOutcomes(job, worker[w].seen,
               TransitionOperational(job, worker[w].seen, "RUNNING", "NONE",
                                     job.eligibility)) :
       /\ job' = r.job
       /\ IF Accepted(r) THEN Goto(w, "name") ELSE Return(w, r.status)
  /\ Others

\* The operation is named after a load of its own.
NameOperation(w) ==
  /\ worker[w].pc = "name"
  /\ worker' = [worker EXCEPT ![w].pc = "step",
                              ![w].op = job.checkpoint.revision + 1]
  /\ OnlyWorker

-----------------------------------------------------------------------------
(* ExecutionController.run_step *)

\* The load of run_step and the decisions on it, in the order of the code: a
\* cancellation first, then a replayed operation, then resume eligibility.
BeginStep(w) ==
  /\ worker[w].pc = "step"
  /\ \/ /\ job.cancellation = "REQUESTED"
        /\ Holding(w, "ack", job, "NONE")
     \/ /\ job.cancellation = "ACKNOWLEDGED"
        /\ Return(w, "CANCELED")
     \/ /\ job.cancellation = "NONE"
        /\ \/ /\ HasMarker(job, worker[w].op)
              /\ Goto(w, "settle")
           \/ /\ ~HasMarker(job, worker[w].op)
              /\ \/ job.eligibility = "NOT_ELIGIBLE" /\ Return(w, "CONFLICT")
                 \/ /\ job.eligibility = "ELIGIBLE"
                    /\ \/ /\ job.lifecycle = "COMPLETED"
                          /\ job.outcome = "NEEDS_REVIEW"
                          /\ Towards(w, "resume", job)
                       \/ /\ job.lifecycle = "QUEUED"
                          /\ Towards(w, "begin", job)
                       \/ /\ job.lifecycle \in {"RUNNING", "RETRYING"}
                          /\ Towards(w, "engine", job)
                       \/ /\ \/ job.lifecycle \in {"CANCELED", "PROCESSING_FAILED"}
                             \/ job.lifecycle = "COMPLETED" /\ job.outcome # "NEEDS_REVIEW"
                          /\ Return(w, "CONFLICT")
  /\ OnlyWorker

\* Both transitions hand the engine the record the store returned, which an
\* IDEMPOTENT answer takes from whoever made the transition first.
Enter(w, pc, lifecycle) ==
  /\ worker[w].pc = pc
  /\ \E r \in StoreOutcomes(job, worker[w].seen,
               TransitionOperational(job, worker[w].seen, lifecycle, "NONE",
                                     job.eligibility)) :
       /\ job' = r.job
       /\ IF Accepted(r) THEN Towards(w, "engine", r.job)
                         ELSE Return(w, r.status)
  /\ Others

ResumeReview(w) == Enter(w, "resume", "RETRYING")
BeginQueued(w) == Enter(w, "begin", "RUNNING")

\* The engine has run on the checkpoint it was given and its result is
\* committed, with a marker (commit_step) or without (commit_checkpoint).
CommitEngineStep(w) ==
  /\ worker[w].pc = "engine"
  /\ worker[w].from < MaxSteps
  /\ \E phase \in Phase, marked \in BOOLEAN :
       LET checkpoint == [revision |-> worker[w].from + 1, phase |-> phase]
           marker == [op |-> worker[w].op, result |-> phase]
           expected == worker[w].seen
       IN \E r \in StoreOutcomes(job, expected,
                     IF marked THEN CommitStep(job, checkpoint, marker, expected)
                               ELSE CommitCheckpoint(job, checkpoint, expected)) :
            /\ job' = r.job
            /\ IF \/ Accepted(r)
                  \/ marked /\ r.status = "STALE" /\ HasMarker(r.job, worker[w].op)
                 THEN Goto(w, "settle")
                 ELSE Return(w, r.status)
  /\ Others

\* The engine raises, or returns what run_step refuses; naming the operation
\* calls the engine too.
EngineRaises(w) ==
  /\ worker[w].pc \in {"name", "engine"}
  /\ \E failure \in Failures :
       worker' = [worker EXCEPT ![w] = [IdleWorker("NONE") EXCEPT !.pc = "failed",
                                                                 !.note = failure]]
  /\ OnlyWorker

-----------------------------------------------------------------------------
(* PaaSWorker._record_failure and _reconcile *)

RecordFailure_Unrecorded(w) ==
  /\ worker[w].pc = "failed"
  /\ Return(w, "STALE")
  /\ OnlyWorker

RecordFailure(w) ==
  /\ worker[w].pc = "failed"
  /\ \/ /\ job.cancellation = "REQUESTED"
        /\ Holding(w, "ack", job, "NONE")
     \/ /\ job.cancellation # "REQUESTED"
        /\ \/ /\ worker[w].note \in {"SEMANTIC_REPAIR", "STALE"}
              /\ Return(w, worker[w].note)
           \/ /\ worker[w].note \in {"RETRYABLE", "NOT_RETRYABLE"}
              /\ Holding(w, "retry", job, worker[w].note)
  /\ OnlyWorker

\* The status is read off the lifecycle of the record returned, not off the
\* status of the write: a refused write reports PROCESSING_FAILED as well.  An
\* exception of the store is reported as a stale step.
RecordRetryStep(w) ==
  /\ worker[w].pc = "retry"
  /\ \E r \in StoreOutcomes(job, worker[w].seen,
               RecordRetry(job, worker[w].seen, worker[w].note)) :
       /\ job' = r.job
       /\ Return(w, IF r.status = "RAISED" THEN "STALE"
                    ELSE IF r.job.lifecycle = "RETRYING" THEN "RETRYING"
                    ELSE "PROCESSING_FAILED")
  /\ Others

Settle_IgnoreCancellation(w) ==
  /\ worker[w].pc = "settle"
  /\ \/ /\ job.lifecycle \in {"RUNNING", "RETRYING"}
        /\ job.checkpoint.phase = "COMPLETE"
        /\ Holding(w, "finish", job, "DONE")
     \/ /\ ~(job.lifecycle \in {"RUNNING", "RETRYING"} /\ job.checkpoint.phase = "COMPLETE")
        /\ Return(w, "ACCEPTED")
  /\ OnlyWorker

\* The load of _reconcile and the decisions on it.
Settle(w) ==
  /\ worker[w].pc = "settle"
  /\ \/ /\ job.cancellation = "REQUESTED"
        /\ Holding(w, "ack", job, "NONE")
     \/ /\ job.cancellation # "REQUESTED"
        /\ \/ /\ job.lifecycle \in {"RUNNING", "RETRYING"}
              /\ \/ /\ job.checkpoint.phase = "COMPLETE"
                    /\ Holding(w, "finish", job, "DONE")
                 \/ /\ job.checkpoint.phase = "NEEDS_REVIEW"
                    /\ Holding(w, "finish", job, "NEEDS_REVIEW")
                 \/ /\ job.checkpoint.phase = "WORKING"
                    /\ Return(w, "ACCEPTED")
           \/ /\ job.lifecycle \notin {"RUNNING", "RETRYING"}
              /\ Return(w, "ACCEPTED")
  /\ OnlyWorker

Finish(w) ==
  /\ worker[w].pc = "finish"
  /\ LET outcome == worker[w].note
         eligibility == IF outcome = "DONE" THEN "NOT_ELIGIBLE" ELSE "ELIGIBLE"
     IN \E r \in StoreOutcomes(job, worker[w].seen,
                  TransitionOperational(job, worker[w].seen, "COMPLETED",
                                        outcome, eligibility)) :
          /\ job' = r.job
          /\ Return(w, IF Accepted(r) THEN outcome ELSE r.status)
  /\ Others

\* run_step, _reconcile and _record_failure acknowledge in the same way.
Acknowledge(w) ==
  /\ worker[w].pc = "ack"
  /\ \E r \in StoreOutcomes(job, worker[w].seen,
               AcknowledgeCancellation(job, worker[w].seen)) :
       /\ job' = r.job
       /\ Return(w, IF Accepted(r) THEN "CANCELED" ELSE r.status)
  /\ Others

WorkerStep(w) ==
  \/ Claim(w) \/ Start(w) \/ NameOperation(w) \/ BeginStep(w)
  \/ ResumeReview(w) \/ BeginQueued(w) \/ CommitEngineStep(w) \/ EngineRaises(w)
  \/ RecordFailure(w) \/ RecordRetryStep(w) \/ Settle(w) \/ Finish(w) \/ Acknowledge(w)

\* The process dies; the record keeps whatever was last committed.
Crash(w) ==
  /\ crashes < MaxCrashes
  /\ worker[w].pc # "idle"
  /\ worker' = [worker EXCEPT ![w] = IdleWorker("NONE")]
  /\ crashes' = crashes + 1
  /\ UNCHANGED <<job, canceller>>

-----------------------------------------------------------------------------
(* request_cancellation without an expected revision, as the service calls  *)
(* it: a load, and a commit on the revision that load returned.             *)

LoadForCancellation ==
  /\ canceller.pc = "idle"
  /\ ~RequestRefused(job)
  /\ canceller' = [pc |-> "commit", loaded |-> job]
  /\ UNCHANGED <<job, worker, crashes>>

CommitCancellation ==
  /\ canceller.pc = "commit"
  /\ job' = CommitRequest(job, canceller.loaded).job
  /\ canceller' = IdleCanceller
  /\ UNCHANGED <<worker, crashes>>

Next ==
  \/ \E w \in Workers : WorkerStep(w) \/ Crash(w)
  \/ LoadForCancellation \/ CommitCancellation

Spec == Init /\ [][Next]_vars

\* Workers are operating-system processes that are restarted and keep polling.
\* Nothing is assumed of the caller, and nothing of the engine but that a call
\* of it returns or raises.
Fairness == \A w \in Workers : WF_vars(WorkerStep(w))
FairSpec == Spec /\ Fairness

-----------------------------------------------------------------------------
(* Properties *)

\* Every variable has its type.
TypeOK ==
  /\ job \in Job
  /\ worker \in [Workers -> WorkerState]
  /\ canceller \in CancellerState
  /\ crashes \in 0..MaxCrashes

\* The retry accounting and the life cycle agree: the last attempt is only ever
\* spent by failing the job, however many workers report failures of the same
\* step.
RetryBudget ==
  /\ job.attempt = MaxAttempts <=> job.disposition = "EXHAUSTED"
  /\ job.disposition \in {"EXHAUSTED", "NOT_RETRYABLE"} =>
       job.lifecycle = "PROCESSING_FAILED"
  /\ job.lifecycle = "PROCESSING_FAILED" =>
       job.disposition \in {"EXHAUSTED", "NOT_RETRYABLE"}

\* A recorded cancellation wins: the job is never completed or failed after
\* it, although acknowledge_cancellation and record_retry look at no
\* cancellation flag and another worker may be about to complete the job.
CancellationWins ==
  /\ job.cancellation = "REQUESTED" => job.lifecycle \in Live
  /\ job.cancellation = "ACKNOWLEDGED" <=> job.lifecycle = "CANCELED"

\* The outcome of a completed job is the one its last committed checkpoint
\* carries: no worker completes a job on a checkpoint that another worker has
\* meanwhile replaced.
OutcomeFollowsCheckpoint ==
  /\ job.outcome = "DONE" => job.checkpoint.phase = "COMPLETE"
  /\ job.outcome = "NEEDS_REVIEW" => job.checkpoint.phase = "NEEDS_REVIEW"

\* No committed operation runs ahead of the checkpoint, and none is counted
\* twice: a crash or a second worker never leaves a marker without its
\* checkpoint (commit_step writes both at once).
MarkersFollowCheckpoint ==
  \A m \in job.markers :
    /\ m.op \in 1..job.checkpoint.revision
    /\ \A n \in job.markers : m.op = n.op => m = n

\* A worker that reports the job done or canceled tells the truth, for good.
ReportedEndIsReal ==
  \A w \in Workers : worker[w].said \in {"DONE", "CANCELED"} => job.outcome = worker[w].said

\* A worker that reports PROCESSING_FAILED has not seen the job end in DONE or
\* NEEDS_REVIEW.
FailureReportIsNotSemantic ==
  \A w \in Workers :
    worker[w].said = "PROCESSING_FAILED" => job.outcome \notin {"DONE", "NEEDS_REVIEW"}

\* A checkpoint is only ever replaced by a worker whose engine ran on exactly
\* that checkpoint, of a record nobody has written since, and while the job is
\* under way (commit_step itself looks at no lifecycle).
StepExtendsWhatWasRead ==
  [][job'.checkpoint # job.checkpoint =>
       \E w \in Workers :
         /\ worker[w].pc = "engine"
         /\ worker[w].seen = job.revision
         /\ worker[w].from = job.checkpoint.revision
         /\ job'.checkpoint.revision = job.checkpoint.revision + 1
         /\ job.lifecycle \in {"RUNNING", "RETRYING"}]_vars

\* A job that is canceled, failed or DONE stays so and keeps its checkpoint and
\* its markers, although the transition table lets any COMPLETED job go back to
\* RETRYING and record_retry does not turn every failed job away.
EndIsFinal ==
  [][job.lifecycle \in {"CANCELED", "PROCESSING_FAILED"} \/ job.outcome = "DONE"
       => /\ UNCHANGED <<job.lifecycle, job.outcome, job.cancellation>>
          /\ UNCHANGED <<job.checkpoint, job.markers>>]_vars

\* The record as its owner sees it.
Stage ==
  [QUEUED |-> "waiting", RUNNING |-> "running", RETRYING |-> "running",
   COMPLETED |-> IF job.outcome = "DONE" THEN "done" ELSE "review",
   CANCELED |-> "canceled", PROCESSING_FAILED |-> "failed"][job.lifecycle]

Owner == INSTANCE JobLifecycle WITH
  MaxRetries <- MaxAttempts - 1,
  stage <- Stage,
  canceling <- job.cancellation # "NONE",
  retries <- IF job.lifecycle = "PROCESSING_FAILED" THEN MaxAttempts - 1 ELSE job.attempt

\* All the interleavings of workers, crashes and cancellation on one record
\* amount to a sequential life cycle: one job, bounded retries, a cancellation
\* that is never overruled, and only a reviewed job taken up again.
ImplementsLifecycle == Owner!Spec

\* Every recorded cancellation is acknowledged, whatever the engine raises.
CancellationIsAcknowledged ==
  job.cancellation = "REQUESTED" ~> job.lifecycle = "CANCELED"

\* The job ends and stays ended: retries are bounded, and workers cannot keep
\* each other from finishing for ever.
JobSettles == <>[](job.lifecycle \in Terminal)

=============================================================================
