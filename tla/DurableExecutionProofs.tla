------------------------ MODULE DurableExecutionProofs ------------------------
(***************************************************************************)
(* Proofs about DurableExecution, for any number of workers, attempts,     *)
(* engine steps and crashes.                                               *)
(*                                                                         *)
(* The argument has three layers.  The lemmas on the store say what an     *)
(* operation of RunStore may return.  RecordStep lists the ways in which   *)
(* the record can change at all; RecordMoves shows, from what each worker  *)
(* remembers of its last load, that no step of the system changes it in    *)
(* another way.  The properties of the record follow from RecordStep       *)
(* alone, whoever made the step.                                           *)
(***************************************************************************)
EXTENDS DurableExecution, TLAPS

USE DEF Lifecycle, Outcome, Eligibility, Disposition, Cancellation, Phase,
        Live, Terminal

-----------------------------------------------------------------------------
(* The store operations *)

\* What the bounds of the retry limit amount to in the proofs.
LEMMA AttemptsFact == MaxAttempts \in Nat /\ MaxAttempts > 0
  BY AttemptsAssumption DEF AttemptsAssumption

\* A candidate built on the record found is either refused by the constructor
\* or becomes the next revision: commit_job cannot refuse it.
LEMMA CommitNextEffect ==
  ASSUME NEW j \in Job, NEW c \in Job, c.revision = j.revision
  PROVE  \/ /\ ~WellFormed(c)
            /\ CommitNext(j, c) = Result("RAISED", j)
         \/ /\ WellFormed(c)
            /\ CommitNext(j, c) = Result("ACCEPTED", [c EXCEPT !.revision = j.revision + 1])
<1> DEFINE k == [c EXCEPT !.revision = j.revision + 1]
<1>1. k.revision = j.revision + 1 /\ k # j
  BY DEF Job
<1>2. CommitJob(j, k, j.revision) = Result("ACCEPTED", k)
  BY <1>1 DEF CommitJob
<1> QED
  BY <1>2 DEF CommitNext

TransitionMade(j, n, l, o, e, k) ==
  /\ n = j.revision
  /\ l \in Successors[j.lifecycle]
  /\ WellFormed(k)
  /\ k = [j EXCEPT !.lifecycle = l, !.outcome = o, !.eligibility = e,
                   !.revision = j.revision + 1]

\* transition_operational writes what it was asked for, on the revision its
\* caller expected and along the table, or nothing.
LEMMA TransitionEffect ==
  ASSUME NEW j \in Job, NEW n \in Nat, NEW l \in Lifecycle, NEW o \in Outcome,
         NEW e \in Eligibility,
         NEW r \in StoreOutcomes(j, n, TransitionOperational(j, n, l, o, e))
  PROVE  \/ /\ r.job = j
            /\ Accepted(r) => j.lifecycle = l /\ j.outcome = o
         \/ TransitionMade(j, n, l, o, e, r.job)
<1> USE DEF TransitionMade
<1> DEFINE c == [j EXCEPT !.lifecycle = l, !.outcome = o, !.eligibility = e]
           k == [c EXCEPT !.revision = j.revision + 1]
           t == TransitionOperational(j, n, l, o, e)
<1>1. c \in Job /\ c.revision = j.revision
  BY DEF Job
<1>2. \/ ~WellFormed(c) /\ CommitNext(j, c) = Result("RAISED", j)
      \/ WellFormed(c) /\ CommitNext(j, c) = Result("ACCEPTED", k)
  BY <1>1, CommitNextEffect
<1>3. k = [j EXCEPT !.lifecycle = l, !.outcome = o, !.eligibility = e,
                    !.revision = j.revision + 1]
  BY DEF Job
<1>4. WellFormed(c) => WellFormed(k)
  BY <1>1 DEF WellFormed, Job
<1>5. \/ t = Result("IDEMPOTENT", j) /\ j.lifecycle = l /\ j.outcome = o
      \/ t = Result("STALE", j)
      \/ t = Result("CONFLICT", j)
      \/ /\ n = j.revision /\ l \in Successors[j.lifecycle]
         /\ t = CommitNext(j, c)
  BY DEF TransitionOperational
<1>6. r = t \/ r = Result("STALE", j)
  BY DEF StoreOutcomes
<1>7. CASE r.job = j /\ ~Accepted(r)
  BY <1>7
<1>8. CASE t = Result("IDEMPOTENT", j) /\ j.lifecycle = l /\ j.outcome = o
  BY <1>6, <1>8 DEF Result
<1>9. CASE r = CommitNext(j, c) /\ n = j.revision /\ l \in Successors[j.lifecycle]
  <2>1. CASE r = Result("RAISED", j)
    BY <2>1, <1>7 DEF Result, Accepted
  <2>2. CASE WellFormed(c) /\ r = Result("ACCEPTED", k)
    <3>1. r.job = k
      BY <2>2 DEF Result
    <3> QED
      BY <3>1, <2>2, <1>3, <1>4, <1>9
  <2> HIDE DEF k, c
  <2> QED
    BY <1>2, <1>9, <2>1, <2>2
<1> HIDE DEF t, c
<1>10. CASE r = Result("STALE", j) \/ r = Result("CONFLICT", j)
  BY <1>7, <1>10 DEF Result, Accepted
<1> QED
  BY <1>5, <1>6, <1>8, <1>9, <1>10

StepMade(j, n, c, m, k) ==
  /\ n = j.revision
  /\ c.revision = j.checkpoint.revision + 1
  /\ WellFormed(k)
  /\ \E M \in {j.markers, j.markers \cup {m}} :
       k = [j EXCEPT !.checkpoint = c, !.markers = M, !.revision = j.revision + 1]

\* The engine's checkpoint replaces the one it was computed from, with its marker
\* or without, or nothing is written.
LEMMA StepEffect ==
  ASSUME NEW j \in Job, NEW n \in Nat, NEW c \in Checkpoint, NEW m \in Marker,
         NEW marked \in BOOLEAN,
         NEW r \in StoreOutcomes(j, n, IF marked THEN CommitStep(j, c, m, n)
                                                 ELSE CommitCheckpoint(j, c, n))
  PROVE  \/ r.job = j
         \/ StepMade(j, n, c, m, r.job)
<1> USE DEF StepMade
<1> DEFINE t == IF marked THEN CommitStep(j, c, m, n) ELSE CommitCheckpoint(j, c, n)
           d(M) == [j EXCEPT !.checkpoint = c, !.markers = M]
           k(M) == [d(M) EXCEPT !.revision = j.revision + 1]
           Ms == {j.markers, j.markers \cup {m}}
<1>1. ASSUME NEW M \in Ms
      PROVE  /\ d(M) \in Job /\ d(M).revision = j.revision
             /\ k(M) = [j EXCEPT !.checkpoint = c, !.markers = M, !.revision = j.revision + 1]
             /\ WellFormed(d(M)) => WellFormed(k(M))
  <2>1. d(M) \in Job /\ d(M).revision = j.revision
    BY DEF Job
  <2>2. k(M) = [j EXCEPT !.checkpoint = c, !.markers = M, !.revision = j.revision + 1]
    BY DEF Job
  <2>3. WellFormed(d(M)) => WellFormed(k(M))
    BY <2>1 DEF WellFormed, Job
  <2> QED
    BY <2>1, <2>2, <2>3
<1>2. \/ t.job = j
      \/ /\ n = j.revision /\ c.revision = j.checkpoint.revision + 1
         /\ \E M \in Ms : t = CommitNext(j, d(M))
  <2>1. CASE marked
    BY <2>1 DEF CommitStep, Result
  <2>2. CASE ~marked
    <3>1. d(j.markers) = [j EXCEPT !.checkpoint = c]
      BY DEF Job
    <3> QED
      BY <2>2, <3>1 DEF CommitCheckpoint, Result
  <2> QED
    BY <2>1, <2>2
<1>3. ASSUME NEW M \in Ms
      PROVE  \/ CommitNext(j, d(M)).job = j
             \/ WellFormed(k(M)) /\ CommitNext(j, d(M)).job = k(M)
  <2>1. \/ ~WellFormed(d(M)) /\ CommitNext(j, d(M)) = Result("RAISED", j)
        \/ WellFormed(d(M)) /\ CommitNext(j, d(M)) = Result("ACCEPTED", k(M))
    <3>1. d(M) \in Job /\ d(M).revision = j.revision
      BY <1>1
    <3> QED
      BY <3>1, CommitNextEffect
  <2>2. WellFormed(d(M)) => WellFormed(k(M))
    BY <1>1
  <2> HIDE DEF d, k
  <2> QED
    BY <2>1, <2>2 DEF Result
<1>4. r = t \/ r.job = j
  BY DEF StoreOutcomes, Result
<1> HIDE DEF t, d, k, Ms
<1>5. CASE r.job = j
  BY <1>5
<1>6. ASSUME NEW M \in Ms, r = CommitNext(j, d(M)), r.job # j,
             n = j.revision, c.revision = j.checkpoint.revision + 1
      PROVE  /\ WellFormed(r.job)
             /\ r.job = [j EXCEPT !.checkpoint = c, !.markers = M, !.revision = j.revision + 1]
  BY <1>1, <1>3, <1>6
<1> QED
  BY <1>2, <1>4, <1>5, <1>6 DEF Ms

CancellationMade(j, n, k) ==
  /\ n = j.revision
  /\ j.cancellation = "REQUESTED"
  /\ WellFormed(k)
  /\ k = [j EXCEPT !.cancellation = "ACKNOWLEDGED", !.lifecycle = "CANCELED",
                   !.eligibility = "NOT_ELIGIBLE", !.outcome = "CANCELED",
                   !.revision = j.revision + 1]

\* acknowledge_cancellation cancels a job whose cancellation was requested, and
\* accepts an answer it has given before.
LEMMA AcknowledgeEffect ==
  ASSUME NEW j \in Job, NEW n \in Nat,
         NEW r \in StoreOutcomes(j, n, AcknowledgeCancellation(j, n))
  PROVE  \/ /\ r.job = j
            /\ Accepted(r) => j.cancellation = "ACKNOWLEDGED"
         \/ CancellationMade(j, n, r.job)
<1> USE DEF CancellationMade
<1> DEFINE c == [j EXCEPT !.cancellation = "ACKNOWLEDGED", !.lifecycle = "CANCELED",
                          !.eligibility = "NOT_ELIGIBLE", !.outcome = "CANCELED"]
           k == [c EXCEPT !.revision = j.revision + 1]
           t == AcknowledgeCancellation(j, n)
<1>1. c \in Job /\ c.revision = j.revision
  BY DEF Job
<1>2. \/ ~WellFormed(c) /\ CommitNext(j, c) = Result("RAISED", j)
      \/ WellFormed(c) /\ CommitNext(j, c) = Result("ACCEPTED", k)
  BY <1>1, CommitNextEffect
<1>3. k = [j EXCEPT !.cancellation = "ACKNOWLEDGED", !.lifecycle = "CANCELED",
                    !.eligibility = "NOT_ELIGIBLE", !.outcome = "CANCELED",
                    !.revision = j.revision + 1]
  BY DEF Job
<1>4. WellFormed(c) => WellFormed(k)
  BY <1>1 DEF WellFormed, Job
<1>5. \/ t = Result("IDEMPOTENT", j) /\ j.cancellation = "ACKNOWLEDGED"
      \/ t = Result("STALE", j)
      \/ t = Result("CONFLICT", j)
      \/ n = j.revision /\ j.cancellation = "REQUESTED" /\ t = CommitNext(j, c)
  BY DEF AcknowledgeCancellation, Job
<1>6. r = t \/ r = Result("STALE", j)
  BY DEF StoreOutcomes
<1> HIDE DEF t
<1>7. CASE r = Result("STALE", j) \/ r = Result("CONFLICT", j) \/ r = Result("RAISED", j)
  BY <1>7 DEF Result, Accepted
<1>8. CASE r = Result("IDEMPOTENT", j) /\ j.cancellation = "ACKNOWLEDGED"
  BY <1>8 DEF Result
<1>9. CASE /\ n = j.revision /\ j.cancellation = "REQUESTED"
           /\ WellFormed(c) /\ r = Result("ACCEPTED", k)
  <2>1. r.job = k
    BY <1>9 DEF Result
  <2> HIDE DEF c, k
  <2> QED
    BY <2>1, <1>3, <1>4, <1>9
<1> HIDE DEF c, k
<1> QED
  BY <1>2, <1>5, <1>6, <1>7, <1>8, <1>9

RetryMade(j, n, k) ==
  /\ n = j.revision
  /\ j.lifecycle \notin {"CANCELED", "COMPLETED"}
  /\ j.lifecycle = "PROCESSING_FAILED" => j.disposition # "EXHAUSTED"
  /\ WellFormed(k)
  /\ \/ /\ j.lifecycle \in Live
        /\ j.attempt + 1 < MaxAttempts
        /\ k = [j EXCEPT !.lifecycle = "RETRYING", !.attempt = j.attempt + 1,
                         !.disposition = "RETRYABLE", !.revision = j.revision + 1]
     \/ \E d \in {"NOT_RETRYABLE", "EXHAUSTED"}, a \in {j.attempt, MaxAttempts} :
          /\ a = IF d = "EXHAUSTED" THEN MaxAttempts ELSE j.attempt
          /\ k = [Failed(j, d, a) EXCEPT !.revision = j.revision + 1]

\* record_retry grants a retry while more than one attempt is left, and otherwise
\* fails the job, for good or for want of attempts.
LEMMA RetryEffect ==
  ASSUME NEW j \in Job, WellFormed(j), NEW n \in Nat,
         NEW f \in {"RETRYABLE", "NOT_RETRYABLE"},
         NEW r \in StoreOutcomes(j, n, RecordRetry(j, n, f))
  PROVE  \/ r.job = j
         \/ RetryMade(j, n, r.job)
<1> USE DEF RetryMade
<1> DEFINE t == RecordRetry(j, n, f)
           again == [j EXCEPT !.lifecycle = "RETRYING", !.attempt = @ + 1,
                              !.disposition = "RETRYABLE"]
           spent == Failed(j, "EXHAUSTED", MaxAttempts)
           final == Failed(j, "NOT_RETRYABLE", j.attempt)
           next(c) == [c EXCEPT !.revision = j.revision + 1]
           open == /\ n = j.revision
                   /\ j.lifecycle \notin {"CANCELED", "COMPLETED"}
                   /\ j.lifecycle = "PROCESSING_FAILED" => j.disposition # "EXHAUSTED"
<1>0. MaxAttempts \in Nat /\ MaxAttempts \in 0..MaxAttempts /\ j.attempt \in 0..MaxAttempts
  BY AttemptsFact DEF Job
<1>1. spent \in Job /\ final \in Job /\ spent.revision = j.revision /\ final.revision = j.revision
  <2>1. spent \in Job
    BY <1>0 DEF Job, Failed
  <2>2. final \in Job
    BY <1>0 DEF Job, Failed
  <2> QED
    BY <2>1, <2>2 DEF Job, Failed
<1>2. j.attempt + 1 < MaxAttempts => again \in Job /\ again.revision = j.revision
  <2>1. j.attempt + 1 < MaxAttempts => j.attempt + 1 \in 0..MaxAttempts
    BY <1>0
  <2> QED
    BY <2>1 DEF Job
<1>3. \/ t.job = j
      \/ open /\ j.attempt + 1 < MaxAttempts /\ t = CommitNext(j, again)
      \/ open /\ t = CommitNext(j, spent)
      \/ open /\ t = CommitNext(j, final)
  BY SMTT(60) DEF RecordRetry, Result
<1>4. r = t \/ r.job = j
  BY DEF StoreOutcomes, Result
<1>5. ASSUME NEW c \in Job, c.revision = j.revision
      PROVE  \/ CommitNext(j, c).job = j
             \/ WellFormed(c) /\ WellFormed(next(c)) /\ CommitNext(j, c).job = next(c)
  <2>1. WellFormed(c) => WellFormed(next(c))
    BY DEF WellFormed, Job
  <2>2. \/ ~WellFormed(c) /\ CommitNext(j, c) = Result("RAISED", j)
        \/ WellFormed(c) /\ CommitNext(j, c) = Result("ACCEPTED", next(c))
    BY <1>5, CommitNextEffect
  <2> HIDE DEF next
  <2> QED
    BY <2>1, <2>2 DEF Result
<1>6. WellFormed(again) => j.lifecycle \in Live
  BY DEF WellFormed, Job
<1>7. next(again) = [j EXCEPT !.lifecycle = "RETRYING", !.attempt = j.attempt + 1,
                              !.disposition = "RETRYABLE", !.revision = j.revision + 1]
  BY DEF Job
<1> HIDE DEF t, again
<1>8. CASE r.job = j
  BY <1>8
<1>9. CASE r.job # j /\ open /\ j.attempt + 1 < MaxAttempts /\ r = CommitNext(j, again)
  <2>1. WellFormed(again) /\ WellFormed(next(again)) /\ r.job = next(again)
    BY <1>2, <1>5, <1>9
  <2> HIDE DEF next
  <2> QED
    BY <2>1, <1>6, <1>7, <1>9
<1>10. CASE r.job # j /\ open /\ r = CommitNext(j, spent)
  <2>1. WellFormed(next(spent)) /\ r.job = next(spent)
    BY <1>1, <1>5, <1>10
  <2> QED
    BY <2>1, <1>10
<1>11. CASE r.job # j /\ open /\ r = CommitNext(j, final)
  <2>1. WellFormed(next(final)) /\ r.job = next(final)
    BY <1>1, <1>5, <1>11
  <2> QED
    BY <2>1, <1>11
<1> HIDE DEF open, spent, final
<1> QED
  BY <1>3, <1>4, <1>8, <1>9, <1>10, <1>11

\* A cancellation is recorded on the record the caller loaded, or not at all.
LEMMA RequestEffect ==
  ASSUME NEW j \in Job, NEW loaded \in Job,
         loaded.revision = j.revision => loaded = j
  PROVE  LET k == CommitRequest(j, loaded).job
         IN \/ k = j
            \/ /\ loaded = j
               /\ k = [j EXCEPT !.cancellation = "REQUESTED", !.revision = j.revision + 1]
BY DEF CommitRequest, CommitJob, Result, Job

-----------------------------------------------------------------------------
(* The ways in which the record changes *)

\* The job is started, or taken up again after a retry or a review.
TakenUp(j, k) ==
  /\ \/ j.lifecycle \in Live
     \/ j.lifecycle = "COMPLETED" /\ j.outcome = "NEEDS_REVIEW"
  /\ \E l \in {"RUNNING", "RETRYING"} :
       /\ l = "RETRYING" => j.lifecycle # "QUEUED"
       /\ k = [j EXCEPT !.lifecycle = l, !.outcome = "NONE", !.eligibility = j.eligibility,
                        !.revision = j.revision + 1]

\* The engine's result replaces the checkpoint it was computed from.
Stepped(j, k) ==
  /\ j.lifecycle \in {"RUNNING", "RETRYING"}
  /\ k.checkpoint \in Checkpoint
  /\ k.checkpoint.revision = j.checkpoint.revision + 1
  /\ j.markers \subseteq k.markers
  /\ \A m \in k.markers \ j.markers :
       m \in Marker /\ m.op \in 1..k.checkpoint.revision
  /\ k = [j EXCEPT !.checkpoint = k.checkpoint, !.markers = k.markers,
                   !.revision = j.revision + 1]

\* The job is completed with the outcome its checkpoint carries.
Completed(j, k) ==
  /\ j.lifecycle \in {"RUNNING", "RETRYING"}
  /\ j.cancellation = "NONE"
  /\ \E o \in {"DONE", "NEEDS_REVIEW"}, e \in Eligibility :
       /\ j.checkpoint.phase = IF o = "DONE" THEN "COMPLETE" ELSE "NEEDS_REVIEW"
       /\ k = [j EXCEPT !.lifecycle = "COMPLETED", !.outcome = o, !.eligibility = e,
                        !.revision = j.revision + 1]

Retried(j, k) ==
  /\ j.lifecycle \in Live
  /\ j.cancellation = "NONE"
  /\ j.attempt + 1 < MaxAttempts
  /\ k = [j EXCEPT !.lifecycle = "RETRYING", !.attempt = j.attempt + 1,
                   !.disposition = "RETRYABLE", !.revision = j.revision + 1]

\* The job fails, or has failed already and is failed once more.
FailedNow(j, k) ==
  /\ \/ j.lifecycle \in Live
     \/ j.lifecycle = "PROCESSING_FAILED" /\ j.disposition # "EXHAUSTED"
  /\ j.cancellation = "NONE"
  /\ \E d \in {"NOT_RETRYABLE", "EXHAUSTED"}, a \in {j.attempt, MaxAttempts} :
       /\ a = IF d = "EXHAUSTED" THEN MaxAttempts ELSE j.attempt
       /\ k = [Failed(j, d, a) EXCEPT !.revision = j.revision + 1]

Asked(j, k) ==
  /\ j.lifecycle \in Live
  /\ j.cancellation = "NONE"
  /\ k = [j EXCEPT !.cancellation = "REQUESTED", !.revision = j.revision + 1]

Acknowledged(j, k) ==
  /\ j.cancellation = "REQUESTED"
  /\ k = [j EXCEPT !.cancellation = "ACKNOWLEDGED", !.lifecycle = "CANCELED",
                   !.eligibility = "NOT_ELIGIBLE", !.outcome = "CANCELED",
                   !.revision = j.revision + 1]

RecordStep(j, k) ==
  /\ WellFormed(k)
  /\ \/ TakenUp(j, k) \/ Stepped(j, k) \/ Completed(j, k) \/ Retried(j, k)
     \/ FailedNow(j, k) \/ Asked(j, k) \/ Acknowledged(j, k)

-----------------------------------------------------------------------------
(* The inductive invariant *)

\* What a worker that has loaded the current revision knows of the record.
Knows(w) ==
  /\ worker[w].pc = "engine" =>
       /\ job.lifecycle \in {"RUNNING", "RETRYING"}
       /\ worker[w].from = job.checkpoint.revision
  /\ worker[w].pc = "resume" =>
       job.lifecycle = "COMPLETED" /\ job.outcome = "NEEDS_REVIEW"
  /\ worker[w].pc = "finish" =>
       /\ job.lifecycle \in {"RUNNING", "RETRYING"}
       /\ job.cancellation = "NONE"
       /\ job.checkpoint.phase = IF worker[w].note = "DONE" THEN "COMPLETE"
                                                           ELSE "NEEDS_REVIEW"
  /\ worker[w].pc = "retry" => job.cancellation # "REQUESTED"

\* What a worker remembers of its last load is true of the record unless
\* somebody has written it since, and then its revision is behind.
WorkerOK(w) ==
  /\ worker[w].seen <= job.revision
  /\ worker[w].seen = job.revision => Knows(w)
  /\ worker[w].pc \in {"step", "resume", "begin", "engine"} =>
       worker[w].op \in 1..(job.checkpoint.revision + 1)
  /\ worker[w].pc = "finish" => worker[w].note \in {"DONE", "NEEDS_REVIEW"}
  /\ worker[w].pc = "retry" => worker[w].note \in {"RETRYABLE", "NOT_RETRYABLE"}
  /\ worker[w].pc # "idle" => worker[w].said = "NONE"
  /\ worker[w].said \in {"DONE", "CANCELED"} => job.outcome = worker[w].said

CancellerOK ==
  canceller.pc = "commit" =>
    /\ ~RequestRefused(canceller.loaded)
    /\ canceller.loaded.revision <= job.revision
    /\ canceller.loaded.revision = job.revision => canceller.loaded = job

RecordOK ==
  /\ job \in Job
  /\ WellFormed(job)
  /\ RetryBudget
  /\ CancellationWins
  /\ OutcomeFollowsCheckpoint
  /\ MarkersFollowCheckpoint

IInv ==
  /\ TypeOK
  /\ RecordOK
  /\ \A w \in Workers : WorkerOK(w)
  /\ CancellerOK

-----------------------------------------------------------------------------
(* What follows from RecordStep *)

Final(j) == j.lifecycle \in {"CANCELED", "PROCESSING_FAILED"} \/ j.outcome = "DONE"

\* Every way of changing the record yields a record again, one revision on.
LEMMA RecordStepType ==
  ASSUME job \in Job, RecordStep(job, job')
  PROVE  job' \in Job
<1>0. job.revision + 1 \in Nat /\ MaxAttempts \in 0..MaxAttempts
  BY AttemptsFact DEF Job
<1>1. CASE TakenUp(job, job')
  <2>1. PICK l \in {"RUNNING", "RETRYING"} :
          job' = [job EXCEPT !.lifecycle = l, !.outcome = "NONE",
                             !.eligibility = job.eligibility, !.revision = job.revision + 1]
    BY <1>1 DEF TakenUp
  <2> QED
    BY <1>0, <2>1 DEF Job
<1>2. CASE Stepped(job, job')
  <2>1. job'.markers \in SUBSET Marker
    BY <1>2 DEF Stepped, Job
  <2>2. /\ job'.checkpoint \in Checkpoint
        /\ job'.checkpoint.revision = job.checkpoint.revision + 1
        /\ job' = [job EXCEPT !.checkpoint = job'.checkpoint, !.markers = job'.markers,
                              !.revision = job.revision + 1]
    BY <1>2 DEF Stepped
  <2> QED
    BY <1>0, <2>1, <2>2 DEF Job
<1>3. CASE Completed(job, job')
  <2>1. PICK o \in {"DONE", "NEEDS_REVIEW"}, e \in Eligibility :
          job' = [job EXCEPT !.lifecycle = "COMPLETED", !.outcome = o, !.eligibility = e,
                             !.revision = job.revision + 1]
    BY <1>3 DEF Completed
  <2> QED
    BY <1>0, <2>1 DEF Job
<1>4. CASE Retried(job, job')
  <2>1. job.attempt + 1 \in 0..MaxAttempts
    BY <1>0, <1>4, AttemptsFact DEF Retried, Job
  <2> QED
    BY <1>0, <1>4, <2>1 DEF Retried, Job
<1>5. CASE FailedNow(job, job')
  <2>1. PICK d \in {"NOT_RETRYABLE", "EXHAUSTED"}, a \in {job.attempt, MaxAttempts} :
          job' = [Failed(job, d, a) EXCEPT !.revision = job.revision + 1]
    BY <1>5 DEF FailedNow
  <2>2. a \in 0..MaxAttempts
    BY <1>0 DEF Job
  <2> QED
    BY <1>0, <2>1, <2>2 DEF Failed, Job
<1>6. CASE Asked(job, job')
  BY <1>0, <1>6 DEF Asked, Job
<1>7. CASE Acknowledged(job, job')
  BY <1>0, <1>7 DEF Acknowledged, Job
<1> QED
  BY <1>1, <1>2, <1>3, <1>4, <1>5, <1>6, <1>7 DEF RecordStep

\* Every change raises the revision, and none takes the checkpoint back.
LEMMA RecordStepForward ==
  ASSUME job \in Job, RecordStep(job, job')
  PROVE  /\ job'.revision = job.revision + 1
         /\ \/ job'.checkpoint = job.checkpoint
            \/ job'.checkpoint.revision = job.checkpoint.revision + 1
<1>1. CASE TakenUp(job, job')
  BY <1>1 DEF TakenUp, Job
<1>2. CASE Stepped(job, job')
  BY <1>2 DEF Stepped, Job
<1>3. CASE Completed(job, job')
  BY <1>3 DEF Completed, Job
<1>4. CASE Retried(job, job')
  BY <1>4 DEF Retried, Job
<1>5. CASE FailedNow(job, job')
  BY <1>5 DEF FailedNow, Failed, Job
<1>6. CASE Asked(job, job')
  BY <1>6 DEF Asked, Job
<1>7. CASE Acknowledged(job, job')
  BY <1>7 DEF Acknowledged, Job
<1> QED
  BY <1>1, <1>2, <1>3, <1>4, <1>5, <1>6, <1>7 DEF RecordStep

\* The parts of the invariant that speak of the record alone survive every
\* change, and a job that is over stays over.
LEMMA RecordStepKeeps ==
  ASSUME RecordOK, RecordStep(job, job')
  PROVE  /\ RecordOK'
         /\ Final(job) => /\ UNCHANGED <<job.lifecycle, job.outcome, job.cancellation>>
                          /\ UNCHANGED <<job.checkpoint, job.markers>>
<1> USE DEF RecordOK
<1>1. job' \in Job /\ WellFormed(job')
  BY RecordStepType DEF RecordStep
<1> USE DEF RetryBudget, CancellationWins, OutcomeFollowsCheckpoint, Final
<1>2. CASE TakenUp(job, job')
  BY <1>1, <1>2, AttemptsFact DEF TakenUp, Job, MarkersFollowCheckpoint, WellFormed
<1>3. CASE Stepped(job, job')
  <2>1. /\ job.outcome = "NONE" /\ ~Final(job)
        /\ job'.outcome = "NONE" /\ job'.lifecycle = job.lifecycle
        /\ job'.attempt = job.attempt /\ job'.disposition = job.disposition
        /\ job'.cancellation = job.cancellation
    BY <1>3 DEF Stepped, Job, WellFormed
  <2>2. RetryBudget' /\ CancellationWins' /\ OutcomeFollowsCheckpoint'
    BY <2>1
  <2>3. MarkersFollowCheckpoint'
    <3>1. ASSUME NEW m \in job'.markers
          PROVE  m.op \in 1..job'.checkpoint.revision
      <4>1. job.checkpoint.revision \in Nat
            /\ job'.checkpoint.revision = job.checkpoint.revision + 1
        BY <1>3 DEF Stepped, Job, Checkpoint
      <4>2. CASE m \in job.markers
        BY <4>1, <4>2 DEF MarkersFollowCheckpoint
      <4>3. CASE m \notin job.markers
        BY <1>3, <4>3 DEF Stepped
      <4> QED
        BY <4>2, <4>3
    <3> QED
      BY <1>1, <3>1 DEF WellFormed, MarkersFollowCheckpoint
  <2> QED
    BY <1>1, <2>1, <2>2, <2>3
<1>4. CASE Completed(job, job')
  BY <1>1, <1>4, AttemptsFact DEF Completed, Job, MarkersFollowCheckpoint, WellFormed
<1>5. CASE Retried(job, job')
  BY <1>1, <1>5, AttemptsFact DEF Retried, Job, MarkersFollowCheckpoint, WellFormed
<1>6. CASE FailedNow(job, job')
  BY <1>1, <1>6, AttemptsFact DEF FailedNow, Failed, Job, MarkersFollowCheckpoint, WellFormed
<1>7. CASE Asked(job, job')
  BY <1>1, <1>7, AttemptsFact DEF Asked, Job, MarkersFollowCheckpoint, WellFormed
<1>8. CASE Acknowledged(job, job')
  BY <1>1, <1>8, AttemptsFact DEF Acknowledged, Job, MarkersFollowCheckpoint, WellFormed
<1> QED
  BY <1>1, <1>2, <1>3, <1>4, <1>5, <1>6, <1>7, <1>8 DEF RecordStep

-----------------------------------------------------------------------------
(* What a worker is left with after a step *)

Left(w) ==
  /\ worker' \in [Workers -> WorkerState]
  /\ \A v \in Workers : v # w => worker'[v] = worker[v]
  /\ WorkerOK(w)'

\* A worker that returns remembers nothing.
LEMMA ReturnLeaves ==
  ASSUME worker \in [Workers -> WorkerState], job' \in Job, NEW w \in Workers,
         NEW status, Return(w, status),
         status \in {"DONE", "CANCELED"} => job'.outcome = status
  PROVE  Left(w)
<1>1. IdleWorker(status) \in WorkerState
  BY DEF IdleWorker, WorkerState, PC, Report
<1>2. worker' \in [Workers -> WorkerState] /\ worker'[w] = IdleWorker(status)
      /\ \A v \in Workers : v # w => worker'[v] = worker[v]
  BY <1>1 DEF Return
<1>3. WorkerOK(w)'
  BY <1>2 DEF WorkerOK, Knows, IdleWorker, Report, Job
<1> QED
  BY <1>2, <1>3 DEF Left

\* Nor does one that goes on to a load.
LEMMA GotoLeaves ==
  ASSUME worker \in [Workers -> WorkerState], job' \in Job, NEW w \in Workers,
         NEW pc \in {"name", "settle"}, Goto(w, pc)
  PROVE  Left(w)
<1> DEFINE x == [IdleWorker("NONE") EXCEPT !.pc = pc]
<1>1. x \in WorkerState /\ x.pc = pc /\ x.seen = 0 /\ x.said = "NONE"
  BY DEF IdleWorker, WorkerState, PC, Report
<1>2. worker' \in [Workers -> WorkerState] /\ worker'[w] = x
      /\ \A v \in Workers : v # w => worker'[v] = worker[v]
  BY <1>1 DEF Goto
<1> HIDE DEF x
<1>3. WorkerOK(w)'
  BY <1>1, <1>2 DEF WorkerOK, Knows, Job
<1> QED
  BY <1>2, <1>3 DEF Left

\* A worker that goes on with the record it has just loaded knows what it saw.
LEMMA HoldingLeaves ==
  ASSUME worker \in [Workers -> WorkerState], job \in Job, job' = job, NEW w \in Workers,
         NEW pc \in {"start", "ack", "finish", "retry"},
         NEW note \in Failure \cup {"NONE", "DONE", "NEEDS_REVIEW"},
         Holding(w, pc, job, note),
         pc = "finish" => /\ note \in {"DONE", "NEEDS_REVIEW"}
                          /\ job.lifecycle \in {"RUNNING", "RETRYING"}
                          /\ job.cancellation = "NONE"
                          /\ job.checkpoint.phase = IF note = "DONE" THEN "COMPLETE"
                                                                    ELSE "NEEDS_REVIEW",
         pc = "retry" => /\ note \in {"RETRYABLE", "NOT_RETRYABLE"}
                         /\ job.cancellation # "REQUESTED"
  PROVE  Left(w)
<1> DEFINE x == [IdleWorker("NONE") EXCEPT !.pc = pc, !.seen = job.revision, !.note = note]
<1>1. x \in WorkerState /\ x.pc = pc /\ x.seen = job.revision /\ x.said = "NONE"
      /\ x.note = note
  BY DEF IdleWorker, WorkerState, PC, Report, Job
<1>2. worker' \in [Workers -> WorkerState] /\ worker'[w] = x
      /\ \A v \in Workers : v # w => worker'[v] = worker[v]
  BY <1>1 DEF Holding
<1> HIDE DEF x
<1>3. WorkerOK(w)'
  BY <1>1, <1>2 DEF WorkerOK, Knows, Job
<1> QED
  BY <1>2, <1>3 DEF Left

\* Nor does a worker forget its operation on the way to the engine.
LEMMA TowardsLeaves ==
  ASSUME worker \in [Workers -> WorkerState], job' \in Job, NEW w \in Workers,
         NEW pc \in {"resume", "begin", "engine"},
         Towards(w, pc, job'),
         worker[w].op \in 1..(job'.checkpoint.revision + 1),
         worker[w].said = "NONE",
         pc = "engine" => job'.lifecycle \in {"RUNNING", "RETRYING"},
         pc = "resume" => job'.lifecycle = "COMPLETED" /\ job'.outcome = "NEEDS_REVIEW"
  PROVE  Left(w)
<1> DEFINE x == [worker[w] EXCEPT !.pc = pc, !.seen = job'.revision,
                                  !.from = job'.checkpoint.revision]
<1>1. x \in WorkerState /\ x.pc = pc /\ x.seen = job'.revision /\ x.said = worker[w].said
      /\ x.op = worker[w].op /\ x.from = job'.checkpoint.revision
  BY DEF WorkerState, PC, Job, Checkpoint
<1>2. worker' \in [Workers -> WorkerState] /\ worker'[w] = x
      /\ \A v \in Workers : v # w => worker'[v] = worker[v]
  BY <1>1 DEF Towards
<1> HIDE DEF x
<1>3. WorkerOK(w)'
  BY <1>1, <1>2 DEF WorkerOK, Knows, Job
<1> QED
  BY <1>2, <1>3 DEF Left

\* What a write answers is never mistaken for the report of an end.
LEMMA StatusKnown ==
  ASSUME NEW j, NEW n
  PROVE  /\ \A l, o, e : \A r \in StoreOutcomes(j, n, TransitionOperational(j, n, l, o, e)) :
              r.status \in WriteStatus
         /\ \A c, m : \A marked \in BOOLEAN :
              \A r \in StoreOutcomes(j, n, IF marked THEN CommitStep(j, c, m, n)
                                                     ELSE CommitCheckpoint(j, c, n)) :
                r.status \in WriteStatus
         /\ \A r \in StoreOutcomes(j, n, AcknowledgeCancellation(j, n)) :
              r.status \in WriteStatus
<1>1. ASSUME NEW c PROVE CommitNext(j, c).status \in WriteStatus
  BY DEF CommitNext, CommitJob, Result, WriteStatus
<1>2. ASSUME NEW t, t.status \in WriteStatus, NEW r \in StoreOutcomes(j, n, t)
      PROVE  r.status \in WriteStatus
  BY <1>2 DEF StoreOutcomes, Result, WriteStatus
<1>3. ASSUME NEW l, NEW o, NEW e
      PROVE  TransitionOperational(j, n, l, o, e).status \in WriteStatus
  BY <1>1 DEF TransitionOperational, Result, WriteStatus
<1>4. ASSUME NEW c, NEW m, NEW marked \in BOOLEAN
      PROVE  (IF marked THEN CommitStep(j, c, m, n)
                        ELSE CommitCheckpoint(j, c, n)).status \in WriteStatus
  <2>1. CommitStep(j, c, m, n).status \in WriteStatus
    BY <1>1 DEF CommitStep, Result, WriteStatus
  <2>2. CommitCheckpoint(j, c, n).status \in WriteStatus
    BY <1>1 DEF CommitCheckpoint, Result, WriteStatus
  <2> QED
    BY <2>1, <2>2
<1>5. AcknowledgeCancellation(j, n).status \in WriteStatus
  BY <1>1 DEF AcknowledgeCancellation, Result, WriteStatus
<1> QED
  BY <1>2, <1>3, <1>4, <1>5

-----------------------------------------------------------------------------
(* The steps of a worker *)

Moved(w) ==
  /\ job' = job \/ RecordStep(job, job')
  /\ job'.checkpoint # job.checkpoint =>
       worker[w].pc = "engine" /\ worker[w].seen = job.revision
  /\ Left(w)
  /\ UNCHANGED <<canceller, crashes>>

\* The steps that only load the record leave the worker with what it saw.
LEMMA LoadsMove ==
  ASSUME TypeOK, RecordOK, NEW w \in Workers, WorkerOK(w),
         \/ Claim(w) \/ NameOperation(w) \/ BeginStep(w) \/ EngineRaises(w)
         \/ RecordFailure(w) \/ Settle(w)
  PROVE  Moved(w)
<1>0. /\ worker \in [Workers -> WorkerState] /\ job \in Job
      /\ WellFormed(job) /\ CancellationWins
  BY DEF TypeOK, RecordOK
<1>1. job' = job /\ UNCHANGED <<canceller, crashes>>
  BY DEF Claim, NameOperation, BeginStep, EngineRaises, RecordFailure, Settle, OnlyWorker
<1>2. job' \in Job
  BY <1>0, <1>1
<1> SUFFICES Left(w)
  BY <1>1 DEF Moved
<1>3. ASSUME NEW status, status \notin {"DONE", "CANCELED"}, Return(w, status)
      PROVE  Left(w)
  BY <1>0, <1>2, <1>3, ReturnLeaves
<1>4. ASSUME NEW note \in Failure \cup {"NONE"}, NEW pc \in {"start", "ack"},
             Holding(w, pc, job, note)
      PROVE  Left(w)
  BY <1>0, <1>1, <1>4, HoldingLeaves
<1>5. CASE Claim(w)
  <2>1. CASE job.lifecycle \in Terminal /\ Return(w, TerminalStatus(job))
    <3>1. TerminalStatus(job) \in {"DONE", "CANCELED"} => job'.outcome = TerminalStatus(job)
      BY <1>0, <1>1 DEF TerminalStatus, WellFormed, Job
    <3> QED
      BY <1>0, <1>2, <2>1, <3>1, ReturnLeaves
  <2>2. CASE job.lifecycle = "RETRYING" /\ Holding(w, "start", job, "NONE")
    BY <1>4, <2>2
  <2>3. CASE Goto(w, "name")
    BY <1>0, <1>2, <2>3, GotoLeaves
  <2> QED
    BY <1>5, <2>1, <2>2, <2>3 DEF Claim
<1>6. CASE NameOperation(w)
  <2> DEFINE x == [worker[w] EXCEPT !.pc = "step", !.op = job.checkpoint.revision + 1]
  <2>1. worker[w].pc = "name" /\ worker[w] \in WorkerState
    BY <1>0, <1>6 DEF NameOperation
  <2>2. worker' = [worker EXCEPT ![w] = x]
    BY <1>0, <1>6 DEF NameOperation
  <2>3. job.checkpoint.revision \in Nat
    BY <1>0 DEF Job, Checkpoint
  <2>4. /\ x \in WorkerState /\ x.pc = "step" /\ x.seen = worker[w].seen
        /\ x.said = "NONE" /\ x.op = job.checkpoint.revision + 1
    <3>1. worker[w].said = "NONE" /\ job.checkpoint.revision + 1 \in Nat
      BY <2>1, <2>3 DEF WorkerOK
    <3> QED
      BY <2>1, <3>1 DEF WorkerState, PC
  <2> HIDE DEF x
  <2>5. /\ worker' \in [Workers -> WorkerState] /\ worker'[w] = x
        /\ \A v \in Workers : v # w => worker'[v] = worker[v]
    BY <1>0, <2>2, <2>4
  <2>6. WorkerOK(w)'
    BY <1>1, <2>3, <2>4, <2>5 DEF WorkerOK, Knows
  <2> QED
    BY <2>5, <2>6 DEF Left
<1>7. CASE BeginStep(w)
  <2>1. worker[w].op \in 1..(job'.checkpoint.revision + 1) /\ worker[w].said = "NONE"
    BY <1>1, <1>7 DEF BeginStep, WorkerOK
  <2>2. CASE Holding(w, "ack", job, "NONE")
    BY <1>4, <2>2
  <2>3. CASE job.cancellation = "ACKNOWLEDGED" /\ Return(w, "CANCELED")
    <3>1. job'.outcome = "CANCELED"
      BY <1>0, <1>1, <2>3 DEF CancellationWins, WellFormed
    <3> QED
      BY <1>0, <1>2, <2>3, <3>1, ReturnLeaves
  <2>4. CASE Goto(w, "settle")
    BY <1>0, <1>2, <2>4, GotoLeaves
  <2>5. CASE Return(w, "CONFLICT")
    BY <1>3, <2>5
  <2>6. CASE /\ job.lifecycle = "COMPLETED" /\ job.outcome = "NEEDS_REVIEW"
             /\ Towards(w, "resume", job)
    BY <1>0, <1>1, <1>2, <2>1, <2>6, TowardsLeaves
  <2>7. CASE Towards(w, "begin", job)
    BY <1>0, <1>1, <1>2, <2>1, <2>7, TowardsLeaves
  <2>8. CASE job.lifecycle \in {"RUNNING", "RETRYING"} /\ Towards(w, "engine", job)
    BY <1>0, <1>1, <1>2, <2>1, <2>8, TowardsLeaves
  <2> QED
    BY <1>7, <2>2, <2>3, <2>4, <2>5, <2>6, <2>7, <2>8 DEF BeginStep
<1>8. CASE EngineRaises(w)
  <2>1. PICK failure \in Failures :
          worker' = [worker EXCEPT ![w] = [IdleWorker("NONE") EXCEPT !.pc = "failed",
                                                                    !.note = failure]]
    BY <1>8 DEF EngineRaises
  <2> DEFINE x == [IdleWorker("NONE") EXCEPT !.pc = "failed", !.note = failure]
  <2>2. x \in WorkerState /\ x.pc = "failed" /\ x.seen = 0 /\ x.said = "NONE"
    BY WorkersAssumption DEF IdleWorker, WorkerState, PC, Report, Failure
  <2> HIDE DEF x
  <2>3. /\ worker' \in [Workers -> WorkerState] /\ worker'[w] = x
        /\ \A v \in Workers : v # w => worker'[v] = worker[v]
    BY <1>0, <2>1, <2>2 DEF x
  <2>4. WorkerOK(w)'
    BY <1>2, <2>2, <2>3 DEF WorkerOK, Knows, Job
  <2> QED
    BY <2>3, <2>4 DEF Left
<1>9. CASE RecordFailure(w)
  <2>1. CASE Holding(w, "ack", job, "NONE")
    BY <1>4, <2>1
  <2>2. CASE worker[w].note \in {"SEMANTIC_REPAIR", "STALE"} /\ Return(w, worker[w].note)
    BY <1>3, <2>2
  <2>3. CASE /\ job.cancellation # "REQUESTED"
             /\ worker[w].note \in {"RETRYABLE", "NOT_RETRYABLE"}
             /\ Holding(w, "retry", job, worker[w].note)
    BY <1>0, <1>1, <2>3, HoldingLeaves DEF Failure
  <2> QED
    BY <1>9, <2>1, <2>2, <2>3 DEF RecordFailure
<1>10. CASE Settle(w)
  <2>1. CASE Holding(w, "ack", job, "NONE")
    BY <1>4, <2>1
  <2>2. CASE Return(w, "ACCEPTED")
    BY <1>3, <2>2
  <2>3. ASSUME job.cancellation # "REQUESTED", job.lifecycle \in {"RUNNING", "RETRYING"},
               NEW note \in {"DONE", "NEEDS_REVIEW"},
               job.checkpoint.phase = IF note = "DONE" THEN "COMPLETE" ELSE "NEEDS_REVIEW",
               Holding(w, "finish", job, note)
        PROVE  Left(w)
    <3>1. job.cancellation = "NONE"
      BY <1>0, <2>3 DEF CancellationWins, Job
    <3> QED
      BY <1>0, <1>1, <2>3, <3>1, HoldingLeaves
  <2> QED
    BY <1>10, <2>1, <2>2, <2>3 DEF Settle
<1> QED
  BY <1>5, <1>6, <1>7, <1>8, <1>9, <1>10

\* A transition to RUNNING or RETRYING takes the job up, if it was not under way
\* already: the worker has looked at the outcome of a completed job.
LEMMA TakeUpMoves ==
  ASSUME TypeOK, RecordOK, NEW w \in Workers, WorkerOK(w),
         NEW l \in {"RUNNING", "RETRYING"},
         l = "RETRYING" => worker[w].pc = "resume",
         NEW r \in StoreOutcomes(job, worker[w].seen,
                     TransitionOperational(job, worker[w].seen, l, "NONE", job.eligibility)),
         job' = r.job
  PROVE  /\ job' = job \/ RecordStep(job, job')
         /\ Accepted(r) => job'.lifecycle = l
         /\ job'.checkpoint = job.checkpoint
<1>1. /\ job \in Job /\ WellFormed(job) /\ worker[w].seen \in Nat
      /\ job.eligibility \in Eligibility
  BY DEF TypeOK, RecordOK, WorkerState, Job
<1>2. \/ job' = job /\ (Accepted(r) => job.lifecycle = l)
      \/ TransitionMade(job, worker[w].seen, l, "NONE", job.eligibility, job')
  BY <1>1, TransitionEffect
<1>3. CASE job' = job /\ (Accepted(r) => job.lifecycle = l)
  BY <1>3
<1>4. CASE TransitionMade(job, worker[w].seen, l, "NONE", job.eligibility, job')
  <2> USE DEF TransitionMade
  <2>1. job'.lifecycle = l /\ job'.checkpoint = job.checkpoint
    BY <1>1, <1>4 DEF Job
  <2>2. job.lifecycle \in Lifecycle
    BY <1>1 DEF Job
  <2>3. CASE l = "RUNNING"
    <3>1. job.lifecycle \in {"QUEUED", "RETRYING"}
      BY <1>4, <2>2, <2>3 DEF Successors
    <3>2. TakenUp(job, job')
      BY <1>4, <2>3, <3>1 DEF TakenUp
    <3> QED
      BY <1>4, <2>1, <3>2 DEF RecordStep
  <2>4. CASE l = "RETRYING"
    <3>1. job.lifecycle = "COMPLETED" /\ job.outcome = "NEEDS_REVIEW"
      BY <1>4, <2>4 DEF WorkerOK, Knows
    <3>2. TakenUp(job, job')
      BY <1>4, <2>4, <3>1 DEF TakenUp
    <3> QED
      BY <1>4, <2>1, <3>2 DEF RecordStep
  <2> QED
    BY <2>3, <2>4
<1> QED
  BY <1>2, <1>3, <1>4

\* The steps that start the job and resume it.
LEMMA StartsMove ==
  ASSUME TypeOK, RecordOK, NEW w \in Workers, WorkerOK(w),
         Start(w) \/ ResumeReview(w) \/ BeginQueued(w)
  PROVE  Moved(w)
<1>0. worker \in [Workers -> WorkerState] /\ job \in Job
  BY DEF TypeOK
<1>1. CASE Start(w)
  <2>1. PICK r \in StoreOutcomes(job, worker[w].seen,
                     TransitionOperational(job, worker[w].seen, "RUNNING", "NONE",
                                           job.eligibility)) :
          /\ job' = r.job
          /\ IF Accepted(r) THEN Goto(w, "name") ELSE Return(w, r.status)
    BY <1>1 DEF Start
  <2>2. /\ job' = job \/ RecordStep(job, job')
        /\ job'.checkpoint = job.checkpoint
    BY <2>1, TakeUpMoves
  <2>3. job' \in Job
    BY <1>0, <2>2, RecordStepType
  <2>4. r.status \notin {"DONE", "CANCELED"}
    BY <2>1, StatusKnown DEF WriteStatus
  <2>5. CASE Goto(w, "name")
    BY <1>0, <1>1, <2>2, <2>3, <2>5, GotoLeaves DEF Moved, Start, Others
  <2>6. CASE Return(w, r.status)
    BY <1>0, <1>1, <2>2, <2>3, <2>4, <2>6, ReturnLeaves DEF Moved, Start, Others
  <2> QED
    BY <2>1, <2>5, <2>6
<1>2. ASSUME NEW pc \in {"resume", "begin"}, NEW l \in {"RUNNING", "RETRYING"},
             l = "RETRYING" => pc = "resume", Enter(w, pc, l)
      PROVE  Moved(w)
  <2>1. PICK r \in StoreOutcomes(job, worker[w].seen,
                     TransitionOperational(job, worker[w].seen, l, "NONE",
                                           job.eligibility)) :
          /\ job' = r.job
          /\ IF Accepted(r) THEN Towards(w, "engine", r.job) ELSE Return(w, r.status)
    BY <1>2 DEF Enter
  <2>2. worker[w].pc = pc
    BY <1>2 DEF Enter
  <2>3. /\ job' = job \/ RecordStep(job, job')
        /\ Accepted(r) => job'.lifecycle = l
        /\ job'.checkpoint = job.checkpoint
    BY <1>2, <2>1, <2>2, TakeUpMoves
  <2>4. job' \in Job
    BY <1>0, <2>3, RecordStepType
  <2>5. UNCHANGED <<canceller, crashes>>
    BY <1>2 DEF Enter, Others
  <2>6. CASE Accepted(r) /\ Towards(w, "engine", job')
    <3>1. /\ worker[w].op \in 1..(job'.checkpoint.revision + 1)
          /\ worker[w].said = "NONE"
      BY <2>2, <2>3 DEF WorkerOK
    <3>2. job'.lifecycle \in {"RUNNING", "RETRYING"}
      BY <2>3, <2>6
    <3>3. Left(w)
      BY <1>0, <2>4, <2>6, <3>1, <3>2, TowardsLeaves
    <3> QED
      BY <2>3, <2>5, <3>3 DEF Moved
  <2>7. CASE Return(w, r.status)
    <3>1. r.status \notin {"DONE", "CANCELED"}
      BY <2>1, StatusKnown DEF WriteStatus
    <3>2. Left(w)
      BY <1>0, <2>4, <2>7, <3>1, ReturnLeaves
    <3> QED
      BY <2>3, <2>5, <3>2 DEF Moved
  <2> QED
    BY <2>1, <2>6, <2>7
<1>3. CASE ResumeReview(w)
  BY <1>2, <1>3 DEF ResumeReview
<1>4. CASE BeginQueued(w)
  BY <1>2, <1>4 DEF BeginQueued
<1> QED
  BY <1>1, <1>3, <1>4

\* The engine's result extends the checkpoint the engine was given.
LEMMA EngineStepMoves ==
  ASSUME TypeOK, RecordOK, NEW w \in Workers, WorkerOK(w), CommitEngineStep(w)
  PROVE  Moved(w)
<1>0. /\ worker \in [Workers -> WorkerState] /\ job \in Job
      /\ worker[w].seen \in Nat /\ worker[w].from \in Nat /\ worker[w].op \in Nat
  BY DEF TypeOK, WorkerState
<1>1. PICK phase \in Phase, marked \in BOOLEAN :
        LET c == [revision |-> worker[w].from + 1, phase |-> phase]
            m == [op |-> worker[w].op, result |-> phase]
            n == worker[w].seen
        IN \E r \in StoreOutcomes(job, n, IF marked THEN CommitStep(job, c, m, n)
                                                    ELSE CommitCheckpoint(job, c, n)) :
             /\ job' = r.job
             /\ IF \/ Accepted(r)
                   \/ marked /\ r.status = "STALE" /\ HasMarker(r.job, worker[w].op)
                  THEN Goto(w, "settle")
                  ELSE Return(w, r.status)
  BY <1>0 DEF CommitEngineStep
<1> DEFINE c == [revision |-> worker[w].from + 1, phase |-> phase]
           m == [op |-> worker[w].op, result |-> phase]
           n == worker[w].seen
<1>2. PICK r \in StoreOutcomes(job, n, IF marked THEN CommitStep(job, c, m, n)
                                                ELSE CommitCheckpoint(job, c, n)) :
        /\ job' = r.job
        /\ Goto(w, "settle") \/ Return(w, r.status)
  BY <1>1
<1>3. /\ c \in Checkpoint /\ c.revision = worker[w].from + 1
      /\ m \in Marker /\ m.op = worker[w].op
      /\ n \in Nat
  BY <1>0 DEF Checkpoint, Marker
<1>4. job' = job \/ StepMade(job, n, c, m, job')
  <2> HIDE DEF c, m, n
  <2> QED
    BY <1>0, <1>2, <1>3, StepEffect
<1>5. r.status \notin {"DONE", "CANCELED"}
  <2> HIDE DEF c, m, n
  <2> QED
    BY <1>2, StatusKnown DEF WriteStatus
<1>6. CASE StepMade(job, n, c, m, job')
  <2>1. PICK M \in {job.markers, job.markers \cup {m}} :
          job' = [job EXCEPT !.checkpoint = c, !.markers = M, !.revision = job.revision + 1]
    BY <1>6 DEF StepMade
  <2>2. n = job.revision /\ c.revision = job.checkpoint.revision + 1 /\ WellFormed(job')
    BY <1>6 DEF StepMade
  <2>3. worker[w].pc = "engine"
    BY DEF CommitEngineStep
  <2>4. job.lifecycle \in {"RUNNING", "RETRYING"}
    BY <2>2, <2>3 DEF WorkerOK, Knows
  <2>5. m.op \in 1..c.revision
    BY <1>3, <2>2, <2>3 DEF WorkerOK
  <2> HIDE DEF c, m, n
  <2>6. job'.checkpoint = c /\ job'.markers = M
    BY <1>0, <2>1 DEF Job
  <2>7. Stepped(job, job')
    BY <1>3, <2>1, <2>2, <2>4, <2>5, <2>6 DEF Stepped
  <2>8. RecordStep(job, job')
    BY <2>2, <2>7 DEF RecordStep
  <2>9. job' \in Job
    BY <1>0, <2>8, RecordStepType
  <2>10. Left(w)
    BY <1>0, <1>2, <1>5, <2>9, GotoLeaves, ReturnLeaves
  <2>11. worker[w].seen = job.revision
    BY <2>2 DEF n
  <2> QED
    BY <2>3, <2>8, <2>10, <2>11 DEF Moved, CommitEngineStep, Others
<1>7. CASE job' = job
  BY <1>0, <1>2, <1>5, <1>7, GotoLeaves, ReturnLeaves DEF Moved, CommitEngineStep, Others
<1> QED
  BY <1>4, <1>6, <1>7

\* A failure is recorded on a job that is under way, or has failed before, and
\* is not being canceled.
LEMMA RetryMoves ==
  ASSUME TypeOK, RecordOK, NEW w \in Workers, WorkerOK(w), RecordRetryStep(w)
  PROVE  Moved(w)
<1>0. /\ worker \in [Workers -> WorkerState] /\ job \in Job
      /\ worker[w].seen \in Nat /\ worker[w].pc = "retry"
      /\ worker[w].note \in {"RETRYABLE", "NOT_RETRYABLE"}
      /\ WellFormed(job) /\ CancellationWins
  BY DEF TypeOK, RecordOK, WorkerState, WorkerOK, RecordRetryStep
<1>1. PICK r \in StoreOutcomes(job, worker[w].seen,
                     RecordRetry(job, worker[w].seen, worker[w].note)) :
        /\ job' = r.job
        /\ \E status \in {"STALE", "RETRYING", "PROCESSING_FAILED"} : Return(w, status)
  BY DEF RecordRetryStep
<1>2. job' = job \/ RetryMade(job, worker[w].seen, job')
  BY <1>0, <1>1, RetryEffect
<1>3. RetryMade(job, worker[w].seen, job') => RecordStep(job, job')
  <2> SUFFICES ASSUME RetryMade(job, worker[w].seen, job')
               PROVE  RecordStep(job, job')
    OBVIOUS
  <2>1. worker[w].seen = job.revision /\ WellFormed(job')
    BY DEF RetryMade
  <2>2. job.cancellation # "REQUESTED"
    BY <1>0, <2>1 DEF WorkerOK, Knows
  <2>3. /\ job.cancellation = "NONE"
        /\ \/ job.lifecycle \in Live
           \/ job.lifecycle = "PROCESSING_FAILED" /\ job.disposition # "EXHAUSTED"
    BY <1>0, <2>2 DEF RetryMade, CancellationWins, Job
  <2>4. Retried(job, job') \/ FailedNow(job, job')
    BY <2>3 DEF RetryMade, Retried, FailedNow
  <2> QED
    BY <2>1, <2>4 DEF RecordStep
<1>4. job' = job \/ RecordStep(job, job')
  BY <1>2, <1>3
<1>5. job'.checkpoint = job.checkpoint
  BY <1>0, <1>2 DEF RetryMade, Failed, Job
<1>6. job' \in Job
  BY <1>0, <1>4, RecordStepType
<1>7. Left(w)
  BY <1>0, <1>1, <1>6, ReturnLeaves
<1> QED
  BY <1>4, <1>5, <1>7 DEF Moved, RecordRetryStep, Others

\* A job is completed by a worker that has seen its last checkpoint.
LEMMA FinishMoves ==
  ASSUME TypeOK, RecordOK, NEW w \in Workers, WorkerOK(w), Finish(w)
  PROVE  Moved(w)
<1> DEFINE o == worker[w].note
           e == IF o = "DONE" THEN "NOT_ELIGIBLE" ELSE "ELIGIBLE"
           n == worker[w].seen
<1>0. /\ worker \in [Workers -> WorkerState] /\ job \in Job
      /\ n \in Nat /\ worker[w].pc = "finish"
      /\ o \in {"DONE", "NEEDS_REVIEW"} /\ e \in Eligibility
  BY DEF TypeOK, WorkerState, WorkerOK, Finish
<1>1. PICK r \in StoreOutcomes(job, n, TransitionOperational(job, n, "COMPLETED", o, e)) :
        /\ job' = r.job
        /\ Return(w, IF Accepted(r) THEN o ELSE r.status)
  BY DEF Finish
<1>2. n = job.revision =>
        /\ job.lifecycle \in {"RUNNING", "RETRYING"}
        /\ job.cancellation = "NONE"
        /\ job.checkpoint.phase = IF o = "DONE" THEN "COMPLETE" ELSE "NEEDS_REVIEW"
  BY <1>0 DEF WorkerOK, Knows
<1> HIDE DEF o, e, n
<1>3. r.status \notin {"DONE", "CANCELED"}
  BY <1>1, StatusKnown DEF WriteStatus
<1>4. "COMPLETED" \in Lifecycle /\ o \in Outcome
  BY <1>0
<1>5. \/ job' = job /\ (Accepted(r) => job.outcome = o)
      \/ TransitionMade(job, n, "COMPLETED", o, e, job')
  BY <1>0, <1>1, <1>4, TransitionEffect
<1>6. TransitionMade(job, n, "COMPLETED", o, e, job') =>
        /\ RecordStep(job, job')
        /\ job'.outcome = o /\ job'.checkpoint = job.checkpoint
  BY <1>0, <1>2 DEF TransitionMade, RecordStep, Completed, Job
<1>7. /\ job' = job \/ RecordStep(job, job')
      /\ Accepted(r) => job'.outcome = o
      /\ job'.checkpoint = job.checkpoint
  BY <1>5, <1>6
<1>8. job' \in Job
  BY <1>0, <1>7, RecordStepType
<1>9. Left(w)
  BY <1>0, <1>1, <1>3, <1>7, <1>8, ReturnLeaves
<1> QED
  BY <1>7, <1>9 DEF Moved, Finish, Others

\* An acknowledged cancellation is the end of the job.
LEMMA AcknowledgeMoves ==
  ASSUME TypeOK, RecordOK, NEW w \in Workers, WorkerOK(w), Acknowledge(w)
  PROVE  Moved(w)
<1> DEFINE n == worker[w].seen
<1>0. /\ worker \in [Workers -> WorkerState] /\ job \in Job
      /\ n \in Nat /\ WellFormed(job) /\ CancellationWins
  BY DEF TypeOK, RecordOK, WorkerState
<1>1. PICK r \in StoreOutcomes(job, n, AcknowledgeCancellation(job, n)) :
        /\ job' = r.job
        /\ Return(w, IF Accepted(r) THEN "CANCELED" ELSE r.status)
  BY DEF Acknowledge
<1> HIDE DEF n
<1>2. r.status \notin {"DONE", "CANCELED"}
  BY <1>1, StatusKnown DEF WriteStatus
<1>3. \/ job' = job /\ (Accepted(r) => job.cancellation = "ACKNOWLEDGED")
      \/ CancellationMade(job, n, job')
  BY <1>0, <1>1, AcknowledgeEffect
<1>4. CancellationMade(job, n, job') =>
        /\ RecordStep(job, job')
        /\ job'.outcome = "CANCELED" /\ job'.checkpoint = job.checkpoint
  BY <1>0 DEF CancellationMade, RecordStep, Acknowledged, Job
<1>5. job.cancellation = "ACKNOWLEDGED" => job.outcome = "CANCELED"
  BY <1>0 DEF CancellationWins, WellFormed
<1>6. /\ job' = job \/ RecordStep(job, job')
      /\ Accepted(r) => job'.outcome = "CANCELED"
      /\ job'.checkpoint = job.checkpoint
  BY <1>3, <1>4, <1>5
<1>7. job' \in Job
  BY <1>0, <1>6, RecordStepType
<1>8. Left(w)
  BY <1>0, <1>1, <1>2, <1>6, <1>7, ReturnLeaves
<1> QED
  BY <1>6, <1>8 DEF Moved, Acknowledge, Others

\* Every step of a worker (run_once) moves the record as one of the above does.
LEMMA WorkerMoves ==
  ASSUME TypeOK, RecordOK, NEW w \in Workers, WorkerOK(w), WorkerStep(w)
  PROVE  Moved(w)
BY LoadsMove, StartsMove, EngineStepMoves, RetryMoves, FinishMoves, AcknowledgeMoves
   DEF WorkerStep

-----------------------------------------------------------------------------
(* The invariant is inductive *)

\* Whoever changes the record, what everybody else remembers of it stays true.
LEMMA OthersKeep ==
  ASSUME TypeOK, RecordOK, job' = job \/ RecordStep(job, job')
  PROVE  /\ RecordOK'
         /\ \A v \in Workers : WorkerOK(v) /\ worker'[v] = worker[v] => WorkerOK(v)'
         /\ CancellerOK /\ canceller' = canceller => CancellerOK'
<1>0. /\ job \in Job /\ WellFormed(job) /\ worker \in [Workers -> WorkerState]
      /\ canceller \in CancellerState
      /\ job.revision \in Nat /\ job.checkpoint.revision \in Nat
  BY DEF TypeOK, RecordOK, Job, Checkpoint
<1>1. CASE job' = job
  BY <1>1 DEF RecordOK, RetryBudget, CancellationWins, OutcomeFollowsCheckpoint,
              MarkersFollowCheckpoint, WorkerOK, Knows, CancellerOK
<1>2. CASE RecordStep(job, job')
  <2>1. RecordOK'
    BY <1>2, RecordStepKeeps
  <2>2. /\ job'.revision = job.revision + 1
        /\ job'.checkpoint.revision \in {job.checkpoint.revision, job.checkpoint.revision + 1}
    BY <1>0, <1>2, RecordStepForward
  <2>3. ASSUME NEW v \in Workers, WorkerOK(v), worker'[v] = worker[v]
        PROVE  WorkerOK(v)'
    <3>1. /\ worker[v].seen <= job'.revision
          /\ worker[v].seen # job'.revision
      BY <1>0, <2>2, <2>3 DEF WorkerOK, WorkerState
    <3>2. worker[v].pc \in {"step", "resume", "begin", "engine"} =>
            worker[v].op \in 1..(job'.checkpoint.revision + 1)
      BY <1>0, <2>2, <2>3 DEF WorkerOK
    <3>3. worker[v].said \in {"DONE", "CANCELED"} => job'.outcome = worker[v].said
      <4>1. job.outcome \in {"DONE", "CANCELED"} => Final(job)
        BY <1>0 DEF WellFormed, Final, Job
      <4>2. Final(job) => job'.outcome = job.outcome
        BY <1>2, RecordStepKeeps
      <4> QED
        BY <2>3, <4>1, <4>2 DEF WorkerOK
    <3> QED
      BY <2>3, <3>1, <3>2, <3>3 DEF WorkerOK
  <2>4. CancellerOK /\ canceller' = canceller => CancellerOK'
    BY <1>0, <2>2 DEF CancellerOK, CancellerState, Job
  <2> QED
    BY <2>1, <2>3, <2>4
<1> QED
  BY <1>1, <1>2

\* A submitted job, no worker attached: nobody remembers anything yet.
LEMMA InitEstablishes == Init => IInv
<1> SUFFICES ASSUME Init PROVE IInv
  OBVIOUS
<1>1. NewJob \in Job
  BY AttemptsFact DEF NewJob, Job, Checkpoint
<1>2. TypeOK
  BY <1>1, BoundsAssumption DEF Init, TypeOK, IdleWorker, WorkerState, PC, Report,
     IdleCanceller, CancellerState, BoundsAssumption
<1>3. RecordOK
  BY <1>1, AttemptsFact DEF Init, RecordOK, NewJob, WellFormed, RetryBudget,
     CancellationWins, OutcomeFollowsCheckpoint, MarkersFollowCheckpoint
<1>4. ASSUME NEW w \in Workers PROVE WorkerOK(w)
  BY DEF Init, WorkerOK, Knows, IdleWorker, NewJob, Report
<1>5. CancellerOK
  BY DEF Init, CancellerOK, IdleCanceller
<1> QED
  BY <1>2, <1>3, <1>4, <1>5 DEF IInv

\* The record only ever changes in the ways RecordStep lists, and only a worker
\* that has seen it as it is replaces its checkpoint.
RecordMoves ==
  /\ job' = job \/ RecordStep(job, job')
  /\ job'.checkpoint # job.checkpoint =>
       \E w \in Workers : worker[w].pc = "engine" /\ worker[w].seen = job.revision

\* Every step of workers, crashes and caller keeps the invariant, and changes the
\* record in one of the seven ways or not at all.
LEMMA StepKeeps ==
  ASSUME IInv, [Next]_vars
  PROVE  IInv' /\ RecordMoves
<1>0. /\ TypeOK /\ RecordOK /\ CancellerOK /\ \A w \in Workers : WorkerOK(w)
      /\ job \in Job /\ worker \in [Workers -> WorkerState] /\ canceller \in CancellerState
      /\ crashes \in 0..MaxCrashes
  BY DEF IInv, TypeOK
<1>1. CASE UNCHANGED vars
  <2>1. RecordOK' /\ CancellerOK' /\ \A w \in Workers : WorkerOK(w)'
    BY <1>0, <1>1, OthersKeep DEF vars
  <2>2. TypeOK'
    BY <1>0, <1>1 DEF vars, TypeOK
  <2> QED
    BY <1>1, <2>1, <2>2 DEF IInv, RecordMoves, vars
<1>2. ASSUME NEW w \in Workers, WorkerStep(w)
      PROVE  IInv' /\ RecordMoves
  <2>1. Moved(w)
    BY <1>0, <1>2, WorkerMoves
  <2>2. job' = job \/ RecordStep(job, job')
    BY <2>1 DEF Moved
  <2>3. /\ worker' \in [Workers -> WorkerState] /\ WorkerOK(w)'
        /\ \A v \in Workers : v # w => worker'[v] = worker[v]
        /\ canceller' = canceller /\ crashes' = crashes
    BY <2>1 DEF Moved, Left
  <2>4. job' \in Job
    BY <1>0, <2>2, RecordStepType
  <2>5. RecordOK' /\ CancellerOK' /\ \A v \in Workers : WorkerOK(v)'
    BY <1>0, <2>2, <2>3, OthersKeep
  <2>6. TypeOK'
    BY <1>0, <2>3, <2>4 DEF TypeOK
  <2>7. RecordMoves
    BY <2>1, <2>2 DEF Moved, RecordMoves
  <2> QED
    BY <2>5, <2>6, <2>7 DEF IInv
<1>3. ASSUME NEW w \in Workers, Crash(w)
      PROVE  IInv' /\ RecordMoves
  <2>1. /\ job' = job /\ canceller' = canceller
        /\ Return(w, "NONE")
    BY <1>3 DEF Crash, Return
  <2>2. crashes' \in 0..MaxCrashes
    BY <1>0, <1>3, BoundsAssumption DEF Crash, BoundsAssumption
  <2>3. job' \in Job
    BY <1>0, <2>1
  <2>4. Left(w)
    BY <1>0, <2>1, <2>3, ReturnLeaves
  <2>5. RecordOK' /\ CancellerOK' /\ \A v \in Workers : WorkerOK(v)'
    BY <1>0, <2>1, <2>4, OthersKeep DEF Left
  <2>6. TypeOK'
    BY <1>0, <2>1, <2>2, <2>3, <2>4 DEF TypeOK, Left
  <2> QED
    BY <2>1, <2>5, <2>6 DEF IInv, RecordMoves
<1>4. CASE LoadForCancellation
  <2>1. job' = job /\ worker' = worker /\ crashes' = crashes
        /\ canceller' = [pc |-> "commit", loaded |-> job] /\ ~RequestRefused(job)
    BY <1>4 DEF LoadForCancellation
  <2>2. RecordOK' /\ \A v \in Workers : WorkerOK(v)'
    BY <1>0, <2>1, OthersKeep
  <2>3. CancellerOK'
    BY <1>0, <2>1 DEF CancellerOK, Job
  <2>4. TypeOK'
    BY <1>0, <2>1 DEF TypeOK, CancellerState
  <2> QED
    BY <2>1, <2>2, <2>3, <2>4 DEF IInv, RecordMoves
<1>5. CASE CommitCancellation
  <2> DEFINE loaded == canceller.loaded
  <2>1. /\ job' = CommitRequest(job, loaded).job
        /\ worker' = worker /\ crashes' = crashes /\ canceller' = IdleCanceller
        /\ canceller.pc = "commit"
    BY <1>5 DEF CommitCancellation
  <2>2. /\ loaded \in Job /\ ~RequestRefused(loaded)
        /\ loaded.revision = job.revision => loaded = job
    BY <1>0, <2>1 DEF CancellerOK, CancellerState
  <2>3. \/ job' = job
        \/ /\ loaded = job
           /\ job' = [job EXCEPT !.cancellation = "REQUESTED", !.revision = job.revision + 1]
    <3> HIDE DEF loaded
    <3> QED
      BY <1>0, <2>1, <2>2, RequestEffect
  <2>4. ASSUME loaded = job,
               job' = [job EXCEPT !.cancellation = "REQUESTED", !.revision = job.revision + 1]
        PROVE  RecordStep(job, job')
    <3>1. job.cancellation = "NONE" /\ job.lifecycle \in Live /\ WellFormed(job)
      BY <1>0, <2>2, <2>4 DEF RequestRefused, RecordOK, Job
    <3>2. WellFormed(job')
      BY <1>0, <2>4, <3>1 DEF WellFormed, Job
    <3> QED
      BY <2>4, <3>1, <3>2 DEF RecordStep, Asked
  <2>5. /\ job' = job \/ RecordStep(job, job')
        /\ job'.checkpoint = job.checkpoint
    BY <1>0, <2>3, <2>4 DEF Job
  <2>6. job' \in Job
    BY <1>0, <2>5, RecordStepType
  <2>7. RecordOK' /\ \A v \in Workers : WorkerOK(v)'
    BY <1>0, <2>1, <2>5, OthersKeep
  <2>8. CancellerOK'
    BY <2>1 DEF CancellerOK, IdleCanceller
  <2>9. IdleCanceller \in CancellerState
    BY AttemptsFact DEF IdleCanceller, CancellerState, NewJob, Job, Checkpoint
  <2>10. TypeOK'
    BY <1>0, <2>1, <2>6, <2>9 DEF TypeOK
  <2> QED
    BY <2>5, <2>7, <2>8, <2>10 DEF IInv, RecordMoves
<1> QED
  BY <1>1, <1>2, <1>3, <1>4, <1>5 DEF Next

\* The invariant holds throughout: every worker's memory of the record is true of
\* it, or carries a revision that the store will refuse.
THEOREM Invariance == Spec => []IInv
<1>1. Init => IInv
  BY InitEstablishes
<1>2. IInv /\ [Next]_vars => IInv'
  BY StepKeeps
<1> QED
  BY <1>1, <1>2, PTL DEF Spec

-----------------------------------------------------------------------------
(* The properties *)

\* Every variable keeps its type.
THEOREM TypeCorrect == Spec => []TypeOK
<1>1. IInv => TypeOK
  BY DEF IInv
<1> QED
  BY <1>1, Invariance, PTL

\* The last attempt is only ever spent by failing the job (record_retry).
THEOREM RetriesAreBounded == Spec => []RetryBudget
<1>1. IInv => RetryBudget
  BY DEF IInv, RecordOK
<1> QED
  BY <1>1, Invariance, PTL

\* No worker completes or fails a job whose cancellation is on record, however
\* many are at work on it (request_cancellation, acknowledge_cancellation).
THEOREM CancellationIsNeverOverruled == Spec => []CancellationWins
<1>1. IInv => CancellationWins
  BY DEF IInv, RecordOK
<1> QED
  BY <1>1, Invariance, PTL

\* A completed job carries the outcome of its last checkpoint (_reconcile).
THEOREM OutcomesFollowCheckpoints == Spec => []OutcomeFollowsCheckpoint
<1>1. IInv => OutcomeFollowsCheckpoint
  BY DEF IInv, RecordOK
<1> QED
  BY <1>1, Invariance, PTL

\* No marker runs ahead of the checkpoint it was committed with (commit_step).
THEOREM MarkersFollowCheckpoints == Spec => []MarkersFollowCheckpoint
<1>1. IInv => MarkersFollowCheckpoint
  BY DEF IInv, RecordOK
<1> QED
  BY <1>1, Invariance, PTL

\* A worker's report of DONE or CANCELED is true, and stays true (run_once).
THEOREM ReportsOfAnEndAreTrue == Spec => []ReportedEndIsReal
<1>1. IInv => ReportedEndIsReal
  BY DEF IInv, ReportedEndIsReal, WorkerOK
<1> QED
  BY <1>1, Invariance, PTL

\* A job that is canceled, failed or DONE stays so, checkpoint and markers
\* included, whatever workers that loaded it earlier still try to write.
THEOREM TheEndIsFinal == Spec => EndIsFinal
<1> DEFINE Over == job.lifecycle \in {"CANCELED", "PROCESSING_FAILED"} \/ job.outcome = "DONE"
           Kept == /\ UNCHANGED <<job.lifecycle, job.outcome, job.cancellation>>
                   /\ UNCHANGED <<job.checkpoint, job.markers>>
<1>1. IInv /\ [Next]_vars => [Over => Kept]_vars
  <2> SUFFICES ASSUME IInv, [Next]_vars, Over
               PROVE  Kept
    OBVIOUS
  <2>1. job' = job \/ RecordStep(job, job')
    BY StepKeeps DEF RecordMoves
  <2>2. CASE job' = job
    BY <2>2
  <2>3. CASE RecordStep(job, job')
    BY <2>3, RecordStepKeeps DEF Final, IInv
  <2> QED
    BY <2>1, <2>2, <2>3
<1> QED
  BY <1>1, Invariance, PTL DEF Spec, EndIsFinal

\* The compare-and-set makes a checkpoint the successor of the one the engine
\* was given, although workers hold no lease (commit_step, commit_checkpoint).
THEOREM CheckpointsExtend == Spec => StepExtendsWhatWasRead
<1> DEFINE Changed == job'.checkpoint # job.checkpoint
           Extended == \E w \in Workers :
                         /\ worker[w].pc = "engine"
                         /\ worker[w].seen = job.revision
                         /\ worker[w].from = job.checkpoint.revision
                         /\ job'.checkpoint.revision = job.checkpoint.revision + 1
                         /\ job.lifecycle \in {"RUNNING", "RETRYING"}
<1>1. IInv /\ [Next]_vars => [Changed => Extended]_vars
  <2> SUFFICES ASSUME IInv, [Next]_vars, Changed
               PROVE  Extended
    OBVIOUS
  <2>1. RecordMoves
    BY StepKeeps
  <2>2. PICK w \in Workers : worker[w].pc = "engine" /\ worker[w].seen = job.revision
    BY <2>1 DEF RecordMoves
  <2>3. /\ worker[w].from = job.checkpoint.revision
        /\ job.lifecycle \in {"RUNNING", "RETRYING"}
    BY <2>2 DEF IInv, WorkerOK, Knows
  <2>4. job'.checkpoint.revision = job.checkpoint.revision + 1
    <3>1. job \in Job /\ RecordStep(job, job')
      BY <2>1 DEF RecordMoves, IInv, RecordOK
    <3> QED
      BY <3>1, RecordStepForward
  <2> QED
    BY <2>2, <2>3, <2>4
<1> QED
  BY <1>1, Invariance, PTL DEF Spec, StepExtendsWhatWasRead

-----------------------------------------------------------------------------
(* The record implements the life cycle its owner sees *)

\* Each way of changing the record is a step of the life cycle, or invisible.
LEMMA StepsAreOwnerSteps ==
  ASSUME RecordOK, RecordStep(job, job')
  PROVE  Owner!Next \/ UNCHANGED Owner!vars
<1> USE DEF Owner!vars, Stage, Owner!UnderWay
<1>0. /\ job \in Job /\ WellFormed(job) /\ RetryBudget /\ CancellationWins
      /\ job.lifecycle \in Lifecycle /\ job.attempt \in 0..MaxAttempts
      /\ MaxAttempts \in Nat /\ MaxAttempts > 0
  BY AttemptsFact DEF RecordOK, Job
<1>1. CASE TakenUp(job, job')
  <2>1. CASE job.lifecycle = "QUEUED"
    <3>1. Owner!Begin
      BY <1>0, <1>1, <2>1 DEF TakenUp, Owner!Begin, Job
    <3> QED
      BY <3>1 DEF Owner!Next
  <2>2. CASE job.lifecycle \in {"RUNNING", "RETRYING"}
    BY <1>0, <1>1, <2>2 DEF TakenUp, Job
  <2>3. CASE job.lifecycle = "COMPLETED" /\ job.outcome = "NEEDS_REVIEW"
    <3>1. Owner!Resume
      BY <1>0, <1>1, <2>3 DEF TakenUp, Owner!Resume, Job
    <3> QED
      BY <3>1 DEF Owner!Next
  <2> QED
    BY <1>1, <2>1, <2>2, <2>3 DEF TakenUp
<1>2. CASE Stepped(job, job')
  BY <1>0, <1>2 DEF Stepped, Job
<1>3. CASE Completed(job, job')
  <2>1. Owner!End
    BY <1>0, <1>3 DEF Completed, Owner!End, Job
  <2> QED
    BY <2>1 DEF Owner!Next
<1>4. CASE Retried(job, job')
  <2>1. Owner!Retry
    BY <1>0, <1>4 DEF Retried, Owner!Retry, Job
  <2> QED
    BY <2>1 DEF Owner!Next
<1>5. CASE FailedNow(job, job')
  <2>1. CASE job.lifecycle \in Live
    <3>1. Owner!Fail
      BY <1>0, <1>5, <2>1 DEF FailedNow, Failed, Owner!Fail, Job
    <3> QED
      BY <3>1 DEF Owner!Next
  <2>2. CASE job.lifecycle = "PROCESSING_FAILED"
    BY <1>0, <1>5, <2>2 DEF FailedNow, Failed, Job
  <2> QED
    BY <1>5, <2>1, <2>2 DEF FailedNow
<1>6. CASE Asked(job, job')
  <2>1. Owner!AskToCancel
    BY <1>0, <1>6 DEF Asked, Owner!AskToCancel, Job
  <2> QED
    BY <2>1 DEF Owner!Next
<1>7. CASE Acknowledged(job, job')
  <2>1. job.lifecycle \in Live
    BY <1>0, <1>7 DEF Acknowledged, CancellationWins
  <2>2. Owner!Cancel
    BY <1>0, <1>7, <2>1 DEF Acknowledged, Owner!Cancel, Job
  <2> QED
    BY <2>2 DEF Owner!Next
<1> QED
  BY <1>1, <1>2, <1>3, <1>4, <1>5, <1>6, <1>7 DEF RecordStep

\* Workers, races, retries and crashes on one record amount to the sequential
\* life cycle its owner is promised.
THEOREM RecordImplementsLifecycle == Spec => ImplementsLifecycle
<1>1. Init => Owner!Init
  BY AttemptsFact DEF Init, NewJob, Owner!Init, Stage
<1>2. IInv /\ [Next]_vars => [Owner!Next]_Owner!vars
  <2> SUFFICES ASSUME IInv, [Next]_vars
               PROVE  Owner!Next \/ UNCHANGED Owner!vars
    OBVIOUS
  <2>1. job' = job \/ RecordStep(job, job')
    BY StepKeeps DEF RecordMoves
  <2>2. CASE job' = job
    BY <2>2 DEF Owner!vars, Stage
  <2>3. CASE RecordStep(job, job')
    BY <2>3, StepsAreOwnerSteps DEF IInv
  <2> QED
    BY <2>1, <2>2, <2>3
<1> QED
  BY <1>1, <1>2, Invariance, PTL DEF Spec, ImplementsLifecycle, Owner!Spec

=============================================================================
