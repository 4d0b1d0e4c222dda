---------------------------- MODULE ScopedAdmission ----------------------------
(***************************************************************************)
(* Admission of durable jobs in one user/workspace scope: the FIFO queue,  *)
(* its single heavy slot and its two mirror files (the scoped mode of      *)
(* ReferencePaaSJobService, src/src/k_slide/paas.py), together with the    *)
(* workers that run the admitted jobs.                                     *)
(*                                                                         *)
(* On disk: an admission record per job, which owns the job's sequence     *)
(* number; the run store's job file, of which admission sees the stage of  *)
(* JobLifecycle; and the queue state, written to CONTROL_STATE and then to *)
(* QUEUE.  Every operation of the service runs under the scope's file      *)
(* lock, so one operation at a time is in flight; the writes it makes are  *)
(* separate steps, because the process can die between them and because    *)
(* workers write job files without the scope lock.                         *)
(***************************************************************************)
EXTENDS Naturals, FiniteSets

CONSTANTS
  Jobs,         \* jobs that may be submitted to the scope
  Workers,      \* worker processes
  MaxQueued,    \* max_queued_runs_per_scope
  MaxRevision,  \* bound: queue revision from which nobody submits, claims by
                \* name or resumes
  CrashPoints,  \* steps of an operation between which the process may die
  None          \* no job, no file

ASSUME MaxQueuedAssumption == MaxQueued \in 1..100000

VARIABLES
  records,      \* admission records: the sequence a job owns, 0 for no record
  stage,        \* job files: the stage of the job, None for no file
  canceling,    \* jobs with a recorded cancellation
  control,      \* CONTROL_STATE
  queue,        \* QUEUE
  op,           \* the operation that holds the scope lock
  worker        \* what each worker holds

vars == <<records, stage, canceling, control, queue, op, worker>>
jobFiles == <<stage, canceling>>
mirrors == <<control, queue>>

-----------------------------------------------------------------------------
(* Stages of a job, as JobLifecycle has them *)

UnderWay == {"waiting", "running"}
Stage == UnderWay \cup {"review", "done", "canceled", "failed"}
Ended == Stage \ UnderWay           \* _terminal_for_admission

QueueState == [revision : Nat, next : Nat, active : Jobs \cup {None},
               entries : SUBSET Jobs]

ASSUME NoneIsNothing == None \notin Jobs \cup Workers \cup Stage \cup QueueState

\* Steps of the operation in flight.
OpStep == {"free", "submit", "create", "admit", "readmit", "claim", "next",
           "release", "status", "cancel", "withdraw", "control", "queue"}
Operation == [pc : OpStep, job : Jobs \cup {None}, worker : Workers \cup {None},
              state : QueueState, then : OpStep]

Empty == [revision |-> 0, next |-> 1, active |-> None, entries |-> {}]
Free == [pc |-> "free", job |-> None, worker |-> None, state |-> Empty, then |-> "free"]

Detached == [pc |-> "idle", job |-> None]
WorkerState == {Detached} \cup [pc : {"attached", "release"}, job : Jobs]

Init ==
  /\ records = [j \in Jobs |-> 0]
  /\ stage = [j \in Jobs |-> None]
  /\ canceling = {}
  /\ control = None
  /\ queue = None
  /\ op = Free
  /\ worker = [w \in Workers |-> Detached]

-----------------------------------------------------------------------------
(* Loading and normalising the queue state *)

Recorded == {j \in Jobs : records[j] # 0}
Before(i, j) == records[i] < records[j]

Highest(S) == IF S = {} THEN 0 ELSE CHOOSE n \in S : \A m \in S : m <= n

\* Neither file: the state is rebuilt from the admission records.
Recovered ==
  [revision |-> 0, active |-> None, entries |-> Recorded,
   next |-> Highest({records[j] : j \in Recorded}) + 1]

\* Two files that differ and carry one revision: STATE_CORRUPT.
MirrorsDisagree ==
  /\ control # None /\ queue # None
  /\ control # queue
  /\ control.revision = queue.revision

Loaded ==
  IF control = None THEN IF queue = None THEN Recovered ELSE queue
  ELSE IF queue = None THEN control
  ELSE IF queue.revision > control.revision THEN queue ELSE control

\* Admitted jobs, with entries, in order of sequence: the first one that has
\* not ended, unless an earlier one has no job file yet.
FirstLive(entries) ==
  LET eligible == {j \in entries : /\ stage[j] \in UnderWay
                                   /\ \A i \in entries : Before(i, j) => stage[i] \in Ended}
  IN IF eligible = {} THEN None ELSE CHOOSE j \in eligible : TRUE

Normalized_KeepNext(state) ==
  LET wanted == [revision |-> state.revision, active |-> FirstLive(Recorded),
                 entries |-> Recorded, next |-> state.next]
  IN IF wanted = state THEN state
     ELSE [wanted EXCEPT !.revision = state.revision + 1]

Normalized_SkipPending(state) ==
  LET live == {j \in Recorded : stage[j] \in UnderWay}
      first == IF live = {} THEN None
               ELSE CHOOSE j \in live : \A i \in live : i # j => Before(j, i)
      wanted == [revision |-> state.revision, active |-> first, entries |-> Recorded,
                 next |-> Highest({state.next, Highest({records[j] : j \in Recorded}) + 1})]
  IN IF wanted = state THEN state
     ELSE [wanted EXCEPT !.revision = state.revision + 1]

\* The records decide the entries, the job files decide who is active; the
\* revision moves only if this changes anything.
Normalized(state) ==
  LET wanted == [revision |-> state.revision, active |-> FirstLive(Recorded),
                 entries |-> Recorded,
                 next |-> Highest({state.next, Highest({records[j] : j \in Recorded}) + 1})]
  IN IF wanted = state THEN state
     ELSE [wanted EXCEPT !.revision = state.revision + 1]

\* The loops that promote a successor of job j load one entry after the other,
\* up to the first that is under way; EXECUTION_NOT_FOUND ends them at an entry
\* without a job file.
Reached(state, j) ==
  {i \in state.entries \ {j} :
     \A k \in state.entries \ {j} : Before(k, i) => stage[k] \in Ended}
PromotionFails(state, j) == \E i \in Reached(state, j) : stage[i] = None
NextLive(state, j) ==
  LET live == {i \in Reached(state, j) : stage[i] \in UnderWay}
  IN IF live = {} THEN None ELSE CHOOSE i \in live : TRUE

-----------------------------------------------------------------------------
(* The scope lock and the mirror files *)

\* Take the lock, load and normalise.
Locked(step, j, w, pc, then) ==
  /\ op.pc = "free"
  /\ ~MirrorsDisagree
  /\ LET state == Normalized(Loaded)
         stale == state # Loaded \/ control # queue \/ control = None
     IN op' = [pc |-> IF stale THEN pc ELSE step, job |-> j, worker |-> w, state |-> state,
               then |-> IF stale THEN then ELSE "free"]

\* Submission, claim and status persist what normalising changed, or a mirror
\* that lags behind, before they go on...
Begin(step, j, w) == Locked(step, j, w, "control", step)
\* ...claim_next and the release of a slot only after they have decided.
Consider(step, j, w) == Locked(step, j, w, step, "control")

Done == op' = Free
\* The end of an operation that has not persisted yet.
Conclude(state) ==
  op' = IF op.then = "free" THEN Free
        ELSE [op EXCEPT !.pc = "control", !.state = state, !.then = "free"]
\* Persist this state, then go on.
Persist(state, step) == op' = [op EXCEPT !.pc = "control", !.state = state, !.then = step]

WriteControl ==
  /\ op.pc = "control"
  /\ control' = op.state
  /\ op' = [op EXCEPT !.pc = "queue"]
  /\ UNCHANGED <<records, jobFiles, queue, worker>>

WriteQueue ==
  /\ op.pc = "queue"
  /\ queue' = op.state
  /\ op' = IF op.then = "free" THEN Free ELSE [op EXCEPT !.pc = op.then]
  /\ UNCHANGED <<records, jobFiles, control, worker>>

\* The process that holds the lock dies; the lock is a file lock and goes with
\* it.  A worker that dies while claiming or releasing is restarted idle.
CrashOperation ==
  /\ op.pc \in CrashPoints
  /\ op' = Free
  /\ worker' = IF op.worker = None THEN worker
               ELSE [worker EXCEPT ![op.worker] = Detached]
  /\ UNCHANGED <<records, jobFiles, mirrors>>

-----------------------------------------------------------------------------
(* _submit_scoped *)

Submit(j) ==
  /\ Loaded.revision < MaxRevision
  /\ Begin("submit", j, None)
  /\ UNCHANGED <<records, jobFiles, mirrors, worker>>

\* Entries that hold no slot and have not ended; a record without a job file
\* holds its place.
Queued(state) ==
  {i \in state.entries : i # state.active /\ (stage[i] = None \/ stage[i] \in UnderWay)}

AdmitRecord_Unbounded ==
  /\ op.pc = "submit"
  /\ records[op.job] = 0
  /\ records' = [records EXCEPT ![op.job] = op.state.next]
  /\ op' = [op EXCEPT !.pc = "create"]
  /\ UNCHANGED <<jobFiles, mirrors, worker>>

\* The record takes the sequence before the job file exists.
AdmitRecord ==
  /\ op.pc = "submit"
  /\ records[op.job] = 0
  /\ Cardinality(Queued(op.state)) < MaxQueued
  /\ records' = [records EXCEPT ![op.job] = op.state.next]
  /\ op' = [op EXCEPT !.pc = "create"]
  /\ UNCHANGED <<jobFiles, mirrors, worker>>

\* CAPACITY_LIMIT for a new job, IDEMPOTENT for one that has its job file.
SubmitRefused ==
  /\ op.pc = "submit"
  /\ IF records[op.job] = 0 THEN Cardinality(Queued(op.state)) >= MaxQueued
                            ELSE stage[op.job] # None
  /\ Done
  /\ UNCHANGED <<records, jobFiles, mirrors, worker>>

CreateStore ==
  /\ op.pc = "create"
  /\ stage' = [stage EXCEPT ![op.job] = "waiting"]
  /\ op' = [op EXCEPT !.pc = "admit"]
  /\ UNCHANGED <<records, canceling, mirrors, worker>>

AdmitEntry_KeepNext ==
  /\ op.pc = "admit"
  /\ Persist([op.state EXCEPT !.entries = @ \cup {op.job}], "free")
  /\ UNCHANGED <<records, jobFiles, mirrors, worker>>

AdmitEntry ==
  /\ op.pc = "admit"
  /\ Persist(Normalized([op.state EXCEPT !.next = records[op.job] + 1,
                                         !.entries = @ \cup {op.job}]), "free")
  /\ UNCHANGED <<records, jobFiles, mirrors, worker>>

\* A record whose job file a crash left out: the retried submission creates it.
ReconcileStore ==
  /\ op.pc = "submit"
  /\ records[op.job] # 0 /\ stage[op.job] = None
  /\ stage' = [stage EXCEPT ![op.job] = "waiting"]
  /\ op' = [op EXCEPT !.pc = "readmit"]
  /\ UNCHANGED <<records, canceling, mirrors, worker>>

ReadmitEntry ==
  /\ op.pc = "readmit"
  /\ LET state == Normalized([op.state EXCEPT
                                !.next = Highest({@, records[op.job] + 1})])
     IN IF state = op.state THEN Done ELSE Persist(state, "free")
  /\ UNCHANGED <<records, jobFiles, mirrors, worker>>

-----------------------------------------------------------------------------
(* claim, claim_next and queue *)

Attach(w, j) == worker' = [worker EXCEPT ![w] = [pc |-> "attached", job |-> j]]

Claim(w, j) ==
  /\ worker[w] = Detached
  /\ stage[j] # None
  /\ Loaded.revision < MaxRevision
  /\ Begin("claim", j, w)
  /\ UNCHANGED <<records, jobFiles, mirrors, worker>>

ClaimLive ==
  /\ op.pc = "claim"
  /\ stage[op.job] \in UnderWay
  /\ op.state.active = op.job
  /\ Attach(op.worker, op.job)
  /\ Done
  /\ UNCHANGED <<records, jobFiles, mirrors>>

ResumeAllowed_IgnoreQueue(state, j) == TRUE

\* A reviewed job takes the slot back only if nobody has it and nothing admitted
\* earlier is still under way or without its job file.
ResumeAllowed(state, j) ==
  /\ state.active \in {None, j}
  /\ \A i \in state.entries : Before(i, j) => stage[i] \in Ended

ClaimReview ==
  /\ op.pc = "claim"
  /\ stage[op.job] = "review"
  /\ ResumeAllowed(op.state, op.job)
  /\ stage' = [stage EXCEPT ![op.job] = "running"]
  /\ Attach(op.worker, op.job)
  /\ Persist([op.state EXCEPT !.revision = @ + 1, !.active = op.job], "free")
  /\ UNCHANGED <<records, canceling, mirrors>>

\* EXECUTION_CONFLICT, or a claim of an ended job, whose worker reports the end.
ClaimRefused ==
  /\ op.pc = "claim"
  /\ \/ stage[op.job] \in UnderWay /\ op.state.active # op.job
     \/ stage[op.job] = "review" /\ ~ResumeAllowed(op.state, op.job)
     \/ stage[op.job] \in Ended \ {"review"}
  /\ Done
  /\ UNCHANGED <<records, jobFiles, mirrors, worker>>

ClaimNext(w) ==
  /\ worker[w] = Detached
  /\ Normalized(Loaded).active # None
  /\ Consider("next", None, w)
  /\ UNCHANGED <<records, jobFiles, mirrors, worker>>

\* claim_next takes whoever is active, or the successor if a worker has ended
\* that job since the state was normalised.
AttachNext ==
  /\ op.pc = "next"
  /\ LET active == op.state.active
     IN \/ /\ stage[active] \in UnderWay
           /\ Attach(op.worker, active)
           /\ Conclude(op.state)
        \/ /\ stage[active] \in Ended
           /\ IF PromotionFails(op.state, active) \/ NextLive(op.state, active) = None
                THEN Done /\ UNCHANGED worker
                ELSE /\ Attach(op.worker, NextLive(op.state, active))
                     /\ Persist([op.state EXCEPT !.revision = @ + 1,
                                                 !.active = NextLive(op.state, active)], "free")
  /\ UNCHANGED <<records, jobFiles, mirrors>>

\* queue(): load, normalise, repair the mirrors.
ReadQueue ==
  /\ Begin("status", None, None)
  /\ UNCHANGED <<records, jobFiles, mirrors, worker>>

EndStatus ==
  /\ op.pc = "status"
  /\ Done
  /\ UNCHANGED <<records, jobFiles, mirrors, worker>>

-----------------------------------------------------------------------------
(* An attached worker: the steps of JobLifecycle, made without the scope lock *)

Attached(w, j) == worker[w] = [pc |-> "attached", job |-> j]
SetStage(j, s) == stage' = [stage EXCEPT ![j] = s]

BeginJob(w, j) ==
  /\ Attached(w, j)
  /\ stage[j] = "waiting" /\ j \notin canceling
  /\ SetStage(j, "running")
  /\ UNCHANGED <<records, canceling, mirrors, op, worker>>

EndJob_StayAttached(w, j, s) ==
  /\ Attached(w, j)
  /\ SetStage(j, s)
  /\ UNCHANGED <<records, canceling, mirrors, op, worker>>

\* A terminal write: the store view calls back to release the slot.
EndJob(w, j, s) ==
  /\ Attached(w, j)
  /\ SetStage(j, s)
  /\ worker' = [worker EXCEPT ![w].pc = "release"]
  /\ UNCHANGED <<records, canceling, mirrors, op>>

FinishJob(w, j) ==
  /\ stage[j] = "running" /\ j \notin canceling
  /\ \E s \in {"done", "review"} : EndJob(w, j, s)

FailJob(w, j) ==
  /\ stage[j] \in UnderWay /\ j \notin canceling
  /\ EndJob(w, j, "failed")

AcknowledgeJob_Unasked(w, j) ==
  /\ stage[j] \in UnderWay
  /\ EndJob(w, j, "canceled")

AcknowledgeJob_RunningOnly(w, j) ==
  /\ stage[j] = "running" /\ j \in canceling
  /\ EndJob(w, j, "canceled")

AcknowledgeJob(w, j) ==
  /\ stage[j] \in UnderWay /\ j \in canceling
  /\ EndJob(w, j, "canceled")

\* run_step of a worker that attached while the job was under way takes a job
\* that another worker has meanwhile completed for review back to RETRYING.
ResumeInStep(w, j) ==
  /\ Attached(w, j)
  /\ stage[j] = "review"
  /\ Loaded.revision < MaxRevision
  /\ SetStage(j, "running")
  /\ UNCHANGED <<records, canceling, mirrors, op, worker>>

\* The terminal write of another worker was first: this one is IDEMPOTENT, which
\* calls back all the same.
RepeatEnd(w, j) ==
  /\ Attached(w, j)
  /\ stage[j] \in Ended
  /\ worker' = [worker EXCEPT ![w].pc = "release"]
  /\ UNCHANGED <<records, jobFiles, mirrors, op>>

\* run_once returns, or the worker dies, possibly before the callback of its
\* terminal write: the job keeps its stage and nobody releases the slot.
Detach(w) ==
  /\ worker[w] # Detached
  /\ op.worker # w
  /\ worker' = [worker EXCEPT ![w] = Detached]
  /\ UNCHANGED <<records, jobFiles, mirrors, op>>

\* _release_scoped_slot, the callback of the terminal write.
Release(w) ==
  /\ worker[w].pc = "release"
  /\ Consider("release", worker[w].job, w)
  /\ UNCHANGED <<records, jobFiles, mirrors, worker>>

EndRelease_HalfDetached ==
  /\ op.pc = "release"
  /\ Conclude(op.state)
  /\ worker' = [worker EXCEPT ![op.worker].job = None]
  /\ UNCHANGED <<records, jobFiles, mirrors>>

\* Normalising has released the slot already, unless somebody has meanwhile
\* resumed the job: then this callback hands its slot to a successor.
EndRelease ==
  /\ op.pc = "release"
  /\ IF op.state.active # op.job THEN Conclude(op.state)
     ELSE IF PromotionFails(op.state, op.job) THEN Done
     ELSE Persist([op.state EXCEPT !.revision = @ + 1,
                                   !.active = NextLive(op.state, op.job)], "free")
  /\ worker' = [worker EXCEPT ![op.worker] = Detached]
  /\ UNCHANGED <<records, jobFiles, mirrors>>

Advance(w, j) == BeginJob(w, j) \/ FinishJob(w, j) \/ FailJob(w, j) \/ AcknowledgeJob(w, j)
WorkOn(w, j) == Advance(w, j) \/ ResumeInStep(w, j) \/ RepeatEnd(w, j)

-----------------------------------------------------------------------------
(* _request_cancellation_scoped *)

\* The request goes on record before the queue state is looked at.  A repeated
\* request for a canceled job only repairs the queue state.
RequestCancellation(j) ==
  /\ op.pc = "free"
  /\ stage[j] \in UnderWay \cup {"canceled"}
  /\ canceling' = canceling \cup {j}
  /\ LET step == CASE stage[j] = "waiting" -> "cancel"
                  [] stage[j] = "running" -> "free"
                  [] stage[j] = "canceled" -> "withdraw"
     IN op' = IF step = "free" THEN Free ELSE [Free EXCEPT !.pc = step, !.job = j]
  /\ UNCHANGED <<records, stage, mirrors, worker>>

\* A waiting job that does not hold the slot is canceled on the spot.
WithdrawWaiting ==
  /\ op.pc = "cancel"
  /\ IF /\ ~MirrorsDisagree
        /\ stage[op.job] = "waiting"
        /\ Normalized(Loaded).active # op.job
       THEN SetStage(op.job, "canceled") /\ op' = [op EXCEPT !.pc = "withdraw"]
       ELSE Done /\ UNCHANGED stage
  /\ UNCHANGED <<records, canceling, mirrors, worker>>

PersistWithdrawal ==
  /\ op.pc = "withdraw"
  /\ LET state == Normalized(Loaded)
     IN IF MirrorsDisagree \/ state = Loaded THEN Done ELSE Persist(state, "free")
  /\ UNCHANGED <<records, jobFiles, mirrors, worker>>

-----------------------------------------------------------------------------
OperationStep ==
  \/ WriteControl \/ WriteQueue
  \/ AdmitRecord \/ SubmitRefused \/ CreateStore \/ AdmitEntry
  \/ ReconcileStore \/ ReadmitEntry
  \/ ClaimLive \/ ClaimReview \/ ClaimRefused \/ AttachNext \/ EndStatus
  \/ EndRelease \/ WithdrawWaiting \/ PersistWithdrawal

Next ==
  \/ OperationStep \/ CrashOperation \/ ReadQueue
  \/ \E j \in Jobs : Submit(j) \/ RequestCancellation(j)
  \/ \E w \in Workers :
       \/ ClaimNext(w) \/ Release(w) \/ Detach(w)
       \/ \E j \in Jobs : Claim(w, j) \/ WorkOn(w, j)

Spec == Init /\ [][Next]_vars

\* The service's processes run on, every run_once returns, some worker polls
\* claim_next and gets the file lock now and then, and an engine that is called
\* over and over gets a step done.  No callback has to be made, and nobody is
\* obliged to submit, to cancel or to resume.
Fairness ==
  /\ WF_vars(OperationStep)
  /\ \A w \in Workers : WF_vars(Detach(w))
  /\ SF_vars(\E w \in Workers : ClaimNext(w))
  /\ SF_vars(\E w \in Workers, j \in Jobs : Advance(w, j))
FairSpec == Spec /\ Fairness

-----------------------------------------------------------------------------
(* Properties *)

\* Every variable has its type.
TypeOK ==
  /\ records \in [Jobs -> Nat]
  /\ stage \in [Jobs -> Stage \cup {None}]
  /\ canceling \subseteq Jobs
  /\ control \in QueueState \cup {None}
  /\ queue \in QueueState \cup {None}
  /\ op \in Operation
  /\ worker \in [Workers -> WorkerState]

\* No two jobs own one place in the queue, whatever crash separates an admission
\* record from its job file and from the two mirrors.
SequencesAreUnique ==
  \A i, j \in Recorded : records[i] = records[j] => i = j

\* Both mirrors hold states that _scoped_control_from_dict will read back, at
\* whatever step the process dies: it refuses an active job without an entry and
\* a next sequence that is already taken, and normalising refuses an entry
\* without a record.
StatesAreReadable ==
  \A s \in {control, queue} \ {None} :
    /\ s.active \in s.entries \cup {None}
    /\ s.entries \subseteq Recorded
    /\ \A j \in s.entries : records[j] < s.next

\* The scope never holds more than the active job and MaxQueued others, counting
\* the places reserved by records without a job file.
CapacityIsKept ==
  Cardinality({j \in Recorded : stage[j] = None \/ stage[j] \in UnderWay}) <= MaxQueued + 1

\* One heavy run at a time: at most one job of the scope is running.
OneJobRunning ==
  Cardinality({j \in Jobs : stage[j] = "running"}) <= 1

\* Jobs are started in the order of their sequences: nothing admitted earlier is
\* still under way, or reserved without a job file, when a job starts.
StartsInOrder ==
  [][\A j \in Jobs : stage[j] = "waiting" /\ stage'[j] = "running" =>
       \A i \in Recorded : Before(i, j) => stage[i] \in Ended]_vars

\* A reviewed job goes on only by a claim that takes the slot through the queue.
ResumesByClaim ==
  [][\A j \in Jobs : stage[j] = "review" /\ stage'[j] = "running" =>
       op.pc = "claim" /\ op.job = j]_vars

\* Job by job, workers and service together keep to the life cycle that
\* DurableExecution is shown to implement: the service cancels nothing that its
\* owner did not ask for and resumes only what waits for review.
Contract(j) == INSTANCE JobLifecycle WITH
  MaxRetries <- 0, retries <- 0,
  stage <- IF stage[j] = None THEN "waiting" ELSE stage[j],
  canceling <- j \in canceling
JobsKeepTheirContract ==
  /\ \A j \in Jobs : Contract(j)!Init
  /\ [][\A j \in Jobs : [Contract(j)!Next]_(Contract(j)!vars)]_vars

\* A restart between the two mirror writes leaves a state that can be loaded.
MirrorsRecover == op.pc = "free" => ~MirrorsDisagree

\* Every job in the queue is eventually taken out of it: nobody is starved behind
\* the active job, its cancellation, a dead worker or a release that was never
\* made.  (Only two workers that take a job between review and resumption for
\* ever can keep the slot for ever.)
WaitingJobsMoveOn ==
  \/ \A j \in Jobs : stage[j] = "waiting" ~> stage[j] \in Ended
  \/ []<><<\E j \in Jobs : stage[j] = "review" /\ stage'[j] = "running">>_vars

=============================================================================
