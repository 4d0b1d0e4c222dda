# K-Slide: a verification project

TLA+ models of the stateful core of K-Slide (`src/src/k_slide`), the TLC runs
that check them on small instances, and TLAPS proofs of what holds for every
instance. Line numbers below are those of the modelled commit.

## 1. Inventory of the system

K-Slide turns source slides into a reviewed translation. An engine moves one
run through deterministic phases (intake, normalisation, extraction,
translation, verification, completion); around it stand a durable execution
record with compare-and-set operations, platform workers that drive the engine,
admission control per user and workspace, and control planes for deletion,
rollout, revocation and release.

| Component | State | Operations | Who it talks to | What makes it hard | What makes it correct |
|---|---|---|---|---|---|
| Durable run store (`execution.py`, `_FilesystemRunStore`) | one JSON record per job: lifecycle, outcome, checkpoint, cancellation, retry state, result markers, revision | `commit_job`, `commit_checkpoint`, `commit_step`, `request_cancellation`, `acknowledge_cancellation`, `transition_operational`, `record_retry` | workers and services, by call | each operation loads outside the lock and commits inside it; workers hold no lease | no lost update, a bounded number of retries, a cancellation is never overruled, ends are final |
| Controller and worker (`ExecutionController.run_step`, `PaaSWorker`) | what one call remembers: record, operation id, failure | `run_once`, `run_until_terminal`, `run_step`, `_reconcile`, `_record_failure` | store, engine, service | some ten store calls per step, any of them racing another worker's; crashes in between | every recorded cancellation is acknowledged, the job settles, reports are true |
| Scoped admission (`ReferencePaaSJobService`, scoped mode) | admission record per job, CONTROL_STATE and QUEUE mirrors | submit, claim, claim_next, release, cancel, status, recovery | store, workers, file lock | four files per operation, crash between any two, callbacks after lock-free writes | FIFO, one running job, capacity, unique sequences, nobody is starved |
| Workspace run (`state.py`, `queue.py`, `session.py`, CLI handlers, `ingest`, `normalization`, `extraction`, `verify`) | RUN_STATE, WORK_QUEUE, canonical IR per unit, RUN_COMPLETE.md, EXECUTION_JOB | `prepare_run`, `normalize_run`, `extract_run`, `_next`, `verify_run`, `finalize_run`, `sync_workspace_execution` | files, run lock, host agent | several files per call without a common commit; calls in any order; the job is reported without the lock | verdicts are earned, good work survives, the agent's loop ends, the job ends with the run |
| Translation and repair (`_submit` of the CLI, `translation.py`) | unit status, attempts, IR digest | submit a patch, hand out a repair | workspace run | interrupted submissions, bounded repair | an interrupted submission can be made again; repairs stay bounded |
| Deletion and legal hold (`deletion.py`, `retention.py`) | audit with its plan and generation anchors, run fence, holds | `DeletionCoordinator.run` over two backends, expiry of audits | store, admission, workspace | crash between deleting and recording; a hold arriving in between; a resubmission under the same identity; a cleanup of audits that takes no lock | a held run keeps its files; an audit says COMPLETE only if all is gone; only the planned generation goes |
| Rollout control (`rollout.py`) and revocation (`candidate_revocation.py`) | signed policy, state, head, history; revocation events | initialise, transition, admit, revoke, recover | each other, admission | three or four file writes per transition; readers without the lock | a torn write admits nobody; a revoked candidate is never admitted |
| Conflict registry (`conflicts.py`), terminology | documents | derive, supersede, resolve | translation | order independence | the result does not depend on input order |
| Content-bearing support (`content_support.py`) | a bundle and a metadata file per request, an audit stream | make, read, expire, delete with the run | an external authority, holds, deletion | no lock among the calls; the decision may end at any moment; two files per copy | nothing is handed out on a decision that had ended; expired copies lose their content; a deleted run has no copy left and an audit line for each |
| Bootstrap, key hand-off (`opencode_bootstrap.py`, `access_key_handoff.py`) | one-shot tickets | take, expire | host | single use, expiry racing use | used at most once |
| Recertification, release governance, certification, identity, policies, telemetry | documents | validate, hash, derive | build and release | wide but stateless | a function of its input |
| OCR, rendering, IR data structures, host plugin, evaluation harness | none that matters | | | | |

`PROJECT.json` lists every source file under one of these components, with its
status and the reason where it is not modelled, and under `hazards` the places
where the code is hard to test.

How they interact: a caller submits a job to the admission service, which
writes an admission record, creates the job in the run store and queues it.
A worker claims the job, opens a store view bound to it and calls `run_step`,
which runs the engine between a load and a `commit_step`. A terminal write made
through the store view calls back into the admission service to free the slot.
Callers request cancellation through the service, and workers acknowledge it at
their next safe boundary. Everything is files and advisory locks: shared state
is what was last replaced atomically, and nothing but the file lock of the
scope, or of one commit, excludes anybody.

## 2. Modules

| Module | Models | Extends / instantiates |
|---|---|---|
| `RunStore` | the record and each store operation, as an operator from record and expected revision to a `StoreWriteResult` | |
| `DurableExecution` | `PaaSWorker.run_once`, `run_step` and `request_cancellation` on one job, for a set of workers | extends `RunStore`, refines `JobLifecycle` |
| `JobLifecycle` | what the owner of a job is promised; the abstract specification | |
| `ScopedAdmission` | the queue of one scope with its files and the workers that run the admitted jobs | refines `JobLifecycle`, job by job |
| `DurableExecutionProofs` | theorems about `DurableExecution` | extends `DurableExecution`, `TLAPS` |
| `RolloutControl` | control-plane processes that apply rollout commands and revocation events, and admitters that read without a lock | refines `RolloutPromise` |
| `Deletion` | the deletion of one run over the workspace or the scoped backend, with the product calls, holds, expiries and resubmissions that race with it | |
| `ContentSupport` | the copies of one run's content made for support, the calls that make, read and expire them, and the deletion of the run as far as they are concerned | |
| `WorkspaceRun` | one run of the workspace engine, its files, the agent's calls on it and the job that reflects it | |
| `RolloutPromise` | which candidate is in force, open or closed, and revoked for what; the abstract specification | |
| `ScopedAdmissionProofs`, `RolloutControlProofs`, `WorkspaceRunProofs`, `ContentSupportProofs`, `DeletionProofs` | theorems about `ScopedAdmission`, `RolloutControl`, `WorkspaceRun`, `ContentSupport` and `Deletion` | extend them and `TLAPS` |
| `MCDurableExecution`, `MCScopedAdmission`, `MCRolloutControl`, `MCDeletion`, `MCContentSupport`, `MCWorkspaceRun` | model values, symmetry and crash points for TLC | |

### Durable execution

`job` is the record on disk. Its identities, times, hashes and metadata are left
out; of the engine's phases only COMPLETE, NEEDS_REVIEW and "any other" are told
apart, since nothing in store, controller or worker distinguishes more.
`worker[w].pc` names the next store call of `run_once`; the other fields are
what the worker remembers: `seen` (revision of its last load), `from` (revision
of the checkpoint handed to the engine), `op` (operation id), `note` (failure or
outcome in hand) and `said` (the status it last returned about the end of the
job). One action is one locked section: a load with the decisions taken on it,
or a compare-and-set. `StoreOutcomes` adds the answer an operation gives when it
loaded before, and commits after, the write that made it stale. RAISED is the
exception of the record's constructor, which refuses ill-formed candidates.
`Crash` loses the worker's memory and nothing else. The canceller loads and
commits in two steps. A worker that finds its target lifecycle already reached
gets IDEMPOTENT and goes on, as in the code.

### Scoped admission

`records` holds the sequence owned by each admission record, `stage` the stage
of each job file (the stages of `JobLifecycle`), `control` and `queue` the two
mirrors, `op` the operation in flight under the scope lock and `worker` what
each worker is attached to. Every file write is a step. `CrashOperation` drops
the operation at any of the steps in `CrashPoints`. A worker advances its job
without the scope lock; after a terminal write it owes the release callback, and
`Detach` is both the return of `run_once` and the death of a worker before that
callback. Interleavings inside a job are those of `DurableExecution`; here a job
takes the steps of `JobLifecycle`, plus `ResumeInStep`, the resumption inside
`run_step` that does not ask the queue. An entry that `_normalize_scoped_state`
rebuilds is the same for every operation, so `Normalized` is an operator, applied
where the code calls it. A status reading (`queue`) repairs mirrors and is an
operation like the others.

### Rollout control and revocation

`state`, `head` and `history` are the rollout documents, `ledger[c]` the same three
for the revocations of candidate `c`; a state identity, being a hash that chains
its predecessor, is the document itself. `actor[a].pc` is the step a control-plane
process is about to make in `transition_reference_rollout_control`,
`apply_reference_candidate_event` or `_apply_reference_recovery`; each write of a
document is a step, each read without the lock of what it reads is a step, and what
is read under its lock is read at the moment the lock is taken. `Crash` may fall
between any two and frees the file locks. A stage is abstracted to open or closed,
and a receipt to whether it admits. `closed` is a history variable: the ledger
revision at which a revocation returned without an error. What is left out:
initialisation, signatures, authorities and times, cohorts, policies that name no
rollback target, and readings of a ledger that raise because it changed between
two of their reads (the caller gives up, as in a crash at that step).

### Deletion

`file[k]` is the generation that wrote the document of class `k` (0 when there is
none): the job, the run state and, in a scope, the admission record are *anchors*,
by which a retry recognises the run it was planned for; classes that the code treats
alike are one. `backend` is chosen once: the workspace backend fences writers with a
file and a field of the run state, which `SaveAudit`, `SetFence` and `MarkState`
write one after the other; the scoped backend fences them by the audit itself.
`caller[c]` is one call of `DeletionCoordinator.run`: `pc` is its next lookup, lock
or write, `save` the audit it holds in memory, `found` the targets it has
enumerated, `next` its place in the plan. `RemoveTarget`, `SkipTarget` and
`FailTarget` are the three ways of the target loop, and `DeleterDies` may fall
anywhere under the lock. `cleanup_after_targets` removes the scratch root with the
lock file the caller holds in it, so `inode` says which file the name of the lock
stands for: a process that opened the old one no longer excludes a process that
opens the new one. The product is reduced to what a deletion can meet: ending the
run or its job, acknowledging a cancellation, writing content, charging the output
budget (which consults no fence) and submitting the identity anew (which consults
the fence before it takes the lock). `shielded` is a history variable: on hold since
before any pass that is under way began. `cleanup_operational_metadata` takes neither
the run's lock nor the scope's, so its three steps stand by themselves: `ReadAudits`
reads every audit and finds some of them old (any may be: ages are not modelled),
`AskToExpire` looks up the hold of one of those, `ExpireAudit` unlinks whatever has its
name by then, and `CleanupEnds` is a cleanup that raises or dies; `expiring[k]` is what
cleanup `k` has found out so far. Between these steps a retry may save the audit anew,
and begin its pass, or a hold may be placed. Left out: recovery of support content,
telemetry, unsafe paths, and which runs the retention sweep picks.

### Content-bearing support

A copy is identified by the request it was made for: its decision and its
selection. `bundle[c]` and `metadata[c]` are its two files, the metadata carrying
the time of the first decision. `maker[m]`, `reader[r]` and `cleaner` are calls of
`materialize_controlled_support_bundle`, `read_controlled_support_bundle` and
`cleanup_expired_support_content`; none of them takes a lock, so every write and
every lookup of the decision is a step of its own and the reads between two of them
one step. `Live` is `_authorize`: the decision as the authority has it now, and the
clock. An undone materialisation removes both files under its identity, whoever wrote
them. `deleter` is `DeletionCoordinator.run` seen from the support target: it plans
and captures what the audit must know of the copies (`deletion.recovery`), raises
the fence, unlinks bundles before metadata, and records after every unlink what is
gone (`Recorded`; the writer adds one line per copy, however often it is asked).
`MakerDies`, `CleanerDies`, `DeleterDies` and `DeleteFails` may fall between any two
steps. `late` is a history variable: the copies of makers that had looked at the
fence, and would not again, when it rose. Holds that arrive, generations and the lock
of the deletion are those of `Deletion`. Of the audit lines the model keeps
MATERIALIZED and DELETED.

### The workspace run

`run` is all files of one run: phase and current unit of RUN_STATE, status, repair
count and IR digest of each unit in WORK_QUEUE, the IR on disk, the conflict
registry and the marker in the manifest that must agree with it, and the completion
sentinel. Calls hold the run lock from before they read until after their last
write, and nobody writes without it; so an action decides on the *versions* of the
run that its writes pass through (`pending`), and `Write` makes them real one file
at a time. `Dies` forgets what is pending. The writers outside that scheme have a
variable of their own: `prepare_run` saves the state, creates the job and only then
admits, and a failed `extract_run` leaves the lock and takes it again (`ahead`);
`sync_workspace_execution` reads without the lock and commits later (`report`).
What a translation is worth is decided by the environment: good, bad, or open for
review. Whether a rewritten unit carried assertions of the registry is an input
too. Tools may be called in any order. Left out: what intake, normalisation and
extraction compute, sessions, the environment check, the limit on runs under way.

What the model showed and no property says, because nothing in the repository
promises otherwise: a run whose verification dies stays VERIFYING until someone
finalizes it; a run verified before it was assessed is FAIL_REPAIRABLE with nothing
to repair; a repair of a unit that takes part in a conflict leaves the registry
stale for good; a run that dies NORMALIZING stays there. `TranslationEnds` excludes
them by name (`strayed`, `Contradictory`).

## 3. Runs

| Run | Question | Instance |
|---|---|---|
| `durable_safety` | does one record stay consistent under two workers, all failures, a crash and a cancellation, and is its history a `JobLifecycle`? | 2 workers, 2 attempts, 2 engine steps, 1 crash; about 1.0 million states |
| `durable_live` | is each cancellation acknowledged, and does the job settle? | 2 workers, operational failures, 1 crash; about 160 thousand states |
| `durable_report` | violation: a failure report can contradict the semantic outcome | 2 workers |
| `scope_safety` | do files, queue and jobs stay in order over crashes between any two writes? | 4 jobs, 1 worker, 2 queued places, revision 3; about 1.3 million states |
| `scope_live` | does every waiting job get its turn? | 2 jobs, 2 workers, no crash of an operation; about 250 thousand states |
| `scope_mirrors` | violation: a crash between the mirror writes of a submission | 2 jobs, 1 worker |
| `scope_two_workers` | violation: a resumption past the queue | 2 jobs, 2 workers |
| `rollout_safety` | does a revocation stay closed, are events recorded once and in order, do heads only move as promised, whoever dies where; and does an admitter without the lock ever take a torn document set for the state in force? | 2 processes, or 1 process and 1 admitter; 1 reason, 2 events, 1 crash, revision 4; about 2.3 million states |
| `deletion` | does a deletion, retried over failures and deaths, remove what it was planned for and nothing else, keep writers out, respect a hold, and get done? | 1 deleter, 1 cleanup, 1 fault, both backends, 1 resubmission; about 240 thousand states |
| `content_support` | is nothing handed out on a decision that had ended, does a completed deletion account for every copy, do expired copies lose their content? | 1 copy, 1 maker and 1 reader over and over, expiry at 2, 1 fault; about 1.7 million states |
| `workspace` | are verdicts earned, is good work kept, does the agent's loop end and the job with it? | 2 units, 1 automatic repair each, 1 setback; about 370 thousand states |
| `workspace_stranded` | violation: a session that stops inside `next` | as `workspace` |

Why these bounds are enough. Two workers give every pairwise race on a record; a
third meets the same compare-and-set, and the theorems of section 5 remove the
bound for safety. Two attempts distinguish a retry from the exhausting failure.
Two engine steps let a worker be one whole step behind. One crash suffices for
safety because a crashed worker is exactly a new one. In a scope, four jobs with
two queued places reach a full queue with one submission refused; a queue
revision of 3 allows a state to be replaced, lost in a crash and recovered.
`MaxRevision` bounds submissions, explicit claims and resumptions only: releases
and repairs go on beyond it, so nothing is stopped half way.
In rollout control two processes give every race between an operator, a revocation
and a recovery; the writes of a transition are serialised by the rollout lock, so
one process suffices against an admitter. Two events let a recovery follow its
revocation or two revocations compete for one revision, and any event may be
applied again at any time. Revision 4 is that of a candidate opened after it was
rolled back, restored and recovered. `MaxRevision` keeps processes from starting
anything, never from finishing it: without it the repetition of a revocation whose
fallback is revoked too adds DISABLE transitions for ever.
One deleter is enough for one run: passes are serialised by the lock, and another
deleter is one that starts when the first has died, except for the lock file that a
cleanup replaces, which product calls race with as well; for the safety properties
the theorems of section 5 hold of any number, and of any number of cleanups. One
fault is a failed removal or a death, anywhere, and lets a retry make up for it; two,
so that the retry fails again, have been checked for all the properties too, in 930
thousand states, beyond the time of a regular run. `MaxGenerations` = 2 is a run and
its resubmission.
For one copy one request is enough, since copies share nothing but the clock and the
hold; its maker and its reader call again and again. An expiry at 2 gives copies of
two creation times. Two makers of one copy have been checked without a reader (3.7
million states), and the theorems of section 5 remove these bounds.
Two units give a repair of one beside the good work of the other; one setback is a
death, a review or a contradiction, anywhere (two have been checked too, in 1.1
million states, beyond the time of a regular run).
`CHECK_DEADLOCK FALSE` stands where the system really may stop: mirrors that
disagree (the violation run) stop a scope for good, and the rollout model stops at
its bound, as does a control plane whose documents a crash has torn; a deleted run, and a run
that is complete, rejected or stranded, stop as well, as do copies once all is expired
or deleted.

### Fairness

`DurableExecution` assumes weak fairness of each worker's steps: workers are
operating-system processes that are restarted and poll. Nothing is assumed of
the caller. The engine, when called, returns or raises; `MaxSteps` bounds the
number of steps it can report progress in, after which it can only raise, and
`durable_live` shows that the job settles nevertheless.
`ScopedAdmission` assumes that operations under the lock go on (`WF` of
`OperationStep`), that every `run_once` returns, that some worker polls
`claim_next` and gets the file lock now and then (`SF`: the lock is contended),
and that an engine called over and over makes a step (`SF`: between two calls the
worker is detached). No release callback is ever assumed to happen.
`Deletion` assumes that the operator or sweep retries, that the hold authority
answers now and then, that the lock is fair, and that a worker which can end the job
or acknowledge its cancellation does. Nothing is assumed of cleanups: they may run at
any time, stop anywhere or never run. `EndedRunIsDeleted` therefore excludes an audit
that expires before its deletion is finished (`Forgotten`), and begins where no call is
under the lock (`RunHasEnded`): such a call may still save a plan older than the end of
the run over an audit that has expired.
`ContentSupport` assumes that the retention job runs again and again (`WF` of `Clean`)
and nothing of anybody else: makers, readers and deleters may stop anywhere.
`WorkspaceRun` assumes that a call which holds the lock goes on, that a report read
is committed, and of the agent the loop of `.opencode/agents/k-slide.md` (`AgentStep`,
`SF` because calls of others take the lock in between): next, submit what it hands
out, assess, verify what is assessed, finalize what is verified.
`WaitingJobsMoveOn` has one way out, stated in it: two workers that keep taking a
job between review and resumption can hold the slot for ever.

## 4. Findings

1. *A failure report contradicts the outcome* (`durable_report`,
   `paas.py:2156`). Two workers run one step; one completes the job, the other's
   engine raises. `record_retry` refuses the write, but the worker looks at the
   lifecycle of the returned record only and reports PROCESSING_FAILED for a job
   that is DONE or NEEDS_REVIEW.
2. *Mirrors of one revision that differ* (`scope_mirrors`, `paas.py:1312`). A
   normalised state is persisted without a new revision when normalising has
   nothing to add, as after a submission whose entry and sequence have been set
   by hand. A crash between the two mirror writes then leaves two different files
   of one revision, and every later load raises STATE_CORRUPT.
3. *A resumption past the queue* (`scope_two_workers`, `execution.py:998`). A
   worker attached to a job that another worker completes for review resumes it
   inside `run_step`, while the next job of the scope has the slot: two heavy runs
   at a time. With one worker, `scope_safety` shows `OneJobRunning` and
   `ResumesByClaim` to hold.

4. *A session that stops inside next* (`workspace_stranded`, `cli.py:855`). The queue
   is saved with the unit in translation, the state that names the unit is not. No
   later `next` offers the unit: it is neither READY nor current. The recovery guide
   written into every run (`ingest.py:105`) and `k-slide-continue.md:13` promise that
   the run continues from what is on disk. A death inside submit is made up for
   (`TranslationEnds`).

Smaller observations, for which the repository promises nothing definite: a cleanup
that has read an old audit unlinks the one that a retry has saved anew in the meantime,
and a hold placed after its lookup does not keep the audit; in a scope, where the
audits are the fence, the pass of that retry then goes on unfenced, and only the scope
lock that it holds keeps writers from the run (`RemovalIsFenced` says so), until the
pass saves its audit again, and if it dies before that the half-deleted run is open to
writers; an audit that expires while its deletion is unfinished leaves a run without anchors, which a
plan begun by a hold lookup without an answer can then never complete; a target that
appears after the plan (TARGET_ADDED) keeps an explicit deletion PARTIAL until its
audit expires; a BLOCKED answer to a retry lifts the fence of a run that is half
deleted; a submission under way charges `metrics.json` after the run is gone; a job
completed for review that finishes later is refused COMPLETED after COMPLETED by the
transition table, so its outcome stays NEEDS_REVIEW; a process that dies between
writing a support bundle and its metadata leaves a bundle no cleanup finds, since
cleanup looks for metadata, and which blocks its identity until the run is deleted;
a materialisation that had looked at the fence before it rose writes its copy during
the deletion, or after it (`CopiesAreAccountedFor` excludes such copies by name).

## 5. What is proved

`DurableExecutionProofs` proves, for any set of workers, any MaxAttempts in
1..32 and any bounds, all the safety properties of `durable_safety` (types,
`RetryBudget`, `CancellationWins`, `OutcomeFollowsCheckpoint`,
`MarkersFollowCheckpoint`, `ReportedEndIsReal`), its action properties
(`EndIsFinal`, `StepExtendsWhatWasRead`), and that `DurableExecution` implements
`JobLifecycle`. Assumptions: the three ASSUMEs on the constants.

The argument. None of the properties is inductive: whether a worker may complete
a job depends on what it loaded several steps ago. `IInv` says what such memory
is worth: a worker's `seen` never exceeds the record's revision, and *if it
equals it*, what the worker concluded from its load still holds (`Knows`); the
same for the record the canceller loaded. As every change of the record raises
its revision, whatever others remember becomes merely stale
(`OthersKeep`), and a stale write is refused. The proof goes in three layers:

- the *effect* lemmas say what each store operation can do to a record, whatever
  its caller believes (`TransitionEffect`, `StepEffect`, `AcknowledgeEffect`,
  `RetryEffect`, `RequestEffect`);
- `RecordStep` sums them up under the guard of the invariant: seven ways a record
  may change (taken up, stepped, completed, retried, failed, asked to cancel,
  cancelled). `RecordStepType`, `RecordStepForward` and `RecordStepKeeps` derive
  the properties of the record from these alone;
- the *moves* lemmas, one per worker action, show that the action makes a
  `RecordStep` or none and leaves the worker's memory true.

`StepKeeps` puts them together; the action properties and the refinement then
need nothing but `IInv` and `RecordStep`.

`RolloutControlProofs` proves, for any sets of processes, admitters and reasons and
any bounds, all properties of `rollout_safety`: the types, `RevocationCloses`,
`LedgerAddsUp`, `AdmissionReadsWhatIsInForce` and `KeepsThePromise`. Assumptions: `RolloutBounds`,
`CategoriesAreFinite` (the reasons are an enumeration) and `NobodyIsNone`. The
invariant gives each piece of memory the condition under which it can be relied on:

- under a lock, unconditionally: `Standing` says of the holder of the rollout lock,
  step by step, what the three documents are, and `Noting` the same of the holder
  of a ledger lock. `OthersStand` and `OthersNote` are the frame lemmas: nobody
  else writes these documents;
- without a lock, by revision: `Answers` and `Registered` say that a revocation on
  record is in force until the head of its ledger moves on, and `AdmitterOK` that a
  state read is in force unless the history has grown;
- `Claims` says what a returned revocation has achieved, which needs `Shut`: no
  process that is past its check of the ledgers is about to open the candidate. It
  is the step `Protect` that establishes it, and the reason why a command checked
  before the revocation cannot open the rollout after it.

The lemmas `LocalStep`, `LedgerStep`, `LockStep` and `AdmitterStepKeeps` treat the
kinds of steps once; one lemma per action applies them.

`LedgerAddsUp` needs one thing more, `Summed`: the reasons in a ledger's state are
what the first `revision` events of its history leave in force (`InForce`, which says
so without a fold: revoked for by one of them and recovered by none after it). The
history is at most one event ahead of the state; appending an event leaves the first
ones as they are (`LaterEventsDoNotCount`), and the state then written counts exactly
the next one (`OneMoreEvent`), because whoever writes it holds the ledger lock and
appended that event to the state it had read (`Noting`).

`ScopedAdmissionProofs` proves all properties of `scope_safety`, for any number of
jobs, workers, revisions and crash points. Assumptions: `MaxQueuedAssumption` and
`NoneIsNothing`. It comes in two parts.

The first needs no condition: types, `SequencesAreUnique`, `StatesAreReadable`, and
that every job keeps to `JobLifecycle` (`JobsKeepTheirContract`). Its invariant `Base`
says that the records are finitely many and have a highest sequence, that no job file
is without a record, and that the state an operation carries from its load to its
mirror writes fits the records it will meet there (`OpFits`), at each step of each
operation: a crash then leaves on disk only what some load can have produced.

The second is about `OneJobRunning`, `CapacityIsKept`, `StartsInOrder` and
`ResumesByClaim`. With two workers they do not all hold: `scope_two_workers` violates
the first (finding 3). The theorems say what exactly they depend on. Each has the form
`Spec /\ (OneWorker \/ [][NoShortcut]_vars) => ...`, where `NoShortcut` forbids
`ResumeInStep` and nothing else: any number of workers keep order and capacity unless
one resumes a reviewed job inside a step, and `OneWorkerHasNoShortcut` proves that a
scope served by one worker never sees that step (nobody is attached to a job that
waits for review, `NobodyOnReview`). The invariant `Order` has two parts: `InTurn`,
that whoever runs or is about to start has everything before it ended and that the
places behind the front fit the limit; and `ReadHolds`, that what an operation has
read of the jobs, which workers advance without the scope lock, stays true until it
acts on it: a job that has ended does not come back except by a claim, which takes
the lock. Here too a lemma per variable says which steps move it (`StageMove`,
`AttachMove`, ...), and each part of the invariant is argued from the moves.

`WorkspaceRunProofs` proves, for any number of units, repairs and setbacks,
`RunTypeOK`, `VerdictIsEarned`, `GoodWorkSurvives` and `JobIsNotAhead`. Assumption:
`RunBounds`. A call promises the versions of the run that its writes pass through,
and may die between any two of them, so the invariant is about *paths*: every
version of `pending` is `Sound` by itself and keeps what the one before it had
(`Path`). Each call is shown to set out on such a path from the run it finds; then
`Write` and `Dies` need no argument of their own.

`ContentSupportProofs` proves, for any number of copies, makers, readers, faults and
any expiry, `NoBytesWithoutDecision` and `CopiesAreAccountedFor`. Assumption:
`SupportBounds`. The first holds because decisions only end (`DecisionsOnlyEnd`): a
second look that succeeds vouches for the moment of the reading before it
(`Decisions`). The second needs to know who can still write: `Fencing` says that under
the fence, and for ever once the run's content is gone, only late makers have got
past the point where a bundle is written, because they need the one to get past the
guard and the other to read. So what a pass lists is all there is (`NothingMissed`),
and what the audit says of the support target stays true after the fence is lifted
(`StatusIsTrue`). `OthersDisturbNothing` is the frame lemma for every other call.

`DeletionProofs` proves, for either backend and any number of deleters, deletion
identities, cleanups, submissions and faults, all the safety properties of the `deletion`
run: types, `CompleteMeansGone`, `HeldFilesSurvive`, `OnlyThePlannedGeneration` and
`RemovalIsFenced` (the run has one deleter, one cleanup and one identity). Assumptions:
`DeletionBounds` and `NoneIsNoAudit`. The difficulty is the lock: cleanup unlinks its
name, so that one caller may hold the old file and another the new one. The
invariant therefore does not say that one caller holds the lock but that two
callers hold different files and that whoever has a file other than the named one
guards a workspace of which nothing is left (`Locking`); to such a run nothing comes
back but a late charge (`BareStays`). With that, a product write while a pass is
under way is either impossible or finds nothing to change (`Undisturbed`), and the
rest follows a pass from its plan (`Plans`) over its targets (`Progress`, `Knows`,
`LeavesNew`) under the fence (`Fences`) to what its audit promises (`Completions`). A
cleanup may unlink any audit at any time: all that `Fences` says of a pass in a scope
is that its own audit is in progress or gone, never one that blocks or completes the
deletion, and what keeps the run undisturbed when it is gone is the lock
(`NobodyHolds`, `Undisturbed`, `LifeStays`), not the fence. `CleaningMoves` is all that
the other lemmas need to know of a cleanup.
`QuietMoves`, `WritingMoves` and `OwnMoves` reduce the actions to a few kinds of move;
the lemmas about the parts of the invariant argue about those.

Only model-checked: the liveness properties (`CancellationIsAcknowledged`,
`JobSettles`, `WaitingJobsMoveOn`, `EndedRunIsDeleted`, `TranslationEnds`,
`CompletionIsReported`, `ExpiredBytesGo`), which rest on fairness and are beyond the
prover. Every invariant, action property and refinement that a passing run checks is
also a theorem.

## 6. Not modelled, and why

The OpenCode bootstrap with its key hand-off and the promotion of a champion have
state of their own and would be the next modules; initialisation of the rollout
control plane is a finished result here. Policies and budgets enter as outcomes.
Document validators and hashing (certification, evidence adapters, release
governance, identity) are functions of their input without state, and most of the
source by length: they, the text heuristics, OCR, rendering and layout are why the
models stand for a tenth of the implementation only. The evaluation harness and the
host plugin are beside the product.
