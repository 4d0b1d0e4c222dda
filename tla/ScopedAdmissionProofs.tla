------------------------- MODULE ScopedAdmissionProofs -------------------------
(***************************************************************************)
(* Theorems about ScopedAdmission and their proofs.  The first part holds  *)
(* for any number of jobs, workers and crashes: types, sequences, mirrors  *)
(* that can be read back, and the contract of every job.  The second part  *)
(* is about the order and the capacity of the queue, which hold as long as *)
(* no worker resumes a reviewed job inside a step (ResumeInStep), and so   *)
(* for every scope that one worker serves.                                 *)
(***************************************************************************)
EXTENDS ScopedAdmission, FiniteSetTheorems, TLAPS

-----------------------------------------------------------------------------
(* The inductive invariant of the first part *)

\* The records: finitely many, with a highest sequence, no sequence twice.
Numbered ==
  /\ IsFiniteSet(Recorded)
  /\ Recorded # {} => \E j \in Recorded : \A i \in Recorded : records[i] <= records[j]
  /\ SequencesAreUnique

\* A job file is made only for a recorded job.
FilesAreRecorded == \A j \in Jobs : stage[j] # None => j \in Recorded

\* The step an operation takes next, once its mirror writes are made.
Step == IF op.pc \in {"control", "queue"} THEN op.then ELSE op.pc

\* What each step needs to know of its caller.
OpKnows ==
  /\ op.pc \in {"control", "queue"} => op.then \in {"free", "submit", "claim", "status"}
  /\ Step \in {"submit", "create", "admit", "readmit", "claim", "release", "cancel",
               "withdraw"} => op.job \in Jobs
  /\ Step \in {"claim", "next", "release"} => op.worker \in Workers
  /\ Step = "next" => op.state.active # None

\* A state that agrees with the records.
Fitting(s) ==
  /\ s \in QueueState
  /\ s.entries = Recorded
  /\ s.active \in Recorded \cup {None}
  /\ s.next # 0
  /\ \A j \in Recorded : records[j] < s.next

\* The state an operation carries agrees with the records; between the record of
\* a new job and its entry it agrees with all others.
StateFits ==
  /\ op.pc \in {"submit", "readmit", "claim", "next", "release", "status", "control",
                "queue"} => Fitting(op.state)
  /\ op.pc \in {"create", "admit"} => op.job \in Recorded
  /\ op.pc = "create" => stage[op.job] = None

OpFits == op \in Operation /\ OpKnows /\ StateFits

Base == TypeOK /\ Numbered /\ FilesAreRecorded /\ OpFits /\ StatesAreReadable

-----------------------------------------------------------------------------
(* Operators on sets of sequences and on queue states *)

\* The limit of the queue is a number.
LEMMA LimitIsNat == MaxQueued \in Nat /\ 0 <= MaxQueued
BY MaxQueuedAssumption

\* The higher of two numbers.
LEMMA HighestOfTwo ==
  ASSUME NEW a \in Nat, NEW b \in Nat
  PROVE  /\ Highest({a, b}) \in Nat
         /\ a <= Highest({a, b}) /\ b <= Highest({a, b})
<1> DEFINE S == {a, b}
<1>1. \E n \in S : \A m \in S : m <= n
  <2>1. CASE a <= b
    BY <2>1
  <2>2. CASE ~(a <= b)
    BY <2>2
  <2> QED
    BY <2>1, <2>2
<1>2. /\ (CHOOSE n \in S : \A m \in S : m <= n) \in S
      /\ \A m \in S : m <= (CHOOSE n \in S : \A m1 \in S : m1 <= n)
  BY <1>1
<1>3. Highest(S) = CHOOSE n \in S : \A m \in S : m <= n
  BY DEF Highest
<1> QED
  BY <1>2, <1>3

\* The highest recorded sequence.
LEMMA HighestRecorded ==
  ASSUME TypeOK, Numbered
  PROVE  /\ Highest({records[j] : j \in Recorded}) \in Nat
         /\ \A j \in Recorded : records[j] <= Highest({records[i] : i \in Recorded})
<1> DEFINE S == {records[j] : j \in Recorded}
<1>1. S \subseteq Nat
  BY DEF TypeOK, Recorded
<1>2. CASE Recorded = {}
  BY <1>2 DEF Highest
<1>3. CASE Recorded # {}
  <2>1. PICK j \in Recorded : \A i \in Recorded : records[i] <= records[j]
    BY <1>3 DEF Numbered
  <2>2. records[j] \in S /\ \A m \in S : m <= records[j]
    BY <2>1
  <2>3. /\ (CHOOSE n \in S : \A m \in S : m <= n) \in S
        /\ \A m \in S : m <= (CHOOSE n \in S : \A m1 \in S : m1 <= n)
    BY <2>2
  <2>4. Highest(S) = CHOOSE n \in S : \A m \in S : m <= n
    BY <2>2 DEF Highest
  <2>5. \A i \in Recorded : records[i] \in S
    OBVIOUS
  <2>6. Highest(S) \in S /\ \A m \in S : m <= Highest(S)
    BY <2>3, <2>4
  <2> HIDE DEF S
  <2>7. Highest(S) \in Nat /\ \A i \in Recorded : records[i] <= Highest(S)
    BY <1>1, <2>5, <2>6
  <2> QED
    BY <2>7 DEF S
<1> QED
  BY <1>2, <1>3

\* The first live entry is an entry, or there is none.
LEMMA FirstLiveIs ==
  ASSUME NEW entries
  PROVE  \/ FirstLive(entries) = None
         \/ /\ FirstLive(entries) \in entries
            /\ stage[FirstLive(entries)] \in UnderWay
            /\ \A i \in entries : Before(i, FirstLive(entries)) => stage[i] \in Ended
<1> DEFINE eligible == {j \in entries : /\ stage[j] \in UnderWay
                                        /\ \A i \in entries : Before(i, j) => stage[i] \in Ended}
<1>1. CASE eligible = {}
  BY <1>1 DEF FirstLive
<1>2. CASE eligible # {}
  <2>1. (CHOOSE j \in eligible : TRUE) \in eligible
    BY <1>2
  <2>2. FirstLive(entries) = CHOOSE j \in eligible : TRUE
    BY <1>2 DEF FirstLive
  <2>3. FirstLive(entries) \in eligible
    BY <2>1, <2>2
  <2> QED
    BY <2>3
<1> QED
  BY <1>1, <1>2

\* Normalising makes any state agree with the records, with the first live job
\* as the active one.
LEMMA NormalizedFits ==
  ASSUME TypeOK, Numbered, NEW s \in QueueState
  PROVE  Fitting(Normalized(s)) /\ Normalized(s).active = FirstLive(Recorded)
<1> DEFINE H == Highest({records[j] : j \in Recorded}) + 1
           n == Highest({s.next, H})
           wanted == [revision |-> s.revision, active |-> FirstLive(Recorded),
                      entries |-> Recorded, next |-> n]
<1>1. H \in Nat \ {0} /\ \A j \in Recorded : records[j] < H
  <2>1. \A j \in Recorded : records[j] \in Nat
    BY DEF TypeOK, Recorded
  <2> DEFINE x == Highest({records[j] : j \in Recorded})
  <2>2. x \in Nat /\ \A j \in Recorded : records[j] <= x
    BY HighestRecorded
  <2> HIDE DEF x
  <2>3. x + 1 \in Nat \ {0} /\ \A j \in Recorded : records[j] < x + 1
    BY <2>1, <2>2
  <2> QED
    BY <2>3 DEF x
<1>2. s.revision \in Nat /\ s.next \in Nat
  BY DEF QueueState
<1> HIDE DEF H
<1>3. n \in Nat /\ H <= n /\ n # 0
  BY <1>1, <1>2, HighestOfTwo
<1>4. \A j \in Recorded : records[j] < n
  <2>1. \A j \in Recorded : records[j] \in Nat
    BY DEF TypeOK, Recorded
  <2> HIDE DEF n
  <2> QED
    BY <1>1, <1>3, <2>1
<1>5. FirstLive(Recorded) \in Recorded \cup {None}
  BY FirstLiveIs
<1>6. Recorded \subseteq Jobs
  BY DEF Recorded
<1> DEFINE next(r) == [revision |-> r, active |-> FirstLive(Recorded),
                       entries |-> Recorded, next |-> n]
<1>7. \A r \in Nat : next(r) \in QueueState
  <2> HIDE DEF n
  <2> QED
    BY <1>3, <1>5, <1>6 DEF QueueState
<1>8. Normalized(s) = next(s.revision) \/ Normalized(s) = next(s.revision + 1)
  BY DEF Normalized, H
<1>9. s.revision + 1 \in Nat
  BY <1>2
<1>10. PICK r \in Nat : Normalized(s) = next(r)
  BY <1>2, <1>8, <1>9
<1>11. /\ Normalized(s) \in QueueState
       /\ Normalized(s).entries = Recorded
       /\ Normalized(s).active = FirstLive(Recorded)
       /\ Normalized(s).next = n
  BY <1>7, <1>10
<1>12. n # 0
  BY <1>3
<1> HIDE DEF n, next
<1> QED
  BY <1>4, <1>5, <1>11, <1>12 DEF Fitting

\* Whatever the mirrors hold, a queue state is loaded.
LEMMA LoadedIs ==
  ASSUME TypeOK, Numbered
  PROVE  Loaded \in QueueState
<1>1. Recovered \in QueueState
  <2>1. Highest({records[j] : j \in Recorded}) + 1 \in Nat
    BY HighestRecorded
  <2>2. Recorded \subseteq Jobs
    BY DEF Recorded
  <2> QED
    BY <2>1, <2>2 DEF Recovered, QueueState
<1> QED
  BY <1>1 DEF Loaded, TypeOK
-----------------------------------------------------------------------------

(* Moves: what one step does to the operation in flight *)

\* A fresh operation knows its caller and carries a state that fits.
LEMMA FreeFits ==
  ASSUME op' = Free, None \notin Jobs
  PROVE  OpFits'
<1>1. Empty \in QueueState
  BY DEF Empty, QueueState
<1>2. Free \in Operation /\ Free.pc = "free"
  BY <1>1 DEF Free, Operation, OpStep
<1> QED
  BY <1>2 DEF OpFits, OpKnows, StateFits, Step

\* The lock is taken: the state is loaded and normalised.
LEMMA LockMove ==
  ASSUME Base, NEW step, NEW j, NEW w, NEW pc, NEW then, Locked(step, j, w, pc, then)
  PROVE  /\ op.pc = "free"
         /\ op'.job = j /\ op'.worker = w
         /\ op'.state = Normalized(Loaded)
         /\ Fitting(op'.state)
         /\ op'.state.active = FirstLive(Recorded)
         /\ \/ op'.pc = pc /\ op'.then = then
            \/ op'.pc = step /\ op'.then = "free"
         /\ op' = [pc |-> op'.pc, job |-> j, worker |-> w, state |-> op'.state,
                   then |-> op'.then]
<1>1. Loaded \in QueueState
  BY LoadedIs DEF Base
<1>2. Fitting(Normalized(Loaded)) /\ Normalized(Loaded).active = FirstLive(Recorded)
  BY <1>1, NormalizedFits DEF Base
<1> QED
  BY <1>2 DEF Locked

\* A submission, a claim by name or a status report begins.
LEMMA BeginMove ==
  ASSUME Base, NEW step \in {"submit", "claim", "status"},
         NEW j \in Jobs \cup {None}, NEW w \in Workers \cup {None},
         step \in {"submit", "claim"} => j \in Jobs, step = "claim" => w \in Workers,
         Begin(step, j, w), records' = records, stage' = stage
  PROVE  OpFits' /\ Step' = step /\ Step' # "next"
<1>1. /\ op'.job = j /\ op'.worker = w
      /\ Fitting(op'.state)
      /\ \/ op'.pc = "control" /\ op'.then = step
         \/ op'.pc = step /\ op'.then = "free"
      /\ op' = [pc |-> op'.pc, job |-> j, worker |-> w, state |-> op'.state,
                then |-> op'.then]
  BY LockMove DEF Begin
<1>2. Fitting(op.state)' /\ op'.state \in QueueState
  BY <1>1 DEF Fitting, Recorded
<1>3. op' \in Operation
  BY <1>1, <1>2 DEF Operation, OpStep
<1>4. OpKnows' /\ Step' = step
  BY <1>1 DEF OpKnows, Step
<1>5. StateFits'
  BY <1>1, <1>2 DEF StateFits
<1> QED
  BY <1>3, <1>4, <1>5 DEF OpFits

\* claim_next or the release of a slot begins.
LEMMA ConsiderMove ==
  ASSUME Base, NEW step \in {"next", "release"},
         NEW j \in Jobs \cup {None}, NEW w \in Workers,
         step = "release" => j \in Jobs,
         step = "next" => Normalized(Loaded).active # None,
         Consider(step, j, w), records' = records, stage' = stage
  PROVE  OpFits' /\ op'.pc = step
<1>1. /\ op'.job = j /\ op'.worker = w
      /\ op'.state = Normalized(Loaded)
      /\ Fitting(op'.state)
      /\ op'.pc = step /\ op'.then \in {"free", "control"}
      /\ op' = [pc |-> op'.pc, job |-> j, worker |-> w, state |-> op'.state,
                then |-> op'.then]
  BY LockMove DEF Consider
<1>2. Fitting(op.state)' /\ op'.state \in QueueState
  BY <1>1 DEF Fitting, Recorded
<1>3. op' \in Operation
  BY <1>1, <1>2 DEF Operation, OpStep
<1>4. OpKnows'
  BY <1>1 DEF OpKnows, Step
<1>5. StateFits'
  BY <1>1, <1>2 DEF StateFits
<1> QED
  BY <1>1, <1>3, <1>4, <1>5 DEF OpFits

\* An operation that has decided ends, or persists first what it has normalised.
LEMMA ConcludeMove ==
  ASSUME Base, Conclude(op.state), Fitting(op.state), records' = records
  PROVE  OpFits' /\ (op' = Free \/ (op'.pc = "control" /\ op'.then = "free"))
<1>1. CASE op.then = "free"
  BY <1>1, FreeFits, NoneIsNothing DEF Conclude
<1>2. CASE op.then # "free"
  <2>1. Persist(op.state, "free")
    BY <1>2 DEF Conclude, Persist
  <2>2. Fitting(op.state)' <=> Fitting(op'.state)
    BY DEF Fitting, Recorded
  <2>3. op'.state = op.state
    BY <2>1 DEF Persist, Base, TypeOK, Operation
  <2>4. op \in Operation /\ op.state \in QueueState
    BY DEF Base, TypeOK, Fitting
  <2>5. /\ op'.pc = "control" /\ op'.then = "free"
        /\ op' \in Operation
    BY <2>1, <2>4 DEF Persist, Operation, OpStep
  <2>6. OpKnows' /\ StateFits'
    BY <2>2, <2>3, <2>5 DEF OpKnows, Step, StateFits
  <2> QED
    BY <2>5, <2>6 DEF OpFits
<1> QED
  BY <1>1, <1>2
-----------------------------------------------------------------------------

(* Part one: types, sequences, mirrors that can be read back *)

\* The records change only when a submission takes its sequence.
LEMMA RecordsMove ==
  ASSUME Base, [Next]_vars
  PROVE  records' = records \/ AdmitRecord
BY DEF Next, OperationStep, WorkOn, Advance, vars, jobFiles, mirrors, WriteControl, WriteQueue,
       SubmitRefused, CreateStore, AdmitEntry, ReconcileStore, ReadmitEntry, ClaimLive,
       ClaimReview, ClaimRefused, AttachNext, EndStatus, EndRelease, WithdrawWaiting,
       PersistWithdrawal, CrashOperation, ReadQueue, Submit, RequestCancellation,
       ClaimNext, Release, Detach, Claim, BeginJob, FinishJob, FailJob, AcknowledgeJob,
       EndJob, ResumeInStep, RepeatEnd

\* A place among the queued jobs is taken with the next sequence.
LEMMA AdmitMove ==
  ASSUME Base, AdmitRecord
  PROVE  /\ op.job \in Jobs /\ op.job \notin Recorded
         /\ Fitting(op.state)
         /\ op.state.next \in Nat \ {0}
         /\ records' \in [Jobs -> Nat]
         /\ \A j \in Jobs : records'[j] = IF j = op.job THEN op.state.next ELSE records[j]
         /\ Recorded' = Recorded \cup {op.job}
<1>1. op.pc = "submit" /\ records[op.job] = 0 /\ records' = [records EXCEPT ![op.job] = op.state.next]
  BY DEF AdmitRecord
<1>2. op.job \in Jobs /\ Fitting(op.state)
  BY <1>1 DEF Base, OpFits, OpKnows, StateFits, Step
<1>3. records \in [Jobs -> Nat]
  BY DEF Base, TypeOK
<1>4. op.state.next \in Nat \ {0}
  BY <1>2 DEF Fitting, QueueState
<1>5. op.job \notin Recorded
  BY <1>1 DEF Recorded
<1> QED
  BY <1>1, <1>2, <1>3, <1>4, <1>5 DEF Recorded
-----------------------------------------------------------------------------

\* The new sequence is the highest, and nobody else has it.
LEMMA NumberedKept ==
  ASSUME Base, [Next]_vars
  PROVE  Numbered'
<1>1. CASE records' = records
  BY <1>1 DEF Base, Numbered, SequencesAreUnique, Recorded
<1>2. CASE AdmitRecord
  <2>1. /\ op.job \in Jobs /\ op.job \notin Recorded
        /\ Fitting(op.state)
        /\ op.state.next \in Nat \ {0}
        /\ \A j \in Jobs : records'[j] = IF j = op.job THEN op.state.next ELSE records[j]
        /\ Recorded' = Recorded \cup {op.job}
    BY <1>2, AdmitMove
  <2>2. IsFiniteSet(Recorded')
    <3>1. IsFiniteSet(Recorded)
      BY DEF Base, Numbered
    <3> QED
      BY <2>1, <3>1, FS_AddElement
  <2>3. /\ \A i \in Recorded : i \in Jobs /\ records[i] \in Nat /\ records[i] < op.state.next
        /\ \A i, j \in Recorded : records[i] = records[j] => i = j
    BY <2>1 DEF Base, TypeOK, Numbered, SequencesAreUnique, Fitting, Recorded
  <2>4. /\ \A i \in Recorded : records'[i] = records[i]
        /\ records'[op.job] = op.state.next
    BY <2>1, <2>3
  <2>5. \A i \in Recorded' : records'[i] <= records'[op.job]
    BY <2>1, <2>3, <2>4
  <2>6. \A i, j \in Recorded' : records'[i] = records'[j] => i = j
    BY <2>1, <2>3, <2>4
  <2> QED
    BY <2>1, <2>2, <2>5, <2>6 DEF Numbered, SequencesAreUnique
<1> QED
  BY <1>1, <1>2, RecordsMove

\* The ways in which a job file changes.
JobFileMade(j) ==
  /\ op.pc \in {"create", "submit"} /\ j = op.job /\ j \in Recorded /\ op' # op
  /\ stage[j] = None
  /\ SetStage(j, "waiting")
JobAdvanced(j) ==
  /\ \E w \in Workers : Attached(w, j)
  /\ stage[j] \in UnderWay
  /\ \/ SetStage(j, "running") /\ j \notin canceling /\ stage[j] = "waiting"
     \/ \E s \in {"done", "review"} : SetStage(j, s) /\ j \notin canceling /\ stage[j] = "running"
     \/ SetStage(j, "failed") /\ j \notin canceling
     \/ SetStage(j, "canceled") /\ j \in canceling
JobWithdrawn(j) ==
  /\ op.pc = "cancel" /\ j = op.job
  /\ stage[j] = "waiting"
  /\ SetStage(j, "canceled")

\* Job files change in no other way.
LEMMA StageMove ==
  ASSUME Base, [Next]_vars
  PROVE  \/ stage' = stage
         \/ ClaimReview
         \/ \E w \in Workers, j \in Jobs : ResumeInStep(w, j)
         \/ \E j \in Jobs : JobFileMade(j) \/ JobAdvanced(j) \/ JobWithdrawn(j)
<1>1. CASE CreateStore
  <2>1. op.pc = "create" /\ op.job \in Recorded /\ op.job \in Jobs /\ stage[op.job] = None
    BY <1>1 DEF CreateStore, Recorded, Base, OpFits, OpKnows, StateFits, Step
  <2>2. op'.pc = "admit"
    BY <1>1 DEF CreateStore, Base, TypeOK, Operation
  <2> QED
    BY <1>1, <2>1, <2>2 DEF CreateStore, JobFileMade, SetStage
<1>2. CASE ReconcileStore
  <2>1. op.pc = "submit" /\ op.job \in Recorded /\ op.job \in Jobs /\ stage[op.job] = None
    BY <1>2 DEF ReconcileStore, Recorded, Base, OpFits, OpKnows, StateFits, Step
  <2>2. op'.pc = "readmit"
    BY <1>2 DEF ReconcileStore, Base, TypeOK, Operation
  <2> QED
    BY <1>2, <2>1, <2>2 DEF ReconcileStore, JobFileMade, SetStage
<1>3. CASE WithdrawWaiting
  <2>1. op.pc = "cancel" /\ op.job \in Jobs
    BY <1>3 DEF WithdrawWaiting, Base, OpFits, OpKnows, Step
  <2> QED
    BY <1>3, <2>1 DEF WithdrawWaiting, JobWithdrawn
<1>4. ASSUME NEW w \in Workers, NEW j \in Jobs, Advance(w, j)
      PROVE  JobAdvanced(j)
  <2>1. Attached(w, j)
    BY <1>4 DEF Advance, BeginJob, FinishJob, FailJob, AcknowledgeJob, EndJob
  <2>2. CASE BeginJob(w, j)
    BY <2>1, <2>2 DEF BeginJob, JobAdvanced, UnderWay
  <2>3. CASE FinishJob(w, j)
    BY <2>1, <2>3 DEF FinishJob, EndJob, JobAdvanced, UnderWay
  <2>4. CASE FailJob(w, j)
    BY <2>1, <2>4 DEF FailJob, EndJob, JobAdvanced
  <2>5. CASE AcknowledgeJob(w, j)
    BY <2>1, <2>5 DEF AcknowledgeJob, EndJob, JobAdvanced
  <2> QED
    BY <1>4, <2>2, <2>3, <2>4, <2>5 DEF Advance
<1> QED
  BY <1>1, <1>2, <1>3, <1>4
     DEF Next, OperationStep, WorkOn, vars, jobFiles, mirrors, WriteControl, WriteQueue,
         AdmitRecord, SubmitRefused, AdmitEntry, ReadmitEntry, ClaimLive, ClaimRefused,
         AttachNext, EndStatus, EndRelease, PersistWithdrawal, CrashOperation, ReadQueue,
         Submit, RequestCancellation, ClaimNext, Release, Detach, Claim, RepeatEnd

\* A job file that is there stays there, and a new one is of a recorded job.
LEMMA FilesKept ==
  ASSUME Base, [Next]_vars
  PROVE  /\ stage' \in [Jobs -> Stage \cup {None}]
         /\ \A j \in Jobs : stage[j] # None => stage'[j] # None
         /\ op.pc = "create" /\ op' = op => stage'[op.job] = None
<1>0. stage \in [Jobs -> Stage \cup {None}]
  BY DEF Base, TypeOK
<1>1. None \notin Stage /\ UnderWay \subseteq Stage /\ "waiting" # None
  BY NoneIsNothing DEF Stage, UnderWay
<1> DEFINE Moved(j, s) == SetStage(j, s) /\ s \in Stage
           Shown == /\ stage' \in [Jobs -> Stage \cup {None}]
                    /\ \A j \in Jobs : stage[j] # None => stage'[j] # None
                    /\ op.pc = "create" /\ op' = op => stage'[op.job] = None
<1>2. CASE stage' = stage
  BY <1>0, <1>2 DEF Base, OpFits, StateFits
<1>3. op.pc = "create" => stage[op.job] = None /\ op.job \in Jobs
  BY DEF Base, OpFits, OpKnows, StateFits, Step
<1>4. ASSUME NEW j \in Jobs, NEW s, Moved(j, s), stage[j] # None \/ op' # op
      PROVE  Shown
  BY <1>0, <1>1, <1>3, <1>4 DEF SetStage
<1>5. CASE ClaimReview
  <2>1. op.pc = "claim" /\ op.job \in Jobs
    BY <1>5 DEF ClaimReview, Base, OpFits, OpKnows, Step
  <2>2. Moved(op.job, "running") /\ stage[op.job] # None
    BY <1>1, <1>5 DEF ClaimReview, SetStage, Stage, UnderWay
  <2>3. Shown
    BY <1>4, <2>1, <2>2
  <2> QED
    BY <2>3
<1>6. ASSUME NEW w \in Workers, NEW j \in Jobs, ResumeInStep(w, j)
      PROVE  Shown
  <2>1. Moved(j, "running") /\ stage[j] # None
    BY <1>1, <1>6 DEF ResumeInStep, Stage, UnderWay
  <2> HIDE DEF Moved, Shown
  <2> QED
    BY <1>4, <2>1
<1>7. ASSUME NEW j \in Jobs, JobFileMade(j) \/ JobAdvanced(j) \/ JobWithdrawn(j)
      PROVE  Shown
  <2>1. \E s : Moved(j, s)
    BY <1>7 DEF JobFileMade, JobAdvanced, JobWithdrawn, Stage, UnderWay
  <2>2. stage[j] # None \/ op' # op
    BY <1>1, <1>7 DEF JobFileMade, JobAdvanced, JobWithdrawn
  <2> HIDE DEF Moved, Shown
  <2> QED
    BY <1>4, <2>1, <2>2
<1> QED
  BY <1>2, <1>5, <1>6, <1>7, StageMove
-----------------------------------------------------------------------------

\* A successor is an entry that is under way, with nothing live before it.
LEMMA NextLiveIs ==
  ASSUME NEW s, NEW j
  PROVE  \/ NextLive(s, j) = None
         \/ /\ NextLive(s, j) \in s.entries \ {j}
            /\ stage[NextLive(s, j)] \in UnderWay
            /\ \A k \in s.entries \ {j} : Before(k, NextLive(s, j)) => stage[k] \in Ended
<1> DEFINE live == {i \in Reached(s, j) : stage[i] \in UnderWay}
<1>1. CASE live = {}
  BY <1>1 DEF NextLive
<1>2. CASE live # {}
  <2>1. (CHOOSE i \in live : TRUE) \in live
    BY <1>2
  <2>2. NextLive(s, j) = CHOOSE i \in live : TRUE
    BY <1>2 DEF NextLive
  <2>3. NextLive(s, j) \in live
    BY <2>1, <2>2
  <2> QED
    BY <2>3 DEF Reached
<1> QED
  BY <1>1, <1>2

\* A normalised state fits.
LEMMA NormalizedFitsNext ==
  ASSUME Base, NEW s \in QueueState, records' = records
  PROVE  /\ Fitting(Normalized(s)) /\ Normalized(s) \in QueueState
         /\ \A t : t = Normalized(s) /\ op'.state = t => Fitting(op.state)'
<1>1. Fitting(Normalized(s))
  BY NormalizedFits DEF Base
<1>2. Recorded' = Recorded
  BY DEF Recorded
<1> QED
  BY <1>1, <1>2 DEF Fitting

\* An operation that nobody touches goes on fitting.
LEMMA OpStays ==
  ASSUME Base, [Next]_vars, op' = op, records' = records
  PROVE  OpFits'
<1>1. op.pc = "create" => stage'[op.job] = None
  BY FilesKept
<1>2. Recorded' = Recorded
  BY DEF Recorded
<1>3. OpFits
  BY DEF Base
<1>4. OpKnows'
  BY <1>3 DEF OpFits, OpKnows, Step
<1>5. StateFits'
  BY <1>1, <1>2, <1>3 DEF OpFits, StateFits, Fitting
<1> QED
  BY <1>3, <1>4, <1>5 DEF OpFits

\* The operations of a submission keep an operation that fits.
LEMMA SubmissionFits ==
  ASSUME Base, [Next]_vars,
         \/ AdmitRecord \/ SubmitRefused \/ CreateStore \/ AdmitEntry \/ ReconcileStore
         \/ ReadmitEntry \/ \E j \in Jobs : Submit(j)
  PROVE  OpFits'
<1>0. op \in Operation /\ op.state \in QueueState /\ OpKnows /\ StateFits
  BY DEF Base, OpFits, Operation
<1>1. CASE AdmitRecord
  <2>1. op.pc = "submit" /\ op' = [op EXCEPT !.pc = "create"] /\ stage' = stage
    BY <1>1 DEF AdmitRecord, jobFiles
  <2>2. op' \in Operation /\ op'.pc = "create" /\ op'.job = op.job
    BY <1>0, <2>1 DEF Operation, OpStep
  <2>3. op.job \in Jobs /\ op.job \in Recorded' /\ stage[op.job] = None
    BY <1>1, AdmitMove DEF Base, FilesAreRecorded
  <2> QED
    BY <2>1, <2>2, <2>3 DEF OpFits, OpKnows, StateFits, Step
<1>2. CASE SubmitRefused
  BY <1>2, FreeFits, NoneIsNothing DEF SubmitRefused, Done
<1>3. CASE CreateStore
  <2>1. op.pc = "create" /\ op' = [op EXCEPT !.pc = "admit"] /\ records' = records
    BY <1>3 DEF CreateStore
  <2>2. op' \in Operation /\ op'.pc = "admit" /\ op'.job = op.job
    BY <1>0, <2>1 DEF Operation, OpStep
  <2>3. op.job \in Jobs /\ op.job \in Recorded'
    BY <1>0, <2>1 DEF OpKnows, StateFits, Step, Recorded
  <2> QED
    BY <2>2, <2>3 DEF OpFits, OpKnows, StateFits, Step
<1>4. CASE AdmitEntry
  <2> DEFINE s == [op.state EXCEPT !.next = records[op.job] + 1,
                                   !.entries = op.state.entries \cup {op.job}]
  <2>1. op.pc = "admit" /\ records' = records /\ Persist(Normalized(s), "free")
    BY <1>4 DEF AdmitEntry
  <2>2. op.job \in Jobs /\ records[op.job] + 1 \in Nat
    BY <1>0, <2>1 DEF OpKnows, Step, Base, TypeOK
  <2>3. s \in QueueState
    BY <1>0, <2>2 DEF QueueState
  <2> HIDE DEF s
  <2>4. Fitting(Normalized(s)) /\ Normalized(s) \in QueueState
    BY <2>1, <2>3, NormalizedFitsNext
  <2>5. op'.state = Normalized(s)
    BY <1>0, <2>1 DEF Persist, Operation
  <2>6. Fitting(op.state)'
    BY <2>1, <2>3, <2>5, NormalizedFitsNext
  <2> QED
    BY <1>0, <2>1, <2>4, <2>5, <2>6 DEF Persist, OpFits, OpKnows, StateFits, Step, Operation, OpStep
<1>5. CASE ReconcileStore
  <2>1. op.pc = "submit" /\ op' = [op EXCEPT !.pc = "readmit"] /\ records' = records
    BY <1>5 DEF ReconcileStore
  <2>2. op' \in Operation /\ op'.pc = "readmit" /\ op'.job = op.job /\ op'.state = op.state
    BY <1>0, <2>1 DEF Operation, OpStep
  <2>3. op.job \in Jobs /\ Fitting(op.state)
    BY <1>0, <2>1 DEF OpKnows, StateFits, Step
  <2>4. Fitting(op.state)'
    BY <2>1, <2>2, <2>3 DEF Fitting, Recorded
  <2> QED
    BY <2>2, <2>3, <2>4 DEF OpFits, OpKnows, StateFits, Step
<1>6. CASE ReadmitEntry
  <2> DEFINE s == [op.state EXCEPT !.next = Highest({op.state.next, records[op.job] + 1})]
  <2>1. /\ op.pc = "readmit" /\ records' = records
        /\ Done \/ Persist(Normalized(s), "free")
    BY <1>6 DEF ReadmitEntry
  <2>2. op.job \in Jobs /\ records[op.job] + 1 \in Nat /\ op.state.next \in Nat
    BY <1>0, <2>1 DEF OpKnows, Step, Base, TypeOK, QueueState
  <2>3. s \in QueueState
    BY <1>0, <2>2, HighestOfTwo DEF QueueState
  <2> HIDE DEF s
  <2>4. CASE Persist(Normalized(s), "free")
    <3>1. Fitting(Normalized(s)) /\ Normalized(s) \in QueueState
      BY <2>1, <2>3, NormalizedFitsNext
    <3>2. op'.state = Normalized(s)
      BY <1>0, <2>4 DEF Persist, Operation
    <3>3. Fitting(op.state)'
      BY <2>1, <2>3, <3>2, NormalizedFitsNext
    <3> QED
      BY <1>0, <2>4, <3>1, <3>2, <3>3 DEF Persist, OpFits, OpKnows, StateFits, Step, Operation, OpStep
  <2> QED
    BY <2>1, <2>4, FreeFits, NoneIsNothing DEF Done
<1>7. ASSUME NEW j \in Jobs, Submit(j)
      PROVE  OpFits'
  <2>1. Begin("submit", j, None) /\ records' = records /\ stage' = stage
    BY <1>7 DEF Submit, jobFiles
  <2> QED
    BY <2>1, BeginMove
<1> QED
  BY <1>1, <1>2, <1>3, <1>4, <1>5, <1>6, <1>7
-----------------------------------------------------------------------------

\* The state that a handover persists.
LEMMA HandOverMove ==
  ASSUME Base, Fitting(op.state), NEW j \in Recorded \cup {None}, records' = records,
         Persist([op.state EXCEPT !.revision = op.state.revision + 1, !.active = j], "free")
  PROVE  OpFits' /\ op'.pc = "control" /\ op'.then = "free"
<1> DEFINE t == [op.state EXCEPT !.revision = op.state.revision + 1, !.active = j]
<1>0. op \in Operation
  BY DEF Base, OpFits
<1>1. /\ op.state.revision + 1 \in Nat /\ j \in Jobs \cup {None}
      /\ op.state \in QueueState
  BY DEF Fitting, QueueState, Recorded
<1>2. t \in QueueState
  BY <1>1 DEF QueueState
<1>3. /\ op' = [op EXCEPT !.pc = "control", !.state = t, !.then = "free"]
  BY DEF Persist
<1>4. op' \in Operation /\ op'.pc = "control" /\ op'.then = "free" /\ op'.state = t
  BY <1>0, <1>2, <1>3 DEF Operation, OpStep
<1>5. t.entries = op.state.entries /\ t.next = op.state.next /\ t.active = j
  BY <1>1 DEF QueueState
<1>6. Fitting(op.state)'
  BY <1>2, <1>4, <1>5 DEF Fitting, Recorded
<1> QED
  BY <1>4, <1>6 DEF OpFits, OpKnows, StateFits, Step

\* claim, claim_next, the report and the release of a slot keep an operation that
\* fits.
LEMMA SlotOperationFits ==
  ASSUME Base, [Next]_vars,
         \/ ClaimLive \/ ClaimReview \/ ClaimRefused \/ AttachNext \/ EndStatus \/ EndRelease
         \/ ReadQueue
         \/ \E w \in Workers : ClaimNext(w) \/ Release(w) \/ \E j \in Jobs : Claim(w, j)
  PROVE  OpFits'
<1>0. /\ op \in Operation /\ OpKnows /\ StateFits
      /\ None \notin Jobs /\ None \notin Workers
  BY NoneIsNothing DEF Base, OpFits
<1>1. CASE ClaimLive \/ ClaimRefused \/ EndStatus
  BY <1>0, <1>1, FreeFits DEF ClaimLive, ClaimRefused, EndStatus, Done
<1>2. CASE ClaimReview
  <2>1. /\ op.pc = "claim" /\ stage[op.job] = "review" /\ records' = records
        /\ Persist([op.state EXCEPT !.revision = op.state.revision + 1, !.active = op.job], "free")
    BY <1>2 DEF ClaimReview
  <2>2. op.job \in Jobs /\ Fitting(op.state)
    BY <1>0, <2>1 DEF OpKnows, StateFits, Step
  <2>3. "review" # None
    BY NoneIsNothing DEF Stage
  <2>4. op.job \in Recorded
    BY <2>1, <2>2, <2>3 DEF Base, FilesAreRecorded
  <2> QED
    BY <2>1, <2>2, <2>4, HandOverMove
<1>3. CASE AttachNext
  <2> DEFINE next == NextLive(op.state, op.state.active)
  <2>1. /\ op.pc = "next" /\ records' = records
        /\ \/ Conclude(op.state)
           \/ Done
           \/ /\ next # None
              /\ Persist([op.state EXCEPT !.revision = op.state.revision + 1, !.active = next], "free")
    BY <1>3 DEF AttachNext
  <2>2. Fitting(op.state)
    BY <1>0, <2>1 DEF StateFits
  <2>3. next = None \/ next \in op.state.entries
    BY NextLiveIs
  <2>4. next \in Recorded \cup {None}
    BY <2>2, <2>3 DEF Fitting
  <2> HIDE DEF next
  <2> QED
    BY <1>0, <2>1, <2>2, <2>4, HandOverMove, ConcludeMove, FreeFits DEF Done
<1>4. CASE EndRelease
  <2> DEFINE next == NextLive(op.state, op.job)
  <2>1. /\ op.pc = "release" /\ records' = records
        /\ \/ Conclude(op.state)
           \/ Done
           \/ Persist([op.state EXCEPT !.revision = op.state.revision + 1, !.active = next], "free")
    BY <1>4 DEF EndRelease
  <2>2. Fitting(op.state)
    BY <1>0, <2>1 DEF StateFits
  <2>3. next = None \/ next \in op.state.entries
    BY NextLiveIs
  <2>4. next \in Recorded \cup {None}
    BY <2>2, <2>3 DEF Fitting
  <2> HIDE DEF next
  <2> QED
    BY <1>0, <2>1, <2>2, <2>4, HandOverMove, ConcludeMove, FreeFits DEF Done
<1>5. CASE ReadQueue
  BY <1>5, BeginMove DEF ReadQueue, jobFiles
<1>6. ASSUME NEW w \in Workers, ClaimNext(w)
      PROVE  OpFits'
  BY <1>6, ConsiderMove DEF ClaimNext, jobFiles
<1>7. ASSUME NEW w \in Workers, Release(w)
      PROVE  OpFits'
  <2>1. worker[w].pc = "release" /\ worker[w] \in WorkerState
    BY <1>7 DEF Release, Base, TypeOK
  <2>2. worker[w].job \in Jobs
    BY <2>1 DEF WorkerState, Detached
  <2>3. Consider("release", worker[w].job, w) /\ records' = records /\ stage' = stage
    BY <1>7 DEF Release, jobFiles
  <2> QED
    BY <2>2, <2>3, ConsiderMove
<1>8. ASSUME NEW w \in Workers, NEW j \in Jobs, Claim(w, j)
      PROVE  OpFits'
  BY <1>8, BeginMove DEF Claim, jobFiles
<1> QED
  BY <1>1, <1>2, <1>3, <1>4, <1>5, <1>6, <1>7, <1>8

\* The mirror writes, a cancellation and a crash keep an operation that fits.
LEMMA OtherOperationFits ==
  ASSUME Base, [Next]_vars,
         \/ WriteControl \/ WriteQueue \/ CrashOperation \/ WithdrawWaiting
         \/ PersistWithdrawal \/ \E j \in Jobs : RequestCancellation(j)
  PROVE  OpFits'
<1>0. /\ op \in Operation /\ OpKnows /\ StateFits
      /\ None \notin Jobs
  BY NoneIsNothing DEF Base, OpFits
<1>1. CASE WriteControl
  <2>1. op.pc = "control" /\ op' = [op EXCEPT !.pc = "queue"] /\ records' = records
    BY <1>1 DEF WriteControl
  <2>2. /\ op' \in Operation /\ op'.pc = "queue" /\ op'.then = op.then
        /\ op'.job = op.job /\ op'.worker = op.worker /\ op'.state = op.state
    BY <1>0, <2>1 DEF Operation, OpStep
  <2>3. Fitting(op.state)'
    BY <1>0, <2>1, <2>2 DEF StateFits, Fitting, Recorded
  <2>4. OpKnows'
    BY <1>0, <2>1, <2>2 DEF OpKnows, Step
  <2> QED
    BY <2>2, <2>3, <2>4 DEF OpFits, StateFits
<1>2. CASE WriteQueue
  <2>1. op.pc = "queue" /\ records' = records /\ op.then \in {"free", "submit", "claim", "status"}
    BY <1>0, <1>2 DEF WriteQueue, OpKnows
  <2>2. CASE op.then = "free"
    BY <1>0, <1>2, <2>2, FreeFits DEF WriteQueue
  <2>3. CASE op.then # "free"
    <3>1. op' = [op EXCEPT !.pc = op.then]
      BY <1>2, <2>3 DEF WriteQueue
    <3>2. /\ op' \in Operation /\ op'.pc = op.then /\ op'.then = op.then
          /\ op'.job = op.job /\ op'.worker = op.worker /\ op'.state = op.state
      BY <1>0, <2>1, <3>1 DEF Operation, OpStep
    <3>3. Fitting(op.state)'
      BY <1>0, <2>1, <3>2 DEF StateFits, Fitting, Recorded
    <3>4. OpKnows'
      BY <1>0, <2>1, <2>3, <3>2 DEF OpKnows, Step
    <3> QED
      BY <2>1, <3>2, <3>3, <3>4 DEF OpFits, StateFits
  <2> QED
    BY <2>2, <2>3
<1>3. CASE CrashOperation
  BY <1>0, <1>3, FreeFits DEF CrashOperation
<1>4. CASE WithdrawWaiting
  <2>1. CASE op' = Free
    BY <1>0, <2>1, FreeFits
  <2>2. CASE op' # Free
    <3>1. op.pc = "cancel" /\ op' = [op EXCEPT !.pc = "withdraw"]
      BY <1>4, <2>2 DEF WithdrawWaiting, Done
    <3>2. op' \in Operation /\ op'.pc = "withdraw" /\ op'.job = op.job
      BY <1>0, <3>1 DEF Operation, OpStep
    <3>3. op.job \in Jobs
      BY <1>0, <3>1 DEF OpKnows, Step
    <3> QED
      BY <3>2, <3>3 DEF OpFits, OpKnows, StateFits, Step
  <2> QED
    BY <2>1, <2>2
<1>5. CASE PersistWithdrawal
  <2>1. records' = records /\ (Done \/ Persist(Normalized(Loaded), "free"))
    BY <1>5 DEF PersistWithdrawal
  <2>2. CASE Persist(Normalized(Loaded), "free")
    <3>1. Loaded \in QueueState
      BY LoadedIs DEF Base
    <3>2. Normalized(Loaded) \in QueueState
      BY <2>1, <3>1, NormalizedFitsNext
    <3>3. op'.state = Normalized(Loaded)
      BY <1>0, <2>2 DEF Persist, Operation
    <3>4. Fitting(op.state)'
      BY <2>1, <3>1, <3>3, NormalizedFitsNext
    <3> QED
      BY <1>0, <2>2, <3>2, <3>4 DEF Persist, OpFits, OpKnows, StateFits, Step, Operation, OpStep
  <2> QED
    BY <1>0, <2>1, <2>2, FreeFits DEF Done
<1>6. ASSUME NEW j \in Jobs, RequestCancellation(j)
      PROVE  OpFits'
  <2>1. CASE op' = Free
    BY <1>0, <2>1, FreeFits
  <2>2. CASE op' # Free
    <3>1. PICK pc \in {"cancel", "withdraw"} : op' = [Free EXCEPT !.pc = pc, !.job = j]
      BY <1>6, <2>2 DEF RequestCancellation, UnderWay
    <3>2. Empty \in QueueState
      BY DEF Empty, QueueState
    <3>3. op' \in Operation /\ op'.pc = pc /\ op'.job = j /\ op'.then = "free"
      BY <3>1, <3>2 DEF Free, Operation, OpStep
    <3> QED
      BY <3>3 DEF OpFits, OpKnows, StateFits, Step
  <2> QED
    BY <2>1, <2>2
<1> QED
  BY <1>1, <1>2, <1>3, <1>4, <1>5, <1>6

\* Every step leaves an operation that fits.
LEMMA OperationFits ==
  ASSUME Base, [Next]_vars
  PROVE  OpFits'
<1>1. CASE op' = op /\ records' = records
  BY <1>1, OpStays
<1>2. ASSUME NEW w \in Workers,
             Detach(w) \/ \E j \in Jobs : WorkOn(w, j)
      PROVE  op' = op /\ records' = records
  BY <1>2 DEF Detach, WorkOn, Advance, BeginJob, FinishJob, FailJob, AcknowledgeJob, EndJob,
              ResumeInStep, RepeatEnd
<1>3. UNCHANGED vars => op' = op /\ records' = records
  BY DEF vars
<1> QED
  BY <1>1, <1>2, <1>3, SubmissionFits, SlotOperationFits, OtherOperationFits
     DEF Next, OperationStep
-----------------------------------------------------------------------------

\* What changes what the workers hold.
LEMMA WorkerMove ==
  ASSUME [Next]_vars
  PROVE  \/ worker' = worker
         \/ ClaimLive \/ ClaimReview \/ AttachNext \/ EndRelease \/ CrashOperation
         \/ \E w \in Workers : Detach(w) \/ \E j \in Jobs : WorkOn(w, j)
BY DEF Next, OperationStep, vars, jobFiles, mirrors, WriteControl, WriteQueue, AdmitRecord,
       SubmitRefused, CreateStore, AdmitEntry, ReconcileStore, ReadmitEntry, ClaimRefused,
       EndStatus, WithdrawWaiting, PersistWithdrawal, ReadQueue, Submit,
       RequestCancellation, ClaimNext, Release, Claim

\* Workers attach to jobs that the queue names.
LEMMA WorkersTyped ==
  ASSUME Base, [Next]_vars
  PROVE  worker' \in [Workers -> WorkerState]
<1> DEFINE Typed == worker' \in [Workers -> WorkerState]
<1>0. /\ worker \in [Workers -> WorkerState] /\ OpKnows /\ StateFits
      /\ None \notin Jobs
  BY NoneIsNothing DEF Base, TypeOK, OpFits
<1>1. ASSUME NEW w \in Workers, NEW s \in WorkerState, worker' = [worker EXCEPT ![w] = s]
      PROVE  Typed
  BY <1>0, <1>1
<1>2. Detached \in WorkerState /\ \A j \in Jobs : [pc |-> "attached", job |-> j] \in WorkerState
  BY DEF WorkerState
<1>3. ASSUME NEW w \in Workers, NEW j \in Jobs, Attach(w, j)
      PROVE  Typed
  BY <1>0, <1>2, <1>3 DEF Attach
<1>4. ASSUME NEW w \in Workers, NEW j \in Jobs, Attached(w, j),
             worker' = [worker EXCEPT ![w].pc = "release"]
      PROVE  Typed
  <2>1. [worker[w] EXCEPT !.pc = "release"] = [pc |-> "release", job |-> j]
    BY <1>4 DEF Attached
  <2>2. [pc |-> "release", job |-> j] \in WorkerState
    BY DEF WorkerState
  <2>3. worker' = [worker EXCEPT ![w] = [worker[w] EXCEPT !.pc = "release"]]
    BY <1>4
  <2> QED
    BY <1>0, <2>1, <2>2, <2>3
<1>5. worker' = worker => Typed
  BY <1>0
<1> SUFFICES Typed
  OBVIOUS
<1> HIDE DEF Typed
<1>6. CASE ClaimLive \/ ClaimReview
  <2>1. op.job \in Jobs /\ op.worker \in Workers
    BY <1>0, <1>6 DEF ClaimLive, ClaimReview, OpKnows, Step
  <2> QED
    BY <1>3, <1>6, <2>1 DEF ClaimLive, ClaimReview
<1>7. CASE AttachNext
  <2>1. op.pc = "next"
    BY <1>7 DEF AttachNext
  <2>2. op.worker \in Workers /\ op.state.active # None /\ Fitting(op.state)
    BY <1>0, <2>1 DEF OpKnows, StateFits, Step
  <2>3. Recorded \subseteq Jobs
    BY DEF Recorded
  <2>4. op.state.active \in Jobs
    BY <2>2, <2>3 DEF Fitting
  <2>5. NextLive(op.state, op.state.active) \in Jobs \cup {None}
    BY <2>2, <2>3, NextLiveIs DEF Fitting
  <2>6. \/ Attach(op.worker, op.state.active)
        \/ worker' = worker
        \/ /\ NextLive(op.state, op.state.active) # None
           /\ Attach(op.worker, NextLive(op.state, op.state.active))
    BY <1>7 DEF AttachNext
  <2> QED
    BY <1>3, <1>5, <2>2, <2>4, <2>5, <2>6
<1>8. CASE EndRelease
  <2>1. op.worker \in Workers
    BY <1>0, <1>8 DEF EndRelease, OpKnows, Step
  <2>2. worker' = [worker EXCEPT ![op.worker] = Detached]
    BY <1>8 DEF EndRelease
  <2> QED
    BY <1>1, <1>2, <2>1, <2>2
<1>9. CASE CrashOperation
  <2>1. op.worker \in Workers \cup {None}
    BY DEF Base, TypeOK, Operation
  <2>2. worker' = worker \/ (op.worker \in Workers /\ worker' = [worker EXCEPT ![op.worker] = Detached])
    BY <1>9, <2>1 DEF CrashOperation
  <2> QED
    BY <1>1, <1>2, <1>5, <2>2
<1>10. ASSUME NEW w \in Workers, Detach(w)
       PROVE  Typed
  BY <1>1, <1>2, <1>10 DEF Detach
<1>11. ASSUME NEW w \in Workers, NEW j \in Jobs, WorkOn(w, j)
       PROVE  Typed
  BY <1>4, <1>5, <1>11
     DEF WorkOn, Advance, BeginJob, FinishJob, FailJob, AcknowledgeJob, EndJob, ResumeInStep,
         RepeatEnd
<1> QED
  BY <1>5, <1>6, <1>7, <1>8, <1>9, <1>10, <1>11, WorkerMove

\* Only the two mirror writes change a mirror, and they write a state that fits.
LEMMA MirrorMove ==
  ASSUME Base, [Next]_vars
  PROVE  \/ control' = control /\ queue' = queue
         \/ /\ Fitting(op.state) /\ records' = records
            /\ \/ control' = op.state /\ queue' = queue
               \/ control' = control /\ queue' = op.state
<1>1. CASE WriteControl \/ WriteQueue
  <2>1. op.pc \in {"control", "queue"}
    BY <1>1 DEF WriteControl, WriteQueue
  <2>2. Fitting(op.state)
    BY <2>1 DEF Base, OpFits, StateFits
  <2> QED
    BY <1>1, <2>2 DEF WriteControl, WriteQueue
<1> QED
  BY <1>1
     DEF Next, OperationStep, WorkOn, Advance, vars, jobFiles, mirrors, AdmitRecord,
         SubmitRefused, CreateStore, AdmitEntry, ReconcileStore, ReadmitEntry, ClaimLive,
         ClaimReview, ClaimRefused, AttachNext, EndStatus, EndRelease, WithdrawWaiting,
         PersistWithdrawal, CrashOperation, ReadQueue, Submit, RequestCancellation,
         ClaimNext, Release, Detach, Claim, BeginJob, FinishJob, FailJob, AcknowledgeJob,
         EndJob, ResumeInStep, RepeatEnd

\* What a mirror must be to be read back.
Readable(s) ==
  /\ s.active \in s.entries \cup {None}
  /\ s.entries \subseteq Recorded
  /\ \A j \in s.entries : records[j] < s.next

\* A sequence, once given, does not change, so a readable mirror stays readable.
LEMMA MirrorsStayReadable ==
  ASSUME Base, [Next]_vars
  PROVE  StatesAreReadable'
<1>1. \A s \in {control, queue} \ {None} : s \in QueueState /\ Readable(s)
  BY DEF Base, TypeOK, StatesAreReadable, Readable
<1>2. \A s : Fitting(s) => s \in QueueState /\ Readable(s)
  BY DEF Fitting, Readable
<1>3. \A s \in {control', queue'} \ {None} : s \in QueueState /\ Readable(s)
  BY <1>1, <1>2, MirrorMove
<1>4. \A s \in {control', queue'} \ {None} :
        /\ s.active \in s.entries \cup {None}
        /\ s.entries \subseteq Recorded'
        /\ \A j \in s.entries : records'[j] < s.next
  <2> SUFFICES ASSUME NEW s \in {control', queue'} \ {None}
               PROVE  /\ s.active \in s.entries \cup {None}
                      /\ s.entries \subseteq Recorded'
                      /\ \A j \in s.entries : records'[j] < s.next
    OBVIOUS
  <2>1. s \in QueueState /\ Readable(s)
    BY <1>3
  <2>2. CASE records' = records
    BY <2>1, <2>2 DEF Readable, Recorded
  <2>3. CASE AdmitRecord
    <3>1. \A i \in Recorded : records'[i] = records[i] /\ i \in Recorded'
      BY <2>3, AdmitMove DEF Recorded
    <3> QED
      BY <2>1, <3>1 DEF Readable
  <2> QED
    BY <2>2, <2>3, RecordsMove
<1> QED
  BY <1>4 DEF StatesAreReadable
-----------------------------------------------------------------------------

\* The invariant of the first part holds at the start...
LEMMA BaseInit == Init => Base
<1> SUFFICES ASSUME Init
             PROVE  Base
  OBVIOUS
<1>1. Recorded = {} /\ \A j \in Jobs : stage[j] = None
  BY DEF Init, Recorded
<1>2. op \in Operation /\ op.pc = "free"
  <2>1. Empty \in QueueState
    BY DEF Empty, QueueState
  <2> QED
    BY <2>1 DEF Init, Free, Operation, OpStep
<1>3. TypeOK
  BY <1>2 DEF Init, TypeOK, WorkerState
<1>4. Numbered
  BY <1>1, FS_EmptySet DEF Numbered, SequencesAreUnique
<1>5. OpFits
  BY <1>2 DEF OpFits, OpKnows, StateFits, Step
<1>6. FilesAreRecorded /\ StatesAreReadable
  BY <1>1 DEF FilesAreRecorded, StatesAreReadable, Init
<1> QED
  BY <1>3, <1>4, <1>5, <1>6 DEF Base

\* ...and every step keeps it.
LEMMA BaseStep ==
  ASSUME Base, [Next]_vars
  PROVE  Base'
<1>1. OpFits' /\ Numbered' /\ StatesAreReadable'
  BY OperationFits, NumberedKept, MirrorsStayReadable
<1>2. TypeOK'
  <2>1. records' \in [Jobs -> Nat]
    BY RecordsMove, AdmitMove DEF Base, TypeOK
  <2>2. canceling' \subseteq Jobs
    BY DEF Base, TypeOK, Next, OperationStep, WorkOn, Advance, vars, jobFiles, mirrors,
           WriteControl, WriteQueue, AdmitRecord, SubmitRefused, CreateStore, AdmitEntry,
           ReconcileStore, ReadmitEntry, ClaimLive, ClaimReview, ClaimRefused, AttachNext,
           EndStatus, EndRelease, WithdrawWaiting, PersistWithdrawal, CrashOperation,
           ReadQueue, Submit, RequestCancellation, ClaimNext, Release, Detach, Claim,
           BeginJob, FinishJob, FailJob, AcknowledgeJob, EndJob, ResumeInStep, RepeatEnd
  <2>3. control' \in QueueState \cup {None} /\ queue' \in QueueState \cup {None}
    BY MirrorMove DEF Base, TypeOK, Fitting
  <2> QED
    BY <1>1, <2>1, <2>2, <2>3, FilesKept, WorkersTyped DEF TypeOK, OpFits
<1>3. FilesAreRecorded'
  <2> SUFFICES ASSUME NEW j \in Jobs, stage'[j] # None
               PROVE  j \in Recorded'
    BY DEF FilesAreRecorded
  <2>1. Recorded \subseteq Recorded'
    BY RecordsMove, AdmitMove DEF Recorded
  <2>2. CASE stage[j] # None
    BY <2>1, <2>2 DEF Base, FilesAreRecorded
  <2>3. CASE stage[j] = None
    <3>1. stage \in [Jobs -> Stage \cup {None}] /\ None \notin Stage
      BY NoneIsNothing DEF Base, TypeOK
    <3>2. ~ClaimReview \/ op.job # j
      BY <2>3, <3>1 DEF ClaimReview, Stage
    <3>3. \A w \in Workers : ~ResumeInStep(w, j)
      BY <2>3, <3>1 DEF ResumeInStep, Stage
    <3>4. ~JobAdvanced(j) /\ ~JobWithdrawn(j)
      BY <2>3, <3>1 DEF JobAdvanced, JobWithdrawn, Stage, UnderWay
    <3>5. JobFileMade(j)
      BY <2>3, <3>1, <3>2, <3>3, <3>4, StageMove
         DEF ClaimReview, ResumeInStep, JobFileMade, JobAdvanced, JobWithdrawn, SetStage
    <3> QED
      BY <2>1, <3>5 DEF JobFileMade
  <2> QED
    BY <2>2, <2>3
<1> QED
  BY <1>1, <1>2, <1>3 DEF Base

\* Every reachable state has the invariant of the first part.
THEOREM BaseHolds == Spec => []Base
<1>1. Init => Base
  BY BaseInit
<1>2. Base /\ [Next]_vars => Base'
  BY BaseStep
<1> QED
  BY <1>1, <1>2, PTL DEF Spec

\* Whatever workers, callers and crashes do, every variable keeps its type: no
\* operation acts on a job or a worker that it does not know.
THEOREM ScopedTypeCorrect == Spec => []TypeOK
<1>1. Base => TypeOK
  BY DEF Base
<1> QED
  BY <1>1, BaseHolds, PTL

\* The sequence of a job is its own, whatever crash separates the admission record
\* from the job file and from the mirrors (_submit_scoped).
THEOREM SequencesUnique == Spec => []SequencesAreUnique
<1>1. Base => SequencesAreUnique
  BY DEF Base, Numbered
<1> QED
  BY <1>1, BaseHolds, PTL

\* At whatever step the process dies, each mirror can be read back
\* (_scoped_control_from_dict).
THEOREM StatesReadable == Spec => []StatesAreReadable
<1>1. Base => StatesAreReadable
  BY DEF Base
<1> QED
  BY <1>1, BaseHolds, PTL
-----------------------------------------------------------------------------
(* The contract of every job *)

\* Nothing is canceled, and no cancellation is under way, unless it was asked for.
Asked ==
  /\ \A j \in Jobs : stage[j] = "canceled" => j \in canceling
  /\ op.pc \in {"cancel", "withdraw"} => op.job \in canceling

\* A cancellation is asked for once the job has its file and has not ended
\* otherwise.
LEMMA CancelingMove ==
  ASSUME Base, [Next]_vars
  PROVE  \/ canceling' = canceling
         \/ \E j \in Jobs : RequestCancellation(j)
BY DEF Next, OperationStep, WorkOn, Advance, vars, jobFiles, mirrors,
       WriteControl, WriteQueue, AdmitRecord, SubmitRefused, CreateStore, AdmitEntry,
       ReconcileStore, ReadmitEntry, ClaimLive, ClaimReview, ClaimRefused, AttachNext,
       EndStatus, EndRelease, WithdrawWaiting, PersistWithdrawal, CrashOperation,
       ReadQueue, Submit, ClaimNext, Release, Detach, Claim,
       BeginJob, FinishJob, FailJob, AcknowledgeJob, EndJob, ResumeInStep, RepeatEnd

\* Nothing is canceled at the start...
LEMMA AskedInit == Init => Asked
BY NoneIsNothing DEF Init, Asked, Free, Stage

\* Who takes an operation to a cancellation.
LEMMA CancelStarts ==
  ASSUME Base, [Next]_vars, op'.pc \in {"cancel", "withdraw"}
  PROVE  \/ op' = op
         \/ WithdrawWaiting
         \/ \E j \in Jobs : RequestCancellation(j)
<1>0. OpKnows /\ op \in Operation
  BY DEF Base, OpFits
<1>1. op'.pc # "control" /\ op' # Free
  BY DEF Free
<1>2. \A s, step : ~Persist(s, step)
  BY <1>0, <1>1 DEF Persist, Operation
<1>3. \A s : ~Conclude(s)
  BY <1>0, <1>1 DEF Conclude, Operation
<1>4. \A step \in {"submit", "claim", "status", "next", "release"} : \A j, w :
        ~Begin(step, j, w) /\ ~Consider(step, j, w)
  BY DEF Begin, Consider, Locked
<1>5. ~WriteControl /\ ~AdmitRecord /\ ~CreateStore /\ ~ReconcileStore
  BY <1>0 DEF WriteControl, AdmitRecord, CreateStore, ReconcileStore, Operation
<1>6. ~WriteQueue
  BY <1>0, <1>1 DEF WriteQueue, OpKnows, Operation
<1> QED
  BY <1>1, <1>2, <1>3, <1>4, <1>5, <1>6
     DEF Next, OperationStep, WorkOn, Advance, vars, Done,
         SubmitRefused, AdmitEntry, ReadmitEntry, ClaimLive, ClaimReview, ClaimRefused,
         AttachNext, EndStatus, EndRelease, PersistWithdrawal, CrashOperation,
         ReadQueue, Submit, ClaimNext, Release, Detach, Claim,
         BeginJob, FinishJob, FailJob, AcknowledgeJob, EndJob, ResumeInStep, RepeatEnd

\* ...and every cancellation was asked for.
LEMMA AskedStep ==
  ASSUME Base, Asked, [Next]_vars
  PROVE  Asked'
<1>0. /\ stage \in [Jobs -> Stage \cup {None}] /\ OpKnows /\ op \in Operation
  BY DEF Base, TypeOK, OpFits
<1>1. canceling \subseteq canceling'
  BY CancelingMove DEF RequestCancellation
<1>2. ASSUME NEW j \in Jobs, stage'[j] = "canceled"
      PROVE  j \in canceling'
  <2>1. CASE stage[j] = "canceled"
    BY <1>1, <2>1 DEF Asked
  <2>2. CASE stage[j] # "canceled"
    <3>1. JobAdvanced(j) \/ JobWithdrawn(j)
      BY <1>0, <1>2, <2>2, StageMove
         DEF ClaimReview, ResumeInStep, JobFileMade, JobAdvanced, JobWithdrawn, SetStage
    <3>2. CASE JobAdvanced(j)
      BY <1>0, <1>1, <1>2, <3>2 DEF JobAdvanced, SetStage
    <3>3. CASE JobWithdrawn(j)
      BY <1>1, <3>3 DEF JobWithdrawn, Asked
    <3> QED
      BY <3>1, <3>2, <3>3
  <2> QED
    BY <2>1, <2>2
<1>3. ASSUME op'.pc \in {"cancel", "withdraw"}
      PROVE  op'.job \in canceling'
  <2>1. CASE op' = op
    BY <1>1, <1>3, <2>1 DEF Asked
  <2>2. CASE op' # op
    <3>1. WithdrawWaiting \/ \E j \in Jobs : RequestCancellation(j)
      BY <1>3, <2>2, CancelStarts
    <3>2. CASE WithdrawWaiting
      <4>1. op.pc = "cancel" /\ op' = [op EXCEPT !.pc = "withdraw"]
        BY <1>3, <3>2 DEF WithdrawWaiting, Done, Free
      <4> QED
        BY <1>0, <1>1, <4>1 DEF Asked, Operation
    <3>3. ASSUME NEW j \in Jobs, RequestCancellation(j)
          PROVE  op'.job \in canceling'
      BY <1>3, <3>3 DEF RequestCancellation, Free
    <3> QED
      BY <3>1, <3>2, <3>3
  <2> QED
    BY <2>1, <2>2
<1> QED
  BY <1>2, <1>3 DEF Asked
-----------------------------------------------------------------------------

\* A change of one job file is a step of the contract of that job, and leaves the
\* others alone.
LEMMA ContractStep ==
  ASSUME Base, Base', Asked, [Next]_vars, NEW j \in Jobs
  PROVE  [Contract(j)!Next]_(Contract(j)!vars)
<1>0. /\ stage \in [Jobs -> Stage \cup {None}] /\ stage' \in [Jobs -> Stage \cup {None}]
      /\ None \notin Stage
  BY NoneIsNothing DEF Base, TypeOK
<1>1. CASE stage'[j] = stage[j] /\ (j \in canceling' <=> j \in canceling)
  <2>1. UNCHANGED Contract(j)!vars
    BY <1>1 DEF Contract!vars
  <2> QED
    BY <2>1
<1>2. CASE \E i \in Jobs : RequestCancellation(i)
  <2>1. PICK i \in Jobs : RequestCancellation(i)
    BY <1>2
  <2>2. /\ stage' = stage /\ canceling' = canceling \cup {i}
        /\ stage[i] \in UnderWay \cup {"canceled"}
    BY <2>1 DEF RequestCancellation
  <2>3. CASE i # j \/ stage[j] = "canceled"
    BY <1>1, <2>2, <2>3 DEF Asked
  <2>4. CASE i = j /\ stage[j] \in UnderWay
    <3>1. stage[j] # None
      BY <1>0, <2>4 DEF UnderWay, Stage
    <3>2. Contract(j)!AskToCancel
      BY <2>2, <2>4, <3>1 DEF Contract!AskToCancel, Contract!UnderWay, UnderWay
    <3> QED
      BY <3>2 DEF Contract!Next
  <2> QED
    BY <2>2, <2>3, <2>4
<1>3. CASE canceling' = canceling
  <2>1. ASSUME ClaimReview, j = op.job
        PROVE  Contract(j)!Next
    <3>1. stage[j] = "review" /\ stage'[j] = "running" /\ None # "review" /\ None # "running"
      BY <1>0, <2>1 DEF ClaimReview, Stage, UnderWay
    <3>2. Contract(j)!Resume
      BY <1>3, <3>1 DEF Contract!Resume
    <3> QED
      BY <3>2 DEF Contract!Next
  <2>2. ASSUME NEW w \in Workers, ResumeInStep(w, j)
        PROVE  Contract(j)!Next
    <3>1. stage[j] = "review" /\ stage'[j] = "running" /\ None # "review" /\ None # "running"
      BY <1>0, <2>2 DEF ResumeInStep, SetStage, Stage, UnderWay
    <3>2. Contract(j)!Resume
      BY <1>3, <3>1 DEF Contract!Resume
    <3> QED
      BY <3>2 DEF Contract!Next
  <2>3. ASSUME JobFileMade(j)
        PROVE  UNCHANGED Contract(j)!vars
    <3>1. stage[j] = None /\ stage'[j] = "waiting" /\ None # "waiting"
      BY <1>0, <2>3 DEF JobFileMade, SetStage, Stage, UnderWay
    <3> QED
      BY <1>3, <3>1 DEF Contract!vars
  <2>4. ASSUME JobAdvanced(j)
        PROVE  Contract(j)!Next
    <3>1. /\ stage[j] \in UnderWay /\ stage[j] # None /\ stage'[j] # None
          /\ \/ stage'[j] = "running" /\ stage[j] = "waiting"
             \/ stage'[j] \in {"done", "review"} /\ j \notin canceling /\ stage[j] = "running"
             \/ stage'[j] = "failed" /\ j \notin canceling
             \/ stage'[j] = "canceled" /\ j \in canceling
      BY <1>0, <2>4 DEF JobAdvanced, SetStage, Stage, UnderWay
    <3>2. \/ Contract(j)!Begin \/ Contract(j)!End \/ Contract(j)!Fail \/ Contract(j)!Cancel
      BY <1>3, <3>1
         DEF Contract!Begin, Contract!End, Contract!Fail, Contract!Cancel, Contract!UnderWay,
             UnderWay
    <3> QED
      BY <3>2 DEF Contract!Next
  <2>5. ASSUME JobWithdrawn(j)
        PROVE  Contract(j)!Next
    <3>1. /\ stage[j] = "waiting" /\ stage'[j] = "canceled" /\ j \in canceling
          /\ None # "waiting" /\ None # "canceled"
      BY <1>0, <2>5 DEF JobWithdrawn, Asked, SetStage, Stage, UnderWay
    <3>2. Contract(j)!Cancel
      BY <1>3, <3>1 DEF Contract!Cancel, Contract!UnderWay
    <3> QED
      BY <3>2 DEF Contract!Next
  <2>6. \/ stage'[j] = stage[j]
        \/ ClaimReview /\ j = op.job
        \/ \E w \in Workers : ResumeInStep(w, j)
        \/ JobFileMade(j) \/ JobAdvanced(j) \/ JobWithdrawn(j)
    BY <1>0, StageMove
       DEF ClaimReview, ResumeInStep, JobFileMade, JobAdvanced, JobWithdrawn, SetStage
  <2> QED
    BY <1>1, <1>3, <2>1, <2>2, <2>3, <2>4, <2>5, <2>6
<1> QED
  BY <1>2, <1>3, CancelingMove

\* Workers, callers, retries and crashes together keep every job to JobLifecycle:
\* the service cancels nothing that its owner did not ask for and takes up again
\* only what waits for review.
THEOREM ContractsKept == Spec => JobsKeepTheirContract
<1> DEFINE Kept == \A j \in Jobs : [Contract(j)!Next]_(Contract(j)!vars)
<1>1. Init => \A j \in Jobs : Contract(j)!Init
  BY DEF Init, Contract!Init
<1>2. Init => Base /\ Asked
  BY BaseInit, AskedInit
<1>3. Base /\ Asked /\ [Next]_vars => (Base /\ Asked)'
  BY BaseStep, AskedStep
<1>4. Base /\ Asked /\ [Next]_vars => [Kept]_vars
  BY BaseStep, ContractStep
<1> QED
  BY <1>1, <1>2, <1>3, <1>4, PTL DEF Spec, JobsKeepTheirContract
-----------------------------------------------------------------------------

(* The inductive invariant of the second part *)

\* Everything admitted before job j has ended.
Clear(j) == \A i \in Recorded : Before(i, j) => stage[i] \in Ended

\* Job j runs, or a worker is about to start it.
Hot(j) == stage[j] = "running" \/ (stage[j] = "waiting" /\ \E w \in Workers : Attached(w, j))

\* The jobs that take up a place of the scope, and the one whose turn it is.
Held == {j \in Recorded : stage[j] = None \/ stage[j] \in UnderWay}
Front == {j \in Recorded : stage[j] \in UnderWay /\ Clear(j)}

\* Who runs has its turn, and the places behind it are within the limit.
InTurn ==
  /\ \A w \in Workers, j \in Jobs : Attached(w, j) => stage[j] # None
  /\ \A j \in Jobs : Hot(j) => Clear(j)
  /\ Cardinality(Held \ Front) <= MaxQueued

\* What an operation has read of the job files stays true until it acts on it:
\* its active job has its turn, nobody else runs, and a job that takes the free
\* slot leaves the queue within its limit.
ReadHolds ==
  /\ Step \in {"claim", "next", "submit"} /\ op.state.active # None =>
       Clear(op.state.active) /\ stage[op.state.active] # None
  /\ Step = "claim" =>
       /\ \A j \in Jobs : Hot(j) => op.state.active = j
       /\ Cardinality(Held \ {op.state.active}) <= MaxQueued

Order == InTurn /\ ReadHolds

\* No worker resumes a reviewed job inside a step.
NoShortcut == \A w \in Workers, j \in Jobs : ~ResumeInStep(w, j)

-----------------------------------------------------------------------------
(* What a step does to the order *)

\* Two jobs whose turn it is are one job.
LEMMA OneInTurn ==
  ASSUME Base, NEW i \in Recorded, NEW j \in Recorded,
         stage[i] \notin Ended, stage[j] \notin Ended, Clear(i), Clear(j)
  PROVE  i = j
<1>1. records[i] \in Nat /\ records[j] \in Nat
  BY DEF Base, TypeOK, Recorded
<1>2. ~Before(i, j) /\ ~Before(j, i)
  BY DEF Clear
<1>3. records[i] = records[j]
  BY <1>1, <1>2 DEF Before
<1> QED
  BY <1>3 DEF Base, Numbered, SequencesAreUnique

\* A recorded job that is under way and has its turn is the first live one.
LEMMA FirstLiveHasTurn ==
  ASSUME Base, NEW j \in Recorded, stage[j] \in UnderWay, Clear(j)
  PROVE  FirstLive(Recorded) = j
<1> DEFINE eligible == {i \in Recorded : /\ stage[i] \in UnderWay
                                         /\ \A k \in Recorded : Before(k, i) => stage[k] \in Ended}
<1>1. j \in eligible
  BY DEF Clear
<1>2. UnderWay \cap Ended = {}
  BY DEF Ended
<1>3. \A i \in eligible : i = j
  BY <1>1, <1>2, OneInTurn DEF Clear
<1>4. (CHOOSE i \in eligible : TRUE) \in eligible
  BY <1>1
<1>5. FirstLive(Recorded) = CHOOSE i \in eligible : TRUE
  BY <1>1 DEF FirstLive
<1> QED
  BY <1>3, <1>4, <1>5

\* A job that runs, or is about to, is recorded and under way.
LEMMA HotIsUnderWay ==
  ASSUME Base, NEW j \in Jobs, Hot(j)
  PROVE  j \in Recorded /\ stage[j] \in UnderWay
<1>1. stage[j] \in UnderWay
  BY DEF Hot, UnderWay
<1>2. stage[j] # None
  BY <1>1, NoneIsNothing DEF Stage
<1> QED
  BY <1>1, <1>2 DEF Base, FilesAreRecorded

\* A step that takes up no ended job and admits none.
Steady ==
  /\ records' = records
  /\ \A j \in Jobs : /\ stage[j] \in Ended => stage'[j] \in Ended
                     /\ stage[j] # None => stage'[j] # None

\* Only an admission, a claim of a reviewed job and the shortcut are not steady.
LEMMA SteadyStep ==
  ASSUME Base, [Next]_vars, [NoShortcut]_vars
  PROVE  Steady \/ AdmitRecord \/ ClaimReview
<1>0. /\ \A j \in Jobs : stage[j] # None => stage'[j] # None
      /\ stage \in [Jobs -> Stage \cup {None}]
  BY FilesKept DEF Base, TypeOK
<1>1. CASE stage' = stage
  BY <1>0, <1>1, RecordsMove DEF Steady
<1>2. CASE \E w \in Workers, j \in Jobs : ResumeInStep(w, j)
  <2>1. UNCHANGED vars
    BY <1>2 DEF NoShortcut
  <2> QED
    BY <1>1, <2>1 DEF vars, jobFiles
<1>3. CASE \E j \in Jobs : JobFileMade(j) \/ JobAdvanced(j) \/ JobWithdrawn(j)
  <2>1. PICK j \in Jobs : JobFileMade(j) \/ JobAdvanced(j) \/ JobWithdrawn(j)
    BY <1>3
  <2>2. stage[j] \notin Ended
    BY <2>1, NoneIsNothing DEF JobFileMade, JobAdvanced, JobWithdrawn, Ended, UnderWay
  <2>3. \A i \in Jobs : i # j => stage'[i] = stage[i]
    BY <1>0, <2>1 DEF JobFileMade, JobAdvanced, JobWithdrawn, SetStage
  <2>4. \A i \in Jobs : stage[i] \in Ended => stage'[i] \in Ended
    BY <2>2, <2>3
  <2> QED
    BY <1>0, <2>4, RecordsMove DEF Steady
<1> QED
  BY <1>1, <1>2, <1>3, StageMove

\* Everything before job j will have ended.
ClearNext(j) == \A i \in Recorded' : records'[i] < records'[j] => stage'[i] \in Ended

\* Turns are not lost and places are not taken by a steady step.
LEMMA TurnsStay ==
  ASSUME Base, Base', Steady
  PROVE  /\ \A j \in Jobs : Clear(j) => ClearNext(j)
         /\ Held' \subseteq Held
         /\ Held' \ Front' \subseteq Held \ Front
<1>0. /\ Recorded' = Recorded /\ Recorded \subseteq Jobs
      /\ stage \in [Jobs -> Stage \cup {None}] /\ stage' \in [Jobs -> Stage \cup {None}]
  BY DEF Steady, Recorded, Base, TypeOK
<1>1. \A j \in Jobs : Clear(j) => ClearNext(j)
  BY <1>0 DEF Steady, Clear, ClearNext, Before
<1>2. Held' \subseteq Held
  <2> SUFFICES ASSUME NEW j \in Held'
               PROVE  j \in Held
    OBVIOUS
  <2>1. j \in Recorded /\ stage'[j] \notin Ended
    BY <1>0, NoneIsNothing DEF Held, Ended
  <2>2. stage[j] \notin Ended /\ stage[j] \in Stage \cup {None}
    BY <1>0, <2>1 DEF Steady
  <2> QED
    BY <2>1, <2>2 DEF Held, Ended
<1>3. ASSUME NEW j \in Held', j \notin Front', j \in Front
      PROVE  FALSE
  <2>1. j \in Recorded /\ stage[j] \in UnderWay /\ Clear(j)
    BY <1>3 DEF Front
  <2>2. stage'[j] # None
    BY <1>0, <2>1, NoneIsNothing DEF Steady, Stage
  <2>3. stage'[j] \in UnderWay
    BY <1>3, <2>2 DEF Held
  <2>4. ClearNext(j)
    BY <1>0, <1>1, <2>1
  <2>5. j \in Front'
    BY <1>0, <2>1, <2>3, <2>4 DEF Front, Clear, ClearNext, Before
  <2> QED
    BY <1>3, <2>5
<1> QED
  BY <1>1, <1>2, <1>3
-----------------------------------------------------------------------------

\* Who is attached after a step was attached before, or has claimed the job.
LEMMA AttachMove ==
  ASSUME Base, [Next]_vars, NEW w \in Workers, NEW j \in Jobs,
         worker'[w] = [pc |-> "attached", job |-> j]
  PROVE  \/ Attached(w, j)
         \/ ClaimLive /\ j = op.job
         \/ ClaimReview /\ j = op.job
         \/ AttachNext /\ j = op.state.active /\ stage[j] \in UnderWay
         \/ /\ AttachNext /\ j = NextLive(op.state, op.state.active)
            /\ stage[op.state.active] \in Ended
<1>0. worker \in [Workers -> WorkerState] /\ OpKnows
  BY DEF Base, TypeOK, OpFits
<1>1. CASE worker' = worker
  BY <1>1 DEF Attached
<1>2. ASSUME NEW v, NEW i, Attach(v, i)
      PROVE  Attached(w, j) \/ j = i
  <2>1. worker'[w] = IF v = w THEN [pc |-> "attached", job |-> i] ELSE worker[w]
    BY <1>0, <1>2 DEF Attach
  <2> QED
    BY <2>1 DEF Attached
<1>3. ASSUME NEW v, worker' = [worker EXCEPT ![v] = Detached]
      PROVE  Attached(w, j)
  <2>1. worker'[w] = IF v = w THEN Detached ELSE worker[w]
    BY <1>0, <1>3
  <2>2. Detached.pc # "attached"
    BY DEF Detached
  <2> QED
    BY <2>1, <2>2 DEF Attached
<1>4. ASSUME NEW v \in Workers, NEW i \in Jobs, Attached(v, i),
             worker' = [worker EXCEPT ![v].pc = "release"]
      PROVE  Attached(w, j)
  <2>1. worker'[w] = IF v = w THEN [worker[v] EXCEPT !.pc = "release"] ELSE worker[w]
    BY <1>0, <1>4
  <2>2. [worker[v] EXCEPT !.pc = "release"].pc = "release"
    BY <1>4 DEF Attached
  <2> QED
    BY <2>1, <2>2 DEF Attached
<1>5. CASE ClaimLive
  BY <1>2, <1>5 DEF ClaimLive
<1>6. CASE ClaimReview
  BY <1>2, <1>6 DEF ClaimReview
<1>7. CASE AttachNext
  <2>1. \/ stage[op.state.active] \in UnderWay /\ Attach(op.worker, op.state.active)
        \/ worker' = worker
        \/ /\ stage[op.state.active] \in Ended
           /\ Attach(op.worker, NextLive(op.state, op.state.active))
    BY <1>7 DEF AttachNext
  <2> QED
    BY <1>1, <1>2, <1>7, <2>1
<1>8. CASE EndRelease \/ CrashOperation \/ \E v \in Workers : Detach(v)
  BY <1>1, <1>3, <1>8 DEF EndRelease, CrashOperation, Detach
<1>9. ASSUME NEW v \in Workers, NEW i \in Jobs, WorkOn(v, i)
      PROVE  Attached(w, j)
  <2>1. \/ worker' = worker
        \/ Attached(v, i) /\ worker' = [worker EXCEPT ![v].pc = "release"]
    BY <1>9
       DEF WorkOn, Advance, BeginJob, FinishJob, FailJob, AcknowledgeJob, EndJob,
           ResumeInStep, RepeatEnd
  <2>2. CASE worker' = worker
    BY <2>2 DEF Attached
  <2>3. CASE Attached(v, i) /\ worker' = [worker EXCEPT ![v].pc = "release"]
    BY <1>4, <2>3
  <2> QED
    BY <2>1, <2>2, <2>3
<1> QED
  BY <1>1, <1>5, <1>6, <1>7, <1>8, <1>9, WorkerMove

\* What an operation that attaches a worker has read of its active job.
LEMMA ActiveHasTurn ==
  ASSUME Base, Order, op.pc \in {"claim", "next", "submit"}, op.state.active # None
  PROVE  /\ op.state.active \in Recorded /\ op.state.entries = Recorded
         /\ Clear(op.state.active) /\ stage[op.state.active] # None
<1>1. Fitting(op.state)
  BY DEF Base, OpFits, StateFits
<1>2. Step = op.pc
  BY DEF Step
<1> QED
  BY <1>1, <1>2 DEF Fitting, Order, ReadHolds

\* Whoever attaches by claim_next or by a claim of a live job attaches to the job
\* whose turn it is.
LEMMA AttachedHasTurn ==
  ASSUME Base, Order, NEW j \in Jobs, stage[j] # None,
         \/ ClaimLive /\ j = op.job
         \/ AttachNext /\ j = op.state.active
         \/ /\ AttachNext /\ j = NextLive(op.state, op.state.active)
            /\ stage[op.state.active] \in Ended
  PROVE  Clear(j)
<1>0. None \notin Jobs
  BY NoneIsNothing
<1>1. CASE ClaimLive /\ j = op.job
  BY <1>0, <1>1, ActiveHasTurn DEF ClaimLive
<1>2. CASE AttachNext /\ j = op.state.active
  BY <1>0, <1>2, ActiveHasTurn DEF AttachNext
<1>3. CASE /\ AttachNext /\ j = NextLive(op.state, op.state.active)
           /\ stage[op.state.active] \in Ended
  <2>1. op.pc = "next"
    BY <1>3 DEF AttachNext
  <2>2. op.state.active # None
    BY <2>1 DEF Base, OpFits, OpKnows, Step
  <2>3. op.state.entries = Recorded
    BY <2>1, <2>2, ActiveHasTurn
  <2>4. \A k \in Recorded \ {op.state.active} : Before(k, j) => stage[k] \in Ended
    BY <1>0, <1>3, <2>3, NextLiveIs
  <2> QED
    BY <1>3, <2>4 DEF Clear
<1> QED
  BY <1>1, <1>2, <1>3

\* A steady step makes a job hot only if its turn has come.
LEMMA SteadyTurns ==
  ASSUME Base, Base', Order, [Next]_vars, [NoShortcut]_vars, Steady, ~ClaimReview
  PROVE  \A j \in Jobs : Hot(j)' => Clear(j)'
<1> SUFFICES ASSUME NEW j \in Jobs, Hot(j)'
             PROVE  Clear(j)'
  OBVIOUS
<1>0. /\ stage \in [Jobs -> Stage \cup {None}] /\ None \notin Stage
      /\ Clear(j) => Clear(j)'
  BY TurnsStay, NoneIsNothing DEF Base, TypeOK, Clear, ClearNext, Before
<1>1. CASE Hot(j)
  BY <1>0, <1>1 DEF Order, InTurn
<1>2. CASE ~Hot(j)
  <2>1. ~ \E w \in Workers : ResumeInStep(w, j) /\ stage' # stage
    BY DEF NoShortcut, vars, jobFiles
  <2>2. stage'[j] = stage[j] \/ JobFileMade(j) \/ JobAdvanced(j) \/ JobWithdrawn(j)
    BY <1>0, <2>1, StageMove
       DEF ResumeInStep, JobFileMade, JobAdvanced, JobWithdrawn, SetStage
  <2>3. ~JobAdvanced(j) \/ stage'[j] \notin {"waiting", "running"}
    BY <1>0, <1>2 DEF JobAdvanced, SetStage, Hot, UnderWay
  <2>4. ~JobWithdrawn(j)
    BY <1>0 DEF JobWithdrawn, SetStage, Hot
  <2>5. stage'[j] \in {"waiting", "running"}
    BY DEF Hot
  <2>6. stage'[j] = "waiting" /\ (stage[j] = "waiting" \/ stage[j] = None)
    BY <1>0, <1>2, <2>2, <2>3, <2>4, <2>5 DEF JobFileMade, SetStage, Hot
  <2>7. PICK w \in Workers : worker'[w] = [pc |-> "attached", job |-> j]
    BY <2>6 DEF Hot, Attached
  <2>8. ~Attached(w, j)
    BY <1>2, <2>6 DEF Hot, Order, InTurn
  <2>9. \/ ClaimLive /\ j = op.job
        \/ AttachNext /\ j = op.state.active
        \/ /\ AttachNext /\ j = NextLive(op.state, op.state.active)
           /\ stage[op.state.active] \in Ended
    BY <2>7, <2>8, AttachMove
  <2>10. stage' = stage
    BY <2>9 DEF ClaimLive, AttachNext, jobFiles
  <2>11. stage[j] # None
    BY <1>0, <2>6, <2>10 DEF Stage, UnderWay
  <2> QED
    BY <1>0, <2>9, <2>11, AttachedHasTurn
<1> QED
  BY <1>1, <1>2
-----------------------------------------------------------------------------

\* A new place is behind every other.
LEMMA AdmitTurns ==
  ASSUME Base, Base', Order, AdmitRecord
  PROVE  /\ \A j \in Jobs : Hot(j)' => Clear(j)'
         /\ Cardinality(Held \ Front)' <= MaxQueued
<1>1. /\ op.job \in Jobs /\ op.job \notin Recorded
      /\ Fitting(op.state)
      /\ \A j \in Jobs : records'[j] = IF j = op.job THEN op.state.next ELSE records[j]
      /\ Recorded' = Recorded \cup {op.job}
  BY AdmitMove
<1>2. /\ stage' = stage /\ worker' = worker /\ op.pc = "submit"
      /\ Cardinality(Queued(op.state)) < MaxQueued
  BY DEF AdmitRecord, jobFiles
<1>3. /\ Recorded \subseteq Jobs /\ \A j \in Recorded : records[j] \in Nat /\ records[j] < op.state.next
      /\ op.state.next \in Nat
  BY <1>1 DEF Recorded, Base, TypeOK, Fitting, QueueState
<1>4. \A j \in Recorded : Clear(j) => Clear(j)'
  <2> SUFFICES ASSUME NEW j \in Recorded, Clear(j), NEW i \in Recorded', Before(i, j)'
               PROVE  stage'[i] \in Ended
    BY DEF Clear
  <2>1. records'[i] < records[j]
    BY <1>1, <1>3 DEF Before
  <2>2. i # op.job
    BY <1>1, <1>3, <2>1
  <2>3. i \in Recorded /\ Before(i, j)
    BY <1>1, <1>3, <2>1, <2>2 DEF Before
  <2> QED
    BY <1>2, <2>3 DEF Clear
<1>5. ASSUME NEW j \in Jobs, Hot(j)'
      PROVE  Clear(j)'
  <2>1. Hot(j)
    BY <1>2, <1>5 DEF Hot, Attached
  <2> QED
    BY <1>4, <2>1, HotIsUnderWay DEF Order, InTurn
<1>6. Held \ Front \subseteq Queued(op.state)
  <2> SUFFICES ASSUME NEW i \in Held, i \notin Front
               PROVE  i \in Queued(op.state)
    OBVIOUS
  <2>1. i \in op.state.entries /\ i \in Recorded /\ (stage[i] = None \/ stage[i] \in UnderWay)
    BY <1>1 DEF Held, Fitting
  <2>2. i # None
    BY <1>3, <2>1, NoneIsNothing
  <2>3. ASSUME i = op.state.active
        PROVE  FALSE
    <3>1. Clear(i) /\ stage[i] # None
      BY <1>2, <2>2, <2>3, ActiveHasTurn
    <3> QED
      BY <2>1, <3>1 DEF Front
  <2> QED
    BY <2>1, <2>3 DEF Queued
<1>7. IsFiniteSet(Held \ Front) /\ Cardinality(Held \ Front) < MaxQueued
  <2>1. IsFiniteSet(Recorded)
    BY DEF Base, Numbered
  <2>2. Queued(op.state) \in SUBSET Recorded
    BY <1>1 DEF Queued, Fitting
  <2>3. IsFiniteSet(Queued(op.state))
    BY <2>1, <2>2, FS_Subset
  <2>4. /\ IsFiniteSet(Held \ Front)
        /\ Cardinality(Held \ Front) <= Cardinality(Queued(op.state))
    BY <1>6, <2>3, FS_Subset
  <2>5. Cardinality(Held \ Front) \in Nat /\ Cardinality(Queued(op.state)) \in Nat
    BY <2>3, <2>4, FS_CardinalityType
  <2>6. MaxQueued \in Nat
    BY LimitIsNat
  <2>7. \A a, b, m \in Nat : a <= b /\ b < m => a < m
    OBVIOUS
  <2> QED
    BY <1>2, <2>4, <2>5, <2>6, <2>7
<1>8. (Held \ Front)' \subseteq (Held \ Front) \cup {op.job}
  <2> SUFFICES ASSUME NEW i \in Held', i \notin Front', i # op.job
               PROVE  i \in Held \ Front
    OBVIOUS
  <2>1. i \in Recorded /\ (stage[i] = None \/ stage[i] \in UnderWay)
    BY <1>1, <1>2 DEF Held
  <2>2. i \in Held
    BY <2>1 DEF Held
  <2>3. ASSUME i \in Front
        PROVE  FALSE
    <3>1. Clear(i)' /\ stage'[i] \in UnderWay /\ i \in Recorded'
      BY <1>1, <1>2, <1>4, <2>1, <2>3 DEF Front
    <3>2. i \in Front'
      BY <3>1 DEF Front
    <3> QED
      BY <3>2
  <2> QED
    BY <2>2, <2>3
<1>9. Cardinality((Held \ Front)') <= MaxQueued
  <2> DEFINE S == (Held \ Front) \cup {op.job}
  <2>1. IsFiniteSet(S) /\ Cardinality(S) <= Cardinality(Held \ Front) + 1
    <3>1. Cardinality(Held \ Front) \in Nat
      BY <1>7, FS_CardinalityType
    <3>2. IsFiniteSet(S) /\ \/ Cardinality(S) = Cardinality(Held \ Front)
                            \/ Cardinality(S) = Cardinality(Held \ Front) + 1
      BY <1>7, FS_AddElement
    <3> QED
      BY <3>1, <3>2
  <2>2. /\ IsFiniteSet((Held \ Front)')
        /\ Cardinality((Held \ Front)') <= Cardinality(S)
    BY <1>8, <2>1, FS_Subset
  <2>3. /\ Cardinality((Held \ Front)') \in Nat /\ Cardinality(S) \in Nat
        /\ Cardinality(Held \ Front) \in Nat
    BY <1>7, <2>1, <2>2, FS_CardinalityType
  <2>4. MaxQueued \in Nat
    BY LimitIsNat
  <2>5. \A a, b, c, m \in Nat : a <= b /\ b <= c + 1 /\ c < m => a <= m
    OBVIOUS
  <2> HIDE DEF S
  <2> QED
    BY <1>7, <2>1, <2>2, <2>3, <2>4, <2>5
<1> QED
  BY <1>5, <1>9
-----------------------------------------------------------------------------

\* A reviewed job that takes the slot has its turn, and nobody else runs.
LEMMA ResumeTurns ==
  ASSUME Base, Base', Order, [Next]_vars, ClaimReview
  PROVE  /\ \A j \in Jobs : Hot(j)' => Clear(j)'
         /\ Cardinality(Held \ Front)' <= MaxQueued
<1>0. /\ stage \in [Jobs -> Stage \cup {None}] /\ None \notin Jobs /\ None \notin Stage
      /\ IsFiniteSet(Recorded) /\ Recorded \subseteq Jobs
  BY NoneIsNothing DEF Base, TypeOK, Numbered, Recorded
<1>1. /\ op.pc = "claim" /\ stage[op.job] = "review" /\ ResumeAllowed(op.state, op.job)
      /\ stage' = [stage EXCEPT ![op.job] = "running"]
      /\ records' = records
  BY DEF ClaimReview
<1>2. /\ op.job \in Jobs /\ Fitting(op.state) /\ Step = "claim"
  BY <1>1 DEF Base, OpFits, OpKnows, StateFits, Step
<1>3. "review" \in Ended /\ "review" # None /\ "running" \in UnderWay
  BY <1>0 DEF Ended, Stage, UnderWay
<1> PICK c \in Jobs : c = op.job
  BY <1>2
<1>4. c \in Recorded
  BY <1>1, <1>3 DEF Base, FilesAreRecorded
<1>5. \A i \in Recorded : Before(i, c) => stage[i] \in Ended /\ i # c
  <2>1. records[c] \in Nat
    BY <1>2 DEF Base, TypeOK
  <2> QED
    BY <1>1, <1>2, <2>1 DEF ResumeAllowed, Fitting, Before
<1>6. Recorded' = Recorded /\ \A i \in Jobs : stage'[i] = IF i = c THEN "running" ELSE stage[i]
  BY <1>0, <1>1, <1>2 DEF Recorded
<1>7. Clear(c)'
  <2> SUFFICES ASSUME NEW i \in Recorded', Before(i, c)'
               PROVE  stage'[i] \in Ended
    BY DEF Clear
  <2>2. i \in Recorded /\ Before(i, c)
    BY <1>1, <1>6 DEF Before
  <2> QED
    BY <1>0, <1>5, <1>6, <2>2
<1>8. \A j \in Jobs : j # c => ~Hot(j)
  BY <1>0, <1>1, <1>2 DEF Order, ReadHolds, ResumeAllowed
<1>9. ASSUME NEW j \in Jobs, Hot(j)', j # c
      PROVE  FALSE
  <2>1. stage'[j] = stage[j] /\ ~Hot(j)
    BY <1>6, <1>8, <1>9
  <2>2. PICK w \in Workers : worker'[w] = [pc |-> "attached", job |-> j]
    BY <1>9, <2>1 DEF Hot, Attached
  <2>3. ~Attached(w, j)
    BY <1>9, <2>1 DEF Hot
  <2>4. ~ClaimLive /\ ~AttachNext
    BY <1>1 DEF ClaimLive, AttachNext, UnderWay
  <2> QED
    BY <1>9, <2>2, <2>3, <2>4, AttachMove
<1>10. \A j \in Jobs : Hot(j)' => Clear(j)'
  <2> SUFFICES ASSUME NEW j \in Jobs, Hot(j)'
               PROVE  Clear(j)'
    OBVIOUS
  <2>1. j = c
    BY <1>9
  <2> QED
    BY <1>7, <2>1
<1>11. (Held \ Front)' \subseteq Held \ {op.state.active}
  <2> SUFFICES ASSUME NEW i \in Held', i \notin Front'
               PROVE  i \in Held \ {op.state.active}
    OBVIOUS
  <2>2. c \in Front'
    BY <1>3, <1>4, <1>6, <1>7 DEF Front
  <2>3. i # c /\ i \in Recorded /\ stage'[i] = stage[i]
    BY <1>0, <1>6, <2>2 DEF Held
  <2>4. i \in Held
    BY <2>3 DEF Held
  <2>5. i # op.state.active
    BY <1>0, <1>1, <2>3 DEF ResumeAllowed
  <2> QED
    BY <2>4, <2>5
<1>12. Cardinality((Held \ Front)') <= MaxQueued
  <2> DEFINE S == Held \ {op.state.active}
  <2>1. S \in SUBSET Recorded
    BY DEF Held
  <2>2. IsFiniteSet(S)
    BY <1>0, <2>1, FS_Subset
  <2>3. IsFiniteSet((Held \ Front)') /\ Cardinality((Held \ Front)') <= Cardinality(S)
    BY <1>11, <2>2, FS_Subset
  <2>4. Cardinality((Held \ Front)') \in Nat /\ Cardinality(S) \in Nat
    BY <2>2, <2>3, FS_CardinalityType
  <2>5. Cardinality(S) <= MaxQueued
    BY <1>2, Zenon DEF Order, ReadHolds
  <2>6. MaxQueued \in Nat
    BY LimitIsNat
  <2>7. \A a, b, m \in Nat : a <= b /\ b <= m => a <= m
    OBVIOUS
  <2> HIDE DEF S
  <2> QED
    BY <2>3, <2>4, <2>5, <2>6, <2>7
<1> QED
  BY <1>10, <1>12

\* The turns and the places are kept by every step.
LEMMA InTurnStep ==
  ASSUME Base, Base', Order, [Next]_vars, [NoShortcut]_vars
  PROVE  InTurn'
<1>1. \A w \in Workers, j \in Jobs : Attached(w, j)' => stage'[j] # None
  <2> SUFFICES ASSUME NEW w \in Workers, NEW j \in Jobs, Attached(w, j)'
               PROVE  stage'[j] # None
    OBVIOUS
  <2>1. worker'[w] = [pc |-> "attached", job |-> j]
    BY DEF Attached
  <2>2. None \notin Stage /\ None \notin Jobs
    BY NoneIsNothing
  <2>3. CASE Attached(w, j)
    BY <2>3, FilesKept DEF Order, InTurn
  <2>4. CASE ClaimLive /\ j = op.job
    BY <2>2, <2>4, FilesKept DEF ClaimLive, Stage
  <2>5. CASE ClaimReview /\ j = op.job
    BY <2>2, <2>5, FilesKept DEF ClaimReview, Stage, UnderWay
  <2>6. CASE AttachNext /\ j = op.state.active /\ stage[j] \in UnderWay
    BY <2>2, <2>6, FilesKept DEF Stage
  <2>7. CASE AttachNext /\ j = NextLive(op.state, op.state.active)
    <3>1. stage[j] \in UnderWay
      BY <2>2, <2>7, NextLiveIs
    <3> QED
      BY <2>2, <3>1, FilesKept DEF Stage
  <2> QED
    BY <2>1, <2>3, <2>4, <2>5, <2>6, <2>7, AttachMove
<1>2. CASE Steady /\ ~ClaimReview
  <2>1. \A j \in Jobs : Hot(j)' => Clear(j)'
    BY <1>2, SteadyTurns
  <2>2. IsFiniteSet(Recorded) /\ (Held \ Front) \in SUBSET Recorded
    BY DEF Base, Numbered, Held
  <2>3. IsFiniteSet(Held \ Front)
    BY <2>2, FS_Subset
  <2>4. Held' \ Front' \subseteq Held \ Front
    BY <1>2, TurnsStay
  <2>5. /\ IsFiniteSet(Held' \ Front')
        /\ Cardinality(Held' \ Front') <= Cardinality(Held \ Front)
    BY <2>3, <2>4, FS_Subset
  <2>6. Cardinality(Held' \ Front') \in Nat /\ Cardinality(Held \ Front) \in Nat
    BY <2>3, <2>5, FS_CardinalityType
  <2>7. Cardinality(Held \ Front) <= MaxQueued /\ MaxQueued \in Nat
    <3>1. MaxQueued \in Nat
      BY LimitIsNat
    <3> QED
      BY <3>1 DEF Order, InTurn
  <2>8. \A a, b, m \in Nat : a <= b /\ b <= m => a <= m
    OBVIOUS
  <2>9. Cardinality(Held' \ Front') <= MaxQueued
    BY <2>5, <2>6, <2>7, <2>8
  <2> QED
    BY <1>1, <2>1, <2>9 DEF InTurn
<1>3. CASE AdmitRecord
  BY <1>1, <1>3, AdmitTurns DEF InTurn
<1>4. CASE ClaimReview
  BY <1>1, <1>4, ResumeTurns DEF InTurn
<1> QED
  BY <1>2, <1>3, <1>4, SteadyStep
-----------------------------------------------------------------------------

\* What an operation does on its way to a claim or an admission: it has loaded its
\* state just now, it writes its mirrors, or it waits for the workers.
LEMMA ReadMove ==
  ASSUME Base, [Next]_vars, Step' \in {"claim", "next", "submit"}
  PROVE  \/ op' = op
         \/ /\ Step' = Step /\ op'.state = op.state
            /\ UNCHANGED <<records, stage, worker>>
         \/ /\ op'.state.active = FirstLive(Recorded)
            /\ UNCHANGED <<records, stage, worker>>
<1>0. OpKnows /\ op \in Operation
  BY DEF Base, OpFits
<1>1. op' # Free
  BY DEF Free, Step
<1>2. \A s : ~Persist(s, "free")
  BY <1>0 DEF Persist, Operation, Step
<1>3. \A s : ~Conclude(s)
  BY <1>0, <1>1 DEF Conclude, Operation, Step
<1>4. ~AdmitRecord /\ ~CreateStore /\ ~ReconcileStore /\ ~WithdrawWaiting
  BY <1>0, <1>1 DEF AdmitRecord, CreateStore, ReconcileStore, WithdrawWaiting, Done, Operation, Step
<1>5. ASSUME NEW j \in Jobs, RequestCancellation(j)
      PROVE  FALSE
  <2>1. PICK pc \in {"cancel", "withdraw"} : op' = [Free EXCEPT !.pc = pc, !.job = j]
    BY <1>1, <1>5 DEF RequestCancellation, UnderWay
  <2>2. op'.pc = pc
    BY <2>1 DEF Free
  <2> QED
    BY <2>2 DEF Step
<1>6. ASSUME WriteControl \/ WriteQueue
      PROVE  Step' = Step /\ op'.state = op.state /\ UNCHANGED <<records, stage, worker>>
  BY <1>0, <1>1, <1>6 DEF WriteControl, WriteQueue, OpKnows, Operation, Step, jobFiles
<1>7. ASSUME NEW step, NEW j, NEW w, Begin(step, j, w) \/ Consider(step, j, w)
      PROVE  op'.state.active = FirstLive(Recorded)
  BY <1>7, LockMove DEF Begin, Consider
<1> QED
  BY <1>1, <1>2, <1>3, <1>4, <1>5, <1>6, <1>7
     DEF Next, OperationStep, WorkOn, Advance, vars, Done, jobFiles,
         SubmitRefused, AdmitEntry, ReadmitEntry, ClaimLive, ClaimReview, ClaimRefused,
         AttachNext, EndStatus, EndRelease, PersistWithdrawal, CrashOperation,
         ReadQueue, Submit, ClaimNext, Release, Detach, Claim,
         BeginJob, FinishJob, FailJob, AcknowledgeJob, EndJob, ResumeInStep, RepeatEnd

\* What normalising finds: the first live job has its turn, it is the only one that
\* may be running, and the others are within the limit.
LEMMA FirstLiveReads ==
  ASSUME Base, Order
  PROVE  /\ FirstLive(Recorded) # None =>
              Clear(FirstLive(Recorded)) /\ stage[FirstLive(Recorded)] # None
         /\ \A j \in Jobs : Hot(j) => FirstLive(Recorded) = j
         /\ Cardinality(Held \ {FirstLive(Recorded)}) <= MaxQueued
<1>1. FirstLive(Recorded) # None =>
        Clear(FirstLive(Recorded)) /\ stage[FirstLive(Recorded)] # None
  BY FirstLiveIs, NoneIsNothing DEF Clear, Stage
<1>2. \A j \in Jobs : Hot(j) => FirstLive(Recorded) = j
  BY HotIsUnderWay, FirstLiveHasTurn DEF Order, InTurn
<1>3. Cardinality(Held \ {FirstLive(Recorded)}) <= MaxQueued
  <2>1. Front \subseteq {FirstLive(Recorded)}
    BY FirstLiveHasTurn DEF Front
  <2>2. Held \ {FirstLive(Recorded)} \subseteq Held \ Front
    BY <2>1
  <2>3. IsFiniteSet(Recorded) /\ (Held \ Front) \in SUBSET Recorded
    BY DEF Base, Numbered, Held
  <2>4. IsFiniteSet(Held \ Front)
    BY <2>3, FS_Subset
  <2> DEFINE S == Held \ {FirstLive(Recorded)}
  <2>5. IsFiniteSet(S) /\ Cardinality(S) <= Cardinality(Held \ Front)
    BY <2>2, <2>4, FS_Subset
  <2>6. Cardinality(S) \in Nat /\ Cardinality(Held \ Front) \in Nat
    BY <2>4, <2>5, FS_CardinalityType
  <2>7. Cardinality(Held \ Front) <= MaxQueued
    BY DEF Order, InTurn
  <2>8. MaxQueued \in Nat
    BY LimitIsNat
  <2>9. \A a, b, m \in Nat : a <= b /\ b <= m => a <= m
    OBVIOUS
  <2> HIDE DEF S
  <2>10. Cardinality(S) <= MaxQueued
    BY <2>5, <2>6, <2>7, <2>8, <2>9
  <2> QED
    BY <2>10 DEF S
<1> QED
  BY <1>1, <1>2, <1>3
-----------------------------------------------------------------------------

\* No job gets hot while the operation in flight stays where it is.
LEMMA HotStays ==
  ASSUME Base, Order, [Next]_vars, [NoShortcut]_vars, op' = op,
         ~ClaimReview, ~ClaimLive, ~AttachNext
  PROVE  \A j \in Jobs : Hot(j)' => Hot(j)
<1> SUFFICES ASSUME NEW j \in Jobs, Hot(j)', ~Hot(j)
             PROVE  FALSE
  OBVIOUS
<1>0. stage \in [Jobs -> Stage \cup {None}]
  BY DEF Base, TypeOK
<1>1. ~ \E w \in Workers : ResumeInStep(w, j) /\ stage' # stage
  BY DEF NoShortcut, vars, jobFiles
<1>2. stage'[j] = stage[j] \/ JobFileMade(j) \/ JobAdvanced(j) \/ JobWithdrawn(j)
  BY <1>0, <1>1, StageMove
     DEF ResumeInStep, JobFileMade, JobAdvanced, JobWithdrawn, SetStage
<1>3. ~JobFileMade(j)
  BY DEF JobFileMade
<1>4. ~JobAdvanced(j) \/ stage'[j] \notin {"waiting", "running"}
  BY <1>0 DEF JobAdvanced, SetStage, Hot, UnderWay
<1>5. ~JobWithdrawn(j)
  BY <1>0 DEF JobWithdrawn, SetStage, Hot
<1>6. stage'[j] = "waiting" /\ stage[j] = "waiting"
  BY <1>2, <1>3, <1>4, <1>5 DEF Hot
<1>7. PICK w \in Workers : worker'[w] = [pc |-> "attached", job |-> j]
  BY <1>6 DEF Hot, Attached
<1>8. Attached(w, j)
  BY <1>7, AttachMove
<1> QED
  BY <1>6, <1>8 DEF Hot

\* Nobody disturbs what an operation has read before it acts on it.
LEMMA ReadHoldsStep ==
  ASSUME Base, Base', Order, [Next]_vars, [NoShortcut]_vars
  PROVE  ReadHolds'
<1>0. CASE Step' \notin {"claim", "next", "submit"}
  BY <1>0 DEF ReadHolds
<1>1. CASE Step' \in {"claim", "next", "submit"}
  <2> DEFINE a == op'.state.active
  <2> DEFINE Holds(s) == /\ s \in {"claim", "next", "submit"} /\ a # None =>
                              ClearNext(a) /\ stage'[a] # None
                         /\ s = "claim" =>
                              /\ \A j \in Jobs : Hot(j)' => a = j
                              /\ Cardinality(Held' \ {a}) <= MaxQueued
  <2>1. a \in Jobs \cup {None}
    BY DEF Base, OpFits, Operation, QueueState
  <2>2. CASE UNCHANGED <<records, stage, worker>>
    <3>1. /\ \A j \in Jobs : Clear(j) => ClearNext(j)
          /\ \A j \in Jobs : Hot(j)' => Hot(j)
          /\ Held' = Held
      BY <2>2 DEF Clear, ClearNext, Before, Recorded, Hot, Attached, Held
    <3>2. CASE a = FirstLive(Recorded)
      <4>1. /\ a # None => Clear(a) /\ stage[a] # None
            /\ \A j \in Jobs : Hot(j) => a = j
            /\ Cardinality(Held \ {a}) <= MaxQueued
        BY <3>2, FirstLiveReads
      <4> HIDE DEF a
      <4>2. Holds(Step')
        BY <2>1, <2>2, <3>1, <4>1
      <4> QED
        BY <4>2 DEF a, ReadHolds, Clear, ClearNext, Before
    <3>3. CASE Step' = Step /\ op'.state = op.state
      <4>1. /\ Step \in {"claim", "next", "submit"} /\ a # None => Clear(a) /\ stage[a] # None
            /\ Step = "claim" => /\ \A j \in Jobs : Hot(j) => a = j
                                 /\ Cardinality(Held \ {a}) <= MaxQueued
        BY <3>3 DEF Order, ReadHolds
      <4> HIDE DEF a
      <4>2. Holds(Step')
        BY <2>1, <2>2, <3>1, <3>3, <4>1
      <4> QED
        BY <4>2 DEF a, ReadHolds, Clear, ClearNext, Before
    <3>4. op' = op => Step' = Step /\ op'.state = op.state
      BY DEF Step
    <3> QED
      BY <1>1, <3>2, <3>3, <3>4, ReadMove
  <2>3. CASE op' = op
    <3>1. Step' = Step
      BY <2>3 DEF Step
    <3>2. op # Free /\ op \in Operation
      BY <1>1, <2>3 DEF Free, Step, Base, OpFits
    <3>3. ~AdmitRecord /\ ~ClaimReview
      BY <2>3, <3>2 DEF AdmitRecord, ClaimReview, Persist, Operation
    <3>4. ~ClaimLive /\ ~AttachNext
      BY <2>3, <3>2 DEF ClaimLive, AttachNext, Done, Conclude, Persist, Operation
    <3>5. Steady
      BY <3>3, SteadyStep
    <3>6. (\A j \in Jobs : Clear(j) => ClearNext(j)) /\ Held' \subseteq Held
      BY <3>5, TurnsStay
    <3>7. \A j \in Jobs : Hot(j)' => Hot(j)
      BY <3>3, <3>4, <2>3, HotStays
    <3>8. /\ Step \in {"claim", "next", "submit"} /\ a # None => Clear(a) /\ stage[a] # None
          /\ Step = "claim" => /\ \A j \in Jobs : Hot(j) => a = j
                               /\ Cardinality(Held \ {a}) <= MaxQueued
      BY <2>3 DEF Order, ReadHolds
    <3>9. Step = "claim" => Cardinality(Held' \ {a}) <= MaxQueued
      <4> SUFFICES ASSUME Step = "claim"
                   PROVE  Cardinality(Held' \ {a}) <= MaxQueued
        OBVIOUS
      <4> DEFINE S == Held \ {a}
                 T == Held' \ {a}
      <4>1. IsFiniteSet(Recorded) /\ S \in SUBSET Recorded
        BY DEF Base, Numbered, Held
      <4>2. IsFiniteSet(S)
        BY <4>1, FS_Subset
      <4>3. T \subseteq S
        BY <3>6
      <4>4. IsFiniteSet(T) /\ Cardinality(T) <= Cardinality(S)
        BY <4>2, <4>3, FS_Subset
      <4>5. Cardinality(T) \in Nat /\ Cardinality(S) \in Nat
        BY <4>2, <4>4, FS_CardinalityType
      <4>6. Cardinality(S) <= MaxQueued
        BY <3>8
      <4>7. MaxQueued \in Nat
        BY LimitIsNat
      <4>8. \A x, y, m \in Nat : x <= y /\ y <= m => x <= m
        OBVIOUS
      <4> HIDE DEF S, T
      <4>9. Cardinality(T) <= MaxQueued
        BY <4>4, <4>5, <4>6, <4>7, <4>8
      <4> QED
        BY <4>9 DEF T
    <3>10. \A j \in Jobs : stage[j] # None => stage'[j] # None
      BY <3>5 DEF Steady
    <3> HIDE DEF a
    <3>11. Holds(Step')
      BY <2>1, <3>1, <3>6, <3>7, <3>8, <3>9, <3>10
    <3> QED
      BY <3>11 DEF a, ReadHolds, Clear, ClearNext, Before
  <2> QED
    BY <1>1, <2>2, <2>3, ReadMove
<1> QED
  BY <1>0, <1>1

\* The invariant of the second part holds at the start...
LEMMA OrderInit == Init => Order
<1> SUFFICES ASSUME Init
             PROVE  Order
  OBVIOUS
<1>1. Recorded = {}
  BY DEF Init, Recorded
<1>2. \A j \in Jobs : stage[j] = None
  BY DEF Init
<1>3. \A w \in Workers, j \in Jobs : ~Attached(w, j)
  BY DEF Init, Attached, Detached
<1>4. \A j \in Jobs : ~Hot(j)
  BY <1>2, <1>3, NoneIsNothing DEF Hot, Stage, UnderWay
<1>5. Held \ Front = {}
  BY <1>1 DEF Held
<1>6. Cardinality(Held \ Front) <= MaxQueued
  <2>1. Cardinality(Held \ Front) = 0
    BY <1>5, FS_EmptySet
  <2>2. 0 <= MaxQueued
    BY LimitIsNat
  <2> QED
    BY <2>1, <2>2, Zenon
<1>7. Step = "free"
  BY DEF Init, Free, Step
<1> QED
  BY <1>3, <1>4, <1>6, <1>7 DEF Order, InTurn, ReadHolds

\* ...and every step but the shortcut keeps it.
LEMMA OrderStep ==
  ASSUME Base, Base', Order, [Next]_vars, [NoShortcut]_vars
  PROVE  Order'
BY InTurnStep, ReadHoldsStep DEF Order

\* As long as no worker resumes inside a step, every reachable state has the
\* invariant of the second part.
THEOREM OrderHolds == Spec /\ [][NoShortcut]_vars => [](Base /\ Order)
<1>1. Init => Base /\ Order
  BY BaseInit, OrderInit
<1>2. Base /\ Order /\ [Next]_vars /\ [NoShortcut]_vars => (Base /\ Order)'
  BY BaseStep, OrderStep
<1> QED
  BY <1>1, <1>2, PTL DEF Spec

-----------------------------------------------------------------------------
(* What the order promises *)

\* All running jobs have their turn, so they are one.
LEMMA OneRuns ==
  ASSUME Base, Order
  PROVE  OneJobRunning
<1> DEFINE R == {j \in Jobs : stage[j] = "running"}
<1>1. \A j \in R : j \in Recorded /\ stage[j] \notin Ended /\ Clear(j)
  BY HotIsUnderWay DEF Hot, Order, InTurn, Ended, UnderWay
<1>2. \A i, j \in R : i = j
  BY <1>1, OneInTurn
<1>3. Cardinality(R) <= 1
  <2>1. CASE R = {}
    BY <2>1, FS_EmptySet
  <2>2. CASE R # {}
    <3>1. PICK j \in R : TRUE
      BY <2>2
    <3>2. R = {j}
      BY <1>2, <3>1
    <3> HIDE DEF R
    <3> QED
      BY <3>2, FS_Singleton
  <2> QED
    BY <2>1, <2>2
<1> QED
  BY <1>3 DEF OneJobRunning

\* The job whose turn it is and the places behind it are all there are.
LEMMA PlacesSuffice ==
  ASSUME Base, Order
  PROVE  CapacityIsKept
<1>1. \A i, j \in Front : i = j
  BY OneInTurn DEF Front, Ended
<1>2. IsFiniteSet(Held \ Front) /\ Cardinality(Held \ Front) \in Nat
  <2>1. IsFiniteSet(Recorded) /\ (Held \ Front) \in SUBSET Recorded
    BY DEF Base, Numbered, Held
  <2> QED
    BY <2>1, FS_Subset, FS_CardinalityType
<1>3. Cardinality(Held \ Front) <= MaxQueued /\ MaxQueued \in Nat
  <2>1. MaxQueued \in Nat
    BY LimitIsNat
  <2> QED
    BY <2>1 DEF Order, InTurn
<1>4. Front \subseteq Held
  BY DEF Front, Held
<1>5. Cardinality(Held) <= MaxQueued + 1
  <2>1. CASE Front = {}
    <3>1. Held \ Front = Held
      BY <2>1
    <3> QED
      BY <1>2, <1>3, <3>1
  <2>2. CASE Front # {}
    <3>1. PICK j \in Front : TRUE
      BY <2>2
    <3>2. Held = (Held \ Front) \cup {j}
      BY <1>1, <1>4, <3>1
    <3> DEFINE S == Held \ Front
    <3>3. Cardinality(S \cup {j}) = IF j \in S THEN Cardinality(S) ELSE Cardinality(S) + 1
      BY <1>2, FS_AddElement
    <3>4. Cardinality(Held) = Cardinality(S \cup {j})
      BY <3>2
    <3>5. Cardinality(S) \in Nat /\ Cardinality(S) <= MaxQueued
      BY <1>2, <1>3
    <3> HIDE DEF S
    <3> QED
      BY <1>3, <3>3, <3>4, <3>5
  <2> QED
    BY <2>1, <2>2
<1> QED
  BY <1>5 DEF CapacityIsKept, Held

\* A waiting job is started by the worker that is attached to it.
LEMMA StartsHaveTurn ==
  ASSUME Base, Order, [Next]_vars, NEW j \in Jobs,
         stage[j] = "waiting", stage'[j] = "running"
  PROVE  \A i \in Recorded : Before(i, j) => stage[i] \in Ended
<1>0. stage \in [Jobs -> Stage \cup {None}]
  BY DEF Base, TypeOK
<1>1. JobAdvanced(j)
  BY <1>0, StageMove
     DEF ClaimReview, ResumeInStep, JobFileMade, JobAdvanced, JobWithdrawn, SetStage
<1>2. Hot(j)
  BY <1>1 DEF JobAdvanced, Hot
<1> QED
  BY <1>2 DEF Order, InTurn, Clear

\* A reviewed job is taken up by a claim, or inside a step.
LEMMA ResumeMove ==
  ASSUME Base, [Next]_vars, NEW j \in Jobs, stage[j] = "review", stage'[j] = "running"
  PROVE  (op.pc = "claim" /\ op.job = j) \/ \E w \in Workers : ResumeInStep(w, j)
<1>0. stage \in [Jobs -> Stage \cup {None}] /\ None # "review"
  BY NoneIsNothing DEF Base, TypeOK, Stage
<1> QED
  BY <1>0, StageMove
     DEF ClaimReview, ResumeInStep, JobFileMade, JobAdvanced, JobWithdrawn, SetStage, UnderWay
-----------------------------------------------------------------------------

(* One worker never gets to resume inside a step *)

\* The scope is served by one worker at most.
OneWorker == \A v, w \in Workers : v = w

\* With one worker, nobody is attached to a job that waits for review.
NobodyOnReview == \A w \in Workers, j \in Jobs : Attached(w, j) => stage[j] # "review"

\* Only a worker that completes its job sends it to review, and leaves it.
LEMMA ReviewMove ==
  ASSUME Base, [Next]_vars, NEW j \in Jobs, stage[j] # "review", stage'[j] = "review"
  PROVE  \E w \in Workers : Attached(w, j) /\ worker' = [worker EXCEPT ![w].pc = "release"]
<1>0. stage \in [Jobs -> Stage \cup {None}]
  BY DEF Base, TypeOK
<1>1. JobAdvanced(j)
  BY <1>0, StageMove
     DEF ClaimReview, ResumeInStep, JobFileMade, JobAdvanced, JobWithdrawn, SetStage
<1>2. stage' # stage
  OBVIOUS
<1>3. ASSUME NEW w \in Workers, NEW i \in Jobs, WorkOn(w, i)
      PROVE  Attached(w, j) /\ worker' = [worker EXCEPT ![w].pc = "release"]
  <2>1. i = j
    BY <1>0, <1>2, <1>3
       DEF WorkOn, Advance, BeginJob, FinishJob, FailJob, AcknowledgeJob, EndJob,
           ResumeInStep, RepeatEnd, SetStage, jobFiles
  <2>2. FinishJob(w, j)
    BY <1>0, <1>2, <1>3, <2>1
       DEF WorkOn, Advance, BeginJob, FailJob, AcknowledgeJob, EndJob,
           ResumeInStep, RepeatEnd, SetStage, jobFiles
  <2> QED
    BY <2>2 DEF FinishJob, EndJob
<1>4. ~CreateStore /\ ~ReconcileStore /\ ~ClaimReview /\ ~WithdrawWaiting
  BY <1>0, <1>2 DEF CreateStore, ReconcileStore, ClaimReview, WithdrawWaiting, SetStage
<1> QED
  BY <1>2, <1>3, <1>4
     DEF Next, OperationStep, vars, jobFiles, mirrors, WriteControl, WriteQueue,
         AdmitRecord, SubmitRefused, AdmitEntry, ReadmitEntry, ClaimLive, ClaimRefused,
         AttachNext, EndStatus, EndRelease, PersistWithdrawal, CrashOperation, ReadQueue,
         Submit, RequestCancellation, ClaimNext, Release, Detach, Claim

\* The only worker lets go of the job that it sends to review.
LEMMA AloneStep ==
  ASSUME OneWorker, Base, NobodyOnReview, [Next]_vars
  PROVE  NobodyOnReview'
<1> SUFFICES ASSUME NEW w \in Workers, NEW j \in Jobs,
                    worker'[w] = [pc |-> "attached", job |-> j], stage'[j] = "review"
             PROVE  FALSE
  BY DEF NobodyOnReview, Attached
<1>0. stage \in [Jobs -> Stage \cup {None}] /\ worker \in [Workers -> WorkerState]
  BY DEF Base, TypeOK
<1>1. CASE Attached(w, j)
  <2>1. stage[j] # "review"
    BY <1>1 DEF NobodyOnReview
  <2>2. PICK v \in Workers : Attached(v, j) /\ worker' = [worker EXCEPT ![v].pc = "release"]
    BY <2>1, ReviewMove
  <2>3. v = w
    BY DEF OneWorker
  <2>4. worker'[w].pc = "release"
    BY <1>0, <2>2, <2>3 DEF Attached
  <2> QED
    BY <2>4
<1>2. CASE ClaimLive /\ j = op.job
  BY <1>2 DEF ClaimLive, UnderWay, jobFiles
<1>3. CASE ClaimReview /\ j = op.job
  BY <1>0, <1>3 DEF ClaimReview
<1>4. CASE AttachNext /\ stage[j] \in UnderWay
  BY <1>4 DEF AttachNext, UnderWay, jobFiles
<1>5. CASE AttachNext /\ j = NextLive(op.state, op.state.active)
  BY <1>4, <1>5, NextLiveIs, NoneIsNothing
<1> QED
  BY <1>1, <1>2, <1>3, <1>4, <1>5, AttachMove

\* One worker resumes a reviewed job only by a claim: when it completes the job for
\* review, nobody else is attached to it.
THEOREM OneWorkerHasNoShortcut == Spec /\ OneWorker => [][NoShortcut]_vars
<1> SUFFICES ASSUME OneWorker
             PROVE  Spec => [][NoShortcut]_vars
  OBVIOUS
<1>1. Init => Base /\ NobodyOnReview
  BY BaseInit DEF Init, NobodyOnReview, Attached, Detached
<1>2. Base /\ NobodyOnReview /\ [Next]_vars => (Base /\ NobodyOnReview)'
  BY BaseStep, AloneStep
<1>3. NobodyOnReview => NoShortcut
  BY DEF NobodyOnReview, NoShortcut, ResumeInStep
<1> QED
  BY <1>1, <1>2, <1>3, PTL DEF Spec

-----------------------------------------------------------------------------
(* The order and the capacity of the queue *)

\* Either condition gives the invariant of the second part.
LEMMA InOrder ==
  Spec /\ (OneWorker \/ [][NoShortcut]_vars) => [](Base /\ Order) /\ [][NoShortcut]_vars
BY OrderHolds, OneWorkerHasNoShortcut, PTL

\* One heavy run at a time (claim, claim_next, the release of a slot): with one
\* worker, or as long as no worker resumes inside a step, at most one job of the
\* scope is running.
THEOREM OneRunAtATime ==
  Spec /\ (OneWorker \/ [][NoShortcut]_vars) => []OneJobRunning
<1>1. Base /\ Order => OneJobRunning
  BY OneRuns
<1> QED
  BY <1>1, InOrder, PTL

\* The limit of _submit_scoped holds over crashes, withdrawals and resumptions, with
\* one worker or as long as no worker resumes inside a step.
THEOREM CapacityKept ==
  Spec /\ (OneWorker \/ [][NoShortcut]_vars) => []CapacityIsKept
<1>1. Base /\ Order => CapacityIsKept
  BY PlacesSuffice
<1> QED
  BY <1>1, InOrder, PTL

\* First come, first served: under the same condition no job is started while one
\* with a lower sequence is under way or reserved.
THEOREM StartsFollowTheQueue ==
  Spec /\ (OneWorker \/ [][NoShortcut]_vars) => StartsInOrder
<1>1. Base /\ Order /\ [Next]_vars =>
        [\A j \in Jobs : stage[j] = "waiting" /\ stage'[j] = "running" =>
           \A i \in Recorded : Before(i, j) => stage[i] \in Ended]_vars
  BY StartsHaveTurn
<1> QED
  BY <1>1, InOrder, PTL DEF Spec, StartsInOrder

\* Under the same condition a reviewed job goes on only by a claim that holds the
\* scope lock.
THEOREM ResumptionsAreClaims ==
  Spec /\ (OneWorker \/ [][NoShortcut]_vars) => ResumesByClaim
<1>1. Base /\ [Next]_vars /\ [NoShortcut]_vars =>
        [\A j \in Jobs : stage[j] = "review" /\ stage'[j] = "running" =>
           op.pc = "claim" /\ op.job = j]_vars
  BY ResumeMove DEF NoShortcut
<1> QED
  BY <1>1, InOrder, PTL DEF Spec, ResumesByClaim

=============================================================================
