----------------------------- MODULE WorkspaceRun -----------------------------
(***************************************************************************)
(* One run of the workspace engine, from prepare_run to finalize_run: its   *)
(* RUN_STATE, its WORK_QUEUE, the canonical IR of each work unit, the       *)
(* conflict registry, the completion sentinel, and the EXECUTION_JOB record *)
(* that sync_workspace_execution keeps in step.                             *)
(*                                                                         *)
(* A call reads and computes under the run lock and then writes file after  *)
(* file; nobody else writes meanwhile, so a call is taken to decide at once *)
(* on the versions of the run that its writes pass through, and every write *)
(* is a step of its own.  A process may die between any two.                *)
(***************************************************************************)
EXTENDS Naturals, Sequences

CONSTANTS
  UnitCount,   \* work units of the run
  MaxRepairs,  \* MAX_AUTO_REPAIRS_PER_UNIT
  MaxSetbacks  \* bound: deaths, translations that need a review, contradictions

ASSUME RunBounds == UnitCount \in Nat \ {0} /\ MaxRepairs \in Nat /\ MaxSetbacks \in Nat

VARIABLES
  run,          \* the files of the run
  job,          \* EXECUTION_JOB: lifecycle and outcome
  report,       \* what a call of sync_workspace_execution is about to make of it
  pending,      \* versions of the run that the call under the lock has yet to write
  call,         \* its name
  ahead,        \* what prepare_run or a failed extract_run has yet to do
  strayed,      \* history: has a call died, or come too early, that nothing makes up for
  setbacks

runVars == <<run, job, report, pending, call, ahead, strayed, setbacks>>

-----------------------------------------------------------------------------
(* Documents *)

Units == 1..UnitCount
NoUnit == 0

Phase == {"CREATED", "INPUT_VALIDATED", "NORMALIZING", "NORMALIZED", "EXTRACTING", "EXTRACTED",
          "TRANSLATING", "VERIFYING", "FAIL_REPAIRABLE", "REPAIRING", "NEEDS_REVIEW",
          "VERIFIED", "COMPLETE"}
FailurePhase == {"FAILED_INPUT", "FAILED_RUNTIME", "FAILED_NORMALIZATION", "FAILED_EXTRACTION"}
UnitStatus == {"PENDING", "NORMALIZED", "READY", "TRANSLATING", "TRANSLATED", "VERIFY_FAILED",
               "REPAIRING", "VERIFIED", "NEEDS_REVIEW"}
Translated == {"TRANSLATED", "VERIFIED"}

\* What the verifier will say of a translation: good, bad, or open for review.
Quality == {"good", "bad", "open"}
Registry == {"absent", "clear", "open", "settled", "stale"}

Run == [phase : Phase \cup FailurePhase, current : Units \cup {NoUnit},
        unit : [Units -> [status : UnitStatus, repairs : 0..MaxRepairs, ir : Quality \cup {""}]],
        ir : [Units -> Quality \cup {""}],
        registry : Registry, marker : {"NOT_ASSESSED", "ZERO", "CONFLICTS"},
        sentinel : BOOLEAN]

\* _ALLOWED, but for phases that nothing enters (TRANSLATED, FAILED_SCHEMA,
\* FAILED_INTERNAL); a phase may always follow itself.
Follows ==
  [p \in Phase \cup FailurePhase |->
     CASE p = "CREATED" -> {"INPUT_VALIDATED", "FAILED_INPUT", "FAILED_RUNTIME"}
       [] p \in {"INPUT_VALIDATED", "FAILED_NORMALIZATION"} -> {"NORMALIZING"}
       [] p = "NORMALIZING" -> {"NORMALIZED", "FAILED_NORMALIZATION"}
       [] p = "NORMALIZED" -> {"EXTRACTING"}
       [] p = "EXTRACTING" -> {"EXTRACTED", "FAILED_EXTRACTION"}
       [] p = "EXTRACTED" -> {"TRANSLATING"}
       [] p = "TRANSLATING" -> {"VERIFYING", "REPAIRING", "FAIL_REPAIRABLE", "NEEDS_REVIEW"}
       [] p = "VERIFYING" -> {"VERIFIED", "FAIL_REPAIRABLE", "NEEDS_REVIEW"}
       [] p = "FAIL_REPAIRABLE" -> {"REPAIRING", "NEEDS_REVIEW", "VERIFYING"}
       [] p = "REPAIRING" -> {"TRANSLATING", "VERIFYING", "NEEDS_REVIEW"}
       [] p = "NEEDS_REVIEW" -> {"REPAIRING", "VERIFYING"}
       [] p = "VERIFIED" -> {"COMPLETE", "REPAIRING", "VERIFYING", "NEEDS_REVIEW"}
       [] p = "COMPLETE" -> {"VERIFYING", "REPAIRING"}
       [] OTHER -> {}]
May(r, p) == p = r.phase \/ p \in Follows[r.phase]
To(r, p) == [r EXCEPT !.phase = p]

WithStatus(r, S) == {u \in Units : r.unit[u].status \in S}
All(r, S) == WithStatus(r, S) = Units
First(S) == CHOOSE u \in S : \A v \in S : u <= v

NoReport == [lifecycle |-> "NONE", outcome |-> "NONE"]

RunInit ==
  /\ run = [phase |-> "CREATED", current |-> NoUnit,
            unit |-> [u \in Units |-> [status |-> "PENDING", repairs |-> 0, ir |-> ""]],
            ir |-> [u \in Units |-> ""],
            registry |-> "absent", marker |-> "NOT_ASSESSED", sentinel |-> FALSE]
  /\ job = NoReport
  /\ report = NoReport
  /\ pending = <<>>
  /\ call = "none"
  /\ ahead = "create"
  /\ strayed = "no"
  /\ setbacks = 0

SetBack == setbacks < MaxSetbacks /\ setbacks' = setbacks + 1
SetBackIf(b) == IF b THEN SetBack ELSE UNCHANGED setbacks

\* A call takes the lock and decides; Write writes the next file.
Commits(name, versions) ==
  /\ pending = <<>>
  /\ pending' = versions
  /\ call' = name
  /\ UNCHANGED <<run, job, report>>
Decides(name, versions) == Commits(name, versions) /\ UNCHANGED <<ahead, strayed, setbacks>>

Write ==
  /\ pending # <<>>
  /\ run' = Head(pending)
  /\ pending' = Tail(pending)
  /\ call' = IF Tail(pending) = <<>> THEN "none" ELSE call
  /\ UNCHANGED <<job, report, ahead, strayed, setbacks>>

\* A submission that dies is submitted again, and so are the calls before it.
MadeUpFor == {"prepare", "normalize", "extract", "submit"}

\* The host stops, and with it the call under the lock, and the one that has left
\* it or not yet taken it.
Dies ==
  /\ pending # <<>> \/ ahead # "nothing"
  /\ SetBack
  /\ pending' = <<>>
  /\ ahead' = "nothing"
  /\ strayed' = IF pending = <<>> \/ call \in MadeUpFor \/ strayed = "early" THEN strayed ELSE "died"
  /\ call' = "none"
  /\ report' = NoReport
  /\ UNCHANGED <<run, job>>

-----------------------------------------------------------------------------
(* prepare_run, normalize_run, extract_run *)

\* The state is saved before the job exists.
CreateJob ==
  /\ ahead = "create"
  /\ job' = [lifecycle |-> "QUEUED", outcome |-> "NONE"]
  /\ ahead' = "admit"
  /\ UNCHANGED <<run, report, pending, call, strayed, setbacks>>

\* Rollout, budget, classification, capacity and the inputs decide on the phase.
Admit(p) ==
  /\ ahead = "admit"
  /\ Commits("prepare", <<To(run, p)>>)
  /\ ahead' = "nothing"
  /\ UNCHANGED <<strayed, setbacks>>

Marked(r, s) == [r EXCEPT !.unit = [u \in Units |-> [@[u] EXCEPT !.status = s]]]

Normalize(succeeds) ==
  /\ run.phase \in {"INPUT_VALIDATED", "FAILED_NORMALIZATION"}
  /\ LET begun == To(run, "NORMALIZING")
         queued == Marked(begun, "NORMALIZED")
     IN Decides("normalize",
                IF succeeds THEN <<begun, queued, To(queued, "NORMALIZED")>>
                            ELSE <<begun, To(begun, "FAILED_NORMALIZATION")>>)

Extract ==
  /\ run.phase \in {"NORMALIZED", "EXTRACTING"}
  /\ LET begun == To(run, "EXTRACTING")
         queued == Marked(begun, "READY")
     IN Decides("extract", <<begun, queued, [To(queued, "EXTRACTED") EXCEPT !.current = NoUnit]>>)

\* A failure leaves the lock before it is recorded under it.
ExtractFails ==
  /\ run.phase \in {"NORMALIZED", "EXTRACTING"}
  /\ Commits("extract", <<To(run, "EXTRACTING")>>)
  /\ ahead' = "fail"
  /\ UNCHANGED <<strayed, setbacks>>

RecordFailure ==
  /\ ahead = "fail"
  /\ ahead' = "nothing"
  /\ IF run.phase = "EXTRACTING"
     THEN Commits("extract", <<To(run, "FAILED_EXTRACTION")>>)
     ELSE pending = <<>> /\ UNCHANGED <<run, job, report, pending, call>>
  /\ UNCHANGED <<strayed, setbacks>>

-----------------------------------------------------------------------------
(* _next *)

Early == {"CREATED", "INPUT_VALIDATED", "NORMALIZING", "NORMALIZED", "EXTRACTING"}

\* conflict_assessment_status: the marker of the manifest and the registry agree.
AssessmentStatus(r) == CASE r.registry = "absent" -> "NOT_ASSESSED"
               [] r.registry = "clear" -> "ZERO"
               [] OTHER -> "CONFLICTS"
Agrees(r) == r.marker = AssessmentStatus(r)

AwaitsReview(r) == WithStatus(r, {"NEEDS_REVIEW"}) # {}
HasCurrent(r) ==
  /\ r.current # NoUnit
  /\ r.unit[r.current].status \in {"TRANSLATING", "REPAIRING", "NEEDS_REVIEW"}
\* Of a run in NEEDS_REVIEW, _next hands out no repair, but it looks at the phase
\* before it waits for the lock, and not again.
Stopped(r) ==
  r.phase \in FailurePhase \cup Early \cup {"COMPLETE", "VERIFIED"}
\* WorkQueue.next_unit
Offers(r, S) == ~Stopped(r) /\ ~HasCurrent(r) /\ WithStatus(r, S) # {}
ForRepair(r) == Offers(r, {"VERIFY_FAILED", "REPAIRING"}) /\ ~Offers(r, {"READY"})

\* A ready unit; the state is left alone while another one awaits review.
NextReady ==
  /\ Offers(run, {"READY"})
  /\ LET u == First(WithStatus(run, {"READY"}))
         queued == [run EXCEPT !.unit[u].status = "TRANSLATING"]
         reviewing == run.phase # "TRANSLATING" /\ AwaitsReview(run)
     IN /\ reviewing \/ May(run, "TRANSLATING")
        /\ Decides("next", <<queued, [queued EXCEPT !.current = u,
                                        !.phase = IF reviewing THEN @ ELSE "TRANSLATING"]>>)

NextRepair_OneMore ==
  /\ ForRepair(run)
  /\ LET u == First(WithStatus(run, {"VERIFY_FAILED", "REPAIRING"}))
         queued == [run EXCEPT !.unit[u].status = "REPAIRING", !.unit[u].repairs = @ + 1]
     IN /\ run.unit[u].repairs <= MaxRepairs
        /\ May(run, "REPAIRING")
        /\ Decides("next", <<queued, [queued EXCEPT !.current = u, !.phase = "REPAIRING"]>>)

NextRepair ==
  /\ ForRepair(run)
  /\ LET u == First(WithStatus(run, {"VERIFY_FAILED", "REPAIRING"}))
         queued == [run EXCEPT !.unit[u].status = "REPAIRING", !.unit[u].repairs = @ + 1]
     IN /\ run.unit[u].repairs < MaxRepairs
        /\ May(run, "REPAIRING")
        /\ Decides("next", <<queued, [queued EXCEPT !.current = u, !.phase = "REPAIRING"]>>)

NextExhausted ==
  /\ ForRepair(run)
  /\ LET u == First(WithStatus(run, {"VERIFY_FAILED", "REPAIRING"}))
         queued == [run EXCEPT !.unit[u].status = "NEEDS_REVIEW"]
     IN /\ run.unit[u].repairs >= MaxRepairs
        /\ May(run, "NEEDS_REVIEW")
        /\ Decides("next", <<queued, [queued EXCEPT !.current = NoUnit, !.phase = "NEEDS_REVIEW"]>>)

-----------------------------------------------------------------------------
(* _submit, _conflict_assess, _conflict_resolve *)

OpenPhase == {"TRANSLATING", "REPAIRING", "NEEDS_REVIEW"}

\* A repair writes another text, so what the registry says of the unit's
\* assertions, if any, is void.
Rewritten(r, u, q, affects) ==
  [r EXCEPT !.ir[u] = q,
            !.registry = IF affects /\ @ \in {"open", "settled"} THEN "stale" ELSE @]

Submit_StateFirst(u, q, affects) ==
  /\ run.phase \in OpenPhase
  /\ run.unit[u].status \in OpenPhase \cup {"VERIFY_FAILED"}
  /\ LET written == Rewritten(run, u, q, affects)
         left == [written EXCEPT !.current = NoUnit]
     IN Commits("submit", <<written, left, [left EXCEPT !.unit[u].ir = q, !.unit[u].status = "TRANSLATED"]>>)
  /\ SetBackIf(q = "open")
  /\ UNCHANGED <<ahead, strayed>>

Submit(u, q, affects) ==
  /\ run.phase \in OpenPhase
  /\ run.unit[u].status \in OpenPhase \cup {"VERIFY_FAILED"}
  /\ LET written == Rewritten(run, u, q, affects)
         queued == [written EXCEPT !.unit[u].ir = q,
                      !.unit[u].status = IF q = "open" THEN "NEEDS_REVIEW" ELSE "TRANSLATED"]
         target == CASE q = "open" -> "NEEDS_REVIEW"
                     [] q # "open" /\ run.phase = "NEEDS_REVIEW" /\ ~AwaitsReview(queued) ->
                          "TRANSLATING"
                     [] OTHER -> run.phase
     IN Commits("submit",
                IF May(queued, target)
                THEN <<written, queued, [To(queued, target) EXCEPT !.current = NoUnit]>>
                ELSE <<written, queued>>)
  /\ SetBackIf(q = "open")
  /\ UNCHANGED <<ahead, strayed>>

\* Registry, then marker; a registry that no longer fits the IR is refused.
Registers(name, registry) ==
  /\ run.registry # "stale"
  /\ LET recorded == [run EXCEPT !.registry = registry]
     IN Commits(name, <<recorded, [recorded EXCEPT !.marker = AssessmentStatus(recorded)]>>)

Assess(contradicts) ==
  /\ All(run, Translated \cup {"NEEDS_REVIEW"})
  /\ Registers("assess", IF contradicts THEN "open"
                         ELSE IF run.registry = "absent" THEN "clear" ELSE run.registry)
  /\ SetBackIf(contradicts)
  /\ UNCHANGED <<ahead, strayed>>

Resolve ==
  /\ run.registry = "open"
  /\ Registers("resolve", "settled")
  /\ UNCHANGED <<ahead, strayed, setbacks>>

-----------------------------------------------------------------------------
(* verify_run, finalize_run *)

GoodUnit(r, u) ==
  /\ r.unit[u].status \in Translated
  /\ r.ir[u] = r.unit[u].ir
  /\ r.ir[u] = "good"

Passes_ByStatus(r) == All(r, Translated) /\ Agrees(r) /\ r.registry \in {"clear", "settled"}

\* _verify_unlocked
Passes(r) ==
  /\ \A u \in Units : GoodUnit(r, u)
  /\ Agrees(r) /\ r.registry \in {"clear", "settled"}

Judged_AllOrNothing(r) ==
  [r EXCEPT !.unit = [u \in Units |->
     [@[u] EXCEPT !.status = IF Passes(r) THEN "VERIFIED" ELSE "VERIFY_FAILED"]]]

Judged(r) ==
  [r EXCEPT !.unit = [u \in Units |->
     IF @[u].status \notin Translated THEN @[u]
     ELSE [@[u] EXCEPT !.status = IF GoodUnit(r, u) THEN "VERIFIED" ELSE "VERIFY_FAILED"]]]

\* When it is the turn of verification.
Assessed(r) == All(r, Translated) /\ r.registry # "absent" /\ Agrees(r)

\* A completed run loses its sentinel first.
Unmarked(r) == [r EXCEPT !.sentinel = r.sentinel /\ r.phase # "COMPLETE"]
Unmarks(r) == IF r.phase = "COMPLETE" THEN <<Unmarked(r)>> ELSE <<>>

Verify ==
  /\ run.phase \in OpenPhase \cup {"VERIFIED", "COMPLETE"}
  /\ LET begun == To(Unmarked(run), "VERIFYING")
         judged == Judged(begun)
     IN Commits("verify", Unmarks(run) \o
          <<begun, judged, To(judged, IF Passes(begun) THEN "VERIFIED" ELSE "FAIL_REPAIRABLE")>>)
  /\ strayed' = IF Assessed(run) THEN strayed ELSE "early"
  /\ UNCHANGED <<ahead, setbacks>>

\* finalize_run verifies again and leaves the queue alone.
Finalize ==
  /\ May(run, "VERIFYING")
  /\ LET begun == To(Unmarked(run), "VERIFYING")
         marked == [begun EXCEPT !.sentinel = TRUE]
     IN Commits("finalize", Unmarks(run) \o
          (IF Passes(begun) THEN <<begun, marked, To(marked, "COMPLETE")>>
                            ELSE <<begun, To(begun, "FAIL_REPAIRABLE")>>))
  /\ strayed' = IF run.phase \in {"VERIFIED", "COMPLETE"} THEN strayed ELSE "early"
  /\ UNCHANGED <<ahead, setbacks>>

-----------------------------------------------------------------------------
(* sync_workspace_execution *)

Operational_EndsEarly(p) ==
  CASE p \in {"VERIFYING", "COMPLETE"} -> [lifecycle |-> "COMPLETED", outcome |-> "DONE"]
    [] OTHER -> [lifecycle |-> "RUNNING", outcome |-> "NONE"]

\* _operational_for_phase
Operational(p) ==
  CASE p = "COMPLETE" -> [lifecycle |-> "COMPLETED", outcome |-> "DONE"]
    [] p = "NEEDS_REVIEW" -> [lifecycle |-> "COMPLETED", outcome |-> "NEEDS_REVIEW"]
    [] p \in FailurePhase -> [lifecycle |-> "PROCESSING_FAILED", outcome |-> "PROCESSING_FAILED"]
    [] p = "CREATED" -> [lifecycle |-> "QUEUED", outcome |-> "NONE"]
    [] p \in {"FAIL_REPAIRABLE", "REPAIRING"} -> [lifecycle |-> "RETRYING", outcome |-> "NONE"]
    [] OTHER -> [lifecycle |-> "RUNNING", outcome |-> "NONE"]

Successors_RunningOnly ==
  [l \in {"NONE", "QUEUED", "RUNNING", "RETRYING", "COMPLETED", "PROCESSING_FAILED"} |->
     CASE l = "QUEUED" -> {"RUNNING", "PROCESSING_FAILED"}
       [] l = "RUNNING" -> {"RETRYING", "COMPLETED", "PROCESSING_FAILED"}
       [] l = "RETRYING" -> {"RUNNING", "RETRYING", "PROCESSING_FAILED"}
       [] OTHER -> {}]

\* _OPERATIONAL_TRANSITIONS
Successors ==
  [l \in {"NONE", "QUEUED", "RUNNING", "RETRYING", "COMPLETED", "PROCESSING_FAILED"} |->
     CASE l = "QUEUED" -> {"RUNNING", "PROCESSING_FAILED"}
       [] l = "RUNNING" -> {"RETRYING", "COMPLETED", "PROCESSING_FAILED"}
       [] l = "RETRYING" -> {"RUNNING", "RETRYING", "COMPLETED", "PROCESSING_FAILED"}
       [] l = "COMPLETED" -> {"RETRYING"}
       [] OTHER -> {}]

\* prepare_run and _next report once they have left the lock, so that some call of
\* next may have a report to make at any time.  It reads the run without the lock...
ReadRun ==
  /\ Operational(run.phase) # job
  /\ Operational(run.phase).lifecycle \in Successors[job.lifecycle]
  /\ report' = Operational(run.phase)
  /\ UNCHANGED <<run, job, pending, call, ahead, strayed, setbacks>>

\* ...and writes the job if nobody else has since.
CommitReport ==
  /\ report # NoReport
  /\ job' = report
  /\ report' = NoReport
  /\ UNCHANGED <<run, pending, call, ahead, strayed, setbacks>>

-----------------------------------------------------------------------------
(* Specification *)

Prepares ==
  CreateJob \/ \E p \in {"INPUT_VALIDATED", "FAILED_INPUT", "FAILED_RUNTIME"} : Admit(p)
Processes == Extract \/ ExtractFails \/ RecordFailure \/ \E b \in BOOLEAN : Normalize(b)
NextCall == NextReady \/ NextRepair \/ NextExhausted
Translates ==
  \/ \E u \in Units, q \in Quality, affects \in BOOLEAN : Submit(u, q, affects)
  \/ \E contradicts \in BOOLEAN : Assess(contradicts)
  \/ Resolve

RunNext == Prepares \/ Processes \/ NextCall \/ Translates \/ Verify \/ Finalize \/ ReadRun \/ CommitReport \/ Write \/ Dies

\* The agent's loop (.opencode/agents/k-slide.md): next; submit what it hands out;
\* assess; verify what is assessed; finalize what is verified.
SubmitsCurrent ==
  \E u \in Units, q \in Quality, affects \in BOOLEAN :
    HasCurrent(run) /\ u = run.current /\ Submit(u, q, affects)
AssessesFirst == All(run, Translated) /\ run.registry = "absent" /\ Assess(FALSE)
VerifiesAssessed ==
  /\ Assessed(run)
  /\ run.phase \notin {"VERIFIED", "COMPLETE"}
  /\ Verify
FinalizesVerified == run.phase = "VERIFIED" /\ Finalize
AgentStep == NextCall \/ SubmitsCurrent \/ AssessesFirst \/ VerifiesAssessed \/ FinalizesVerified

\* A call that holds the lock or has read the run goes on; the agent gets the lock
\* now and then, and the host goes on asking for the next unit.
RunFairness ==
  /\ WF_runVars(Write)
  /\ WF_runVars(CommitReport)
  /\ SF_runVars(AgentStep)
  /\ SF_runVars(ReadRun)

RunSpec == RunInit /\ [][RunNext]_runVars
FairRunSpec == RunSpec /\ RunFairness

-----------------------------------------------------------------------------
(* Properties *)

\* Every version of the run, on disk or about to be, can be read, and the
\* automatic repairs of a unit stay within their bound.
RunTypeOK ==
  /\ run \in Run
  /\ \A i \in 1..Len(pending) : pending[i] \in Run
  /\ job.lifecycle \in DOMAIN Successors

\* VERIFIED, COMPLETE and RUN_COMPLETE.md are earned: every unit has a translation
\* that is on disk as the queue records it and that passes, whatever was cut short.
Earned(r) ==
  r.phase \in {"VERIFIED", "COMPLETE"} \/ r.sentinel => \A u \in Units : GoodUnit(r, u)
VerdictIsEarned == Earned(run)

\* A good translation, once recorded, is never redone, rejected or lost: not by a
\* repair of another unit, a failed verification, a crash or an extraction.
GoodWorkSurvives ==
  [][\A u \in Units : GoodUnit(run, u) => GoodUnit(run', u)]_runVars

\* The job says DONE of no run that has not earned it.
JobIsNotAhead ==
  [][job'.outcome = "DONE" /\ job.outcome # "DONE" => \A u \in Units : GoodUnit(run, u)]_runVars

\* A run that translates completes or comes to a reviewer, also when a submission
\* dies between its writes, unless it holds contradictions, another call dies, or
\* verification comes before its turn.
Ended ==
  \/ run.phase \in {"COMPLETE", "NEEDS_REVIEW"}
  \/ AwaitsReview(run) /\ WithStatus(run, {"READY"}) = {}
Contradictory == run.registry \notin {"absent", "clear"}
TranslationEnds ==
  run.phase = "EXTRACTED" ~> Ended \/ Contradictory \/ strayed # "no"

\* RUN_RECOVERY_GUIDE.md: a run whose session stops is continued from what is on
\* disk, whichever call it stopped in.
StoppedSessionsContinue ==
  run.phase = "EXTRACTED" ~> Ended \/ Contradictory \/ strayed = "early"

\* The job of a completed run does not stay under way (what it ends with may be a
\* report on an earlier phase that came late).
CompletionIsReported ==
  run.phase = "COMPLETE" /\ job.lifecycle \in {"RUNNING", "RETRYING"}
    ~> job.lifecycle \in {"COMPLETED", "PROCESSING_FAILED"} \/ run.phase # "COMPLETE"
=============================================================================
