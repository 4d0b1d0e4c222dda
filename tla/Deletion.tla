------------------------------- MODULE Deletion -------------------------------
(***************************************************************************)
(* Deletion of one run (src/src/k_slide/deletion.py): DeletionCoordinator   *)
(* over the workspace backend and over the scoped reference backend, with   *)
(* the fence that product writes consult, the legal-hold authority, the     *)
(* expiry of audits, and the product steps that race with a deletion.       *)
(*                                                                         *)
(* A target class is one file, which carries the generation that wrote it.  *)
(* Classes that behave alike are one: metrics stands for what is deleted    *)
(* between the job and the run state, content for what comes after both.    *)
(* Every write is a step, and a caller may die between any two.             *)
(***************************************************************************)
EXTENDS Naturals, FiniteSets, Sequences

CONSTANTS
  Backends,        \* backends to consider: "workspace", "scoped"
  Deleters,        \* processes that call for a deletion
  DeletionIds,     \* deletion identities they use
  Cleanups,        \* processes that expire old audits
  MaxGenerations,  \* bound: how often the run is submitted under its identity
  MaxFaults,       \* bound: failed unlinks and crashes
  None             \* no audit

ASSUME DeletionBounds == MaxGenerations \in Nat \ {0} /\ MaxFaults \in Nat

VARIABLES
  backend,     \* which backend this run lives in
  reason,      \* per deletion identity, EXPLICIT or RETENTION_EXPIRY
  file,        \* per class, the generation of the file on disk, 0 for none
  phase,       \* RUN_STATE: has the run a terminal phase
  lifecycle,   \* EXECUTION_JOB: live, asked to cancel, canceled or over
  audit,       \* the deletion audits
  fence,       \* workspace: the fence file and the field in RUN_STATE
  hold,        \* what the legal-hold authority answers, if it answers
  shielded,    \* history: on hold since before any pass that is under way began
  caller,      \* what each deleter holds in memory
  inode,       \* which file the run lock's name stands for
  expiring,    \* what each cleanup has found out about each audit
  straggler,   \* a product call that has checked the run and not yet the lock
  generation,  \* generations created so far
  faults

deletionVars == <<backend, reason, file, phase, lifecycle, audit, fence, hold, shielded, caller,
                  inode, expiring, straggler, generation, faults>>
given == <<backend, reason>>
runFiles == <<file, phase, lifecycle>>
control == <<audit, fence>>
surroundings == <<hold, shielded, inode, expiring, straggler, generation>>

-----------------------------------------------------------------------------
(* Documents *)

Workspace == backend = "workspace"
Order == IF Workspace THEN <<"job", "metrics", "state", "content">>
                      ELSE <<"record", "job", "content">>
Class == {"record", "job", "metrics", "state", "content"}
Anchor == {"record", "job", "state"}

Untouched == [k \in Class |-> "no target"]
NoAnchors == [k \in Anchor |-> <<>>]
Unknown == <<"unknown">>
Audit == [state : {"BLOCKED", "IN_PROGRESS", "PARTIAL", "COMPLETE"},
          targets : [Class -> {"no target", "PLANNED", "DELETED", "ABSENT", "FAILED", "ADDED"}],
          anchors : [Anchor -> {<<>>} \cup (Nat \X {"open", "over", ""})],
          ref : {Unknown} \cup (Nat \X Nat \X {"open", "over", ""})]

ASSUME NoneIsNoAudit == None \notin Audit

Idle == [pc |-> "idle", id |-> None, at |-> 0, save |-> None, found |-> {}, next |-> 1]
Waiting == {"replay", "block", "claim"}
Holding == {"save", "fence", "mark", "remove", "finish"}

\* A cleanup that has no audit in hand.
AllKept == [d \in DeletionIds |-> "kept"]

Present(k) == file[k] # 0
Files == {k \in Class : Present(k)}

\* workspace_mutation_guard, or _deletion_fenced over the scope's audits.
Destructive(a) == a.state \in {"IN_PROGRESS", "PARTIAL"}
Fenced ==
  IF Workspace THEN fence.file \/ fence.field
  ELSE \E d \in DeletionIds : audit[d] # None /\ Destructive(audit[d])

-----------------------------------------------------------------------------
(* What a backend says of the run *)

Active ==
  IF Present("job") THEN lifecycle \in {"live", "asked"}
  ELSE Workspace /\ Present("state") /\ phase = "open"
Canceled == Present("job") /\ lifecycle = "canceled"
Terminal ==
  IF Workspace THEN ~Present("state") \/ phase = "over" \/ Canceled ELSE ~Active

\* A saved run state has another revision; the scope's documents do not change.
Proof(k) == IF ~Present(k) THEN <<>> ELSE <<file[k], IF k = "state" THEN phase ELSE "">>
Anchors == [k \in Anchor |-> Proof(k)]
GenerationRef ==
  IF Workspace THEN <<file["job"], file["state"], IF Present("state") THEN phase ELSE "">>
  ELSE <<IF Present("job") THEN 1 ELSE 0, 0, "">>

Planned(a) == a.targets # Untouched

Matches_ByName(a) == TRUE

Matches_AllPresent(a) == \A k \in Anchor : Proof(k) = a.anchors[k]

\* _generation_matches: what is there is what was planned for; what is missing
\* was a target.
Matches(a) ==
  IF a.anchors # NoAnchors
  THEN \A k \in Anchor :
         /\ Present(k) => Proof(k) = a.anchors[k]
         /\ ~Present(k) /\ a.anchors[k] # <<>> => a.targets[k] # "no target"
  ELSE \/ GenerationRef = a.ref
       \/ /\ Anchors = NoAnchors
          /\ \E k \in Anchor : a.targets[k] # "no target"
          /\ \A k \in Anchor : a.targets[k] # "ADDED"

Fresh(ref) == [state |-> "BLOCKED", targets |-> Untouched, anchors |-> NoAnchors, ref |-> ref]
Current(d) == IF audit[d] = None THEN Fresh(Unknown) ELSE audit[d]
Blocked(d) == [Current(d) EXCEPT !.state = "BLOCKED"]
\* A block for activity records the generation it saw.
BlockedOn(d) == [Current(d) EXCEPT !.state = "BLOCKED", !.ref = GenerationRef]

\* The first plan fixes targets and anchors; a later pass adopts no new target.
Plan(d) ==
  LET a == IF audit[d] = None THEN Fresh(GenerationRef) ELSE audit[d]
      known == {k \in Class : a.targets[k] # "no target"}
  IN [a EXCEPT !.state = "IN_PROGRESS",
               !.anchors = IF @ = NoAnchors THEN Anchors ELSE @,
               !.targets = [k \in Class |->
                              IF k \in Files \ known
                              THEN IF known = {} THEN "PLANNED" ELSE "ADDED"
                              ELSE @[k]]]

-----------------------------------------------------------------------------
(* DeletionCoordinator.run: before the lock *)

DeletionInit ==
  /\ backend \in Backends
  /\ reason \in [DeletionIds -> {"EXPLICIT", "RETENTION_EXPIRY"}]
  /\ file = [k \in Class |-> IF k \in {Order[i] : i \in 1..Len(Order)} THEN 1 ELSE 0]
  /\ phase \in (IF Workspace THEN {"open", "over"} ELSE {"open"})
  /\ lifecycle = "live"
  /\ audit = [d \in DeletionIds |-> None]
  /\ fence = [file |-> FALSE, field |-> FALSE]
  /\ hold = "RELEASE"
  /\ shielded = FALSE
  /\ caller = [c \in Deleters |-> Idle]
  /\ inode = 1
  /\ expiring = [k \in Cleanups |-> AllKept]
  /\ straggler = 0
  /\ generation = 1
  /\ faults = 0

Goes(c, pc) == caller' = [caller EXCEPT ![c].pc = pc]
Saves(c, a) == caller' = [caller EXCEPT ![c].pc = "save", ![c].save = a]
Leaves(c) == caller' = [caller EXCEPT ![c] = Idle]

\* The scoped backend needs the admission record or an audit of this identity,
\* and knows one deletion identity per job.
Bound(d) ==
  \/ Workspace
  \/ /\ Present("record") \/ audit[d] # None
     /\ \A e \in DeletionIds \ {d} : audit[e] = None

Begin(c, d) ==
  /\ caller[c].pc = "idle"
  /\ Bound(d)
  /\ caller' = [caller EXCEPT ![c] =
       [Idle EXCEPT !.id = d,
          !.pc = IF audit[d] # None /\ audit[d].state = "COMPLETE" THEN "replay" ELSE "ask"]]
  /\ UNCHANGED <<given, runFiles, control, surroundings, faults>>

\* The first lookup of the hold, before the lock...
Ask(c) ==
  /\ caller[c].pc = "ask"
  /\ Goes(c, IF hold = "RELEASE" THEN "claim" ELSE "block")
  /\ UNCHANGED <<given, runFiles, control, surroundings, faults>>

\* ...which the authority may leave without an answer.
AskInVain(c) ==
  /\ caller[c].pc = "ask"
  /\ Goes(c, "block")
  /\ UNCHANGED <<given, runFiles, control, surroundings, faults>>

\* Open the lock file; cleanup may unlink its name before it is locked.
Open(c) ==
  /\ caller[c].pc \in Waiting
  /\ caller[c].at = 0
  /\ caller' = [caller EXCEPT ![c].at = inode]
  /\ UNCHANGED <<given, runFiles, control, surroundings, faults>>

HeldBy(n) == {c \in Deleters : caller[c].pc \in Holding /\ caller[c].at = n}
Locks(c) == caller[c].at # 0 /\ HeldBy(caller[c].at) = {}

-----------------------------------------------------------------------------
(* Under the lock *)

\* A completed audit is returned if nothing new has its name.
Replay(c) ==
  /\ caller[c].pc = "replay"
  /\ Locks(c)
  /\ LET d == caller[c].id
     IN IF audit[d] = None
        THEN caller' = [caller EXCEPT ![c].pc = "ask", ![c].at = 0]
        ELSE IF Bound(d) /\ ~Matches(audit[d]) THEN Saves(c, Blocked(d)) ELSE Leaves(c)
  /\ UNCHANGED <<given, runFiles, control, surroundings, faults>>

Block(c) ==
  /\ caller[c].pc = "block"
  /\ Locks(c)
  /\ IF Bound(caller[c].id) THEN Saves(c, Blocked(caller[c].id)) ELSE Leaves(c)
  /\ UNCHANGED <<given, runFiles, control, surroundings, faults>>

Claims(c, d) ==
  /\ caller[c].pc = "claim"
  /\ caller[c].id = d
  /\ Locks(c)

\* The authority does not answer this time, or the identity is taken: the call
\* raises.
ClaimRaises(c, d) ==
  /\ Claims(c, d)
  /\ Leaves(c)
  /\ UNCHANGED <<given, runFiles, control, surroundings, faults>>

Claimed_FirstAnswer(c, d) == Claims(c, d) /\ Bound(d)

\* The hold is read again at the destructive boundary.
Claimed(c, d) == Claims(c, d) /\ Bound(d) /\ hold = "RELEASE"
Replaced(d) == audit[d] # None /\ Planned(audit[d]) /\ ~Matches(audit[d])

Refuse(c, d) ==
  /\ Claims(c, d) /\ Bound(d)
  /\ hold = "HOLD" \/ Replaced(d)
  /\ Saves(c, Blocked(d))
  /\ UNCHANGED <<given, runFiles, control, surroundings, faults>>

\* An explicit deletion asks an active run to stop; nobody deletes it meanwhile.
RefuseActive(c, d) ==
  /\ Claimed(c, d) /\ ~Replaced(d)
  /\ Active \/ ~Terminal
  /\ lifecycle' = IF Active /\ reason[d] = "EXPLICIT" /\ Present("job") THEN "asked" ELSE lifecycle
  /\ Saves(c, BlockedOn(d))
  /\ UNCHANGED <<given, file, phase, control, surroundings, faults>>

\* A dry run of the same goes as far as asking.
Preview(d) ==
  /\ HeldBy(inode) = {}
  /\ Bound(d) /\ hold = "RELEASE" /\ ~Replaced(d)
  /\ Active /\ reason[d] = "EXPLICIT" /\ Present("job")
  /\ lifecycle' = "asked"
  /\ UNCHANGED <<given, file, phase, control, surroundings, caller, faults>>

StartPass(c, d) ==
  /\ Claimed(c, d) /\ ~Replaced(d)
  /\ ~Active /\ Terminal
  /\ caller' = [caller EXCEPT ![c].pc = "save", ![c].save = Plan(d), ![c].found = Files,
                              ![c].next = 1]
  /\ UNCHANGED <<given, runFiles, control, surroundings, faults>>

Wrote(c) ==
  IF caller[c].save.state = "IN_PROGRESS" THEN Goes(c, "remove") ELSE Leaves(c)

SaveAudit(c) ==
  /\ caller[c].pc = "save"
  /\ audit' = [audit EXCEPT ![caller[c].id] = caller[c].save]
  /\ IF Workspace THEN Goes(c, "fence") ELSE Wrote(c)
  /\ UNCHANGED <<given, runFiles, fence, surroundings, faults>>

SetFence_UntilPartial(c) ==
  /\ caller[c].pc = "fence"
  /\ fence' = [fence EXCEPT !.file = caller[c].save.state = "IN_PROGRESS"]
  /\ Goes(c, "mark")
  /\ UNCHANGED <<given, runFiles, audit, surroundings, faults>>

\* _set_fence: the fence file, then the field of the run state.
SetFence(c) ==
  /\ caller[c].pc = "fence"
  /\ fence' = [fence EXCEPT !.file = Destructive(caller[c].save)]
  /\ Goes(c, "mark")
  /\ UNCHANGED <<given, runFiles, audit, surroundings, faults>>

MarkState(c) ==
  /\ caller[c].pc = "mark"
  /\ fence' = [fence EXCEPT !.field = Present("state") /\ Destructive(caller[c].save)]
  /\ Wrote(c)
  /\ UNCHANGED <<given, runFiles, audit, surroundings, faults>>

-----------------------------------------------------------------------------
(* The destructive pass, target by target in the order of the plan *)

Target(c) == Order[caller[c].next]
Status(c) == caller[c].save.targets[Target(c)]
Removing(c) == caller[c].pc = "remove" /\ caller[c].next <= Len(Order)
Records(c, status) ==
  caller' = [caller EXCEPT ![c].save.targets[Target(c)] = status, ![c].next = @ + 1]

SkipTarget_Missing(c) ==
  /\ Removing(c)
  /\ Target(c) \notin caller[c].found
  /\ Records(c, "MISSING")
  /\ UNCHANGED <<given, runFiles, control, surroundings, faults>>

SkipTarget(c) ==
  /\ Removing(c)
  /\ \/ Status(c) \in {"no target", "ADDED"}
     \/ Target(c) \notin caller[c].found
  /\ Records(c, IF Status(c) \in {"PLANNED", "FAILED"} THEN "ABSENT" ELSE Status(c))
  /\ UNCHANGED <<given, runFiles, control, surroundings, faults>>

Due(c) == Removing(c) /\ Status(c) \notin {"no target", "ADDED"} /\ Target(c) \in caller[c].found

RemoveTarget(c) ==
  /\ Due(c)
  /\ file' = [file EXCEPT ![Target(c)] = 0]
  /\ fence' = IF Target(c) = "state" THEN [fence EXCEPT !.field = FALSE] ELSE fence
  /\ Records(c, "DELETED")
  /\ UNCHANGED <<given, phase, lifecycle, audit, surroundings, faults>>

FailTarget_TakenForAbsent(c) ==
  /\ Due(c)
  /\ faults < MaxFaults
  /\ faults' = faults + 1
  /\ Records(c, "ABSENT")
  /\ UNCHANGED <<given, runFiles, control, surroundings>>

\* The first failure ends the pass.
FailTarget(c) ==
  /\ Due(c)
  /\ faults < MaxFaults
  /\ faults' = faults + 1
  /\ Saves(c, [caller[c].save EXCEPT !.targets[Target(c)] = "FAILED", !.state = "PARTIAL"])
  /\ UNCHANGED <<given, runFiles, control, surroundings>>

Failures(c) == {k \in Class : caller[c].save.targets[k] \in {"FAILED", "ADDED"}}
Leftover == IF Workspace THEN Files ELSE Files \cap {"content"}
InUse == {inode} \cup {caller[c].at : c \in Deleters}
FreshInodes == {n \in 1..(Cardinality(Deleters) + 2) : n \notin InUse /\ 1..(n - 1) \subseteq InUse}

\* cleanup_after_targets: the directory must be empty; the scratch root goes, and
\* in it the name of the run lock that this caller holds.
EndPass(c) ==
  /\ caller[c].pc = "remove" /\ caller[c].next > Len(Order)
  /\ LET emptied == Failures(c) = {} /\ Leftover = {}
     IN /\ inode' \in IF Workspace /\ emptied THEN FreshInodes ELSE {inode}
        /\ Saves(c, [caller[c].save EXCEPT !.state = IF emptied THEN "COMPLETE" ELSE "PARTIAL"])
  /\ UNCHANGED <<given, runFiles, control, hold, shielded, expiring, straggler, generation, faults>>

\* A deleter dies; its lock goes with it.
DeleterDies(c) ==
  /\ caller[c].pc \in Holding
  /\ faults < MaxFaults
  /\ faults' = faults + 1
  /\ Leaves(c)
  /\ UNCHANGED <<given, runFiles, control, surroundings>>

-----------------------------------------------------------------------------
(* The surroundings: the product, the authority, the expiry of audits *)

Unlocked == HeldBy(inode) = {}
Writable == Unlocked /\ ~Fenced

\* save_state with a terminal phase; every product call loads the job first.
EndRun ==
  /\ Workspace /\ Writable
  /\ Present("state") /\ Present("job") /\ phase = "open"
  /\ phase' = "over"
  /\ UNCHANGED <<given, file, lifecycle, control, surroundings, caller, faults>>

\* sync_workspace_execution, or the worker of a scoped job.
EndJob ==
  /\ Writable
  /\ Present("job") /\ lifecycle \in {"live", "asked"}
  /\ Workspace => Present("state") /\ phase = "over"
  /\ lifecycle' = "over"
  /\ UNCHANGED <<given, file, phase, control, surroundings, caller, faults>>

Acknowledge ==
  /\ Writable
  /\ Present("job") /\ lifecycle = "asked"
  /\ lifecycle' = "canceled"
  /\ UNCHANGED <<given, file, phase, control, surroundings, caller, faults>>

WriteContent ==
  /\ Writable
  /\ IF Workspace THEN Present("state") /\ phase = "open" ELSE Active
  /\ file' = [file EXCEPT !["content"] = IF Workspace THEN @ ELSE file["job"],
                          !["metrics"] = IF Workspace THEN file["state"] ELSE @]
  /\ UNCHANGED <<given, phase, lifecycle, control, surroundings, caller, faults>>

\* submit loads state and job before it charges the output budget under the lock,
\* which consults no fence; a scoped submission consults the fence before the lock.
CheckRun ==
  /\ straggler = 0
  /\ IF Workspace THEN Present("state") /\ Present("job") ELSE ~Fenced
  /\ straggler' = generation
  /\ UNCHANGED <<given, runFiles, control, hold, shielded, inode, expiring, generation, caller, faults>>

ChargeBudget ==
  /\ Workspace /\ straggler # 0 /\ Unlocked
  /\ file' = [file EXCEPT !["metrics"] = straggler]
  /\ straggler' = 0
  /\ UNCHANGED <<given, phase, lifecycle, control, hold, shielded, inode, expiring, generation, caller, faults>>

\* _submit_scoped under the scope lock.
Resubmit ==
  /\ ~Workspace /\ straggler # 0 /\ Unlocked
  /\ straggler' = 0
  /\ IF ~Present("job") /\ generation < MaxGenerations
     THEN /\ generation' = generation + 1
          /\ file' = [file EXCEPT !["job"] = generation',
                                  !["record"] = IF @ = 0 THEN generation' ELSE @]
          /\ lifecycle' = "live"
     ELSE UNCHANGED <<file, lifecycle, generation>>
  /\ UNCHANGED <<given, phase, control, hold, shielded, inode, expiring, caller, faults>>

InPass(c) == caller[c].pc \in Holding /\ caller[c].save.state = "IN_PROGRESS"

ChangeHold(answer) ==
  /\ answer # hold
  /\ hold' = answer
  /\ shielded' = (answer = "HOLD" /\ \A c \in Deleters : ~InPass(c))
  /\ UNCHANGED <<given, runFiles, control, inode, expiring, straggler, generation, caller, faults>>

\* cleanup_operational_metadata expires audits by their age, whatever their state,
\* and takes no lock: it reads them all, then asks about each old one whether it is
\* held, then unlinks it by its name, whatever has that name by now.  Any audit may
\* have grown old when it is read.
StepsOfCleanup == UNCHANGED <<given, runFiles, fence, hold, shielded, inode, straggler, generation, caller, faults>>

ReadAudits(k) ==
  /\ expiring[k] = AllKept
  /\ \E old \in (SUBSET {d \in DeletionIds : audit[d] # None}) \ {{}} :
       expiring' = [expiring EXCEPT ![k] = [d \in DeletionIds |-> IF d \in old THEN "old" ELSE "kept"]]
  /\ UNCHANGED audit
  /\ StepsOfCleanup

AskToExpire(k, d) ==
  /\ expiring[k][d] = "old"
  /\ expiring' = [expiring EXCEPT ![k][d] = IF hold = "RELEASE" THEN "released" ELSE "kept"]
  /\ UNCHANGED audit
  /\ StepsOfCleanup

ExpireAudit(k, d) ==
  /\ expiring[k][d] = "released"
  /\ audit[d] # None
  /\ audit' = [audit EXCEPT ![d] = None]
  /\ expiring' = [expiring EXCEPT ![k][d] = "kept"]
  /\ StepsOfCleanup

\* It raises, over an authority that does not answer or an audit that is gone, or
\* dies.
CleanupEnds(k) ==
  /\ expiring[k] # AllKept
  /\ expiring' = [expiring EXCEPT ![k] = AllKept]
  /\ UNCHANGED audit
  /\ StepsOfCleanup

-----------------------------------------------------------------------------
(* Specification *)

Decides(c) ==
  \/ Replay(c) \/ Block(c)
  \/ \E d \in DeletionIds : Refuse(c, d) \/ RefuseActive(c, d) \/ StartPass(c, d)
Proceeds(c) ==
  \/ Open(c) \/ SaveAudit(c) \/ SetFence(c) \/ MarkState(c)
  \/ SkipTarget(c) \/ RemoveTarget(c) \/ EndPass(c)
Fails(c) ==
  \/ AskInVain(c) \/ FailTarget(c) \/ DeleterDies(c)
  \/ \E d \in DeletionIds : ClaimRaises(c, d)
Product == EndRun \/ EndJob \/ Acknowledge \/ WriteContent \/ CheckRun \/ ChargeBudget \/ Resubmit
Cleans(k) ==
  \/ ReadAudits(k) \/ CleanupEnds(k)
  \/ \E d \in DeletionIds : AskToExpire(k, d) \/ ExpireAudit(k, d)
Operators ==
  \/ \E d \in DeletionIds : Preview(d)
  \/ \E k \in Cleanups : Cleans(k)
  \/ \E answer \in {"RELEASE", "HOLD"} : ChangeHold(answer)

DeletionNext ==
  \/ \E c \in Deleters :
       \/ \E d \in DeletionIds : Begin(c, d)
       \/ Ask(c) \/ Decides(c) \/ Proceeds(c) \/ Fails(c)
  \/ Product
  \/ Operators

\* Callers retry for ever, the authority answers now and then, the lock and the
\* product's workers are fair.
DeletionFairness ==
  /\ \A c \in Deleters :
       /\ \A d \in DeletionIds : WF_deletionVars(Begin(c, d))
       /\ SF_deletionVars(Ask(c))
       /\ SF_deletionVars(Replay(c) \/ Block(c))
       /\ SF_deletionVars(Decides(c) /\ caller[c].pc = "claim")
       /\ WF_deletionVars(Proceeds(c))
  /\ SF_deletionVars(EndJob)
  /\ SF_deletionVars(Acknowledge)

DeletionSpec == DeletionInit /\ [][DeletionNext]_deletionVars
FairDeletionSpec == DeletionSpec /\ DeletionFairness

-----------------------------------------------------------------------------
(* Properties *)

\* Every caller, audit and file has a state the code can read.
DeletionTypeOK ==
  /\ file \in [Class -> 0..MaxGenerations]
  /\ phase \in {"open", "over"}
  /\ lifecycle \in {"live", "asked", "canceled", "over"}
  /\ audit \in [DeletionIds -> Audit \cup {None}]
  /\ fence \in [file : BOOLEAN, field : BOOLEAN]
  /\ hold \in {"RELEASE", "HOLD"}
  /\ expiring \in [Cleanups -> [DeletionIds -> {"kept", "old", "released"}]]
  /\ \A c \in Deleters :
       /\ caller[c].pc \in {"idle", "ask"} \cup Waiting \cup Holding
       /\ caller[c].save \in Audit \cup {None}

\* A deletion removes only the generation it was planned for: not a run state that
\* the product has saved since, nor documents submitted anew under the identity.
OnlyThePlannedGeneration ==
  [][\A k \in Anchor : Present(k) /\ file'[k] = 0 =>
       \E c \in Deleters : caller[c].pc = "remove" /\ caller[c].save.anchors[k] = Proof(k)
    ]_deletionVars

\* A legal hold placed while no pass is under way keeps every file of the run, also
\* when it comes after the first lookup of a deletion that waits for the lock.
HeldFilesSurvive ==
  [][shielded /\ shielded' => \A k \in Class : Present(k) => file'[k] # 0]_deletionVars

\* An audit that reads COMPLETE is right: nothing of a generation it was planned
\* for is left, but for what a late charge of the budget has written since.
Gone(a) ==
  /\ \A k \in Anchor : Proof(k) = <<>> \/ Proof(k) # a.anchors[k]
  /\ Present("content") => \E k \in Anchor : file[k] = file["content"]
CompleteMeansGone ==
  \A d \in DeletionIds :
    audit[d] # None /\ audit[d].state = "COMPLETE" => Gone(audit[d])

\* Writers are kept out of a deletion.  Nothing is removed before the fence is up,
\* and the fence stays until a call completes or blocks the deletion, whatever fails
\* and whoever dies in between.  Only in a scope, where the audits are the fence, can
\* a cleanup take it down, also under a pass that still removes, as when it had read
\* the old audit before the pass saved it anew.  Even then nobody but the pass touches
\* the documents that it is about, as long as it lives: it has their lock.
Lifts(c) == /\ caller[c].pc \in {"save", "fence", "mark"}
            /\ caller[c].save.state \in {"BLOCKED", "COMPLETE"}
Unfenced(c) == ~Workspace /\ caller[c].pc = "remove" /\ audit[caller[c].id] = None
RemovalIsFenced ==
  [][/\ (\E k \in Class \ {"metrics"} : Present(k) /\ file'[k] = 0) =>
          Fenced \/ \E c \in Deleters : Unfenced(c)
     /\ Fenced /\ ~Fenced' =>
          \/ \E c \in Deleters : Lifts(c)
          \/ ~Workspace /\ \E d \in DeletionIds : audit[d] # None /\ audit'[d] = None
     /\ (\E c \in Deleters : InPass(c)) =>
          /\ \A k \in Anchor : file'[k] \in {file[k], 0}
          /\ Present("job") => lifecycle' = lifecycle
          /\ Present("state") => phase' = phase
    ]_deletionVars

\* A run that has ended before its deletion is asked for gets deleted, as long as
\* the authority releases it and no audit expires halfway: what fails or crashes in
\* the middle is retried.  A call under way may hold a plan older than the end of the
\* run, and save it although the audit has expired.
Forgotten == ~Present("job") /\ \A d \in DeletionIds : audit[d] = None
RunHasEnded ==
  /\ Workspace /\ phase = "over"
  /\ \A d \in DeletionIds : audit[d] = None
  /\ \A c \in Deleters : caller[c].pc \notin Holding
EndedRunIsDeleted == RunHasEnded ~> hold = "HOLD" \/ Files \subseteq {"metrics"} \/ Forgotten
=============================================================================
