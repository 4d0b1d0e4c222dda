---------------------------- MODULE RolloutControl ----------------------------
(***************************************************************************)
(* The reference rollout control and candidate revocation ledgers           *)
(* (src/src/k_slide/rollout.py, candidate_revocation.py): control-plane     *)
(* processes that apply signed commands and events, and admitters that read *)
(* the same files without a lock.                                           *)
(*                                                                         *)
(* A write of a control document is a step; the process can die between     *)
(* any two.  Signatures, times, actors and authorities are left out, the    *)
(* cohorts of a stage are abstracted to whether admissions are enabled, and *)
(* a state identity (the hash of the document, which chains its             *)
(* predecessor) is the document itself.  The policy names a rollback        *)
(* target.                                                                  *)
(***************************************************************************)
EXTENDS Naturals, Sequences, FiniteSets, SequencesExt

CONSTANTS
  Actors,       \* control-plane processes
  Admitters,    \* processes that ask for admission
  Category,     \* REVOCATION_REASON_CATEGORIES
  MaxRevision,  \* bound: rollout revision from which nobody starts anything
  MaxEvents,    \* bound: revocation and recovery events signed
  MaxCrashes,   \* bound: crashes of control-plane processes
  None          \* nobody, nothing

ASSUME RolloutBounds == MaxRevision \in Nat /\ MaxEvents \in Nat /\ MaxCrashes \in Nat
ASSUME CategoriesAreFinite == IsFiniteSet(Category)
ASSUME NobodyIsNone == None \notin Actors

Primary == "primary"
Fallback == "rollback target"
Candidate == {Primary, Fallback}

VARIABLES
  state,        \* rollout-state.json
  head,         \* rollout-head.json: the identity of the state it anchors
  history,      \* rollout-history/
  ledger,       \* per candidate: state.json, head.json and history/
  rolloutLock,  \* who holds rollout-control.lock
  ledgerLock,   \* per candidate, who holds revocation-control.lock
  events,       \* the events that have been signed; any of them may be re-applied
  actor,        \* what each control-plane process holds in memory
  admitter,     \* what each admitter holds in memory
  crashes

vars == <<state, head, history, ledger, rolloutLock, ledgerLock, events, actor, admitter, crashes>>
rolloutFiles == <<state, head, history>>
locks == <<rolloutLock, ledgerLock>>

-----------------------------------------------------------------------------
(* Documents *)

RolloutState == [revision : Nat, candidate : Candidate, open : BOOLEAN]
LedgerState == [revision : Nat, reasons : SUBSET Category]
Event == [id : Nat, candidate : Candidate, action : {"REVOKE", "RECOVER"},
          reasons : SUBSET Category, expected : Nat]
Ledger == [state : LedgerState, head : LedgerState, history : Seq(Event)]
Command == {"SET_STAGE", "DISABLE", "ROLLBACK", "RESTORE_CANDIDATE"}

Genesis == [revision |-> 0, reasons |-> {}]
InitialState == [revision |-> 1, candidate |-> Primary, open |-> FALSE]

\* _state_payload and _verify_reference_history: the head anchors the state, and
\* the history ends with it.
RolloutReadable ==
  /\ head = state
  /\ Len(history) = state.revision
  /\ history[state.revision] = state

\* _read_state, but for the chain of events, which LedgerAddsUp shows.  A reader
\* that opens the three one after the other, while they are written in the order
\* history, state, head, succeeds only if they agree at the moment it lists the
\* history: its reads are one step at that moment.
\* Where it raises although they agree, because they changed between two reads,
\* the caller gives up as it does when it dies there.
LedgerReadable(c) ==
  /\ ledger[c].head = ledger[c].state
  /\ Len(ledger[c].history) = ledger[c].state.revision

Revoked(c) == ledger[c].state.reasons # {}
Recorded(e) == Contains(ledger[e.candidate].history, e)

\* What an event makes of the ledger of its candidate, and when
\* record_reference_candidate_event refuses it.
Outcome(e) ==
  LET reasons == ledger[e.candidate].state.reasons
  IN [revision |-> ledger[e.candidate].state.revision + 1,
      reasons |-> IF e.action = "REVOKE" THEN reasons \cup e.reasons ELSE reasons \ e.reasons]

Applicable_AnyRevision(e) ==
  /\ LedgerReadable(e.candidate)
  /\ e.action = "RECOVER" => e.reasons \subseteq ledger[e.candidate].state.reasons

Applicable(e) ==
  /\ LedgerReadable(e.candidate)
  /\ e.expected = ledger[e.candidate].state.revision
  /\ e.action = "RECOVER" => e.reasons \subseteq ledger[e.candidate].state.reasons

\* What a command makes of the rollout state, and when apply_rollout_transition
\* refuses it.
Target(command) ==
  CASE command = "ROLLBACK" -> Fallback
    [] command = "RESTORE_CANDIDATE" -> Primary
    [] OTHER -> state.candidate
Transition_Unresolved(command) ==
  [revision |-> state.revision + 1, candidate |-> IF command = "ROLLBACK" THEN None ELSE Target(command),
   open |-> command = "SET_STAGE"]
Transition(command) ==
  [revision |-> state.revision + 1, candidate |-> Target(command), open |-> command = "SET_STAGE"]
Legal(command, expected) ==
  /\ expected = state.revision
  /\ command = "ROLLBACK" => state.candidate = Primary
  /\ command = "RESTORE_CANDIDATE" => state.candidate = Fallback

-----------------------------------------------------------------------------
(* Control-plane processes *)

\* The step a process is about to make:
\*   record                    lock a ledger, check the event
\*   event, ledger, anchor     its three writes
\*   state, head, fallback     a revocation looks at the rollout, without a lock
\*   snapshot, reserve         so does a recovery
\*   relock                    a recovery of a disabled primary locks the rollout
\*   lock, check, standby, protect   a transition locks and checks
\*   history, rollout, sign    its three writes
PC == {"idle", "record", "event", "ledger", "anchor", "state", "head", "fallback",
       "validate", "snapshot", "reserve", "relock", "lock", "check", "standby", "protect",
       "history", "rollout", "sign"}

\* event: the event in hand; command and expected: the transition in hand; seen:
\* a state read without the lock; closed: the ledger revision at which its last
\* call, a revocation, returned without an error.
ActorState ==
  [pc : PC, event : Event \cup {None}, command : Command \cup {None}, expected : Nat,
   seen : RolloutState \cup {None}, closed : [candidate : Candidate, revision : Nat] \cup {None}]

IdleActor ==
  [pc |-> "idle", event |-> None, command |-> None, expected |-> 0, seen |-> None, closed |-> None]

AdmitterState ==
  [pc : {"idle", "state", "head", "history", "gate"}, candidate : Candidate,
   revoked : BOOLEAN, seen : RolloutState \cup {None}, admitted : BOOLEAN]

IdleAdmitter ==
  [pc |-> "idle", candidate |-> Primary, revoked |-> FALSE, seen |-> None, admitted |-> FALSE]

\* Rollout control has been initialised: both ledgers are clear, admissions are
\* disabled.
Init ==
  /\ state = InitialState
  /\ head = InitialState
  /\ history = <<InitialState>>
  /\ ledger = [c \in Candidate |-> [state |-> Genesis, head |-> Genesis, history |-> <<>>]]
  /\ rolloutLock = None
  /\ ledgerLock = [c \in Candidate |-> None]
  /\ events = {}
  /\ actor = [a \in Actors |-> IdleActor]
  /\ admitter = [r \in Admitters |-> IdleAdmitter]
  /\ crashes = 0

Goto(a, pc) == actor' = [actor EXCEPT ![a].pc = pc]
Unlock(a) == rolloutLock' = IF rolloutLock = a THEN None ELSE rolloutLock
\* The call returns or raises: the context manager releases what the process
\* holds of the rollout lock.  closed is what a revocation may now claim.
Leave(a, closed) ==
  /\ Unlock(a)
  /\ actor' = [actor EXCEPT ![a] = [IdleActor EXCEPT !.closed = closed]]
Fail(a) == Leave(a, None)
Claim(e) == [candidate |-> e.candidate, revision |-> e.expected + 1]
\* Decide whether to go on.
Check(a, condition, pc) ==
  IF condition THEN Goto(a, pc) /\ UNCHANGED rolloutLock ELSE Fail(a)

\* Everything but the actors and the rollout lock.
Files == UNCHANGED <<rolloutFiles, ledger, ledgerLock, events, admitter, crashes>>

\* An authority signs an event for the ledger as it stands.
Sign(c, action, reasons) ==
  /\ Cardinality(events) < MaxEvents
  /\ reasons # {}
  /\ action = "REVOKE" => Cardinality(reasons) = 1
  /\ LedgerReadable(c)
  /\ events' = events \cup
       {[id |-> Cardinality(events), candidate |-> c, action |-> action,
         reasons |-> reasons, expected |-> ledger[c].state.revision]}
  /\ UNCHANGED <<rolloutFiles, ledger, locks, actor, admitter, crashes>>

\* apply_reference_candidate_event, of a new event or once more of an old one.
ApplyEvent(a, e) ==
  /\ actor[a].pc = "idle"
  /\ state.revision < MaxRevision
  /\ actor' = [actor EXCEPT ![a] =
                 [IdleActor EXCEPT !.pc = IF e.action = "REVOKE" THEN "record" ELSE "validate",
                                   !.event = e]]
  /\ UNCHANGED rolloutLock
  /\ Files

\* An operator's transition, built on the revision in force.
SendCommand(a, command) ==
  /\ actor[a].pc = "idle"
  /\ state.revision < MaxRevision
  /\ actor' = [actor EXCEPT ![a] = [IdleActor EXCEPT !.pc = "lock", !.command = command,
                                                     !.expected = state.revision]]
  /\ UNCHANGED rolloutLock
  /\ Files

-----------------------------------------------------------------------------
(* record_reference_candidate_event *)

\* A revocation goes on to the rollout when its event is already recorded and
\* still the last one; a recovery has no more to do.
Record(a) ==
  LET e == actor[a].event
      log == ledger[e.candidate].history
  IN /\ actor[a].pc = "record"
     /\ ledgerLock[e.candidate] = None
     /\ IF LedgerReadable(e.candidate) /\ Recorded(e)
          THEN /\ IF e.action = "REVOKE" /\ Last(log) = e
                    THEN Goto(a, "state") /\ UNCHANGED rolloutLock
                    ELSE Fail(a)
               /\ UNCHANGED ledgerLock
          ELSE IF Applicable(e)
          THEN /\ ledgerLock' = [ledgerLock EXCEPT ![e.candidate] = a]
               /\ Goto(a, "event")
               /\ UNCHANGED rolloutLock
          ELSE Fail(a) /\ UNCHANGED ledgerLock
     /\ UNCHANGED <<rolloutFiles, ledger, events, admitter, crashes>>

WriteEvent(a) ==
  LET e == actor[a].event
  IN /\ actor[a].pc = "event"
     /\ ledger' = [ledger EXCEPT ![e.candidate].history = Append(@, e)]
     /\ Goto(a, "ledger")
     /\ UNCHANGED <<rolloutFiles, locks, events, admitter, crashes>>

WriteLedger(a) ==
  LET e == actor[a].event
  IN /\ actor[a].pc = "ledger"
     /\ ledger' = [ledger EXCEPT ![e.candidate].state = Outcome(e)]
     /\ Goto(a, "anchor")
     /\ UNCHANGED <<rolloutFiles, locks, events, admitter, crashes>>

\* The head completes the event.  A recovery returns, and with it whatever holds
\* the rollout lock around it.
WriteAnchor(a) ==
  LET e == actor[a].event
  IN /\ actor[a].pc = "anchor"
     /\ ledger' = [ledger EXCEPT ![e.candidate].head = ledger[e.candidate].state]
     /\ ledgerLock' = [ledgerLock EXCEPT ![e.candidate] = None]
     /\ IF e.action = "REVOKE" THEN Goto(a, "state") /\ UNCHANGED rolloutLock ELSE Fail(a)
     /\ UNCHANGED <<rolloutFiles, events, admitter, crashes>>

-----------------------------------------------------------------------------
(* What a revocation and a recovery do about the rollout *)

ReadState(a) ==
  /\ actor[a].pc = "state"
  /\ actor' = [actor EXCEPT ![a].pc = "head", ![a].seen = state]
  /\ UNCHANGED rolloutLock
  /\ Files

\* A revocation of a candidate that is not in force has no more to do.
ReadHead(a) ==
  /\ actor[a].pc = "head"
  /\ IF head # actor[a].seen THEN Fail(a)
     ELSE IF actor[a].seen.candidate # actor[a].event.candidate
     THEN Leave(a, Claim(actor[a].event))
     ELSE Goto(a, "fallback") /\ UNCHANGED rolloutLock
  /\ Files

\* The candidate named for rollback takes over unless it stands revoked too.
ChooseClosing(a) ==
  /\ actor[a].pc = "fallback"
  /\ IF LedgerReadable(Fallback)
       THEN /\ actor' = [actor EXCEPT ![a].pc = "lock", ![a].seen = None,
                           ![a].command = IF Revoked(Fallback) THEN "DISABLE" ELSE "ROLLBACK",
                           ![a].expected = actor[a].seen.revision]
            /\ UNCHANGED rolloutLock
       ELSE Fail(a)
  /\ Files

\* record_reference_candidate_event with _validate_only.
Validated(e) == ~Recorded(e) /\ Applicable(e)

ValidateRecovery(a) ==
  LET e == actor[a].event
  IN /\ actor[a].pc = "validate"
     /\ ledgerLock[e.candidate] = None
     /\ Check(a, Validated(e), "snapshot")
     /\ Files

\* _load_reference_rollout_snapshot reads as _read_state does.  Only the primary
\* candidate is recovered: where it is in force if that is disabled, and
\* otherwise by restoring it.
ReadSnapshot(a) ==
  /\ actor[a].pc = "snapshot"
  /\ IF ~RolloutReadable \/ actor[a].event.candidate # Primary THEN Fail(a)
     ELSE IF state.candidate = Primary THEN Check(a, ~state.open, "relock")
     ELSE /\ actor' = [actor EXCEPT ![a].pc = "reserve", ![a].seen = state]
          /\ UNCHANGED rolloutLock
  /\ Files

CheckReserve(a) ==
  /\ actor[a].pc = "reserve"
  /\ IF LedgerReadable(Fallback) /\ ~Revoked(Fallback)
       THEN /\ actor' = [actor EXCEPT ![a].pc = "lock", ![a].command = "RESTORE_CANDIDATE",
                                      ![a].seen = None, ![a].expected = actor[a].seen.revision]
            /\ UNCHANGED rolloutLock
       ELSE Fail(a)
  /\ Files

RelockDisabled_Unlocked(a) ==
  /\ actor[a].pc = "relock"
  /\ Check(a, RolloutReadable, "record")
  /\ Files

\* The disabled primary is looked at again under the rollout lock, which is kept
\* until the ledger is written.
RelockDisabled(a) ==
  /\ actor[a].pc = "relock"
  /\ rolloutLock = None
  /\ IF RolloutReadable /\ state.candidate = Primary /\ ~state.open
       THEN rolloutLock' = a /\ Goto(a, "record")
       ELSE Fail(a)
  /\ Files

-----------------------------------------------------------------------------
(* transition_reference_rollout_control *)

Recovering(a) == actor[a].event # None /\ actor[a].event.action = "RECOVER"

\* Everything that depends on the rollout files alone: they stay as they are
\* while the lock is held.
LockRollout(a) ==
  /\ actor[a].pc = "lock"
  /\ rolloutLock = None
  /\ IF RolloutReadable /\ Legal(actor[a].command, actor[a].expected)
       THEN rolloutLock' = a /\ Goto(a, IF Recovering(a) THEN "check" ELSE "protect")
       ELSE Fail(a)
  /\ Files

\* A recovery that restores needs an active revocation of the primary...
CheckRecovery(a) ==
  /\ actor[a].pc = "check"
  /\ ledgerLock[Primary] = None
  /\ Check(a, Validated(actor[a].event) /\ Revoked(Primary), "standby")
  /\ Files

\* ...and a rollback target that is not revoked.
CheckStandby(a) ==
  /\ actor[a].pc = "standby"
  /\ Check(a, LedgerReadable(Fallback) /\ ~Revoked(Fallback), "protect")
  /\ Files

Protected(command) == IF command = "DISABLE" THEN {} ELSE {Target(command)}

Protect_Unchecked(a) ==
  /\ actor[a].pc = "protect"
  /\ Check(a, \A c \in Protected(actor[a].command) : LedgerReadable(c), "history")
  /\ Files

\* The ledgers are read without their locks.
Protect(a) ==
  /\ actor[a].pc = "protect"
  /\ Check(a, \A c \in Protected(actor[a].command) :
                LedgerReadable(c) /\ (Revoked(c) => Recovering(a) /\ c = Primary), "history")
  /\ Files

WriteHistory(a) ==
  /\ actor[a].pc = "history"
  /\ history' = Append(history, Transition(actor[a].command))
  /\ Goto(a, "rollout")
  /\ UNCHANGED <<state, head, ledger, locks, events, admitter, crashes>>

WriteState(a) ==
  /\ actor[a].pc = "rollout"
  /\ state' = Last(history)
  /\ Goto(a, "sign")
  /\ UNCHANGED <<head, history, ledger, locks, events, admitter, crashes>>

\* The head completes the transition.  A recovery goes on to its ledger with the
\* rollout still locked; a revocation is done.
WriteHead(a) ==
  /\ actor[a].pc = "sign"
  /\ head' = state
  /\ IF Recovering(a) THEN Goto(a, "record") /\ UNCHANGED rolloutLock
     ELSE Leave(a, IF actor[a].event = None THEN None ELSE Claim(actor[a].event))
  /\ UNCHANGED <<state, history, ledger, ledgerLock, events, admitter, crashes>>

ActorStep(a) ==
  \/ Record(a) \/ WriteEvent(a) \/ WriteLedger(a) \/ WriteAnchor(a)
  \/ ReadState(a) \/ ReadHead(a) \/ ChooseClosing(a)
  \/ ValidateRecovery(a) \/ ReadSnapshot(a) \/ CheckReserve(a) \/ RelockDisabled(a)
  \/ LockRollout(a) \/ CheckRecovery(a) \/ CheckStandby(a) \/ Protect(a)
  \/ WriteHistory(a) \/ WriteState(a) \/ WriteHead(a)

\* The process dies; its file locks go with it.  (A temporary file that it leaves
\* in a history directory stops every reader as the entry itself would.)
Crash(a) ==
  /\ crashes < MaxCrashes
  /\ actor[a].pc # "idle"
  /\ Fail(a)
  /\ ledgerLock' = [c \in Candidate |-> IF ledgerLock[c] = a THEN None ELSE ledgerLock[c]]
  /\ crashes' = crashes + 1
  /\ UNCHANGED <<rolloutFiles, ledger, events, admitter>>

-----------------------------------------------------------------------------
(* RevocationAwareRolloutControl.admit around ReferenceFileRolloutControl.admit *)

OnlyAdmitter == UNCHANGED <<rolloutFiles, ledger, locks, events, actor, crashes>>
\* The call returns a receipt that admits, or one that denies, or it raises.
Answer(r, admitted) ==
  admitter' = [admitter EXCEPT ![r] = [IdleAdmitter EXCEPT !.admitted = admitted]]
Refuse(r) == Answer(r, FALSE)

Ask(r, c) ==
  /\ admitter[r].pc = "idle"
  /\ IF LedgerReadable(c)
       THEN admitter' = [admitter EXCEPT ![r] = [IdleAdmitter EXCEPT
                           !.pc = "state", !.candidate = c, !.revoked = Revoked(c)]]
       ELSE Refuse(r)
  /\ OnlyAdmitter

AdmitReadState(r) ==
  /\ admitter[r].pc = "state"
  /\ admitter' = [admitter EXCEPT ![r].pc = "head", ![r].seen = state]
  /\ OnlyAdmitter

AdmitReadHead(r) ==
  /\ admitter[r].pc = "head"
  /\ IF head = admitter[r].seen THEN admitter' = [admitter EXCEPT ![r].pc = "history"]
                                ELSE Refuse(r)
  /\ OnlyAdmitter

AdmitReadHistory_Prefix(r) ==
  /\ admitter[r].pc = "history"
  /\ IF history[admitter[r].seen.revision] = admitter[r].seen
       THEN admitter' = [admitter EXCEPT ![r].pc = "gate"]
       ELSE Refuse(r)
  /\ OnlyAdmitter

AdmitReadHistory(r) ==
  /\ admitter[r].pc = "history"
  /\ LET seen == admitter[r].seen
     IN IF /\ Len(history) = seen.revision /\ history[seen.revision] = seen
           /\ admitter[r].candidate = seen.candidate
          THEN admitter' = [admitter EXCEPT ![r].pc = "gate"]
          ELSE Refuse(r)
  /\ OnlyAdmitter

\* The receipt of the inner control, which a revocation recorded meanwhile denies,
\* and what the outer one makes of it: a receipt that contradicts the status read
\* first is refused.  Whether the cohort of the caller is admitted at an open
\* stage is its own.
Gate(r) ==
  LET seen == admitter[r].seen
      may == /\ LedgerReadable(seen.candidate) /\ ~Revoked(seen.candidate)
             /\ ~admitter[r].revoked /\ seen.open
  IN /\ admitter[r].pc = "gate"
     /\ \E admitted \in {FALSE, may} : Answer(r, admitted)
     /\ OnlyAdmitter

AdmitterStep(r) == AdmitReadState(r) \/ AdmitReadHead(r) \/ AdmitReadHistory(r) \/ Gate(r)

Next ==
  \/ \E a \in Actors :
       \/ ActorStep(a) \/ Crash(a)
       \/ \E e \in events : ApplyEvent(a, e)
       \/ \E command \in Command : SendCommand(a, command)
  \/ \E c \in Candidate, action \in {"REVOKE", "RECOVER"}, reasons \in SUBSET Category :
       Sign(c, action, reasons)
  \/ \E r \in Admitters : AdmitterStep(r) \/ \E c \in Candidate : Ask(r, c)

Spec == Init /\ [][Next]_vars

-----------------------------------------------------------------------------
(* Properties *)

\* Every variable has its type.
TypeOK ==
  /\ state \in RolloutState /\ head \in RolloutState
  /\ history \in Seq(RolloutState)
  /\ ledger \in [Candidate -> Ledger]
  /\ rolloutLock \in Actors \cup {None}
  /\ ledgerLock \in [Candidate -> Actors \cup {None}]
  /\ events \subseteq Event
  /\ actor \in [Actors -> ActorState]
  /\ admitter \in [Admitters -> AdmitterState]
  /\ crashes \in 0..MaxCrashes

\* The three files that admit() opens one after the other, without the lock, are
\* accepted only as the documents in force when it lists the history: neither
\* half a transition nor what a crash has left of one admits anybody.
AdmissionReadsWhatIsInForce ==
  [][\A r \in Admitters : admitter'[r].pc = "gate" /\ admitter[r].pc # "gate" =>
       RolloutReadable /\ state = admitter[r].seen]_vars

\* A revocation that was applied without an error has closed the rollout of its
\* candidate, and until the ledger changes nobody opens it again: not even a
\* command that had checked the ledger before the event was recorded.
RevocationCloses ==
  \A a \in Actors :
    LET claim == actor[a].closed
    IN claim # None /\ ledger[claim.candidate].head.revision = claim.revision =>
         ~(state.candidate = claim.candidate /\ state.open)

\* The reasons that the first n events of a log leave in force: those that one of
\* them revoked for and none after it recovered.
InForce(log, n) ==
  {r \in Category :
     \E i \in 1..n :
       /\ log[i].action = "REVOKE" /\ r \in log[i].reasons
       /\ \A k \in 1..n : k > i /\ r \in log[k].reasons => log[k].action = "REVOKE"}

\* A complete ledger says what its events add up to.  However often and in
\* whatever order they are applied, no event is in it twice and each was signed
\* for the revision it found: _read_state never refuses a ledger for its chain.
LedgerAddsUp ==
  \A c \in Candidate :
    LET log == ledger[c].history
    IN /\ \A i \in 1..Len(log) : log[i].expected = i - 1
       /\ LedgerReadable(c) => ledger[c].state.reasons = InForce(log, Len(log))

\* Through all interleavings and crashes, what the heads of the documents say is
\* what was promised: a candidate comes in force closed, and is recovered only
\* while it is in force and closed.
Promise == INSTANCE RolloutPromise WITH
  active <- head.candidate, open <- head.open,
  reasons <- [c \in Candidate |-> ledger[c].head.reasons]
KeepsThePromise == Promise!Spec

=============================================================================
