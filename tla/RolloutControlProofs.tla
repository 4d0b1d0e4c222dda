------------------------- MODULE RolloutControlProofs -------------------------
(***************************************************************************)
(* Proofs about RolloutControl, for any number of control-plane processes, *)
(* admitters, reasons, events and crashes.                                 *)
(*                                                                         *)
(* The rollout files change under one lock and each ledger under another,  *)
(* so what a process has checked about the files it is about to write      *)
(* stays true until it writes them (Standing, Noting).  What it has read   *)
(* without a lock is bound to a revision instead: a revocation that has    *)
(* been recorded stays in force until the revision of its ledger moves on  *)
(* (Registered), and a reader of the rollout files holds what was in force *)
(* unless the history has grown (AdmitterOK).                              *)
(***************************************************************************)
EXTENDS RolloutControl, FiniteSetTheorems, TLAPS

-----------------------------------------------------------------------------
(* The invariant *)

\* The rollout files: the history numbers its states, the state is its last or,
\* while a transition is written, its last but one, the head at most one behind.
FilesOK ==
  /\ \A i \in 1..Len(history) : history[i].revision = i
  /\ state.revision \in 1..Len(history) /\ history[state.revision] = state
  /\ Len(history) <= state.revision + 1
  /\ head = state \/ head.revision + 1 = state.revision
  /\ state.open => head.candidate = state.candidate

\* A ledger: its history numbers its events, and the last one, if it revokes, is
\* among the reasons.
LedgerOK(c) ==
  LET L == ledger[c]
  IN /\ \A i \in 1..Len(L.history) : L.history[i].expected = i - 1 /\ L.history[i] \in events
     /\ L.state.revision <= Len(L.history) /\ Len(L.history) <= L.state.revision + 1
     /\ L.head = L.state \/ L.head.revision + 1 = L.state.revision
     /\ Len(L.history) = L.state.revision /\ Len(L.history) > 0 =>
          LET e == L.history[Len(L.history)]
          IN e.action = "REVOKE" => e.reasons \subseteq L.state.reasons

EventsOK ==
  /\ IsFiniteSet(events)
  /\ \A e \in events :
       /\ e.reasons # {}
       /\ e.action = "REVOKE" => \E r \in Category : e.reasons = {r}

\* Which revisions of a ledger stand for a revocation that is on record.
Registered(c, n) ==
  LET h == ledger[c].head
  IN n <= h.revision /\ (n = h.revision => h.reasons # {})

Exclusive == {"check", "standby", "protect", "history", "rollout", "sign"}
Recording == {"record", "event", "ledger", "anchor"}
Closing == {"state", "head", "fallback"}
Restoring == {"validate", "snapshot", "reserve", "relock"}

\* What a command makes of a state, and which states it is for.
Made(command, s) ==
  [revision |-> s.revision + 1,
   candidate |-> CASE command = "ROLLBACK" -> Fallback
                   [] command = "RESTORE_CANDIDATE" -> Primary
                   [] OTHER -> s.candidate,
   open |-> command = "SET_STAGE"]
Fits(command, s) ==
  /\ command = "ROLLBACK" => s.candidate = Primary
  /\ command = "RESTORE_CANDIDATE" => s.candidate = Fallback

\* What a process with memory m carries.
Carries(m) ==
  /\ m.pc # "idle" => m.closed = None
  /\ m.event # None => m.event \in events
  /\ m.pc \in Recording \cup Closing \cup Restoring => m.event \in events
  /\ m.pc \in Closing => m.event.action = "REVOKE"
  /\ m.pc \in Restoring => m.event.action = "RECOVER"
  /\ m.pc \in {"reserve", "relock"} => m.event.candidate = Primary
  /\ m.pc \in Recording /\ m.event.action = "RECOVER" => m.event.candidate = Primary
  /\ m.pc \in Exclusive \cup {"lock"} /\ m.event # None =>
       /\ m.command # "SET_STAGE"
       /\ m.event.action = "RECOVER" =>
            m.command = "RESTORE_CANDIDATE" /\ m.event.candidate = Primary
  /\ m.pc \in {"fallback", "reserve"} => m.seen \in RolloutState

\* What a process with memory m, which holds the rollout lock or not, may rely on
\* in the rollout files.
Recovers(m) == m.pc \in Recording /\ m.event.action = "RECOVER"
Standing(m, holds) ==
  /\ m.pc \in Exclusive \/ Recovers(m) => holds
  /\ Recovers(m) => head.candidate = Primary /\ ~head.open
  /\ m.pc \in Exclusive => Fits(m.command, head)
  /\ m.pc \in Exclusive \ {"rollout", "sign"} => head = state /\ Len(history) = state.revision
  /\ m.pc = "rollout" =>
       head = state /\ Len(history) = state.revision + 1
         /\ history[Len(history)] = Made(m.command, head)
  /\ m.pc = "sign" => Len(history) = state.revision /\ state = Made(m.command, head)

\* What process a with memory m may rely on in the ledger it is writing.
Outdates(e, s) == [revision |-> s.revision + 1,
                   reasons |-> IF e.action = "REVOKE" THEN s.reasons \cup e.reasons
                                                      ELSE s.reasons \ e.reasons]
Noting(a, m) ==
  LET e == m.event
      L == ledger[e.candidate]
  IN m.pc \in {"event", "ledger", "anchor"} =>
       /\ ledgerLock[e.candidate] = a
       /\ e.expected = L.head.revision
       /\ e.action = "RECOVER" => e.reasons \subseteq L.head.reasons
       /\ m.pc = "event" => L.head = L.state /\ Len(L.history) = L.state.revision
       /\ m.pc = "ledger" => L.head = L.state /\ Len(L.history) = L.state.revision + 1
                               /\ L.history[Len(L.history)] = e
       /\ m.pc = "anchor" => L.state = Outdates(e, L.head)

\* A revocation that goes on to the rollout has been recorded.
Answers(m) ==
  m.pc \in Closing \/ (m.pc \in Exclusive \cup {"lock"} /\ m.event # None /\ m.event.action = "REVOKE")
    => Registered(m.event.candidate, m.event.expected + 1)

\* No process is past its checks and about to open the candidate in force, if it is c.
Shut(c) ==
  \A b \in Actors :
    actor[b].pc \in {"history", "rollout"} /\ actor[b].command = "SET_STAGE" => head.candidate # c

\* What a revocation that has returned may claim.
Claims(k) ==
  k # None =>
    /\ Registered(k.candidate, k.revision)
    /\ k.revision = ledger[k.candidate].head.revision =>
         ~(state.candidate = k.candidate /\ state.open) /\ Shut(k.candidate)

\* What an admitter with memory m has read was in force, unless the history has grown.
AdmitterOK(m) ==
  m.pc \in {"head", "history"} =>
    /\ m.seen \in RolloutState /\ m.seen.revision >= 1 /\ m.seen.revision <= Len(history)
    /\ m.seen.revision = Len(history) => state = m.seen /\ (m.pc = "history" => head = m.seen)

ActorOK(a) ==
  /\ Carries(actor[a])
  /\ Standing(actor[a], rolloutLock = a)
  /\ Noting(a, actor[a])
  /\ Answers(actor[a])

IInv ==
  /\ TypeOK
  /\ FilesOK
  /\ \A c \in Candidate : LedgerOK(c)
  /\ EventsOK
  /\ \A a \in Actors : ActorOK(a)
  /\ \A a \in Actors : Claims(actor[a].closed)
  /\ \A r \in Admitters : AdmitterOK(admitter[r])

-----------------------------------------------------------------------------
(* Steps that leave the documents alone *)

LEMMA IdleIsActorState == ASSUME NEW closed \in [candidate : Candidate, revision : Nat] \cup {None}
                          PROVE  [IdleActor EXCEPT !.closed = closed] \in ActorState
  BY DEF IdleActor, ActorState, PC

\* A process that changes only what it holds in memory, and possibly takes or
\* leaves the rollout lock.
LEMMA LocalStep ==
  ASSUME IInv, Files, NEW a \in Actors, NEW m \in ActorState,
         actor' = [actor EXCEPT ![a] = m],
         \/ rolloutLock' = rolloutLock
         \/ rolloutLock = a /\ rolloutLock' = None
         \/ rolloutLock = None /\ rolloutLock' = a,
         Carries(m), Standing(m, rolloutLock' = a), Noting(a, m), Answers(m), 
         m.closed = None \/ (Claims(m.closed) /\ m.pc = "idle"),
         m.pc = "history" \/ m.pc = "rollout" =>
           m.command # "SET_STAGE" \/ 
           \A b \in Actors \ {a} : LET k == actor[b].closed
                           IN k # None /\ k.revision = ledger[k.candidate].head.revision =>
                                k.candidate # head.candidate
  PROVE  IInv'
<1> USE DEF Files, rolloutFiles
<1>1. /\ state' = state /\ head' = head /\ history' = history /\ ledger' = ledger
      /\ ledgerLock' = ledgerLock /\ events' = events /\ admitter' = admitter /\ crashes' = crashes
  OBVIOUS
<1>2. /\ actor' \in [Actors -> ActorState] /\ actor'[a] = m
      /\ \A b \in Actors \ {a} : actor'[b] = actor[b]
  BY DEF IInv, TypeOK
<1>3. TypeOK'
  BY <1>1, <1>2 DEF IInv, TypeOK
<1>4. FilesOK' /\ EventsOK' /\ (\A c \in Candidate : LedgerOK(c))'
  BY <1>1 DEF IInv, FilesOK, EventsOK, LedgerOK
<1>5. (\A r \in Admitters : AdmitterOK(admitter[r]))'
  BY <1>1 DEF IInv, AdmitterOK
<1>6. ASSUME NEW b \in Actors PROVE ActorOK(b)'
  <2>1. CASE b = a
    <3>1. Carries(actor[a])' /\ Noting(a, actor[a])' /\ Answers(actor[a])'
      BY <1>1, <1>2 DEF Carries, Noting, Answers, Registered
    <3>2. Standing(actor[a], rolloutLock = a)'
      BY <1>1, <1>2 DEF Standing, Recovers
    <3> QED
      BY <2>1, <3>1, <3>2 DEF ActorOK
  <2>2. CASE b # a
    <3>1. actor'[b] = actor[b] /\ ActorOK(b)
      BY <1>2, <2>2 DEF IInv
    <3>2. rolloutLock = b => rolloutLock' = b
      BY <2>2, NobodyIsNone
    <3>3. Carries(actor[b])' /\ Noting(b, actor[b])' /\ Answers(actor[b])'
      BY <1>1, <3>1 DEF ActorOK, Carries, Noting, Answers, Registered
    <3>4. Standing(actor[b], rolloutLock = b)'
      BY <1>1, <3>1, <3>2 DEF ActorOK, Standing, Recovers
    <3> QED
      BY <3>3, <3>4 DEF ActorOK
  <2> QED
    BY <2>1, <2>2
<1>7. ASSUME NEW b \in Actors PROVE Claims(actor[b].closed)'
  <2>1. PICK k : k = actor'[b].closed
    OBVIOUS
  <2>2. k = None \/ Claims(k)
    BY <1>2, <2>1 DEF IInv
  <2>3. ASSUME k # None, Claims(k), k.revision = ledger[k.candidate].head.revision,
               NEW d \in Actors, actor'[d].pc \in {"history", "rollout"},
               actor'[d].command = "SET_STAGE", head'.candidate = k.candidate
        PROVE  FALSE
    <3>1. CASE d = a
      <4>1. b # a /\ k = actor[b].closed
        BY <1>2, <2>1, <2>3, <3>1
      <4> QED
        BY <1>1, <1>2, <2>3, <3>1, <4>1
    <3>2. CASE d # a
      <4>1. Shut(k.candidate)
        BY <2>3 DEF Claims
      <4> QED
        BY <1>1, <1>2, <2>3, <3>2, <4>1 DEF Shut
    <3> QED
      BY <3>1, <3>2
  <2>4. Claims(k)'
    BY <1>1, <2>2, <2>3 DEF Claims, Shut, Registered
  <2> QED
    BY <2>1, <2>4 DEF Claims, Registered, Shut
<1> QED
  BY <1>3, <1>4, <1>5, <1>6, <1>7 DEF IInv

LEMMA LeaveKeeps ==
  ASSUME IInv, Files, NEW a \in Actors,
         NEW closed \in [candidate : Candidate, revision : Nat] \cup {None}, Leave(a, closed),
         closed = None \/ Claims(closed)
  PROVE  IInv'
<1> DEFINE m == [IdleActor EXCEPT !.closed = closed]
<1>1. m \in ActorState /\ m.pc = "idle" /\ m.event = None /\ m.closed = closed
  BY IdleIsActorState DEF IdleActor
<1>2. actor' = [actor EXCEPT ![a] = m] /\ rolloutLock' = IF rolloutLock = a THEN None ELSE rolloutLock
  BY DEF Leave, Unlock
<1> HIDE DEF m
<1>3. Carries(m) /\ Standing(m, rolloutLock' = a) /\ Noting(a, m) /\ Answers(m)
  BY <1>1 DEF Carries, Standing, Noting, Answers, Recovers, Exclusive, Recording, Closing, Restoring
<1> QED
  BY <1>1, <1>2, <1>3, LocalStep

LEMMA FailKeeps ==
  ASSUME IInv, Files, NEW a \in Actors, Fail(a)
  PROVE  IInv'
  BY LeaveKeeps DEF Fail

\* What is known of a process before it makes a step.
LEMMA ActorFacts ==
  ASSUME IInv, NEW a \in Actors
  PROVE  /\ actor[a] \in ActorState /\ ActorOK(a) /\ Claims(actor[a].closed)
         /\ actor[a].event # None => actor[a].event \in Event
         /\ actor[a].event \in events => actor[a].event \in Event
  BY DEF IInv, TypeOK, ActorOK, Carries

\* A process that only goes on to its next step.
LEMMA GotoKeeps ==
  ASSUME IInv, Files, NEW a \in Actors, NEW pc \in PC, Goto(a, pc), UNCHANGED rolloutLock,
         actor[a].pc # "idle",
         LET m == [actor[a] EXCEPT !.pc = pc]
         IN /\ Carries(m) /\ Standing(m, rolloutLock = a) /\ Noting(a, m) /\ Answers(m)
            /\ pc = "history" \/ pc = "rollout" =>
                 m.command # "SET_STAGE" \/ 
                 \A b \in Actors \ {a} : LET k == actor[b].closed
                                 IN k # None /\ k.revision = ledger[k.candidate].head.revision =>
                                      k.candidate # head.candidate
  PROVE  IInv'
<1> DEFINE m == [actor[a] EXCEPT !.pc = pc]
<1>1. actor[a] \in ActorState /\ actor[a].closed = None
  BY ActorFacts DEF ActorOK, Carries
<1>2. m \in ActorState /\ m.pc = pc /\ m.closed = None
  BY <1>1 DEF ActorState
<1>3. actor' = [actor EXCEPT ![a] = m]
  BY DEF Goto, IInv, TypeOK
<1> HIDE DEF m
<1>4. /\ Carries(m) /\ Standing(m, rolloutLock' = a) /\ Noting(a, m) /\ Answers(m)
      /\ m.pc = "history" \/ m.pc = "rollout" =>
                 m.command # "SET_STAGE" \/ 
                 \A b \in Actors \ {a} : LET k == actor[b].closed
                                 IN k # None /\ k.revision = ledger[k.candidate].head.revision =>
                                      k.candidate # head.candidate
  BY <1>2 DEF m
<1> QED
  BY <1>2, <1>3, <1>4, LocalStep

LEMMA ApplyEventKeeps ==
  ASSUME IInv, NEW a \in Actors, NEW e \in events, ApplyEvent(a, e)
  PROVE  IInv'
<1> DEFINE pc == IF e.action = "REVOKE" THEN "record" ELSE "validate"
           m == [IdleActor EXCEPT !.pc = pc, !.event = e]
<1>1. e \in Event
  BY DEF IInv, TypeOK
<1>2. /\ m \in ActorState /\ m.closed = None /\ m.event = e
      /\ m.pc = pc /\ pc \in {"record", "validate"}
  BY <1>1 DEF IdleActor, ActorState, PC
<1>3. actor' = [actor EXCEPT ![a] = m] /\ rolloutLock' = rolloutLock /\ Files
  BY DEF ApplyEvent
<1>4. /\ pc = "record" => e.action # "RECOVER"
      /\ pc = "validate" => e.action = "RECOVER"
  BY <1>1 DEF Event
<1> HIDE DEF m, pc
<1>5. Carries(m) /\ Standing(m, rolloutLock' = a) /\ Noting(a, m) /\ Answers(m)
  BY <1>2, <1>4
     DEF Carries, Standing, Noting, Answers, Recovers, Exclusive, Recording, Closing, Restoring
<1> QED
  BY <1>2, <1>3, <1>5, LocalStep

LEMMA SendCommandKeeps ==
  ASSUME IInv, NEW a \in Actors, NEW command \in Command, SendCommand(a, command)
  PROVE  IInv'
<1> DEFINE m == [IdleActor EXCEPT !.pc = "lock", !.command = command, !.expected = state.revision]
<1>1. state.revision \in Nat
  BY DEF IInv, TypeOK, RolloutState
<1>2. m \in ActorState /\ m.closed = None /\ m.event = None /\ m.pc = "lock"
  BY <1>1 DEF IdleActor, ActorState, PC
<1>3. actor' = [actor EXCEPT ![a] = m] /\ rolloutLock' = rolloutLock /\ Files
  BY DEF SendCommand
<1> HIDE DEF m
<1>4. Carries(m) /\ Standing(m, rolloutLock' = a) /\ Noting(a, m) /\ Answers(m)
  BY <1>2
     DEF Carries, Standing, Noting, Answers, Recovers, Exclusive, Recording, Closing, Restoring
<1> QED
  BY <1>2, <1>3, <1>4, LocalStep

LEMMA ReadStateKeeps ==
  ASSUME IInv, NEW a \in Actors, ReadState(a)
  PROVE  IInv'
<1> DEFINE m == [[actor[a] EXCEPT !.pc = "head"] EXCEPT !.seen = state]
<1>1. actor[a] \in ActorState /\ actor[a].pc = "state" /\ Carries(actor[a]) /\ Answers(actor[a])
  BY ActorFacts DEF ReadState, ActorOK
<1>2. /\ m \in ActorState /\ m.pc = "head" /\ m.seen = state
      /\ m.event = actor[a].event /\ m.closed = actor[a].closed
  BY <1>1 DEF ActorState, PC, IInv, TypeOK
<1>3. actor' = [actor EXCEPT ![a] = m] /\ rolloutLock' = rolloutLock /\ Files
  <2>1. actor \in [Actors -> ActorState]
    BY DEF IInv, TypeOK
  <2> QED
    BY <2>1 DEF ReadState
<1> HIDE DEF m
<1>4. Carries(m) /\ Standing(m, rolloutLock' = a) /\ Noting(a, m) /\ Answers(m)
  BY <1>1, <1>2
     DEF Carries, Standing, Noting, Answers, Recovers, Exclusive, Recording, Closing, Restoring
<1>5. m.closed = None
  BY <1>1, <1>2 DEF Carries
<1> QED
  BY <1>2, <1>3, <1>4, <1>5, LocalStep

\* A revocation of a candidate that is not in force is done: nobody is about to
\* open that candidate either.
LEMMA ReadHeadKeeps ==
  ASSUME IInv, NEW a \in Actors, ReadHead(a)
  PROVE  IInv'
<1> DEFINE e == actor[a].event
<1>1. /\ actor[a] \in ActorState /\ actor[a].pc = "head"
      /\ Carries(actor[a]) /\ Answers(actor[a]) /\ e \in Event
  BY ActorFacts DEF ReadHead, ActorOK, Carries, Closing
<1>2. Files
  BY DEF ReadHead
<1>3. CASE head # actor[a].seen
  BY <1>2, <1>3, FailKeeps DEF ReadHead
<1>4. CASE head = actor[a].seen /\ actor[a].seen.candidate # e.candidate
  <2>1. Leave(a, Claim(e))
    BY <1>4 DEF ReadHead
  <2>2. Claim(e) \in [candidate : Candidate, revision : Nat]
    BY <1>1 DEF Claim, Event
  <2>3. Registered(e.candidate, e.expected + 1)
    BY <1>1 DEF Answers, Closing
  <2>4. ~(state.candidate = e.candidate /\ state.open) /\ Shut(e.candidate)
    BY <1>4 DEF IInv, FilesOK, Shut
  <2>5. Claims(Claim(e))
    BY <2>3, <2>4 DEF Claims, Claim
  <2> QED
    BY <1>2, <2>1, <2>2, <2>5, LeaveKeeps
<1>5. CASE head = actor[a].seen /\ actor[a].seen.candidate = e.candidate
  <2> DEFINE m == [actor[a] EXCEPT !.pc = "fallback"]
  <2>1. Goto(a, "fallback") /\ UNCHANGED rolloutLock
    BY <1>5 DEF ReadHead
  <2>2. m.pc = "fallback" /\ m.event = e /\ m.closed = actor[a].closed /\ m.seen = head
    BY <1>1, <1>5 DEF ActorState
  <2>3. head \in RolloutState
    BY DEF IInv, TypeOK
  <2> HIDE DEF m
  <2>4. Carries(m) /\ Standing(m, rolloutLock = a) /\ Noting(a, m) /\ Answers(m)
    BY <1>1, <2>2, <2>3
       DEF Carries, Standing, Noting, Answers, Recovers, Exclusive, Recording, Closing, Restoring
  <2> QED
    BY <1>1, <1>2, <2>1, <2>4, GotoKeeps DEF PC, m
<1> QED
  BY <1>3, <1>4, <1>5

LEMMA ChooseClosingKeeps ==
  ASSUME IInv, NEW a \in Actors, ChooseClosing(a)
  PROVE  IInv'
<1> DEFINE command == IF Revoked(Fallback) THEN "DISABLE" ELSE "ROLLBACK"
           m == [actor[a] EXCEPT !.pc = "lock", !.seen = None, !.command = command,
                                 !.expected = actor[a].seen.revision]
<1>1. /\ actor[a] \in ActorState /\ actor[a].pc = "fallback"
      /\ Carries(actor[a]) /\ Answers(actor[a])
  BY ActorFacts DEF ChooseClosing, ActorOK
<1>2. Files
  BY DEF ChooseClosing
<1>3. CASE LedgerReadable(Fallback)
  <2>1. actor[a].seen.revision \in Nat
    BY <1>1 DEF Carries, RolloutState
  <2>2. command \in Command /\ command # "SET_STAGE"
    BY DEF Command
  <2>3. actor' = [actor EXCEPT ![a] = m] /\ rolloutLock' = rolloutLock
    <3>1. actor \in [Actors -> ActorState]
      BY DEF IInv, TypeOK
    <3> HIDE DEF command
    <3>2. actor' = [actor EXCEPT ![a].pc = "lock", ![a].seen = None, ![a].command = command,
                           ![a].expected = actor[a].seen.revision] /\ rolloutLock' = rolloutLock
      BY <1>3 DEF ChooseClosing, command
    <3> QED
      BY <3>1, <3>2
  <2> HIDE DEF command
  <2>4. /\ m \in ActorState /\ m.pc = "lock" /\ m.command = command
        /\ m.event = actor[a].event /\ m.closed = actor[a].closed
    BY <1>1, <2>1, <2>2 DEF ActorState, PC
  <2> HIDE DEF m
  <2>5. Carries(m) /\ Standing(m, rolloutLock' = a) /\ Noting(a, m) /\ Answers(m)
    BY <1>1, <2>2, <2>4
       DEF Carries, Standing, Noting, Answers, Recovers, Exclusive, Recording, Closing, Restoring
  <2>6. m.closed = None
    BY <1>1, <2>4 DEF Carries
  <2> QED
    BY <1>2, <2>3, <2>4, <2>5, <2>6, LocalStep
<1>4. CASE ~LedgerReadable(Fallback)
  BY <1>2, <1>4, FailKeeps DEF ChooseClosing
<1> QED
  BY <1>3, <1>4

LEMMA ValidateRecoveryKeeps ==
  ASSUME IInv, NEW a \in Actors, ValidateRecovery(a)
  PROVE  IInv'
<1> DEFINE m == [actor[a] EXCEPT !.pc = "snapshot"]
<1>1. actor[a] \in ActorState /\ actor[a].pc = "validate" /\ Carries(actor[a])
  BY ActorFacts DEF ValidateRecovery, ActorOK
<1>2. Files
  BY DEF ValidateRecovery
<1>3. CASE Fail(a)
  BY <1>2, <1>3, FailKeeps
<1>4. CASE Goto(a, "snapshot") /\ UNCHANGED rolloutLock
  <2>1. m.pc = "snapshot" /\ m.event = actor[a].event /\ m.closed = actor[a].closed
    BY <1>1 DEF ActorState
  <2> HIDE DEF m
  <2>2. Carries(m) /\ Standing(m, rolloutLock = a) /\ Noting(a, m) /\ Answers(m)
    BY <1>1, <2>1
       DEF Carries, Standing, Noting, Answers, Recovers, Exclusive, Recording, Closing, Restoring
  <2> QED
    BY <1>1, <1>2, <1>4, <2>2, GotoKeeps DEF PC, m
<1> QED
  BY <1>3, <1>4 DEF ValidateRecovery, Check

LEMMA ReadSnapshotKeeps ==
  ASSUME IInv, NEW a \in Actors, ReadSnapshot(a)
  PROVE  IInv'
<1>1. actor[a] \in ActorState /\ actor[a].pc = "snapshot" /\ Carries(actor[a])
  BY ActorFacts DEF ReadSnapshot, ActorOK
<1>2. Files
  BY DEF ReadSnapshot
<1>3. CASE Fail(a)
  BY <1>2, <1>3, FailKeeps
<1>4. CASE actor[a].event.candidate = Primary /\ Goto(a, "relock") /\ UNCHANGED rolloutLock
  <2> DEFINE m == [actor[a] EXCEPT !.pc = "relock"]
  <2>1. m.pc = "relock" /\ m.event = actor[a].event /\ m.closed = actor[a].closed
    BY <1>1 DEF ActorState
  <2> HIDE DEF m
  <2>2. Carries(m) /\ Standing(m, rolloutLock = a) /\ Noting(a, m) /\ Answers(m)
    BY <1>1, <1>4, <2>1
       DEF Carries, Standing, Noting, Answers, Recovers, Exclusive, Recording, Closing, Restoring
  <2> QED
    BY <1>1, <1>2, <1>4, <2>2, GotoKeeps DEF PC, m
<1>5. CASE /\ actor[a].event.candidate = Primary /\ rolloutLock' = rolloutLock
           /\ actor' = [actor EXCEPT ![a].pc = "reserve", ![a].seen = state]
  <2> DEFINE m == [[actor[a] EXCEPT !.pc = "reserve"] EXCEPT !.seen = state]
  <2>1. /\ m \in ActorState /\ m.pc = "reserve" /\ m.seen = state
        /\ m.event = actor[a].event /\ m.closed = actor[a].closed
    BY <1>1 DEF ActorState, PC, IInv, TypeOK
  <2>2. actor' = [actor EXCEPT ![a] = m]
    <3>1. actor \in [Actors -> ActorState]
      BY DEF IInv, TypeOK
    <3> QED
      BY <3>1, <1>5
  <2>3. state \in RolloutState
    BY DEF IInv, TypeOK
  <2> HIDE DEF m
  <2>4. Carries(m) /\ Standing(m, rolloutLock' = a) /\ Noting(a, m) /\ Answers(m)
    BY <1>1, <1>5, <2>1, <2>3
       DEF Carries, Standing, Noting, Answers, Recovers, Exclusive, Recording, Closing, Restoring
  <2>5. m.closed = None
    BY <1>1, <2>1 DEF Carries
  <2> QED
    BY <1>2, <1>5, <2>1, <2>2, <2>4, <2>5, LocalStep
<1> QED
  BY <1>3, <1>4, <1>5 DEF ReadSnapshot, Check

LEMMA CheckReserveKeeps ==
  ASSUME IInv, NEW a \in Actors, CheckReserve(a)
  PROVE  IInv'
<1> DEFINE m == [actor[a] EXCEPT !.pc = "lock", !.command = "RESTORE_CANDIDATE",
                                 !.seen = None, !.expected = actor[a].seen.revision]
<1>1. actor[a] \in ActorState /\ actor[a].pc = "reserve" /\ Carries(actor[a])
  BY ActorFacts DEF CheckReserve, ActorOK
<1>2. Files
  BY DEF CheckReserve
<1>3. CASE Fail(a)
  BY <1>2, <1>3, FailKeeps
<1>4. CASE /\ rolloutLock' = rolloutLock
           /\ actor' = [actor EXCEPT ![a].pc = "lock", ![a].command = "RESTORE_CANDIDATE",
                                     ![a].seen = None, ![a].expected = actor[a].seen.revision]
  <2>1. actor[a].seen.revision \in Nat
    BY <1>1 DEF Carries, RolloutState
  <2>2. actor' = [actor EXCEPT ![a] = m]
    <3>1. actor \in [Actors -> ActorState]
      BY DEF IInv, TypeOK
    <3> QED
      BY <3>1, <1>4
  <2>3. /\ m \in ActorState /\ m.pc = "lock" /\ m.command = "RESTORE_CANDIDATE"
        /\ m.event = actor[a].event /\ m.closed = actor[a].closed
    BY <1>1, <2>1 DEF ActorState, PC, Command
  <2>4. m.event \in events /\ m.event.action = "RECOVER" /\ m.event.candidate = Primary
    BY <1>1, <2>3 DEF Carries, Restoring
  <2> HIDE DEF m
  <2>5. Carries(m) /\ Standing(m, rolloutLock' = a) /\ Noting(a, m) /\ Answers(m)
    BY <1>1, <2>3, <2>4
       DEF Carries, Standing, Noting, Answers, Recovers, Exclusive, Recording, Closing, Restoring
  <2>6. m.closed = None
    BY <1>1, <2>3 DEF Carries
  <2> QED
    BY <1>2, <1>4, <2>2, <2>3, <2>5, <2>6, LocalStep
<1> QED
  BY <1>3, <1>4 DEF CheckReserve

\* The lock around a recovery is taken while the primary is in force and closed.
LEMMA RelockDisabledKeeps ==
  ASSUME IInv, NEW a \in Actors, RelockDisabled(a)
  PROVE  IInv'
<1> DEFINE m == [actor[a] EXCEPT !.pc = "record"]
<1>1. actor[a] \in ActorState /\ actor[a].pc = "relock" /\ Carries(actor[a])
  BY ActorFacts DEF RelockDisabled, ActorOK
<1>2. Files
  BY DEF RelockDisabled
<1>3. CASE Fail(a)
  BY <1>2, <1>3, FailKeeps
<1>4. CASE /\ rolloutLock = None /\ rolloutLock' = a /\ Goto(a, "record")
           /\ RolloutReadable /\ state.candidate = Primary /\ ~state.open
  <2>1. /\ m \in ActorState /\ m.pc = "record"
        /\ m.event = actor[a].event /\ m.closed = actor[a].closed
    BY <1>1 DEF ActorState, PC
  <2>2. actor' = [actor EXCEPT ![a] = m]
    BY <1>4 DEF Goto, IInv, TypeOK
  <2>3. head.candidate = Primary /\ ~head.open
    BY <1>4 DEF RolloutReadable
  <2> HIDE DEF m
  <2>4. Carries(m) /\ Standing(m, rolloutLock' = a) /\ Noting(a, m) /\ Answers(m)
    BY <1>1, <1>4, <2>1, <2>3
       DEF Carries, Standing, Noting, Answers, Recovers, Exclusive, Recording, Closing, Restoring
  <2>5. m.closed = None
    BY <1>1, <2>1 DEF Carries
  <2> QED
    BY <1>2, <1>4, <2>1, <2>2, <2>4, <2>5, LocalStep
<1> QED
  BY <1>3, <1>4 DEF RelockDisabled

LEMMA LockRolloutKeeps ==
  ASSUME IInv, NEW a \in Actors, LockRollout(a)
  PROVE  IInv'
<1> DEFINE pc == IF Recovering(a) THEN "check" ELSE "protect"
           m == [actor[a] EXCEPT !.pc = pc]
<1>1. /\ actor[a] \in ActorState /\ actor[a].pc = "lock"
      /\ Carries(actor[a]) /\ Answers(actor[a])
  BY ActorFacts DEF LockRollout, ActorOK
<1>2. Files
  BY DEF LockRollout
<1>3. CASE Fail(a)
  BY <1>2, <1>3, FailKeeps
<1>4. CASE /\ rolloutLock = None /\ rolloutLock' = a /\ Goto(a, pc)
           /\ RolloutReadable /\ Legal(actor[a].command, actor[a].expected)
  <2>1. pc \in {"check", "protect"}
    OBVIOUS
  <2>2. actor' = [actor EXCEPT ![a] = m]
    BY <1>4 DEF Goto, IInv, TypeOK
  <2> HIDE DEF pc
  <2>3. /\ m \in ActorState /\ m.pc = pc /\ m.command = actor[a].command
        /\ m.event = actor[a].event /\ m.closed = actor[a].closed
    BY <1>1, <2>1 DEF ActorState, PC
  <2>4. head = state /\ Len(history) = state.revision /\ Fits(m.command, head)
    BY <1>4, <2>3 DEF RolloutReadable, Legal, Fits
  <2> HIDE DEF m
  <2>5. Carries(m) /\ Answers(m)
    BY <1>1, <2>1, <2>3 DEF Carries, Answers, Exclusive, Recording, Closing, Restoring
  <2>6. Standing(m, rolloutLock' = a) /\ Noting(a, m)
    BY <1>4, <2>1, <2>3, <2>4 DEF Standing, Noting, Recovers, Exclusive, Recording
  <2>7. m.closed = None
    BY <1>1, <2>3 DEF Carries
  <2> QED
    BY <1>2, <1>4, <2>1, <2>2, <2>3, <2>5, <2>6, <2>7, LocalStep
<1> QED
  BY <1>3, <1>4 DEF LockRollout

LEMMA CheckRecoveryKeeps ==
  ASSUME IInv, NEW a \in Actors, CheckRecovery(a)
  PROVE  IInv'
<1> DEFINE m == [actor[a] EXCEPT !.pc = "standby"]
<1>1. actor[a] \in ActorState /\ actor[a].pc = "check" /\ ActorOK(a)
  BY ActorFacts DEF CheckRecovery
<1>2. Files
  BY DEF CheckRecovery
<1>3. CASE Fail(a)
  BY <1>2, <1>3, FailKeeps
<1>4. CASE Goto(a, "standby") /\ UNCHANGED rolloutLock
  <2>1. /\ m.pc = "standby" /\ m.event = actor[a].event /\ m.closed = actor[a].closed
        /\ m.command = actor[a].command
    BY <1>1 DEF ActorState
  <2> HIDE DEF m
  <2>2. Carries(m) /\ Answers(m) /\ Noting(a, m)
    BY <1>1, <2>1 DEF ActorOK, Carries, Answers, Noting, Exclusive, Recording, Closing, Restoring
  <2>3. Standing(m, rolloutLock = a)
    BY <1>1, <2>1 DEF ActorOK, Standing, Recovers, Exclusive, Recording
  <2> QED
    BY <1>1, <1>2, <1>4, <2>1, <2>2, <2>3, GotoKeeps DEF PC, m
<1> QED
  BY <1>3, <1>4 DEF CheckRecovery, Check

LEMMA CheckStandbyKeeps ==
  ASSUME IInv, NEW a \in Actors, CheckStandby(a)
  PROVE  IInv'
<1> DEFINE m == [actor[a] EXCEPT !.pc = "protect"]
<1>1. actor[a] \in ActorState /\ actor[a].pc = "standby" /\ ActorOK(a)
  BY ActorFacts DEF CheckStandby
<1>2. Files
  BY DEF CheckStandby
<1>3. CASE Fail(a)
  BY <1>2, <1>3, FailKeeps
<1>4. CASE Goto(a, "protect") /\ UNCHANGED rolloutLock
  <2>1. /\ m.pc = "protect" /\ m.event = actor[a].event /\ m.closed = actor[a].closed
        /\ m.command = actor[a].command
    BY <1>1 DEF ActorState
  <2> HIDE DEF m
  <2>2. Carries(m) /\ Answers(m) /\ Noting(a, m)
    BY <1>1, <2>1 DEF ActorOK, Carries, Answers, Noting, Exclusive, Recording, Closing, Restoring
  <2>3. Standing(m, rolloutLock = a)
    BY <1>1, <2>1 DEF ActorOK, Standing, Recovers, Exclusive, Recording
  <2> QED
    BY <1>1, <1>2, <1>4, <2>1, <2>2, <2>3, GotoKeeps DEF PC, m
<1> QED
  BY <1>3, <1>4 DEF CheckStandby, Check

\* A transition that passes the check of the ledgers opens nothing that stands
\* revoked: had it been on record, the ledger would have shown it.
LEMMA ProtectKeeps ==
  ASSUME IInv, NEW a \in Actors, Protect(a)
  PROVE  IInv'
<1> DEFINE m == [actor[a] EXCEPT !.pc = "history"]
<1>1. actor[a] \in ActorState /\ actor[a].pc = "protect" /\ ActorOK(a)
  BY ActorFacts DEF Protect
<1>2. Files
  BY DEF Protect
<1>3. CASE Fail(a)
  BY <1>2, <1>3, FailKeeps
<1>4. CASE /\ Goto(a, "history") /\ UNCHANGED rolloutLock
           /\ \A c \in Protected(actor[a].command) :
                LedgerReadable(c) /\ (Revoked(c) => Recovering(a) /\ c = Primary)
  <2>1. /\ m.pc = "history" /\ m.event = actor[a].event /\ m.closed = actor[a].closed
        /\ m.command = actor[a].command
    BY <1>1 DEF ActorState
  <2> HIDE DEF m
  <2>2. Carries(m) /\ Answers(m) /\ Noting(a, m)
    BY <1>1, <2>1 DEF ActorOK, Carries, Answers, Noting, Exclusive, Recording, Closing, Restoring
  <2>3. Standing(m, rolloutLock = a)
    BY <1>1, <2>1 DEF ActorOK, Standing, Recovers, Exclusive, Recording
  <2>4. ASSUME m.command = "SET_STAGE", NEW b \in Actors, actor[b].closed # None,
               actor[b].closed.candidate = head.candidate
        PROVE  actor[b].closed.revision # ledger[actor[b].closed.candidate].head.revision
    <3> DEFINE k == actor[b].closed
    <3>1. head = state
      BY <1>1 DEF ActorOK, Standing, Exclusive
    <3>2. Target(actor[a].command) = head.candidate /\ Protected(actor[a].command) = {head.candidate}
      BY <2>1, <2>4, <3>1 DEF Target, Protected
    <3>3. ~Recovering(a)
      BY <1>1, <2>1, <2>4 DEF ActorOK, Carries, Recovering, Exclusive
    <3>4. LedgerReadable(k.candidate) /\ ~Revoked(k.candidate)
      BY <1>4, <2>4, <3>2, <3>3
    <3>5. Registered(k.candidate, k.revision)
      BY <2>4 DEF IInv, Claims
    <3> HIDE DEF k
    <3>6. k.revision # ledger[k.candidate].head.revision
      BY <3>4, <3>5 DEF Registered, LedgerReadable, Revoked
    <3> QED
      BY <3>6 DEF k
  <2> QED
    BY <1>1, <1>2, <1>4, <2>1, <2>2, <2>3, <2>4, GotoKeeps DEF PC, m
<1> QED
  BY <1>3, <1>4 DEF Protect, Check

-----------------------------------------------------------------------------
(* Steps that write the rollout files *)

\* What the holder of the rollout lock writes is nothing that another process
\* relies on.
LEMMA OthersStand ==
  ASSUME IInv, NEW a \in Actors, rolloutLock = a, NEW b \in Actors \ {a},
         actor'[b] = actor[b],
         UNCHANGED <<ledger, ledgerLock, events>>, rolloutLock' \in {a, None}
  PROVE  ActorOK(b)'
<1>1. ActorOK(b)
  BY DEF IInv
<1>2. rolloutLock # b /\ rolloutLock' # b
  BY NobodyIsNone
<1>3. Carries(actor[b])' /\ Noting(b, actor[b])' /\ Answers(actor[b])'
  BY <1>1 DEF ActorOK, Carries, Noting, Answers, Registered
<1>4. ~(actor[b].pc \in Exclusive \/ Recovers(actor[b]))
  BY <1>1, <1>2 DEF ActorOK, Standing
<1>5. Standing(actor[b], rolloutLock = b)'
  BY <1>4 DEF Standing, Recovers, Exclusive
<1> QED
  BY <1>3, <1>5 DEF ActorOK

LEMMA WriteHistoryKeeps ==
  ASSUME IInv, NEW a \in Actors, WriteHistory(a)
  PROVE  IInv'
<1> DEFINE m == [actor[a] EXCEPT !.pc = "rollout"]
           t == Transition(actor[a].command)
<1>1. actor[a] \in ActorState /\ actor[a].pc = "history" /\ ActorOK(a)
  BY ActorFacts DEF WriteHistory
<1>2. /\ state' = state /\ head' = head /\ ledger' = ledger /\ rolloutLock' = rolloutLock
      /\ ledgerLock' = ledgerLock /\ events' = events /\ admitter' = admitter /\ crashes' = crashes
      /\ history' = Append(history, t)
  BY DEF WriteHistory, locks
<1>3. /\ rolloutLock = a /\ head = state /\ Len(history) = state.revision
      /\ Fits(actor[a].command, head)
  BY <1>1 DEF ActorOK, Standing, Exclusive
<1>4. state \in RolloutState /\ history \in Seq(RolloutState)
  BY DEF IInv, TypeOK
<1>5. t = Made(actor[a].command, head) /\ t \in RolloutState /\ t.revision = state.revision + 1
  BY <1>3, <1>4 DEF Transition, Target, Made, RolloutState, Candidate
<1> HIDE DEF t
<1>6. /\ m \in ActorState /\ m.pc = "rollout" /\ m.command = actor[a].command
      /\ m.event = actor[a].event /\ m.closed = actor[a].closed
  BY <1>1 DEF ActorState, PC
<1>7. /\ actor' \in [Actors -> ActorState] /\ actor'[a] = m
      /\ \A b \in Actors \ {a} : actor'[b] = actor[b]
  BY <1>6 DEF WriteHistory, Goto, IInv, TypeOK
<1> HIDE DEF m
<1>8. /\ history' \in Seq(RolloutState) /\ Len(history') = Len(history) + 1
      /\ history'[Len(history) + 1] = t
      /\ \A i \in 1..Len(history) : history'[i] = history[i]
  BY <1>2, <1>4, <1>5
<1>9. TypeOK'
  BY <1>2, <1>7, <1>8 DEF IInv, TypeOK
<1>10. FilesOK'
  BY <1>2, <1>3, <1>4, <1>5, <1>8 DEF IInv, FilesOK, RolloutState
<1>11. EventsOK' /\ (\A c \in Candidate : LedgerOK(c))'
  BY <1>2 DEF IInv, EventsOK, LedgerOK
<1>12. (\A r \in Admitters : AdmitterOK(admitter[r]))'
  BY <1>2, <1>4, <1>8 DEF IInv, AdmitterOK, RolloutState
<1>13. ASSUME NEW b \in Actors PROVE ActorOK(b)'
  <2>1. CASE b = a
    <3>1. Carries(actor[a])' /\ Noting(a, actor[a])' /\ Answers(actor[a])'
      BY <1>1, <1>2, <1>6, <1>7
         DEF ActorOK, Carries, Noting, Answers, Registered, Exclusive, Recording, Closing, Restoring
    <3>2. Standing(actor[a], rolloutLock = a)'
      BY <1>2, <1>3, <1>4, <1>5, <1>6, <1>7, <1>8 DEF Standing, Recovers, Exclusive, Recording
    <3> QED
      BY <2>1, <3>1, <3>2 DEF ActorOK
  <2>2. CASE b # a
    BY <1>2, <1>3, <1>7, <2>2, OthersStand
  <2> QED
    BY <2>1, <2>2
<1>14. ASSUME NEW b \in Actors PROVE Claims(actor[b].closed)'
  <2>1. PICK k : k = actor'[b].closed
    OBVIOUS
  <2>2. Claims(k)
    BY <1>6, <1>7, <2>1 DEF IInv
  <2>3. Shut(k.candidate) => Shut(k.candidate)'
    BY <1>1, <1>2, <1>6, <1>7 DEF Shut
  <2>4. Claims(k)'
    BY <1>2, <2>2, <2>3 DEF Claims, Registered
  <2> QED
    BY <2>1, <2>4 DEF Claims, Registered, Shut
<1> QED
  BY <1>9, <1>10, <1>11, <1>12, <1>13, <1>14 DEF IInv

LEMMA WriteStateKeeps ==
  ASSUME IInv, NEW a \in Actors, WriteState(a)
  PROVE  IInv'
<1> DEFINE m == [actor[a] EXCEPT !.pc = "sign"]
<1>1. actor[a] \in ActorState /\ actor[a].pc = "rollout" /\ ActorOK(a)
  BY ActorFacts DEF WriteState
<1>2. /\ history' = history /\ head' = head /\ ledger' = ledger /\ rolloutLock' = rolloutLock
      /\ ledgerLock' = ledgerLock /\ events' = events /\ admitter' = admitter /\ crashes' = crashes
      /\ state' = Last(history)
  BY DEF WriteState, locks
<1>3. /\ rolloutLock = a /\ head = state /\ Len(history) = state.revision + 1
      /\ Fits(actor[a].command, head)
      /\ history[Len(history)] = Made(actor[a].command, head)
  BY <1>1 DEF ActorOK, Standing, Exclusive
<1>4. state \in RolloutState /\ head \in RolloutState /\ history \in Seq(RolloutState)
  BY DEF IInv, TypeOK
<1>5. /\ state' = Made(actor[a].command, head) /\ state' = history[Len(history)]
      /\ state' \in RolloutState /\ state'.revision = Len(history)
      /\ state'.open = (actor[a].command = "SET_STAGE")
      /\ state'.open => state'.candidate = head.candidate
  BY <1>2, <1>3, <1>4 DEF Last, Made, RolloutState, Candidate
<1>6. /\ m \in ActorState /\ m.pc = "sign" /\ m.command = actor[a].command
      /\ m.event = actor[a].event /\ m.closed = actor[a].closed
  BY <1>1 DEF ActorState, PC
<1>7. /\ actor' \in [Actors -> ActorState] /\ actor'[a] = m
      /\ \A b \in Actors \ {a} : actor'[b] = actor[b]
  BY <1>6 DEF WriteState, Goto, IInv, TypeOK
<1> HIDE DEF m
<1>8. TypeOK'
  BY <1>2, <1>5, <1>7 DEF IInv, TypeOK
<1>9. FilesOK'
  BY <1>2, <1>3, <1>4, <1>5 DEF IInv, FilesOK, RolloutState
<1>10. EventsOK' /\ (\A c \in Candidate : LedgerOK(c))'
  BY <1>2 DEF IInv, EventsOK, LedgerOK
<1>11. (\A r \in Admitters : AdmitterOK(admitter[r]))'
  BY <1>2, <1>3, <1>4 DEF IInv, AdmitterOK, RolloutState
<1>12. ASSUME NEW b \in Actors PROVE ActorOK(b)'
  <2>1. CASE b = a
    <3>1. Carries(actor[a])' /\ Noting(a, actor[a])' /\ Answers(actor[a])'
      BY <1>1, <1>2, <1>6, <1>7
         DEF ActorOK, Carries, Noting, Answers, Registered, Exclusive, Recording, Closing, Restoring
    <3>2. Standing(actor[a], rolloutLock = a)'
      BY <1>2, <1>3, <1>4, <1>5, <1>6, <1>7 DEF Standing, Recovers, Exclusive, Recording
    <3> QED
      BY <2>1, <3>1, <3>2 DEF ActorOK
  <2>2. CASE b # a
    BY <1>2, <1>3, <1>7, <2>2, OthersStand
  <2> QED
    BY <2>1, <2>2
<1>13. ASSUME NEW b \in Actors PROVE Claims(actor[b].closed)'
  <2>1. PICK k : k = actor'[b].closed
    OBVIOUS
  <2>2. Claims(k)
    BY <1>6, <1>7, <2>1 DEF IInv
  <2>3. Shut(k.candidate) => Shut(k.candidate)'
    BY <1>1, <1>2, <1>6, <1>7 DEF Shut
  <2>4. Shut(k.candidate) => ~(state'.candidate = k.candidate /\ state'.open)
    BY <1>1, <1>5 DEF Shut
  <2>5. Claims(k)'
    BY <1>2, <2>2, <2>3, <2>4 DEF Claims, Registered
  <2> QED
    BY <2>1, <2>5 DEF Claims, Registered, Shut
<1> QED
  BY <1>8, <1>9, <1>10, <1>11, <1>12, <1>13 DEF IInv

LEMMA WriteHeadKeeps ==
  ASSUME IInv, NEW a \in Actors, WriteHead(a)
  PROVE  IInv'
<1> DEFINE e == actor[a].event
           closed == IF Recovering(a) \/ e = None THEN None ELSE Claim(e)
           m == IF Recovering(a) THEN [actor[a] EXCEPT !.pc = "record"]
                                 ELSE [IdleActor EXCEPT !.closed = closed]
<1>1. actor[a] \in ActorState /\ actor[a].pc = "sign" /\ ActorOK(a) /\ (e # None => e \in Event)
  BY ActorFacts DEF WriteHead
<1>2. /\ state' = state /\ history' = history /\ ledger' = ledger /\ head' = state
      /\ ledgerLock' = ledgerLock /\ events' = events /\ admitter' = admitter /\ crashes' = crashes
  BY DEF WriteHead
<1>3. /\ rolloutLock = a /\ Len(history) = state.revision
      /\ Fits(actor[a].command, head) /\ state = Made(actor[a].command, head)
  BY <1>1 DEF ActorOK, Standing, Exclusive
<1>4. state \in RolloutState /\ head \in RolloutState /\ history \in Seq(RolloutState)
  BY DEF IInv, TypeOK
<1>5. state.open = (actor[a].command = "SET_STAGE")
  BY <1>3 DEF Made
<1>6. closed \in [candidate : Candidate, revision : Nat] \cup {None}
  BY <1>1 DEF Claim, Event
<1>7. /\ m \in ActorState
      /\ Recovering(a) => m.pc = "record" /\ m.event = e /\ m.closed = actor[a].closed
      /\ ~Recovering(a) => m.pc = "idle" /\ m.event = None /\ m.closed = closed
  <2>1. CASE Recovering(a)
    BY <1>1, <2>1 DEF ActorState, PC
  <2>2. CASE ~Recovering(a)
    <3> HIDE DEF closed
    <3> QED
      BY <1>6, <2>2, IdleIsActorState DEF IdleActor
  <2> QED
    BY <2>1, <2>2
<1> HIDE DEF closed
<1>8. /\ actor' = [actor EXCEPT ![a] = m]
      /\ rolloutLock' = IF Recovering(a) THEN a ELSE None
  <2>1. CASE Recovering(a)
    BY <1>3, <2>1 DEF WriteHead, Goto, IInv, TypeOK
  <2>2. CASE ~Recovering(a)
    <3>1. Leave(a, closed)
      BY <2>2 DEF WriteHead, closed
    <3> QED
      BY <1>3, <2>2, <3>1 DEF Leave, Unlock
  <2> QED
    BY <2>1, <2>2
<1>9. /\ actor' \in [Actors -> ActorState] /\ actor'[a] = m
      /\ \A b \in Actors \ {a} : actor'[b] = actor[b]
  BY <1>7, <1>8 DEF IInv, TypeOK
<1> HIDE DEF m
<1>10. Recovering(a) => e \in events /\ e.action = "RECOVER" /\ e.candidate = Primary
                          /\ actor[a].command = "RESTORE_CANDIDATE"
  BY <1>1 DEF ActorOK, Carries, Recovering, Exclusive
<1>11. TypeOK'
  BY <1>2, <1>3, <1>4, <1>8, <1>9 DEF IInv, TypeOK
<1>12. FilesOK'
  BY <1>2 DEF IInv, FilesOK
<1>13. EventsOK' /\ (\A c \in Candidate : LedgerOK(c))'
  BY <1>2 DEF IInv, EventsOK, LedgerOK
<1>14. (\A r \in Admitters : AdmitterOK(admitter[r]))'
  BY <1>2, <1>4 DEF IInv, AdmitterOK
<1>15. ASSUME NEW b \in Actors PROVE ActorOK(b)'
  <2>1. CASE b = a
    <3>1. actor[a].closed = None
      BY <1>1 DEF ActorOK, Carries
    <3>2. Carries(actor[a])' /\ Noting(a, actor[a])' /\ Answers(actor[a])'
      BY <1>2, <1>7, <1>9, <1>10, <3>1
         DEF Carries, Noting, Answers, Registered, Exclusive, Recording, Closing, Restoring
    <3>3. Recovering(a) => state.candidate = Primary /\ ~state.open
      BY <1>3, <1>10 DEF Made
    <3>4. Standing(actor[a], rolloutLock = a)'
      BY <1>2, <1>7, <1>8, <1>9, <3>3 DEF Standing, Recovers, Exclusive, Recording
    <3> QED
      BY <2>1, <3>2, <3>4 DEF ActorOK
  <2>2. CASE b # a
    BY <1>2, <1>3, <1>8, <1>9, <2>2, OthersStand
  <2> QED
    BY <2>1, <2>2
<1>16. ASSUME NEW c PROVE Shut(c)'
  <2>1. ASSUME NEW b \in Actors PROVE actor'[b].pc \notin {"history", "rollout"}
    <3>1. CASE b = a
      BY <1>7, <1>9, <3>1
    <3>2. CASE b # a
      <4>1. rolloutLock # b /\ actor'[b] = actor[b] /\ ActorOK(b)
        BY <1>3, <1>9, <3>2 DEF IInv
      <4> QED
        BY <4>1 DEF ActorOK, Standing, Exclusive
    <3> QED
      BY <3>1, <3>2
  <2> QED
    BY <2>1 DEF Shut
<1>17. ASSUME NEW b \in Actors PROVE Claims(actor[b].closed)'
  <2>1. PICK k : k = actor'[b].closed
    OBVIOUS
  <2>2. Shut(k.candidate)'
    BY <1>16
  <2>3. CASE k = actor[b].closed
    <3>1. Claims(k)
      BY <2>3 DEF IInv
    <3>2. Claims(k)'
      BY <1>2, <2>2, <3>1 DEF Claims, Registered
    <3> QED
      BY <2>1, <3>2 DEF Claims, Registered, Shut
  <2>4. CASE b = a /\ ~Recovering(a) /\ e # None /\ k = Claim(e)
    <3>1. e.action = "REVOKE" /\ actor[a].command # "SET_STAGE"
      BY <1>1, <2>4 DEF ActorOK, Carries, Recovering, Exclusive, Event
    <3>2. Registered(e.candidate, e.expected + 1)
      BY <1>1, <2>4, <3>1 DEF ActorOK, Answers, Exclusive
    <3>3. k.candidate = e.candidate /\ k.revision = e.expected + 1
      BY <2>4 DEF Claim
    <3>4. Claims(k)'
      BY <1>2, <1>5, <2>2, <3>1, <3>2, <3>3 DEF Claims, Registered
    <3> QED
      BY <2>1, <3>4 DEF Claims, Registered, Shut
  <2>5. CASE k = None
    BY <2>1, <2>5 DEF Claims
  <2> QED
    BY <1>7, <1>9, <2>1, <2>3, <2>4, <2>5 DEF closed
<1> QED
  BY <1>11, <1>12, <1>13, <1>14, <1>15, <1>17 DEF IInv

-----------------------------------------------------------------------------
(* Steps that write a ledger *)

\* What the holder of a ledger lock writes there is nothing that another process
\* relies on, and it makes no registered revocation any less registered.
LEMMA OthersNote ==
  ASSUME IInv, NEW a \in Actors, NEW c \in Candidate, ledgerLock[c] = a, NEW b \in Actors \ {a},
         actor'[b] = actor[b],
         \A d \in Candidate \ {c} : ledger'[d] = ledger[d] /\ ledgerLock'[d] = ledgerLock[d],
         \A d \in Candidate, n \in Nat : Registered(d, n) => Registered(d, n)',
         UNCHANGED <<rolloutFiles, events>>,
         rolloutLock' = rolloutLock \/ (rolloutLock = a /\ rolloutLock' = None)
  PROVE  ActorOK(b)'
<1>1. ActorOK(b) /\ actor[b] \in ActorState
  BY ActorFacts
<1>2. Carries(actor[b])'
  BY <1>1 DEF ActorOK, Carries
<1>3. Standing(actor[b], rolloutLock = b)'
  <2>1. rolloutLock = b => rolloutLock' = b
    BY NobodyIsNone
  <2> QED
    BY <1>1, <2>1 DEF ActorOK, Standing, Recovers, rolloutFiles
<1>4. Answers(actor[b])'
  <2> SUFFICES ASSUME \/ actor[b].pc \in Closing
                      \/ /\ actor[b].pc \in Exclusive \cup {"lock"} /\ actor[b].event # None
                         /\ actor[b].event.action = "REVOKE"
               PROVE  Registered(actor[b].event.candidate, actor[b].event.expected + 1)'
    BY DEF Answers
  <2>1. actor[b].event \in Event
    BY <1>1, ActorFacts DEF ActorOK, Carries
  <2>2. actor[b].event.candidate \in Candidate /\ actor[b].event.expected + 1 \in Nat
    BY <2>1 DEF Event
  <2>3. Registered(actor[b].event.candidate, actor[b].event.expected + 1)
    BY <1>1 DEF ActorOK, Answers
  <2>4. PICK d \in Candidate, n \in Nat :
          d = actor[b].event.candidate /\ n = actor[b].event.expected + 1
    BY <2>2
  <2>5. Registered(d, n)'
    BY <2>3, <2>4
  <2> QED
    BY <2>4, <2>5 DEF Registered
<1>5. Noting(b, actor[b])'
  <2> DEFINE e == actor[b].event
  <2>1. CASE actor[b].pc \in {"event", "ledger", "anchor"}
    <3>1. e \in Event
      BY <1>1, <2>1, ActorFacts DEF ActorOK, Carries, Recording
    <3>2. e.candidate \in Candidate /\ ledgerLock[e.candidate] = b
      BY <1>1, <2>1, <3>1 DEF ActorOK, Noting, Event
    <3>3. e.candidate # c
      BY <3>2
    <3>4. ledger'[e.candidate] = ledger[e.candidate] /\ ledgerLock'[e.candidate] = b
      BY <3>2, <3>3
    <3> HIDE DEF e
    <3> QED
      BY <1>1, <3>4 DEF ActorOK, Noting, e
  <2>2. CASE actor[b].pc \notin {"event", "ledger", "anchor"}
    BY <2>2 DEF Noting
  <2> QED
    BY <2>1, <2>2
<1> QED
  BY <1>2, <1>3, <1>4, <1>5 DEF ActorOK

LEMMA LedgerStep ==
  ASSUME IInv, NEW a \in Actors, NEW c \in Candidate, ledgerLock[c] = a,
         NEW L \in Ledger, ledger' = [ledger EXCEPT ![c] = L],
         L.head = ledger[c].head \/ L.head.revision > ledger[c].head.revision,
         LedgerOK(c)',
         UNCHANGED <<rolloutFiles, events, admitter, crashes>>,
         ledgerLock' = ledgerLock \/ ledgerLock' = [ledgerLock EXCEPT ![c] = None],
         rolloutLock' = rolloutLock \/ (rolloutLock = a /\ rolloutLock' = None),
         NEW m \in ActorState, actor' = [actor EXCEPT ![a] = m],
         m.pc \notin {"history", "rollout"}, m.closed = None, ActorOK(a)'
  PROVE  IInv'
<1>1. /\ state' = state /\ head' = head /\ history' = history
      /\ events' = events /\ admitter' = admitter /\ crashes' = crashes
  BY DEF rolloutFiles
<1>2. /\ actor' \in [Actors -> ActorState] /\ actor'[a] = m
      /\ \A b \in Actors \ {a} : actor'[b] = actor[b]
  BY DEF IInv, TypeOK
<1>3. /\ ledger' \in [Candidate -> Ledger] /\ ledger'[c] = L
      /\ \A d \in Candidate \ {c} : ledger'[d] = ledger[d] /\ ledgerLock'[d] = ledgerLock[d]
      /\ ledger[c] \in Ledger
  BY DEF IInv, TypeOK
<1>4. TypeOK'
  <2>1. rolloutLock' \in Actors \cup {None} /\ ledgerLock' \in [Candidate -> Actors \cup {None}]
    BY DEF IInv, TypeOK
  <2> QED
    BY <1>1, <1>2, <1>3, <2>1 DEF IInv, TypeOK
<1>5. FilesOK' /\ EventsOK' /\ (\A r \in Admitters : AdmitterOK(admitter[r]))'
  BY <1>1 DEF IInv, FilesOK, EventsOK, AdmitterOK
<1>6. (\A d \in Candidate : LedgerOK(d))'
  <2>1. ASSUME NEW d \in Candidate \ {c} PROVE LedgerOK(d)'
    BY <1>1, <1>3 DEF IInv, LedgerOK
  <2> QED
    BY <2>1
<1>7. ASSUME NEW d \in Candidate, NEW n \in Nat, Registered(d, n)
      PROVE  /\ Registered(d, n)'
             /\ n = ledger'[d].head.revision => ledger'[d].head = ledger[d].head
  <2>1. CASE d # c
    BY <1>3, <1>7, <2>1 DEF Registered
  <2>2. CASE d = c
    <3>1. L.head.revision \in Nat /\ ledger[c].head.revision \in Nat
      BY <1>3 DEF Ledger, LedgerState
    <3> QED
      BY <1>3, <1>7, <2>2, <3>1 DEF Registered
  <2> QED
    BY <2>1, <2>2
<1>8. ASSUME NEW b \in Actors PROVE ActorOK(b)'
  <2>1. CASE b # a
    BY <1>1, <1>2, <1>3, <1>7, <2>1, OthersNote
  <2> QED
    BY <2>1
<1>9. ASSUME NEW b \in Actors PROVE Claims(actor[b].closed)'
  <2>1. PICK k : k = actor'[b].closed
    OBVIOUS
  <2>2. k = None \/ (Claims(k) /\ k \in [candidate : Candidate, revision : Nat] \cup {None})
    <3>1. CASE b = a
      BY <1>2, <2>1, <3>1
    <3>2. CASE b # a
      BY <1>2, <2>1, <3>2, ActorFacts DEF ActorState
    <3> QED
      BY <3>1, <3>2
  <2>3. Shut(k.candidate) => Shut(k.candidate)'
    BY <1>1, <1>2 DEF Shut
  <2>4. ASSUME k # None PROVE Claims(k)'
    <3>1. /\ Registered(k.candidate, k.revision)
          /\ k.candidate \in Candidate /\ k.revision \in Nat
      BY <2>2, <2>4 DEF Claims
    <3>2. /\ Registered(k.candidate, k.revision)'
          /\ k.revision = ledger'[k.candidate].head.revision =>
               ledger'[k.candidate].head = ledger[k.candidate].head
      BY <1>7, <3>1
    <3> QED
      BY <1>1, <2>2, <2>3, <2>4, <3>2 DEF Claims
  <2> QED
    BY <2>1, <2>4 DEF Claims, Registered, Shut
<1> QED
  BY <1>4, <1>5, <1>6, <1>8, <1>9 DEF IInv

LEMMA WriteEventKeeps ==
  ASSUME IInv, NEW a \in Actors, WriteEvent(a)
  PROVE  IInv'
<1>e. PICK e : e = actor[a].event
  OBVIOUS
<1>c. PICK c : c = e.candidate
  OBVIOUS
<1> DEFINE L == [ledger[c] EXCEPT !.history = Append(@, e)]
           m == [actor[a] EXCEPT !.pc = "ledger"]
<1>1. actor[a] \in ActorState /\ actor[a].pc = "event" /\ ActorOK(a) /\ e \in Event /\ e \in events
  BY <1>e, ActorFacts DEF WriteEvent, ActorOK, Carries, Recording
<1>2. /\ c \in Candidate /\ ledger[c] \in Ledger /\ LedgerOK(c)
      /\ e.expected \in Nat
  BY <1>c, <1>1 DEF IInv, TypeOK, Event
<1>3. /\ ledgerLock[c] = a /\ ledger[c].head = ledger[c].state
      /\ Len(ledger[c].history) = ledger[c].state.revision
      /\ e.expected = ledger[c].head.revision
      /\ e.action = "RECOVER" => e.reasons \subseteq ledger[c].head.reasons
  BY <1>e, <1>c, <1>1 DEF ActorOK, Noting
<1>4. /\ UNCHANGED <<rolloutFiles, events, admitter, crashes>>
      /\ rolloutLock' = rolloutLock /\ ledgerLock' = ledgerLock /\ events' = events
      /\ state' = state /\ head' = head /\ history' = history
  BY DEF WriteEvent, locks, rolloutFiles
<1>5. ledger' = [ledger EXCEPT ![c] = L]
  BY <1>e, <1>c DEF WriteEvent
<1>6. /\ L.state = ledger[c].state /\ L.head = ledger[c].head
      /\ L.history = Append(ledger[c].history, e)
      /\ ledger[c].history \in Seq(Event) /\ ledger[c].state \in LedgerState
      /\ ledger[c].head \in LedgerState
      /\ L \in Ledger
  <2>1. ASSUME NEW old \in Ledger
        PROVE  [old EXCEPT !.history = Append(@, e)] =
                 [state |-> old.state, head |-> old.head, history |-> Append(old.history, e)]
    BY <2>1 DEF Ledger
  <2>2. ASSUME NEW h \in Seq(Event) PROVE Append(h, e) \in Seq(Event)
    BY <1>1
  <2>3. /\ ledger[c].history \in Seq(Event) /\ ledger[c].state \in LedgerState
        /\ ledger[c].head \in LedgerState
    BY <1>2 DEF Ledger
  <2>4. L = [state |-> ledger[c].state, head |-> ledger[c].head,
             history |-> Append(ledger[c].history, e)]
    BY <1>2, <2>1
  <2> HIDE DEF L
  <2> QED
    BY <2>2, <2>3, <2>4 DEF Ledger
<1>7. /\ m \in ActorState /\ m.pc = "ledger" /\ m.event = e /\ m.closed = actor[a].closed
      /\ m.command = actor[a].command
  BY <1>e, <1>1 DEF ActorState, PC
<1>8. actor' = [actor EXCEPT ![a] = m]
  BY DEF WriteEvent, Goto, IInv, TypeOK
<1>9. actor'[a] = m
  BY <1>8 DEF IInv, TypeOK
<1> HIDE DEF m, L
<1>10. ledger'[c] = L
  BY <1>2, <1>5 DEF IInv, TypeOK
<1>11. /\ Len(L.history) = Len(ledger[c].history) + 1
       /\ L.history[Len(ledger[c].history) + 1] = e
       /\ \A i \in 1..Len(ledger[c].history) : L.history[i] = ledger[c].history[i]
  <2>1. ASSUME NEW h \in Seq(Event)
        PROVE  /\ Len(Append(h, e)) = Len(h) + 1 /\ Append(h, e)[Len(h) + 1] = e
               /\ \A i \in 1..Len(h) : Append(h, e)[i] = h[i]
    BY <1>1
  <2> QED
    BY <1>6, <2>1
<1>12. LedgerOK(c)'
  <2>1. Len(ledger[c].history) \in Nat /\ ledger[c].state.revision \in Nat
    BY <1>6 DEF LedgerState
  <2>2. ASSUME NEW i \in 1..Len(L.history)
        PROVE  L.history[i].expected = i - 1 /\ L.history[i] \in events
    <3>1. CASE i \in 1..Len(ledger[c].history)
      BY <1>2, <1>11, <3>1 DEF LedgerOK
    <3>2. CASE i = Len(ledger[c].history) + 1
      BY <1>1, <1>3, <1>11, <2>1, <3>2
    <3> QED
      BY <1>11, <2>1, <3>1, <3>2
  <2>3. Len(L.history) = L.state.revision + 1 /\ L.head = L.state
    BY <1>3, <1>6, <1>11
  <2>4. \A i \in 1..Len(ledger'[c].history) :
          ledger'[c].history[i].expected = i - 1 /\ ledger'[c].history[i] \in events'
    BY <1>4, <1>10, <2>2
  <2>5. /\ ledger'[c].state.revision <= Len(ledger'[c].history)
        /\ Len(ledger'[c].history) <= ledger'[c].state.revision + 1
        /\ Len(ledger'[c].history) # ledger'[c].state.revision
        /\ ledger'[c].head = ledger'[c].state
    BY <1>6, <1>10, <2>1, <2>3
  <2> QED
    BY <2>4, <2>5 DEF LedgerOK
<1>13. m.closed = None
  BY <1>1, <1>7 DEF ActorOK, Carries
<1>14. Carries(actor[a])' /\ Standing(actor[a], rolloutLock = a)' /\ Answers(actor[a])'
  BY <1>e, <1>1, <1>4, <1>7, <1>9, <1>13
     DEF ActorOK, Carries, Standing, Answers, Recovers, Exclusive, Recording, Closing, Restoring
<1>15. Noting(a, actor[a])'
  BY <1>c, <1>3, <1>4, <1>6, <1>7, <1>9, <1>10, <1>11 DEF Noting
<1> QED
  BY <1>2, <1>3, <1>4, <1>5, <1>6, <1>7, <1>8, <1>12, <1>13, <1>14, <1>15, LedgerStep DEF ActorOK

LEMMA WriteLedgerKeeps ==
  ASSUME IInv, NEW a \in Actors, WriteLedger(a)
  PROVE  IInv'
<1>e. PICK e : e = actor[a].event
  OBVIOUS
<1>c. PICK c : c = e.candidate
  OBVIOUS
<1> DEFINE s == Outdates(e, ledger[c].head)
           L == [ledger[c] EXCEPT !.state = s]
           m == [actor[a] EXCEPT !.pc = "anchor"]
<1>1. actor[a] \in ActorState /\ actor[a].pc = "ledger" /\ ActorOK(a) /\ e \in Event /\ e \in events
  BY <1>e, ActorFacts DEF WriteLedger, ActorOK, Carries, Recording
<1>2. c \in Candidate /\ ledger[c] \in Ledger /\ LedgerOK(c) /\ e.reasons \in SUBSET Category
  BY <1>c, <1>1 DEF IInv, TypeOK, Event
<1>3. /\ ledgerLock[c] = a /\ ledger[c].head = ledger[c].state
      /\ Len(ledger[c].history) = ledger[c].state.revision + 1
      /\ ledger[c].history[Len(ledger[c].history)] = e
      /\ e.expected = ledger[c].head.revision
      /\ e.action = "RECOVER" => e.reasons \subseteq ledger[c].head.reasons
  BY <1>e, <1>c, <1>1 DEF ActorOK, Noting
<1>4. /\ UNCHANGED <<rolloutFiles, events, admitter, crashes>>
      /\ rolloutLock' = rolloutLock /\ ledgerLock' = ledgerLock /\ events' = events
      /\ state' = state /\ head' = head /\ history' = history
  BY DEF WriteLedger, locks, rolloutFiles
<1>5. ledger' = [ledger EXCEPT ![c] = L]
  <2>1. s = Outcome(e)
    BY <1>c, <1>3 DEF Outcome, Outdates
  <2> HIDE DEF s
  <2> QED
    BY <1>e, <1>c, <2>1 DEF WriteLedger
<1>6. /\ ledger[c].history \in Seq(Event) /\ Len(ledger[c].history) \in Nat
      /\ ledger[c].state \in LedgerState /\ ledger[c].head \in LedgerState
  BY <1>2 DEF Ledger
<1>7. /\ s \in LedgerState /\ s.revision = ledger[c].head.revision + 1
      /\ e.action = "REVOKE" => e.reasons \subseteq s.reasons
  BY <1>2, <1>6 DEF Outdates, LedgerState
<1> HIDE DEF s
<1>8. /\ L.state = s /\ L.head = ledger[c].head /\ L.history = ledger[c].history /\ L \in Ledger
  BY <1>2, <1>7 DEF Ledger
<1>9. /\ m \in ActorState /\ m.pc = "anchor" /\ m.event = e /\ m.closed = actor[a].closed
      /\ m.command = actor[a].command
  BY <1>e, <1>1 DEF ActorState, PC
<1>10. actor' = [actor EXCEPT ![a] = m]
  BY DEF WriteLedger, Goto, IInv, TypeOK
<1>11. actor'[a] = m
  BY <1>10 DEF IInv, TypeOK
<1> HIDE DEF m, L
<1>12. ledger'[c] = L
  BY <1>2, <1>5 DEF IInv, TypeOK
<1>13. LedgerOK(c)'
  <2>1. \A i \in 1..Len(ledger'[c].history) :
          ledger'[c].history[i].expected = i - 1 /\ ledger'[c].history[i] \in events'
    BY <1>2, <1>4, <1>8, <1>12 DEF LedgerOK
  <2>2. /\ ledger'[c].state.revision = Len(ledger'[c].history)
        /\ ledger'[c].head.revision + 1 = ledger'[c].state.revision
        /\ ledger'[c].history[Len(ledger'[c].history)] = e
        /\ e.action = "REVOKE" => e.reasons \subseteq ledger'[c].state.reasons
    BY <1>3, <1>6, <1>7, <1>8, <1>12
  <2>3. Len(ledger'[c].history) \in Nat
    BY <1>6, <1>8, <1>12
  <2> QED
    BY <2>1, <2>2, <2>3 DEF LedgerOK
<1>14. m.closed = None
  BY <1>1, <1>9 DEF ActorOK, Carries
<1>15. Carries(actor[a])' /\ Standing(actor[a], rolloutLock = a)' /\ Answers(actor[a])'
  BY <1>e, <1>1, <1>4, <1>9, <1>11, <1>14
     DEF ActorOK, Carries, Standing, Answers, Recovers, Exclusive, Recording, Closing, Restoring
<1>16. Noting(a, actor[a])'
  BY <1>c, <1>3, <1>4, <1>8, <1>9, <1>11, <1>12 DEF Noting, s
<1> QED
  BY <1>2, <1>3, <1>4, <1>5, <1>8, <1>9, <1>10, <1>13, <1>14, <1>15, <1>16, LedgerStep DEF ActorOK

\* A recorded revocation stands as long as the head of its ledger says so.
LEMMA WriteAnchorKeeps ==
  ASSUME IInv, NEW a \in Actors, WriteAnchor(a)
  PROVE  IInv'
<1>e. PICK e : e = actor[a].event
  OBVIOUS
<1>c. PICK c : c = e.candidate
  OBVIOUS
<1> DEFINE L == [ledger[c] EXCEPT !.head = ledger[c].state]
           m == IF e.action = "REVOKE" THEN [actor[a] EXCEPT !.pc = "state"]
                                       ELSE [IdleActor EXCEPT !.closed = None]
<1>1. actor[a] \in ActorState /\ actor[a].pc = "anchor" /\ ActorOK(a) /\ e \in Event /\ e \in events
  BY <1>e, ActorFacts DEF WriteAnchor, ActorOK, Carries, Recording
<1>2. c \in Candidate /\ ledger[c] \in Ledger /\ LedgerOK(c) /\ e.reasons # {}
  BY <1>c, <1>1 DEF IInv, TypeOK, Event, EventsOK
<1>3. /\ ledgerLock[c] = a /\ e.expected = ledger[c].head.revision
      /\ ledger[c].state = Outdates(e, ledger[c].head)
  BY <1>e, <1>c, <1>1 DEF ActorOK, Noting
<1>4. /\ UNCHANGED <<rolloutFiles, events, admitter, crashes>>
      /\ events' = events /\ state' = state /\ head' = head /\ history' = history
      /\ ledgerLock' = [ledgerLock EXCEPT ![c] = None]
      /\ ledger' = [ledger EXCEPT ![c] = L]
  BY <1>e, <1>c DEF WriteAnchor, rolloutFiles
<1>5. /\ ledger[c].history \in Seq(Event) /\ ledger[c].state \in LedgerState
      /\ ledger[c].head \in LedgerState
  BY <1>2 DEF Ledger
<1>6. /\ ledger[c].state.revision = e.expected + 1
      /\ ledger[c].state.revision > ledger[c].head.revision
      /\ e.action = "REVOKE" => ledger[c].state.reasons # {}
  BY <1>2, <1>3, <1>5 DEF Outdates, LedgerState
<1>7. /\ L.state = ledger[c].state /\ L.head = ledger[c].state
      /\ L.history = ledger[c].history /\ L \in Ledger
  BY <1>2, <1>5 DEF Ledger
<1>8. /\ m \in ActorState
      /\ e.action = "REVOKE" => m.pc = "state" /\ m.event = e /\ m.closed = actor[a].closed
      /\ e.action # "REVOKE" => m.pc = "idle" /\ m.event = None /\ m.closed = None
  BY <1>e, <1>1, IdleIsActorState DEF IdleActor, ActorState, PC
<1>9. /\ actor' = [actor EXCEPT ![a] = m]
      /\ rolloutLock' = rolloutLock \/ (rolloutLock = a /\ rolloutLock' = None)
  BY <1>e DEF WriteAnchor, Goto, Fail, Leave, Unlock, IInv, TypeOK
<1>10. actor'[a] = m
  BY <1>9 DEF IInv, TypeOK
<1> HIDE DEF m, L
<1>11. ledger'[c] = L
  BY <1>2, <1>4 DEF IInv, TypeOK
<1>12. LedgerOK(c)'
  <2>1. \A i \in 1..Len(ledger'[c].history) :
          ledger'[c].history[i].expected = i - 1 /\ ledger'[c].history[i] \in events'
    BY <1>2, <1>4, <1>7, <1>11 DEF LedgerOK
  <2>2. ledger'[c].head = ledger'[c].state
    BY <1>7, <1>11
  <2>3. ledger'[c].state = ledger[c].state /\ ledger'[c].history = ledger[c].history
    BY <1>7, <1>11
  <2> QED
    BY <1>2, <2>1, <2>2, <2>3 DEF LedgerOK
<1>13. m.closed = None
  BY <1>1, <1>8 DEF ActorOK, Carries
<1>14. Carries(actor[a])' /\ Standing(actor[a], rolloutLock = a)' /\ Noting(a, actor[a])'
  BY <1>1, <1>4, <1>8, <1>10, <1>13
     DEF Carries, Standing, Noting, Recovers, Exclusive, Recording, Closing, Restoring
<1>15. Answers(actor[a])'
  <2>1. CASE e.action = "REVOKE"
    <3>1. e.expected + 1 \in Nat
      BY <1>1 DEF Event
    <3>2. ledger'[c].head.revision = e.expected + 1 /\ ledger'[c].head.reasons # {}
      BY <1>6, <1>7, <1>11, <2>1
    <3> QED
      BY <1>c, <1>8, <1>10, <2>1, <3>1, <3>2 DEF Answers, Registered
  <2>2. CASE e.action # "REVOKE"
    BY <1>8, <1>10, <2>2 DEF Answers, Closing, Exclusive
  <2> QED
    BY <2>1, <2>2
<1>16. m.pc \notin {"history", "rollout"}
  BY <1>8
<1>17. ActorOK(a)'
  BY <1>14, <1>15 DEF ActorOK
<1> QED
  BY <1>2, <1>3, <1>4, <1>6, <1>7, <1>8, <1>9, <1>12, <1>13, <1>16, <1>17, LedgerStep

-----------------------------------------------------------------------------
(* Steps that take or give up a ledger lock *)

LEMMA LockStep ==
  ASSUME IInv, NEW a \in Actors, UNCHANGED <<rolloutFiles, ledger, events, admitter>>,
         crashes' \in 0..MaxCrashes,
         ledgerLock' \in [Candidate -> Actors \cup {None}],
         \A c \in Candidate, b \in Actors \ {a} : ledgerLock[c] = b => ledgerLock'[c] = b,
         rolloutLock' = rolloutLock \/ (rolloutLock = a /\ rolloutLock' = None),
         NEW m \in ActorState, actor' = [actor EXCEPT ![a] = m],
         m.pc \notin {"history", "rollout"}, m.closed = None, ActorOK(a)'
  PROVE  IInv'
<1>1. /\ state' = state /\ head' = head /\ history' = history /\ ledger' = ledger
      /\ events' = events /\ admitter' = admitter
  BY DEF rolloutFiles
<1>2. /\ actor' \in [Actors -> ActorState] /\ actor'[a] = m
      /\ \A b \in Actors \ {a} : actor'[b] = actor[b]
  BY DEF IInv, TypeOK
<1>3. TypeOK'
  BY <1>1, <1>2 DEF IInv, TypeOK
<1>4. FilesOK' /\ EventsOK' /\ (\A d \in Candidate : LedgerOK(d))'
  BY <1>1 DEF IInv, FilesOK, EventsOK, LedgerOK
<1>7. (\A r \in Admitters : AdmitterOK(admitter[r]))'
  BY <1>1 DEF IInv, AdmitterOK
<1>5. ASSUME NEW b \in Actors PROVE ActorOK(b)'
  <2>1. CASE b # a
    <3>1. actor'[b] = actor[b] /\ ActorOK(b) /\ (rolloutLock = b => rolloutLock' = b)
      BY <1>2, <2>1, NobodyIsNone DEF IInv
    <3>2. Carries(actor[b])' /\ Answers(actor[b])'
      BY <1>1, <3>1 DEF ActorOK, Carries, Answers, Registered
    <3>3. Standing(actor[b], rolloutLock = b)'
      BY <1>1, <3>1 DEF ActorOK, Standing, Recovers
    <3>4. Noting(b, actor[b])'
      <4>1. CASE actor[b].pc \in {"event", "ledger", "anchor"}
        <5>1. actor[b].event.candidate \in Candidate
          BY <3>1, <4>1, ActorFacts DEF ActorOK, Carries, Recording, Event
        <5>2. ledgerLock'[actor[b].event.candidate] = b
          BY <2>1, <3>1, <4>1, <5>1 DEF ActorOK, Noting
        <5> QED
          BY <1>1, <3>1, <5>2 DEF ActorOK, Noting
      <4>2. CASE actor[b].pc \notin {"event", "ledger", "anchor"}
        BY <3>1, <4>2 DEF Noting
      <4> QED
        BY <4>1, <4>2
    <3> QED
      BY <3>2, <3>3, <3>4 DEF ActorOK
  <2> QED
    BY <2>1
<1>6. ASSUME NEW b \in Actors PROVE Claims(actor[b].closed)'
  <2>1. PICK k : k = actor'[b].closed
    OBVIOUS
  <2>2. k = None \/ Claims(k)
    BY <1>2, <2>1 DEF IInv
  <2>3. Shut(k.candidate) => Shut(k.candidate)'
    BY <1>1, <1>2 DEF Shut
  <2>4. k # None => Claims(k)'
    BY <1>1, <2>2, <2>3 DEF Claims, Registered
  <2> QED
    BY <2>1, <2>4 DEF Claims, Registered, Shut
<1> QED
  BY <1>3, <1>4, <1>5, <1>6, <1>7 DEF IInv

LEMMA CrashKeeps ==
  ASSUME IInv, NEW a \in Actors, Crash(a)
  PROVE  IInv'
<1> DEFINE m == [IdleActor EXCEPT !.closed = None]
<1>1. m \in ActorState /\ m.pc = "idle" /\ m.event = None /\ m.closed = None
  BY IdleIsActorState DEF IdleActor
<1>2. /\ actor' = [actor EXCEPT ![a] = m]
      /\ rolloutLock' = rolloutLock \/ (rolloutLock = a /\ rolloutLock' = None)
  BY DEF Crash, Fail, Leave, Unlock
<1> HIDE DEF m
<1>3. UNCHANGED <<rolloutFiles, ledger, events, admitter>> /\ crashes' \in 0..MaxCrashes
  BY RolloutBounds DEF Crash, IInv, TypeOK
<1>4. /\ ledgerLock' \in [Candidate -> Actors \cup {None}]
      /\ \A c \in Candidate, b \in Actors \ {a} : ledgerLock[c] = b => ledgerLock'[c] = b
  BY DEF Crash, IInv, TypeOK
<1>5. ActorOK(a)'
  <2>1. actor'[a] = m
    BY <1>2 DEF IInv, TypeOK
  <2> QED
    BY <1>1, <2>1
       DEF ActorOK, Carries, Standing, Noting, Answers, Recovers, Exclusive, Recording, Closing, Restoring
<1> QED
  BY <1>1, <1>2, <1>3, <1>4, <1>5, LockStep

LEMMA RecordKeeps ==
  ASSUME IInv, NEW a \in Actors, Record(a)
  PROVE  IInv'
<1>e. PICK e : e = actor[a].event
  OBVIOUS
<1>c. PICK c : c = e.candidate
  OBVIOUS
<1>1. actor[a] \in ActorState /\ actor[a].pc = "record" /\ ActorOK(a) /\ e \in Event /\ e \in events
  BY <1>e, ActorFacts DEF Record, ActorOK, Carries, Recording
<1>2. /\ c \in Candidate /\ ledger[c] \in Ledger /\ LedgerOK(c) /\ e.reasons # {}
      /\ e.expected \in Nat /\ actor[a].closed = None
  BY <1>c, <1>1 DEF IInv, TypeOK, Event, EventsOK, ActorOK, Carries
<1>3. UNCHANGED <<rolloutFiles, ledger, events, admitter, crashes>>
  BY DEF Record
<1>4. CASE Fail(a) /\ UNCHANGED ledgerLock
  BY <1>3, <1>4, FailKeeps DEF Files
<1>5. CASE /\ LedgerReadable(c) /\ Recorded(e) /\ e.action = "REVOKE" /\ Last(ledger[c].history) = e
           /\ Goto(a, "state") /\ UNCHANGED rolloutLock /\ UNCHANGED ledgerLock
  <2> DEFINE m == [actor[a] EXCEPT !.pc = "state"]
  <2>1. /\ m.pc = "state" /\ m.event = e /\ m.closed = actor[a].closed
    BY <1>e, <1>1 DEF ActorState
  <2>2. Registered(c, e.expected + 1)
    <3>1. /\ ledger[c].history \in Seq(Event) /\ Len(ledger[c].history) \in Nat
          /\ ledger[c].head = ledger[c].state
          /\ Len(ledger[c].history) = ledger[c].state.revision
      BY <1>2, <1>5 DEF Ledger, LedgerReadable
    <3>2. Len(ledger[c].history) > 0 /\ ledger[c].history[Len(ledger[c].history)] = e
      BY <1>c, <1>5, <3>1 DEF Recorded, Contains, Last
    <3>3. e.expected = Len(ledger[c].history) - 1 /\ e.reasons \subseteq ledger[c].state.reasons
      BY <1>2, <1>5, <3>1, <3>2 DEF LedgerOK
    <3> QED
      BY <1>2, <3>1, <3>3 DEF Registered
  <2> HIDE DEF m
  <2>3. Carries(m) /\ Standing(m, rolloutLock = a) /\ Noting(a, m) /\ Answers(m)
    BY <1>c, <1>1, <1>2, <1>5, <2>1, <2>2
       DEF Carries, Standing, Noting, Answers, Recovers, Exclusive, Recording, Closing, Restoring
  <2> QED
    BY <1>1, <1>3, <1>5, <2>1, <2>3, GotoKeeps DEF Files, PC, m
<1>6. CASE /\ Applicable(e) /\ ledgerLock[c] = None /\ ledgerLock' = [ledgerLock EXCEPT ![c] = a]
           /\ Goto(a, "event") /\ UNCHANGED rolloutLock
  <2> DEFINE m == [actor[a] EXCEPT !.pc = "event"]
  <2>1. /\ m \in ActorState /\ m.pc = "event" /\ m.event = e /\ m.closed = None
        /\ m.command = actor[a].command
    BY <1>e, <1>1, <1>2 DEF ActorState, PC
  <2>2. actor' = [actor EXCEPT ![a] = m]
    BY <1>6 DEF Goto, IInv, TypeOK
  <2>3. actor'[a] = m
    BY <2>2 DEF IInv, TypeOK
  <2> HIDE DEF m
  <2>4. /\ state' = state /\ head' = head /\ history' = history /\ ledger' = ledger
        /\ events' = events /\ crashes' = crashes
    BY <1>3 DEF rolloutFiles
  <2>5. /\ ledgerLock'[c] = a /\ ledgerLock' \in [Candidate -> Actors \cup {None}]
        /\ \A d \in Candidate, b \in Actors \ {a} : ledgerLock[d] = b => ledgerLock'[d] = b
    BY <1>2, <1>6, NobodyIsNone DEF IInv, TypeOK
  <2>6. /\ ledger[c].head = ledger[c].state /\ Len(ledger[c].history) = ledger[c].state.revision
        /\ e.expected = ledger[c].head.revision
        /\ e.action = "RECOVER" => e.reasons \subseteq ledger[c].head.reasons
    BY <1>c, <1>6 DEF Applicable, LedgerReadable
  <2>7. Carries(actor[a])' /\ Standing(actor[a], rolloutLock = a)' /\ Answers(actor[a])'
    BY <1>e, <1>1, <1>6, <2>1, <2>3, <2>4
       DEF ActorOK, Carries, Standing, Answers, Recovers, Exclusive, Recording, Closing, Restoring
  <2>8. Noting(a, actor[a])'
    BY <1>c, <2>1, <2>3, <2>4, <2>5, <2>6 DEF Noting
  <2>9. crashes' \in 0..MaxCrashes
    BY <2>4 DEF IInv, TypeOK
  <2> QED
    BY <1>3, <1>6, <2>1, <2>2, <2>5, <2>7, <2>8, <2>9, LockStep DEF ActorOK
<1> QED
  BY <1>e, <1>c, <1>4, <1>5, <1>6 DEF Record

-----------------------------------------------------------------------------
(* Authorities and admitters *)

LEMMA SignKeeps ==
  ASSUME IInv, NEW c \in Candidate, NEW action \in {"REVOKE", "RECOVER"},
         NEW reasons \in SUBSET Category, Sign(c, action, reasons)
  PROVE  IInv'
<1> DEFINE e == [id |-> Cardinality(events), candidate |-> c, action |-> action,
                 reasons |-> reasons, expected |-> ledger[c].state.revision]
<1>1. /\ state' = state /\ head' = head /\ history' = history /\ ledger' = ledger
      /\ rolloutLock' = rolloutLock /\ ledgerLock' = ledgerLock
      /\ actor' = actor /\ admitter' = admitter /\ crashes' = crashes
      /\ events' = events \cup {e}
      /\ Cardinality(events) < MaxEvents /\ reasons # {}
      /\ action = "REVOKE" => Cardinality(reasons) = 1
  BY DEF Sign, rolloutFiles, locks
<1>2. IsFiniteSet(events) /\ Cardinality(events) \in Nat
  BY FS_CardinalityType DEF IInv, EventsOK
<1>3. ledger[c] \in Ledger /\ ledger[c].state.revision \in Nat
  BY DEF IInv, TypeOK, Ledger, LedgerState
<1>4. e \in Event
  BY <1>2, <1>3 DEF Event
<1>5. action = "REVOKE" => \E r \in Category : reasons = {r}
  <2>1. IsFiniteSet(reasons)
    BY CategoriesAreFinite, FS_Subset
  <2> QED
    BY <1>1, <2>1, FS_Singleton
<1>6. e.reasons = reasons /\ e.action = action
  OBVIOUS
<1> HIDE DEF e
<1>7. TypeOK'
  BY <1>1, <1>4 DEF IInv, TypeOK
<1>8. EventsOK'
  <2>1. IsFiniteSet(events')
    BY <1>1, <1>2, FS_AddElement
  <2> QED
    BY <1>1, <1>5, <1>6, <2>1 DEF IInv, EventsOK
<1>9. FilesOK' /\ (\A r \in Admitters : AdmitterOK(admitter[r]))'
  BY <1>1 DEF IInv, FilesOK, AdmitterOK
<1>10. (\A d \in Candidate : LedgerOK(d))'
  BY <1>1 DEF IInv, LedgerOK
<1>11. ASSUME NEW b \in Actors PROVE ActorOK(b)'
  <2>1. ActorOK(b)
    BY DEF IInv
  <2>2. Carries(actor[b])'
    BY <1>1, <2>1 DEF ActorOK, Carries
  <2>3. Standing(actor[b], rolloutLock = b)'
    BY <1>1, <2>1 DEF ActorOK, Standing, Recovers
  <2>4. Noting(b, actor[b])' /\ Answers(actor[b])'
    BY <1>1, <2>1 DEF ActorOK, Noting, Answers, Registered
  <2> QED
    BY <2>2, <2>3, <2>4 DEF ActorOK
<1>12. ASSUME NEW b \in Actors PROVE Claims(actor[b].closed)'
  BY <1>1 DEF IInv, Claims, Registered, Shut
<1> QED
  BY <1>7, <1>8, <1>9, <1>10, <1>11, <1>12 DEF IInv

LEMMA AdmitterStepKeeps ==
  ASSUME IInv, OnlyAdmitter, NEW r \in Admitters, NEW m \in AdmitterState,
         admitter' = [admitter EXCEPT ![r] = m], AdmitterOK(m)
  PROVE  IInv'
<1>1. /\ state' = state /\ head' = head /\ history' = history /\ ledger' = ledger
      /\ rolloutLock' = rolloutLock /\ ledgerLock' = ledgerLock
      /\ actor' = actor /\ events' = events /\ crashes' = crashes
  BY DEF OnlyAdmitter, rolloutFiles, locks
<1>2. TypeOK'
  BY <1>1 DEF IInv, TypeOK
<1>3. FilesOK' /\ EventsOK' /\ (\A d \in Candidate : LedgerOK(d))'
  BY <1>1 DEF IInv, FilesOK, EventsOK, LedgerOK
<1>4. ASSUME NEW q \in Admitters PROVE AdmitterOK(admitter[q])'
  <2>1. PICK k : k = admitter'[q]
    OBVIOUS
  <2>2. AdmitterOK(k)
    BY <2>1 DEF IInv, TypeOK
  <2>3. AdmitterOK(k)'
    BY <1>1, <2>2 DEF AdmitterOK
  <2> QED
    BY <2>1, <2>3 DEF AdmitterOK
<1>5. ASSUME NEW b \in Actors PROVE ActorOK(b)'
  <2>1. ActorOK(b)
    BY DEF IInv
  <2>2. Carries(actor[b])' /\ Noting(b, actor[b])' /\ Answers(actor[b])'
    BY <1>1, <2>1 DEF ActorOK, Carries, Noting, Answers, Registered
  <2>3. Standing(actor[b], rolloutLock = b)'
    BY <1>1, <2>1 DEF ActorOK, Standing, Recovers
  <2> QED
    BY <2>2, <2>3 DEF ActorOK
<1>6. ASSUME NEW b \in Actors PROVE Claims(actor[b].closed)'
  BY <1>1 DEF IInv, Claims, Registered, Shut
<1> QED
  BY <1>2, <1>3, <1>4, <1>5, <1>6 DEF IInv

LEMMA RefuseKeeps ==
  ASSUME IInv, OnlyAdmitter, NEW r \in Admitters, NEW admitted \in BOOLEAN, Answer(r, admitted)
  PROVE  IInv'
<1>1. [IdleAdmitter EXCEPT !.admitted = admitted] \in AdmitterState
  BY DEF IdleAdmitter, AdmitterState, Candidate
<1>2. AdmitterOK([IdleAdmitter EXCEPT !.admitted = admitted])
  BY DEF IdleAdmitter, AdmitterOK
<1> QED
  BY <1>1, <1>2, AdmitterStepKeeps DEF Answer

LEMMA AskKeeps ==
  ASSUME IInv, NEW r \in Admitters, NEW c \in Candidate, Ask(r, c)
  PROVE  IInv'
<1> DEFINE m == [IdleAdmitter EXCEPT !.pc = "state", !.candidate = c, !.revoked = Revoked(c)]
<1>1. OnlyAdmitter /\ (Answer(r, FALSE) \/ admitter' = [admitter EXCEPT ![r] = m])
  BY DEF Ask, Refuse
<1>2. m \in AdmitterState /\ AdmitterOK(m)
  BY DEF IdleAdmitter, AdmitterState, AdmitterOK, Revoked
<1> QED
  BY <1>1, <1>2, RefuseKeeps, AdmitterStepKeeps

\* What is known of an admitter before it makes a step, and of the files.
LEMMA AdmitterFacts ==
  ASSUME IInv, NEW r \in Admitters
  PROVE  /\ admitter[r] \in AdmitterState /\ AdmitterOK(admitter[r])
         /\ state \in RolloutState /\ state.revision \in Nat /\ state.revision >= 1
         /\ head \in RolloutState /\ head.revision \in Nat
         /\ history \in Seq(RolloutState) /\ Len(history) \in Nat
         /\ state.revision <= Len(history) /\ history[state.revision] = state
  BY DEF IInv, TypeOK, FilesOK, RolloutState

LEMMA AdmitReadStateKeeps ==
  ASSUME IInv, NEW r \in Admitters, AdmitReadState(r)
  PROVE  IInv'
<1> DEFINE m == [admitter[r] EXCEPT !.pc = "head", !.seen = state]
<1>1. OnlyAdmitter /\ admitter' = [admitter EXCEPT ![r] = m]
  BY DEF AdmitReadState, IInv, TypeOK
<1>2. m \in AdmitterState /\ m.pc = "head" /\ m.seen = state
  BY AdmitterFacts DEF AdmitterState
<1> HIDE DEF m
<1>3. AdmitterOK(m)
  BY <1>2, AdmitterFacts DEF AdmitterOK
<1> QED
  BY <1>1, <1>2, <1>3, AdmitterStepKeeps

LEMMA AdmitReadHeadKeeps ==
  ASSUME IInv, NEW r \in Admitters, AdmitReadHead(r)
  PROVE  IInv'
<1> DEFINE m == [admitter[r] EXCEPT !.pc = "history"]
<1>1. /\ OnlyAdmitter /\ admitter[r].pc = "head"
      /\ Answer(r, FALSE) \/ (head = admitter[r].seen /\ admitter' = [admitter EXCEPT ![r] = m])
  BY DEF AdmitReadHead, Refuse, IInv, TypeOK
<1>2. m \in AdmitterState /\ m.pc = "history" /\ m.seen = admitter[r].seen
  BY AdmitterFacts DEF AdmitterState
<1> HIDE DEF m
<1>3. head = admitter[r].seen => AdmitterOK(m)
  BY <1>1, <1>2, AdmitterFacts DEF AdmitterOK
<1> QED
  BY <1>1, <1>2, <1>3, RefuseKeeps, AdmitterStepKeeps

LEMMA AdmitReadHistoryKeeps ==
  ASSUME IInv, NEW r \in Admitters, AdmitReadHistory(r)
  PROVE  IInv'
<1> DEFINE m == [admitter[r] EXCEPT !.pc = "gate"]
<1>1. /\ OnlyAdmitter
      /\ Answer(r, FALSE) \/ admitter' = [admitter EXCEPT ![r] = m]
  BY DEF AdmitReadHistory, Refuse, IInv, TypeOK
<1>2. m \in AdmitterState /\ m.pc = "gate"
  BY AdmitterFacts DEF AdmitterState
<1> HIDE DEF m
<1>3. AdmitterOK(m)
  BY <1>2 DEF AdmitterOK
<1> QED
  BY <1>1, <1>2, <1>3, RefuseKeeps, AdmitterStepKeeps

LEMMA GateKeeps ==
  ASSUME IInv, NEW r \in Admitters, Gate(r)
  PROVE  IInv'
<1>1. OnlyAdmitter /\ (Answer(r, FALSE) \/ Answer(r, TRUE))
  BY DEF Gate
<1> QED
  BY <1>1, RefuseKeeps

-----------------------------------------------------------------------------
(* The invariant *)

LEMMA InitHolds == Init => IInv
<1> SUFFICES ASSUME Init PROVE IInv
  OBVIOUS
<1> USE DEF Init
<1>1. InitialState \in RolloutState /\ Genesis \in LedgerState /\ IdleActor \in ActorState
      /\ IdleAdmitter \in AdmitterState
  BY DEF InitialState, RolloutState, Candidate, Genesis, LedgerState, IdleActor, ActorState, PC,
         IdleAdmitter, AdmitterState
<1>2. history \in Seq(RolloutState) /\ Len(history) = 1 /\ history[1] = InitialState
  BY <1>1
<1>3. [state |-> Genesis, head |-> Genesis, history |-> <<>>] \in Ledger
  BY <1>1 DEF Ledger
<1>4. TypeOK
  BY <1>1, <1>2, <1>3, RolloutBounds DEF TypeOK
<1>5. FilesOK
  BY <1>2 DEF FilesOK, InitialState
<1>6. ASSUME NEW c \in Candidate PROVE LedgerOK(c)
  <2>1. /\ ledger[c].history = <<>> /\ ledger[c].state = Genesis /\ ledger[c].head = Genesis
        /\ Len(<<>>) = 0
    OBVIOUS
  <2>2. Genesis.revision = 0
    BY DEF Genesis
  <2> QED
    BY <2>1, <2>2 DEF LedgerOK
<1>7. EventsOK
  BY FS_EmptySet DEF EventsOK
<1>8. ASSUME NEW a \in Actors PROVE ActorOK(a) /\ Claims(actor[a].closed)
  BY DEF IdleActor, ActorOK, Carries, Standing, Noting, Answers, Claims, Recovers,
         Exclusive, Recording, Closing, Restoring
<1>9. ASSUME NEW r \in Admitters PROVE AdmitterOK(admitter[r])
  BY DEF AdmitterOK, IdleAdmitter
<1> QED
  BY <1>4, <1>5, <1>6, <1>7, <1>8, <1>9 DEF IInv

LEMMA ActorStepKeeps ==
  ASSUME IInv, NEW a \in Actors, ActorStep(a)
  PROVE  IInv'
<1>1. CASE Record(a) \/ WriteEvent(a) \/ WriteLedger(a) \/ WriteAnchor(a)
  BY <1>1, RecordKeeps, WriteEventKeeps, WriteLedgerKeeps, WriteAnchorKeeps
<1>2. CASE ReadState(a) \/ ReadHead(a) \/ ChooseClosing(a)
  BY <1>2, ReadStateKeeps, ReadHeadKeeps, ChooseClosingKeeps
<1>3. CASE ValidateRecovery(a) \/ ReadSnapshot(a) \/ CheckReserve(a) \/ RelockDisabled(a)
  BY <1>3, ValidateRecoveryKeeps, ReadSnapshotKeeps, CheckReserveKeeps, RelockDisabledKeeps
<1>4. CASE LockRollout(a) \/ CheckRecovery(a) \/ CheckStandby(a) \/ Protect(a)
  BY <1>4, LockRolloutKeeps, CheckRecoveryKeeps, CheckStandbyKeeps, ProtectKeeps
<1>5. CASE WriteHistory(a) \/ WriteState(a) \/ WriteHead(a)
  BY <1>5, WriteHistoryKeeps, WriteStateKeeps, WriteHeadKeeps
<1> QED
  BY <1>1, <1>2, <1>3, <1>4, <1>5 DEF ActorStep

LEMMA StepHolds == IInv /\ [Next]_vars => IInv'
<1> SUFFICES ASSUME IInv, [Next]_vars PROVE IInv'
  OBVIOUS
<1>1. CASE UNCHANGED vars
  <2>1. /\ state' = state /\ head' = head /\ history' = history /\ ledger' = ledger
        /\ rolloutLock' = rolloutLock /\ ledgerLock' = ledgerLock /\ events' = events
        /\ actor' = actor /\ admitter' = admitter /\ crashes' = crashes
    BY <1>1 DEF vars
  <2>2. TypeOK'
    BY <2>1 DEF IInv, TypeOK
  <2>3. FilesOK' /\ EventsOK' /\ (\A c \in Candidate : LedgerOK(c))'
    BY <2>1 DEF IInv, FilesOK, EventsOK, LedgerOK
  <2>4. ASSUME NEW b \in Actors PROVE ActorOK(b)'
    <3>1. ActorOK(b)
      BY DEF IInv
    <3>2. Carries(actor[b])' /\ Noting(b, actor[b])' /\ Answers(actor[b])'
      BY <2>1, <3>1 DEF ActorOK, Carries, Noting, Answers, Registered
    <3>3. Standing(actor[b], rolloutLock = b)'
      BY <2>1, <3>1 DEF ActorOK, Standing, Recovers
    <3> QED
      BY <3>2, <3>3 DEF ActorOK
  <2>5. ASSUME NEW b \in Actors PROVE Claims(actor[b].closed)'
    BY <2>1 DEF IInv, Claims, Registered, Shut
  <2>6. (\A r \in Admitters : AdmitterOK(admitter[r]))'
    BY <2>1 DEF IInv, AdmitterOK
  <2> QED
    BY <2>2, <2>3, <2>4, <2>5, <2>6 DEF IInv
<1>2. ASSUME NEW a \in Actors, ActorStep(a) PROVE IInv'
  BY <1>2, ActorStepKeeps
<1>3. ASSUME NEW a \in Actors, Crash(a) PROVE IInv'
  BY <1>3, CrashKeeps
<1>4. ASSUME NEW a \in Actors, NEW e \in events, ApplyEvent(a, e) PROVE IInv'
  BY <1>4, ApplyEventKeeps
<1>5. ASSUME NEW a \in Actors, NEW command \in Command, SendCommand(a, command) PROVE IInv'
  BY <1>5, SendCommandKeeps
<1>6. ASSUME NEW c \in Candidate, NEW action \in {"REVOKE", "RECOVER"},
             NEW reasons \in SUBSET Category, Sign(c, action, reasons)
      PROVE  IInv'
  BY <1>6, SignKeeps
<1>7. ASSUME NEW r \in Admitters, AdmitterStep(r) PROVE IInv'
  BY <1>7, AdmitReadStateKeeps, AdmitReadHeadKeeps, AdmitReadHistoryKeeps, GateKeeps DEF AdmitterStep
<1>8. ASSUME NEW r \in Admitters, NEW c \in Candidate, Ask(r, c) PROVE IInv'
  BY <1>8, AskKeeps
<1> QED
  BY <1>1, <1>2, <1>3, <1>4, <1>5, <1>6, <1>7, <1>8 DEF Next

\* Every document, and everything that a process carries from one step to the
\* next, is as the invariant says through all interleavings and crashes.
THEOREM Invariance == Spec => []IInv
  BY InitHolds, StepHolds, PTL DEF Spec

-----------------------------------------------------------------------------
(* What follows from it *)

\* Every variable of the rollout files, the ledgers, the control-plane processes
\* and the admitters keeps its type.
THEOREM RolloutTypeCorrect == Spec => []TypeOK
<1>1. IInv => TypeOK
  BY DEF IInv
<1> QED
  BY <1>1, Invariance, PTL

\* A revocation that apply_reference_candidate_event has applied without an error
\* leaves its candidate closed until its ledger changes.
THEOREM RevocationHasClosed == Spec => []RevocationCloses
<1>1. IInv => RevocationCloses
  <2> SUFFICES ASSUME IInv, NEW a \in Actors, NEW k, k = actor[a].closed,
                      k # None, ledger[k.candidate].head.revision = k.revision
               PROVE  ~(state.candidate = k.candidate /\ state.open)
    BY DEF RevocationCloses
  <2>1. Claims(k)
    BY DEF IInv
  <2> QED
    BY <2>1 DEF Claims
<1> QED
  BY <1>1, Invariance, PTL

\* What ReferenceFileRolloutControl.admit accepts from its three unlocked reads
\* is what is in force when it lists the history.
THEOREM AdmissionIsCurrent == Spec => AdmissionReadsWhatIsInForce
<1> DEFINE Current == \A r \in Admitters : admitter'[r].pc = "gate" /\ admitter[r].pc # "gate" =>
                        RolloutReadable /\ state = admitter[r].seen
<1>1. IInv /\ [Next]_vars => [Current]_vars
  <2> SUFFICES ASSUME IInv, Next, NEW r \in Admitters,
                      admitter'[r].pc = "gate", admitter[r].pc # "gate"
               PROVE  RolloutReadable /\ state = admitter[r].seen
    OBVIOUS
  <2>1. admitter \in [Admitters -> AdmitterState]
    BY DEF IInv, TypeOK
  <2>2. ASSUME NEW q \in Admitters, NEW b, Answer(q, b) PROVE FALSE
    BY <2>1, <2>2 DEF Answer, IdleAdmitter
  <2>3. ASSUME NEW q \in Admitters, AdmitReadHistory(q)
        PROVE  RolloutReadable /\ state = admitter[r].seen
    <3>1. /\ q = r /\ admitter[r].pc = "history"
          /\ Len(history) = admitter[r].seen.revision
      BY <2>1, <2>2, <2>3 DEF AdmitReadHistory, Refuse
    <3> QED
      BY <3>1, AdmitterFacts DEF AdmitterOK, RolloutReadable
  <2>4. ASSUME NEW q \in Admitters, AdmitReadState(q) \/ AdmitReadHead(q) PROVE FALSE
    <3>1. CASE AdmitReadState(q)
      <4>1. PICK k : k = [admitter[q] EXCEPT !.pc = "head", !.seen = state]
        OBVIOUS
      <4>2. admitter' = [admitter EXCEPT ![q] = k] /\ k.pc = "head"
        BY <2>1, <3>1, <4>1 DEF AdmitReadState, AdmitterState
      <4> QED
        BY <2>1, <4>2
    <3>2. CASE AdmitReadHead(q)
      <4>1. PICK k : k = [admitter[q] EXCEPT !.pc = "history"]
        OBVIOUS
      <4>2. admitter' = [admitter EXCEPT ![q] = k] /\ k.pc = "history"
        BY <2>1, <2>2, <3>2, <4>1 DEF AdmitReadHead, Refuse, AdmitterState
      <4> QED
        BY <2>1, <4>2
    <3> QED
      BY <2>4, <3>1, <3>2
  <2>5. ASSUME NEW q \in Admitters, NEW c \in Candidate, Ask(q, c) PROVE FALSE
    BY <2>1, <2>2, <2>5 DEF Ask, Refuse, IdleAdmitter
  <2>6. ASSUME NEW q \in Admitters, Gate(q) PROVE FALSE
    BY <2>2, <2>6 DEF Gate
  <2>7. admitter' # admitter
    OBVIOUS
  <2>8. ASSUME NEW a \in Actors, ActorStep(a) PROVE admitter' = admitter
    BY <2>8 DEF ActorStep, Record, WriteEvent, WriteLedger, WriteAnchor, ReadState, ReadHead,
         ChooseClosing, ValidateRecovery, ReadSnapshot, CheckReserve, RelockDisabled, LockRollout,
         CheckRecovery, CheckStandby, Protect, WriteHistory, WriteState, WriteHead, Files
  <2>9. ASSUME NEW a \in Actors,
               \/ Crash(a) \/ \E e \in events : ApplyEvent(a, e)
               \/ \E command \in Command : SendCommand(a, command)
        PROVE  admitter' = admitter
    BY <2>9 DEF Crash, ApplyEvent, SendCommand, Files
  <2>10. ASSUME NEW c \in Candidate, NEW action \in {"REVOKE", "RECOVER"},
                NEW reasons \in SUBSET Category, Sign(c, action, reasons)
         PROVE  admitter' = admitter
    BY <2>10 DEF Sign
  <2> QED
    BY <2>3, <2>4, <2>5, <2>6, <2>7, <2>8, <2>9, <2>10 DEF Next, AdmitterStep
<1> QED
  BY <1>1, Invariance, PTL DEF Spec, AdmissionReadsWhatIsInForce

-----------------------------------------------------------------------------
(* The documents implement the promise *)

\* What the promise says of the heads: they all stay as they are.
HeadsStand == head' = head /\ \A c \in Candidate : ledger'[c].head = ledger[c].head

LEMMA StandingIsStuttering ==
  ASSUME HeadsStand
  PROVE  UNCHANGED Promise!vars
  BY DEF HeadsStand, Promise!vars

\* Only the third write of a transition or of an event changes a head.
LEMMA OthersLeaveHeads ==
  ASSUME IInv, Next
  PROVE  \/ HeadsStand
         \/ \E a \in Actors : WriteHead(a) \/ WriteAnchor(a)
<1>1. ASSUME NEW a \in Actors, ActorStep(a) PROVE HeadsStand \/ WriteHead(a) \/ WriteAnchor(a)
  <2>1. CASE \/ Record(a) \/ ReadState(a) \/ ReadHead(a) \/ ChooseClosing(a)
             \/ ValidateRecovery(a) \/ ReadSnapshot(a) \/ CheckReserve(a) \/ RelockDisabled(a)
             \/ LockRollout(a) \/ CheckRecovery(a) \/ CheckStandby(a) \/ Protect(a)
    BY <2>1 DEF Record, ReadState, ReadHead, ChooseClosing, ValidateRecovery, ReadSnapshot,
         CheckReserve, RelockDisabled, LockRollout, CheckRecovery, CheckStandby, Protect,
         Files, rolloutFiles, HeadsStand
  <2>2. CASE WriteHistory(a) \/ WriteState(a)
    BY <2>2 DEF WriteHistory, WriteState, HeadsStand
  <2>3. CASE WriteEvent(a) \/ WriteLedger(a)
    <3>1. /\ head' = head
          /\ \E c, h : \/ ledger' = [ledger EXCEPT ![c].history = h]
                       \/ ledger' = [ledger EXCEPT ![c].state = h]
      BY <2>3 DEF WriteEvent, WriteLedger, rolloutFiles
    <3> QED
      BY <3>1 DEF HeadsStand, IInv, TypeOK, Ledger
  <2> QED
    BY <1>1, <2>1, <2>2, <2>3 DEF ActorStep
<1>2. ASSUME NEW a \in Actors,
             \/ Crash(a) \/ \E e \in events : ApplyEvent(a, e)
             \/ \E command \in Command : SendCommand(a, command)
      PROVE  HeadsStand
  BY <1>2 DEF Crash, ApplyEvent, SendCommand, Files, rolloutFiles, HeadsStand
<1>3. ASSUME NEW c \in Candidate, NEW action \in {"REVOKE", "RECOVER"},
             NEW reasons \in SUBSET Category, Sign(c, action, reasons)
      PROVE  HeadsStand
  BY <1>3 DEF Sign, rolloutFiles, HeadsStand
<1>4. ASSUME NEW r \in Admitters, AdmitterStep(r) \/ \E c \in Candidate : Ask(r, c)
      PROVE  HeadsStand
  BY <1>4 DEF AdmitterStep, AdmitReadState, AdmitReadHead, AdmitReadHistory, Gate, Ask,
       OnlyAdmitter, rolloutFiles, HeadsStand
<1> QED
  BY <1>1, <1>2, <1>3, <1>4 DEF Next

\* The head of the rollout opens, closes or hands over to the other candidate.
LEMMA HeadKeepsThePromise ==
  ASSUME IInv, NEW a \in Actors, WriteHead(a)
  PROVE  Promise!Next
<1>1. head' = Made(actor[a].command, head) /\ Fits(actor[a].command, head)
  BY ActorFacts DEF WriteHead, ActorOK, Standing, Exclusive
<1>2. ledger' = ledger /\ head.candidate \in {Primary, Fallback}
  BY DEF WriteHead, IInv, TypeOK, RolloutState, Candidate
<1>3. CASE actor[a].command = "SET_STAGE"
  <2>1. head'.candidate = head.candidate /\ head'.open = TRUE
    BY <1>1, <1>3 DEF Made
  <2>2. Promise!Open
    BY <1>2, <2>1 DEF Promise!Open
  <2> QED
    BY <2>2 DEF Promise!Next
<1>4. CASE actor[a].command \in {"ROLLBACK", "RESTORE_CANDIDATE"}
  <2>1. head'.candidate \in Candidate \ {head.candidate} /\ head'.open = FALSE
    BY <1>1, <1>2, <1>4 DEF Made, Fits, Candidate, Primary, Fallback
  <2>2. Promise!Switch
    BY <1>2, <2>1 DEF Promise!Switch
  <2> QED
    BY <2>2 DEF Promise!Next
<1>5. CASE actor[a].command \notin {"SET_STAGE", "ROLLBACK", "RESTORE_CANDIDATE"}
  <2>1. head'.candidate = head.candidate /\ head'.open = FALSE
    BY <1>1, <1>5 DEF Made
  <2>2. Promise!Close
    BY <1>2, <2>1 DEF Promise!Close
  <2> QED
    BY <2>2 DEF Promise!Next
<1> QED
  BY <1>3, <1>4, <1>5

\* The head of a ledger adds one reason, or takes some from the closed primary.
LEMMA AnchorKeepsThePromise ==
  ASSUME IInv, NEW a \in Actors, WriteAnchor(a)
  PROVE  Promise!Next
<1>e. PICK e : e = actor[a].event
  OBVIOUS
<1>c. PICK c : c = e.candidate
  OBVIOUS
<1>1. actor[a].pc = "anchor" /\ ActorOK(a) /\ e \in Event /\ e \in events
  BY <1>e, ActorFacts DEF WriteAnchor, ActorOK, Carries, Recording
<1>2. /\ c \in Candidate /\ e.action \in {"REVOKE", "RECOVER"} /\ e.reasons \in SUBSET Category
      /\ e.reasons # {} /\ (e.action = "REVOKE" => \E r \in Category : e.reasons = {r})
  BY <1>c, <1>1 DEF IInv, Event, EventsOK
<1>3. /\ ledger[c].state = Outdates(e, ledger[c].head)
      /\ e.action = "RECOVER" => e.reasons \subseteq ledger[c].head.reasons
  BY <1>e, <1>c, <1>1 DEF ActorOK, Noting
<1>4. /\ head' = head /\ ledger'[c].head = ledger[c].state
      /\ \A d \in Candidate \ {c} : ledger'[d].head = ledger[d].head
  BY <1>e, <1>c, <1>2 DEF WriteAnchor, rolloutFiles, IInv, TypeOK, Ledger
<1>5. CASE e.action = "REVOKE"
  <2>1. PICK r \in Category : e.reasons = {r}
    BY <1>2, <1>5
  <2>2. ledger'[c].head.reasons = ledger[c].head.reasons \cup {r}
    BY <1>3, <1>4, <1>5, <2>1 DEF Outdates
  <2>3. [d \in Candidate |-> ledger'[d].head.reasons]
          = [[d \in Candidate |-> ledger[d].head.reasons] EXCEPT ![c] = @ \cup {r}]
    BY <1>2, <1>4, <2>2
  <2>4. Promise!Revoke(c)
    BY <1>4, <2>3 DEF Promise!Revoke
  <2> QED
    BY <1>2, <2>4 DEF Promise!Next
<1>6. CASE e.action = "RECOVER"
  <2>1. c = Primary /\ head.candidate = Primary /\ ~head.open
    BY <1>e, <1>c, <1>1, <1>6 DEF ActorOK, Carries, Standing, Recovers, Recording
  <2>2. ledger'[c].head.reasons = ledger[c].head.reasons \ e.reasons
    BY <1>3, <1>4, <1>6 DEF Outdates
  <2>3. [d \in Candidate |-> ledger'[d].head.reasons]
          = [[d \in Candidate |-> ledger[d].head.reasons] EXCEPT ![Primary] = @ \ e.reasons]
    BY <1>2, <1>4, <2>1, <2>2
  <2>4. e.reasons \in (SUBSET [d \in Candidate |-> ledger[d].head.reasons][Primary]) \ {{}}
    BY <1>2, <1>3, <1>6, <2>1
  <2>5. Promise!Recover
    BY <1>4, <2>1, <2>3, <2>4 DEF Promise!Recover
  <2> QED
    BY <2>5 DEF Promise!Next
<1> QED
  BY <1>2, <1>5, <1>6

\* Through all interleavings and crashes of apply_rollout_transition,
\* record_reference_candidate_event and their callers, the heads of the documents
\* do only what was promised.
THEOREM DocumentsKeepThePromise == Spec => KeepsThePromise
<1>1. Init => Promise!Init
  <2> SUFFICES ASSUME Init PROVE Promise!Init
    OBVIOUS
  <2>1. head.candidate = Primary /\ head.open = FALSE
    BY DEF Init, InitialState
  <2>2. \A c \in Candidate : ledger[c].head.reasons = {}
    BY DEF Init, Genesis
  <2> QED
    BY <2>1, <2>2 DEF Promise!Init
<1>2. IInv /\ [Next]_vars => [Promise!Next]_(Promise!vars)
  <2> SUFFICES ASSUME IInv, [Next]_vars PROVE Promise!Next \/ UNCHANGED Promise!vars
    OBVIOUS
  <2>1. CASE UNCHANGED vars
    BY <2>1, StandingIsStuttering DEF vars, HeadsStand
  <2>2. CASE Next
    BY <2>2, OthersLeaveHeads, StandingIsStuttering, HeadKeepsThePromise, AnchorKeepsThePromise
  <2> QED
    BY <2>1, <2>2
<1> QED
  BY <1>1, <1>2, Invariance, PTL DEF Spec, KeepsThePromise, Promise!Spec


-----------------------------------------------------------------------------
(* A ledger is the sum of its events *)

LEMMA LaterEventsDoNotCount ==
  ASSUME NEW log, NEW longer, NEW n \in Nat, \A i \in 1..n : longer[i] = log[i]
  PROVE  InForce(longer, n) = InForce(log, n)
  BY DEF InForce

\* One more event does to the reasons in force what Outcome does to a ledger.
LEMMA OneMoreEvent ==
  ASSUME NEW log, NEW n \in Nat, log[n + 1] \in Event
  PROVE  InForce(log, n + 1) =
           IF log[n + 1].action = "REVOKE" THEN InForce(log, n) \cup log[n + 1].reasons
                                           ELSE InForce(log, n) \ log[n + 1].reasons
<1> DEFINE e == log[n + 1]
<1>1. e.reasons \in SUBSET Category
  BY DEF Event
<1>2. \A i : i \in 1..(n + 1) <=> i \in 1..n \/ i = n + 1
  OBVIOUS
<1>3. n + 1 \in Nat /\ \A i \in 1..n : i \in Nat /\ n + 1 > i /\ ~(i > n + 1)
  OBVIOUS
<1>4. ~(n + 1 > n + 1)
  OBVIOUS
<1>5. CASE e.action = "REVOKE"
  <2>1. ASSUME NEW r \in Category
        PROVE  r \in InForce(log, n + 1) <=> r \in InForce(log, n) \/ r \in e.reasons
    BY <1>2, <1>3, <1>4, <1>5 DEF InForce
  <2> QED
    BY <1>1, <1>5, <2>1 DEF InForce
<1>6. CASE e.action # "REVOKE"
  <2>1. ASSUME NEW r \in Category
        PROVE  r \in InForce(log, n + 1) <=> r \in InForce(log, n) /\ r \notin e.reasons
    BY <1>2, <1>3, <1>4, <1>6 DEF InForce
  <2> QED
    BY <1>1, <1>6, <2>1 DEF InForce
<1> QED
  BY <1>5, <1>6

\* The events that a ledger's state counts, and no others, make up its reasons: of
\* a history that is one event ahead of the state, the last does not count yet.
Summed(c) == ledger[c].state.reasons = InForce(ledger[c].history, ledger[c].state.revision)

\* Only the first two writes of an event change what Summed speaks of.
LedgersStand ==
  \A c \in Candidate : /\ ledger'[c].state = ledger[c].state
                       /\ ledger'[c].history = ledger[c].history

LEMMA OthersLeaveLedgers ==
  ASSUME IInv, [Next]_vars
  PROVE  \/ LedgersStand
         \/ \E a \in Actors : WriteEvent(a) \/ WriteLedger(a)
<1>1. ASSUME NEW a \in Actors, ActorStep(a) PROVE LedgersStand \/ WriteEvent(a) \/ WriteLedger(a)
  <2>1. CASE \/ Record(a) \/ ReadState(a) \/ ReadHead(a) \/ ChooseClosing(a)
             \/ ValidateRecovery(a) \/ ReadSnapshot(a) \/ CheckReserve(a) \/ RelockDisabled(a)
             \/ LockRollout(a) \/ CheckRecovery(a) \/ CheckStandby(a) \/ Protect(a)
    BY <2>1 DEF Record, ReadState, ReadHead, ChooseClosing, ValidateRecovery, ReadSnapshot,
         CheckReserve, RelockDisabled, LockRollout, CheckRecovery, CheckStandby, Protect,
         Files, LedgersStand
  <2>2. CASE WriteHistory(a) \/ WriteState(a) \/ WriteHead(a)
    BY <2>2 DEF WriteHistory, WriteState, WriteHead, LedgersStand
  <2>3. CASE WriteAnchor(a)
    <3>1. \E c, h : ledger' = [ledger EXCEPT ![c].head = h]
      BY <2>3 DEF WriteAnchor
    <3> QED
      BY <3>1 DEF LedgersStand, IInv, TypeOK, Ledger
  <2> QED
    BY <1>1, <2>1, <2>2, <2>3 DEF ActorStep
<1>2. ASSUME NEW a \in Actors,
             \/ Crash(a) \/ \E e \in events : ApplyEvent(a, e)
             \/ \E command \in Command : SendCommand(a, command)
      PROVE  LedgersStand
  BY <1>2 DEF Crash, ApplyEvent, SendCommand, Files, LedgersStand
<1>3. ASSUME NEW c \in Candidate, NEW action \in {"REVOKE", "RECOVER"},
             NEW reasons \in SUBSET Category, Sign(c, action, reasons)
      PROVE  LedgersStand
  BY <1>3 DEF Sign, LedgersStand
<1>4. ASSUME NEW r \in Admitters, AdmitterStep(r) \/ \E c \in Candidate : Ask(r, c)
      PROVE  LedgersStand
  BY <1>4 DEF AdmitterStep, AdmitReadState, AdmitReadHead, AdmitReadHistory, Gate, Ask,
       OnlyAdmitter, LedgersStand
<1>5. CASE UNCHANGED vars
  BY <1>5 DEF vars, LedgersStand
<1> QED
  BY <1>1, <1>2, <1>3, <1>4, <1>5 DEF Next

\* An event that has only been appended is not counted.
LEMMA AppendedIsNotCounted ==
  ASSUME IInv, NEW a \in Actors, WriteEvent(a), NEW c \in Candidate, Summed(c)
  PROVE  Summed(c)'
<1> DEFINE e == actor[a].event
           log == ledger[c].history
           n == ledger[c].state.revision
<1>1. /\ log \in Seq(Event) /\ n \in Nat /\ n <= Len(log) /\ Len(log) \in Nat
      /\ ledger \in [Candidate -> Ledger]
  BY DEF IInv, TypeOK, Ledger, LedgerState, LedgerOK
<1>2. e \in Event
  BY ActorFacts DEF WriteEvent, IInv, TypeOK, ActorOK, Carries, Recording
<1>3. /\ ledger'[c].state = ledger[c].state
      /\ ledger'[c].history = log \/ ledger'[c].history = Append(log, e)
  BY <1>1 DEF WriteEvent, Ledger
<1>4. \A i \in 1..n : Append(log, e)[i] = log[i]
  BY <1>1, <1>2
<1>5. InForce(ledger'[c].history, n) = InForce(log, n)
  BY <1>1, <1>3, <1>4, LaterEventsDoNotCount
<1> QED
  BY <1>3, <1>5 DEF Summed

\* The state counts the one event that the history is ahead of it.
LEMMA WrittenIsCounted ==
  ASSUME IInv, NEW a \in Actors, WriteLedger(a), NEW c \in Candidate, Summed(c)
  PROVE  Summed(c)'
<1> DEFINE e == actor[a].event
           log == ledger[c].history
           n == ledger[c].state.revision
<1>1. log \in Seq(Event) /\ n \in Nat /\ ledger \in [Candidate -> Ledger]
  BY DEF IInv, TypeOK, Ledger, LedgerState
<1>2. ledger'[c].history = log
  BY <1>1 DEF WriteLedger, Ledger
<1>3. CASE e.candidate # c
  <2>1. ledger'[c].state = ledger[c].state
    BY <1>1, <1>3 DEF WriteLedger, Ledger
  <2> QED
    BY <1>2, <2>1 DEF Summed
<1>4. CASE e.candidate = c
  <2>1. e \in Event /\ Len(log) = n + 1 /\ log[n + 1] = e
    BY <1>4, ActorFacts DEF WriteLedger, IInv, TypeOK, ActorOK, Carries, Noting, Recording
  <2>2. ledger'[c].state = Outcome(e)
    BY <1>1, <1>4 DEF WriteLedger, Ledger
  <2>3. /\ ledger'[c].state.revision = n + 1
        /\ ledger'[c].state.reasons = IF e.action = "REVOKE" THEN ledger[c].state.reasons \cup e.reasons
                                                             ELSE ledger[c].state.reasons \ e.reasons
    BY <1>4, <2>2 DEF Outcome
  <2>4. ledger'[c].state.reasons = InForce(log, n + 1)
    <3>1. InForce(log, n + 1) = IF e.action = "REVOKE" THEN InForce(log, n) \cup e.reasons
                                                       ELSE InForce(log, n) \ e.reasons
      <4> HIDE DEF log, n
      <4> QED
        BY <1>1, <2>1, OneMoreEvent
    <3>2. ledger[c].state.reasons = InForce(log, n)
      BY DEF Summed
    <3> QED
      BY <2>3, <3>1, <3>2
  <2> QED
    BY <1>2, <2>3, <2>4 DEF Summed
<1> QED
  BY <1>3, <1>4

\* Whoever applies which events in which order, dies between the three writes of
\* one or applies one again: a ledger that can be read lists each event once, for
\* the revision it was signed for, and its state is what they add up to.
THEOREM LedgersAddUp == Spec => []LedgerAddsUp
<1> DEFINE Sums == \A c \in Candidate : Summed(c)
<1>1. Init => Sums
  <2> SUFFICES ASSUME Init, NEW c \in Candidate PROVE Summed(c)
    OBVIOUS
  <2>1. ledger[c].state = Genesis /\ ledger[c].history = << >>
    BY DEF Init
  <2>2. InForce(<< >>, 0) = {}
    BY DEF InForce
  <2> QED
    BY <2>1, <2>2 DEF Summed, Genesis
<1>2. IInv /\ Sums /\ [Next]_vars => Sums'
  <2> SUFFICES ASSUME IInv, Sums, [Next]_vars, NEW c \in Candidate PROVE Summed(c)'
    OBVIOUS
  <2>1. CASE LedgersStand
    <3>1. ledger'[c].state = ledger[c].state /\ ledger'[c].history = ledger[c].history
      BY <2>1 DEF LedgersStand
    <3> QED
      BY <3>1 DEF Summed
  <2> QED
    BY <2>1, OthersLeaveLedgers, AppendedIsNotCounted, WrittenIsCounted
<1>3. IInv /\ Sums => LedgerAddsUp
  BY DEF IInv, LedgerOK, LedgerAddsUp, LedgerReadable, Summed
<1> QED
  BY <1>1, <1>2, <1>3, Invariance, PTL DEF Spec

=============================================================================
