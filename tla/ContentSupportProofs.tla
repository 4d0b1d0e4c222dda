------------------------- MODULE ContentSupportProofs -------------------------
(***************************************************************************)
(* Proofs about ContentSupport for every set of copies, makers and readers, *)
(* every expiry and every number of faults.                                 *)
(*                                                                         *)
(* For the decision: what a reader notes when it reads is at least as good  *)
(* as what it finds on the second look, since decisions only end.  For the  *)
(* deletion: once the fence is up, only makers that were past it (late) add *)
(* files; after the run's content is gone nobody else can ever again, fence *)
(* or not; so what a pass has unlinked and recorded stays so, and the       *)
(* target status the audit keeps says how far that is.                      *)
(***************************************************************************)
EXTENDS ContentSupport, TLAPS

MakerState == [pc : {"idle", "guard"} \cup PastGuard, copy : Copies \cup {None}, at : Time]
ReaderState == [pc : {"idle", "fetch", "recheck", "given"}, copy : Copies \cup {None},
                at : Time, live : BOOLEAN]
Status == {"no target", "PLANNED", "ADDED", "FAILED", "ABSENT", "DELETED"}
DeletionState == [state : {"NONE", "IN_PROGRESS", "PARTIAL", "COMPLETE"}, support : Status,
                  recovery : SUBSET [copy : Copies, created : Time]]
DeleterState == [pc : {"idle", "fence", "support", "unlink", "record", "finish"},
                 todo : SUBSET (Copies \X {"zip", "json"}), support : Status, found : BOOLEAN]

\* A call that is under way has a copy.
MakersTyped ==
  /\ maker \in [Makers -> MakerState]
  /\ \A m \in Makers : maker[m].pc # "idle" => maker[m].copy \in Copies

SupportTypes ==
  /\ bundle \in [Copies -> BOOLEAN]
  /\ metadata \in [Copies -> Time \cup {None}]
  /\ source \in BOOLEAN
  /\ granted \in [Copies -> BOOLEAN]
  /\ now \in Time
  /\ fence \in BOOLEAN
  /\ deletion \in DeletionState
  /\ returned \subseteq [copy : Copies, created : Time]
  /\ deletions \in [Copies -> [Time -> {0, 1}]]
  /\ MakersTyped
  /\ reader \in [Readers -> ReaderState]
  /\ \A r \in Readers : reader[r].pc # "idle" => reader[r].copy \in Copies
  /\ deleter \in DeleterState

\* A reader that holds bytes noted a decision at least as good as today's.
Decisions ==
  \A r \in Readers :
    /\ reader[r].pc = "given" => reader[r].live
    /\ reader[r].pc = "recheck" /\ Live(reader[r].copy) => reader[r].live

\* Who can still write: under the fence, and without content, late makers only.
Fencing ==
  \A m \in Makers :
    /\ fence /\ maker[m].pc \in PastGuard => maker[m].copy \in late
    /\ ~source /\ maker[m].pc \in PastGuard \ {"look", "read"} => maker[m].copy \in late

\* What CopiesAreAccountedFor asks of a completed deletion.
Settled ==
  /\ \A c \in Copies \ late : Gone(c)
  /\ \A a \in deletion.recovery : a.copy \notin late => deletions[a.copy][a.created] = 1

Pass == {"support", "unlink", "record", "finish"}

\* A pass works under the fence, on what the audit says.
PassIsFenced ==
  /\ deleter.pc \in Pass => fence /\ deletion.state = "IN_PROGRESS"
  /\ deleter.pc \in {"fence", "support"} /\ deletion.state = "IN_PROGRESS"
       => deleter.support = deletion.support
  /\ deletion.support = "no target" => deletion.recovery = {}

\* While it unlinks, everything but the files of late makers is on its list.
NothingMissed ==
  deleter.pc \in {"unlink", "record"} =>
    \A c \in Copies \ late :
      /\ bundle[c] => <<c, "zip">> \in deleter.todo
      /\ metadata[c] # None => <<c, "json">> \in deleter.todo

\* What the status of the support target and the state of the audit stand for.
StatusIsTrue ==
  /\ deleter.pc = "finish" =>
       /\ deleter.support = "DELETED" => Settled
       /\ deleter.support \in {"DELETED", "ADDED"} \/ deletion.recovery = {}
  /\ deletion.support = "DELETED" => ~source /\ Settled
  /\ deletion.state = "COMPLETE" => ~source /\ Settled

IInv == SupportTypes /\ Decisions /\ Fencing /\ PassIsFenced /\ NothingMissed /\ StatusIsTrue
-----------------------------------------------------------------------------
(* Initial states and types *)

LEMMA InitEstablishes == SupportInit => IInv
<1> SUFFICES ASSUME SupportInit PROVE IInv
  OBVIOUS
<1>0. 0 \in Time
  BY SupportBounds DEF Time
<1> USE DEF SupportInit, Resting, NotReading, NotDeleting, MakersTyped
<1>1. SupportTypes
  <2>1. /\ bundle \in [Copies -> BOOLEAN] /\ metadata \in [Copies -> Time \cup {None}]
        /\ deletions \in [Copies -> [Time -> {0, 1}]]
    BY <1>0
  <2>2. maker \in [Makers -> MakerState] /\ reader \in [Readers -> ReaderState]
    BY <1>0 DEF MakerState, ReaderState
  <2>3. deleter \in DeleterState /\ deletion \in DeletionState
    BY DEF DeleterState, DeletionState, Status
  <2> QED
    BY <1>0, <2>1, <2>2, <2>3 DEF SupportTypes
<1>2. Decisions /\ Fencing
  BY DEF Decisions, Fencing, PastGuard
<1>3. PassIsFenced /\ NothingMissed /\ StatusIsTrue
  BY DEF PassIsFenced, NothingMissed, StatusIsTrue, Pass
<1> QED
  BY <1>1, <1>2, <1>3 DEF IInv

LEMMA MakersGo ==
  ASSUME MakersTyped, NEW m \in Makers, maker[m].pc # "idle",
         \/ MakerRests(m)
         \/ \E pc \in {"guard"} \cup PastGuard : MakerGoes(m, pc)
  PROVE  MakersTyped'
<1> USE DEF MakersTyped, MakerState, PastGuard
<1>1. CASE MakerRests(m)
  BY <1>1, SupportBounds DEF MakerRests, Resting, Time
<1>2. ASSUME NEW pc \in {"guard"} \cup PastGuard, MakerGoes(m, pc)
      PROVE  MakersTyped'
  BY <1>2 DEF MakerGoes
<1> QED
  BY <1>1, <1>2

LEMMA MakersKeepTypes ==
  ASSUME SupportTypes, NEW m \in Makers,
         \/ \E c \in Copies : MakeAsk(m, c)
         \/ MakeGuard(m) \/ MakeLook(m) \/ MakeAgain(m) \/ MakeRead(m) \/ MakeAuthorized(m)
         \/ MakeBundle(m) \/ MakeMetadata(m) \/ MakeAudit(m)
         \/ MakeRaises(m) \/ MakeUndo(m) \/ MakerDies(m)
  PROVE  SupportTypes'
<1> USE DEF SupportTypes, files, world, fencing, audits
<1>0. MakersTyped
  OBVIOUS
<1>1. ASSUME NEW c \in Copies, MakeAsk(m, c) PROVE SupportTypes'
  <2>1. MakersTyped'
    BY <1>1 DEF MakeAsk, MakersTyped, MakerState
  <2> QED
    BY <1>1, <2>1 DEF MakeAsk
<1>2. CASE MakeGuard(m) \/ MakeLook(m) \/ MakeRead(m) \/ MakeAuthorized(m) \/ MakeRaises(m) \/ MakerDies(m)
  <2>1. maker[m].pc # "idle"
    BY <1>2 DEF MakeGuard, MakeLook, MakeRead, MakeAuthorized, MakeRaises, MakerDies, MakerAt
  <2>2. \/ MakerRests(m)
        \/ \E pc \in {"guard"} \cup PastGuard : MakerGoes(m, pc)
    <3>1. CASE MakeGuard(m) \/ MakeLook(m) \/ MakeRead(m)
      BY <3>1 DEF MakeGuard, MakeLook, MakeRead, PastGuard
    <3>2. CASE MakeAuthorized(m)
      <4>1. PICK step \in {<<"confirm", "metadata">>, <<"check", "audit">>} : MakerGoes(m, step[2])
        BY <3>2 DEF MakeAuthorized
      <4>2. step[2] \in PastGuard
        BY DEF PastGuard
      <4> QED
        BY <4>1, <4>2
    <3>3. CASE MakeRaises(m) \/ MakerDies(m)
      BY <3>3 DEF MakeRaises, MakerDies, PastGuard
    <3> QED
      BY <1>2, <3>1, <3>2, <3>3
  <2>3. MakersTyped'
    BY <1>0, <2>1, <2>2, MakersGo
  <2> QED
    BY <1>2, <2>3 DEF MakeGuard, MakeLook, MakeRead, MakeAuthorized, MakeRaises, MakerDies
<1>3. CASE MakeAgain(m) \/ MakeAudit(m)
  <2>1. MakersTyped'
    BY <1>0, <1>3, MakersGo DEF MakeAgain, MakeAudit, MakerAt
  <2>2. returned' \subseteq [copy : Copies, created : Time]
    BY <1>0, <1>3 DEF MakeAgain, MakeAudit, MakerAt, MakersTyped, MakerState
  <2> QED
    BY <1>3, <2>1, <2>2 DEF MakeAgain, MakeAudit
<1>4. CASE MakeBundle(m)
  <2>1. MakersTyped'
    BY <1>0, <1>4, MakersGo DEF MakeBundle, MakerAt, PastGuard
  <2> QED
    BY <1>4, <2>1 DEF MakeBundle
<1>5. CASE MakeMetadata(m)
  <2>1. MakersTyped'
    BY <1>0, <1>5, MakersGo DEF MakeMetadata, MakerAt, PastGuard
  <2>2. metadata' \in [Copies -> Time \cup {None}]
    BY <1>0, <1>5 DEF MakeMetadata, MakersTyped, MakerState
  <2> QED
    BY <1>5, <2>1, <2>2 DEF MakeMetadata
<1>6. CASE MakeUndo(m)
  <2>1. MakersTyped'
    BY <1>0, <1>6, MakersGo DEF MakeUndo, MakerAt, PastGuard
  <2>2. bundle' \in [Copies -> BOOLEAN] /\ metadata' \in [Copies -> Time \cup {None}]
    BY <1>6 DEF MakeUndo
  <2> QED
    BY <1>6, <2>1, <2>2 DEF MakeUndo
<1> QED
  BY <1>1, <1>2, <1>3, <1>4, <1>5, <1>6

LEMMA ReadersKeepTypes ==
  ASSUME SupportTypes, NEW r \in Readers, ReadAsk(r) \/ ReadBytes(r) \/ ReadReturns(r) \/ ReadRaises(r)
  PROVE  SupportTypes'
<1> USE DEF SupportTypes, MakersTyped, ReaderState, ReaderAt, NotReading, files, world, fencing, audits
<1>0. 0 \in Time
  BY SupportBounds DEF Time
<1>1. CASE ReadAsk(r)
  <2>1. PICK a \in returned : reader' = [reader EXCEPT ![r] = [pc |-> "fetch", copy |-> a.copy,
                                                               at |-> a.created, live |-> FALSE]]
    BY <1>1 DEF ReadAsk
  <2>2. a.copy \in Copies /\ a.created \in Time
    BY <2>1
  <2> QED
    BY <1>1, <2>1, <2>2 DEF ReadAsk
<1>2. CASE ReadBytes(r)
  <2>1. Live(reader[r].copy) \in BOOLEAN
    BY <1>2 DEF ReadBytes, Live
  <2> QED
    BY <1>2, <2>1 DEF ReadBytes
<1>3. CASE ReadReturns(r)
  BY <1>3 DEF ReadReturns
<1>4. CASE ReadRaises(r)
  BY <1>0, <1>4 DEF ReadRaises
<1> QED
  BY <1>1, <1>2, <1>3, <1>4

LEMMA WorldAndCleanerKeepTypes ==
  ASSUME SupportTypes, Tick \/ (\E c \in Copies : Revoke(c)) \/ ReleaseHold \/ Clean \/ CleanerDies
  PROVE  SupportTypes'
<1> USE DEF SupportTypes, MakersTyped, files, world, fencing, audits
<1>1. CASE Tick
  BY <1>1, SupportBounds DEF Tick, Time
<1>2. ASSUME NEW c \in Copies, Revoke(c) PROVE SupportTypes'
  BY <1>2 DEF Revoke
<1>3. CASE ReleaseHold
  BY <1>3 DEF ReleaseHold
<1>4. CASE CleanStart \/ CleanNext \/ CleanerDies
  BY <1>4 DEF CleanStart, CleanNext, CleanerDies
<1>5. CASE CleanFiles
  BY <1>5 DEF CleanFiles
<1> QED
  BY <1>1, <1>2, <1>3, <1>4, <1>5 DEF Clean

\* What a pass finds in the directory, and what it takes down of it.
LEMMA Listing ==
  ASSUME SupportTypes
  PROVE  /\ OnDisk \subseteq Copies \X {"zip", "json"}
         /\ Captured \subseteq [copy : Copies, created : Time]
         /\ \A c \in Copies : bundle[c] <=> <<c, "zip">> \in OnDisk
         /\ \A c \in Copies : metadata[c] # None <=> <<c, "json">> \in OnDisk
<1>1. OnDisk \subseteq Copies \X {"zip", "json"}
  BY DEF OnDisk
<1>2. Captured \subseteq [copy : Copies, created : Time]
  BY DEF Captured, SupportTypes
<1>3. ASSUME NEW c \in Copies PROVE (bundle[c] <=> <<c, "zip">> \in OnDisk) /\ (metadata[c] # None <=> <<c, "json">> \in OnDisk)
  BY DEF OnDisk
<1> QED
  BY <1>1, <1>2, <1>3

\* The lines a call adds: those of the copies it finds gone, and none is lost.
LEMMA Recording ==
  ASSUME SupportTypes
  PROVE  /\ Recorded \in [Copies -> [Time -> {0, 1}]]
         /\ \A a \in deletion.recovery :
              /\ deletions[a.copy][a.created] = 1 => Recorded[a.copy][a.created] = 1
              /\ Gone(a.copy) => Recorded[a.copy][a.created] = 1
<1>1. Recorded \in [Copies -> [Time -> {0, 1}]]
  BY DEF Recorded, SupportTypes
<1>2. ASSUME NEW a \in deletion.recovery
      PROVE  /\ deletions[a.copy][a.created] = 1 => Recorded[a.copy][a.created] = 1
             /\ Gone(a.copy) => Recorded[a.copy][a.created] = 1
  <2>1. a \in [copy : Copies, created : Time]
    BY DEF SupportTypes, DeletionState
  <2>2. a = [copy |-> a.copy, created |-> a.created] /\ a.copy \in Copies /\ a.created \in Time
    BY <2>1
  <2>3. Recorded[a.copy][a.created] =
          IF Gone(a.copy) /\ [copy |-> a.copy, created |-> a.created] \in deletion.recovery
          THEN 1 ELSE deletions[a.copy][a.created]
    BY <2>2 DEF Recorded
  <2> QED
    BY <2>2, <2>3
<1> QED
  BY <1>1, <1>2

LEMMA DeleterKeepsTypes ==
  ASSUME SupportTypes, Delete \/ DeleterDies
  PROVE  SupportTypes'
<1> USE DEF SupportTypes, MakersTyped, NotDeleting, DeleterAt, files, world, fencing, audits
<1>1. CASE DeletePlan
  <2>1. deletion' \in DeletionState /\ deleter' \in DeleterState
    BY <1>1, Listing DEF DeletePlan, DeletionState, DeleterState, Status
  <2> QED
    BY <1>1, <2>1 DEF DeletePlan
<1>2. CASE DeleteFence
  <2>1. deleter' \in DeleterState
    BY <1>2 DEF DeleteFence, DeleterState, Status
  <2> QED
    BY <1>2, <2>1 DEF DeleteFence
<1>3. CASE DeleteOpen
  <2>1. deleter' \in DeleterState
    BY <1>3, Listing DEF DeleteOpen, DeleterState, Status
  <2> QED
    BY <1>3, <2>1 DEF DeleteOpen
<1>4. CASE DeleteUnlink
  <2>1. PICK f \in deleter.todo :
          /\ bundle' = IF f[2] = "zip" THEN [bundle EXCEPT ![f[1]] = FALSE] ELSE bundle
          /\ metadata' = IF f[2] = "json" THEN [metadata EXCEPT ![f[1]] = None] ELSE metadata
          /\ deleter' = [deleter EXCEPT !.pc = "record", !.todo = @ \ {f}]
    BY <1>4 DEF DeleteUnlink
  <2>2. bundle' \in [Copies -> BOOLEAN] /\ metadata' \in [Copies -> Time \cup {None}]
    BY <2>1
  <2>3. deleter' \in DeleterState
    BY <2>1 DEF DeleterState
  <2> QED
    BY <1>4, <2>2, <2>3 DEF DeleteUnlink
<1>5. CASE DeleteRecord
  <2>1. deleter' \in DeleterState
    BY <1>5 DEF DeleteRecord, DeleterState, Status
  <2> QED
    BY <1>5, <2>1, Recording DEF DeleteRecord
<1>6. CASE DeleteFails
  <2>1. deleter' \in DeleterState /\ deletion' \in DeletionState
    BY <1>6 DEF DeleteFails, DeleterState, DeletionState, Status
  <2> QED
    BY <1>6, <2>1, Recording DEF DeleteFails
<1>7. CASE DeleteFinish
  <2>1. deleter' \in DeleterState /\ deletion' \in DeletionState
    BY <1>7 DEF DeleteFinish, DeleterState, DeletionState, Status
  <2> QED
    BY <1>7, <2>1 DEF DeleteFinish
<1>8. CASE DeleterDies
  <2>1. deleter' \in DeleterState
    BY <1>8 DEF DeleterDies, DeleterState, Status
  <2> QED
    BY <1>8, <2>1 DEF DeleterDies
<1> QED
  BY <1>1, <1>2, <1>3, <1>4, <1>5, <1>6, <1>7, <1>8 DEF Delete


-----------------------------------------------------------------------------
(* Who touches what *)

MakerStep(m) ==
  \/ \E c \in Copies : MakeAsk(m, c)
  \/ MakeGuard(m) \/ MakeLook(m) \/ MakeAgain(m) \/ MakeRead(m) \/ MakeAuthorized(m)
  \/ MakeBundle(m) \/ MakeMetadata(m) \/ MakeAudit(m)
  \/ MakeRaises(m) \/ MakeUndo(m) \/ MakerDies(m)
ReaderStep(r) == ReadAsk(r) \/ ReadBytes(r) \/ ReadReturns(r) \/ ReadRaises(r)
WorldStep == Tick \/ (\E c \in Copies : Revoke(c)) \/ ReleaseHold
CleanerStep == Clean \/ CleanerDies
DeleterStep == Delete \/ DeleterDies

LEMMA Steps ==
  ASSUME [SupportNext]_supportVars
  PROVE  \/ \E m \in Makers : MakerStep(m)
         \/ \E r \in Readers : ReaderStep(r)
         \/ WorldStep
         \/ CleanerStep
         \/ DeleterStep
         \/ UNCHANGED supportVars
BY DEF SupportNext, Make, Read, MakerStep, ReaderStep, WorldStep, CleanerStep, DeleterStep

LEMMA MakersTouch ==
  ASSUME NEW m \in Makers, MakerStep(m)
  PROVE  UNCHANGED <<source, world, fencing, deletions, reader, cleaner, deleter>>
BY DEF MakerStep, MakeAsk, MakeGuard, MakeLook, MakeAgain, MakeRead, MakeAuthorized, MakeBundle,
       MakeMetadata, MakeAudit, MakeRaises, MakeUndo, MakerDies, files, world, fencing, audits

LEMMA ReadersTouch ==
  ASSUME NEW r \in Readers, ReaderStep(r)
  PROVE  UNCHANGED <<files, world, fencing, audits, maker, cleaner, deleter>>
BY DEF ReaderStep, ReadAsk, ReadBytes, ReadReturns, ReadRaises

LEMMA WorldTouches ==
  ASSUME WorldStep
  PROVE  UNCHANGED <<files, fencing, audits, maker, reader, cleaner, deleter>>
BY DEF WorldStep, Tick, Revoke, ReleaseHold

LEMMA CleanerTouches ==
  ASSUME CleanerStep
  PROVE  UNCHANGED <<source, world, fencing, audits, maker, reader, deleter>>
BY DEF CleanerStep, Clean, CleanStart, CleanNext, CleanFiles, CleanerDies, files

LEMMA DeleterTouches ==
  ASSUME DeleterStep
  PROVE  UNCHANGED <<world, returned, maker, reader, cleaner>>
BY DEF DeleterStep, Delete, DeletePlan, DeleteFence, DeleteOpen, DeleteUnlink, DeleteRecord,
       DeleteFails, DeleteFinish, DeleterDies, audits

LEMMA TypesHold ==
  ASSUME SupportTypes, [SupportNext]_supportVars
  PROVE  SupportTypes'
<1>1. CASE UNCHANGED supportVars
  BY <1>1 DEF supportVars, SupportTypes, MakersTyped
<1> QED
  BY <1>1, Steps, MakersKeepTypes, ReadersKeepTypes, WorldAndCleanerKeepTypes, DeleterKeepsTypes
  DEF MakerStep, ReaderStep, WorldStep, CleanerStep, DeleterStep

-----------------------------------------------------------------------------
(* Decisions *)

\* A decision that does not stand never stands again.
LEMMA DecisionsOnlyEnd ==
  ASSUME SupportTypes, WorldStep, NEW c \in Copies, Live(c)'
  PROVE  Live(c)
<1> USE DEF Live, SupportTypes
<1>1. CASE Tick
  BY <1>1, SupportBounds DEF Tick, Time
<1>2. ASSUME NEW d \in Copies, Revoke(d) PROVE Live(c)
  BY <1>2 DEF Revoke
<1>3. CASE ReleaseHold
  BY <1>3 DEF ReleaseHold
<1> QED
  BY <1>1, <1>2, <1>3 DEF WorldStep

LEMMA DecisionsHold ==
  ASSUME SupportTypes, Decisions, [SupportNext]_supportVars
  PROVE  Decisions'
<1>1. ASSUME NEW r \in Readers, ReaderStep(r) PROVE Decisions'
  <2>1. \A c : Live(c)' = Live(c)
    BY <1>1, ReadersTouch DEF world, Live
  <2>2. CASE ReadAsk(r)
    <3>1. PICK a \in returned : reader' = [reader EXCEPT ![r] = [pc |-> "fetch", copy |-> a.copy,
                                                                 at |-> a.created, live |-> FALSE]]
      BY <2>2 DEF ReadAsk
    <3> QED
      BY <2>1, <3>1 DEF Decisions, SupportTypes
  <2>3. CASE ReadBytes(r)
    <3>1. reader' = [reader EXCEPT ![r] = [reader[r] EXCEPT !.pc = "recheck", !.live = Live(reader[r].copy)]]
      BY <2>3 DEF ReadBytes, SupportTypes
    <3>2. \A x \in Readers : x # r => reader'[x] = reader[x]
      BY <3>1 DEF SupportTypes
    <3>3. reader'[r].pc = "recheck" /\ reader'[r].live = Live(reader[r].copy) /\ reader'[r].copy = reader[r].copy
      BY <3>1 DEF SupportTypes, ReaderState
    <3> QED
      BY <2>1, <3>2, <3>3 DEF Decisions
  <2>4. CASE ReadReturns(r)
    BY <2>1, <2>4 DEF ReadReturns, ReaderAt, Decisions, SupportTypes, ReaderState
  <2>5. CASE ReadRaises(r)
    BY <2>1, <2>5 DEF ReadRaises, NotReading, Decisions, SupportTypes
  <2> QED
    BY <1>1, <2>2, <2>3, <2>4, <2>5 DEF ReaderStep
<1>2. CASE WorldStep
  <2>1. reader' = reader
    BY <1>2, WorldTouches
  <2>2. ASSUME NEW c \in Copies, granted'[c] /\ now' < Expiry PROVE granted[c] /\ now < Expiry
    BY <1>2, <2>2, DecisionsOnlyEnd DEF Live
  <2> QED
    BY <2>1, <2>2 DEF Decisions, SupportTypes, Live
<1>3. ASSUME UNCHANGED <<world, reader>> PROVE Decisions'
  BY <1>3 DEF Decisions, world, Live
<1> QED
  BY <1>1, <1>2, <1>3, Steps, MakersTouch, CleanerTouches, DeleterTouches DEF supportVars, world

-----------------------------------------------------------------------------
(* The fence and its makers *)

\* Where a maker may go.
LEMMA MakersWay ==
  ASSUME SupportTypes, NEW m \in Makers, MakerStep(m)
  PROVE  /\ \A n \in Makers \ {m} : maker'[n] = maker[n]
         /\ maker'[m].pc \in PastGuard =>
              /\ maker'[m].copy = maker[m].copy
              /\ maker[m].pc \in PastGuard \/ ~fence
         /\ maker'[m].pc \in PastGuard \ {"look", "read"} =>
              maker[m].pc \in PastGuard \ {"look", "read"} \/ source
<1> USE DEF SupportTypes, MakersTyped, MakerState, MakerAt, MakerGoes, MakerRests, Resting, PastGuard
<1>1. CASE \E c \in Copies : MakeAsk(m, c)
  BY <1>1 DEF MakeAsk
<1>2. CASE MakeGuard(m)
  BY <1>2 DEF MakeGuard
<1>3. CASE MakeLook(m)
  BY <1>3 DEF MakeLook
<1>4. CASE MakeAgain(m)
  BY <1>4 DEF MakeAgain
<1>5. CASE MakeRead(m)
  BY <1>5 DEF MakeRead
<1>6. CASE MakeAuthorized(m)
  <2>1. PICK step \in {<<"confirm", "metadata">>, <<"check", "audit">>} : MakerAt(m, step[1]) /\ MakerGoes(m, step[2])
    BY <1>6 DEF MakeAuthorized
  <2> QED
    BY <2>1
<1>7. CASE MakeBundle(m) \/ MakeMetadata(m) \/ MakeAudit(m)
  BY <1>7 DEF MakeBundle, MakeMetadata, MakeAudit
<1>8. CASE MakeRaises(m)
  BY <1>8 DEF MakeRaises, Undoing
<1>9. CASE MakeUndo(m)
  BY <1>9 DEF MakeUndo
<1>10. CASE MakerDies(m)
  BY <1>10 DEF MakerDies
<1> QED
  BY <1>1, <1>2, <1>3, <1>4, <1>5, <1>6, <1>7, <1>8, <1>9, <1>10 DEF MakerStep

LEMMA FencingHolds ==
  ASSUME SupportTypes, Fencing, PassIsFenced, [SupportNext]_supportVars
  PROVE  Fencing'
<1>1. ASSUME NEW m \in Makers, MakerStep(m) PROVE Fencing'
  <2>1. UNCHANGED <<fence, source, late>>
    BY <1>1, MakersTouch DEF fencing
  <2> QED
    BY <1>1, <2>1, MakersWay DEF Fencing
<1>2. CASE DeleterStep
  <2>1. maker' = maker
    BY <1>2, DeleterTouches
  <2>2. CASE DeleteFence
    BY <2>1, <2>2 DEF DeleteFence, Fencing, files
  <2>3. CASE DeleteFinish
    <3>1. fence
      BY <2>3 DEF DeleteFinish, DeleterAt, PassIsFenced, Pass
    <3> QED
      BY <2>1, <2>3, <3>1 DEF DeleteFinish, Fencing
  <2>4. CASE DeletePlan \/ DeleteOpen \/ DeleteUnlink \/ DeleteRecord \/ DeleteFails \/ DeleterDies
    <3>1. UNCHANGED <<fence, source, late>>
      BY <2>4 DEF DeletePlan, DeleteOpen, DeleteUnlink, DeleteRecord, DeleteFails, DeleterDies, files, fencing
    <3> QED
      BY <2>1, <3>1 DEF Fencing
  <2> QED
    BY <1>2, <2>2, <2>3, <2>4 DEF DeleterStep, Delete
<1>3. ASSUME UNCHANGED <<fence, source, late, maker>> PROVE Fencing'
  BY <1>3 DEF Fencing
<1> QED
  BY <1>1, <1>2, <1>3, Steps, ReadersTouch, WorldTouches, CleanerTouches DEF supportVars, files, fencing


-----------------------------------------------------------------------------
(* The account of a deletion *)

\* What other calls may do about the files, when it matters.
Shrinks ==
  \A c \in Copies \ late :
    /\ bundle'[c] => bundle[c]
    /\ metadata'[c] # None => metadata[c] # None

LEMMA OthersDisturbNothing ==
  ASSUME SupportTypes, PassIsFenced, NothingMissed, StatusIsTrue,
         UNCHANGED <<source, fencing, deletions, deleter>>,
         fence \/ ~source => Shrinks
  PROVE  PassIsFenced' /\ NothingMissed' /\ StatusIsTrue'
<1> USE DEF fencing
<1>1. PassIsFenced'
  BY DEF PassIsFenced
<1>2. NothingMissed'
  <2> SUFFICES ASSUME deleter.pc \in {"unlink", "record"}
               PROVE  NothingMissed'
    BY DEF NothingMissed
  <2>1. fence
    BY DEF PassIsFenced, Pass
  <2> QED
    BY <2>1 DEF NothingMissed, Shrinks
<1>3. (fence \/ ~source) /\ Settled => Settled'
  BY DEF Settled, Gone, Occupied, Shrinks
<1>4. StatusIsTrue'
  BY <1>3 DEF StatusIsTrue, PassIsFenced, Pass
<1> QED
  BY <1>1, <1>2, <1>4

LEMMA LateMakersOnly ==
  ASSUME SupportTypes, Fencing, NEW m \in Makers, MakerStep(m)
  PROVE  fence \/ ~source => Shrinks
<1> USE DEF Shrinks, SupportTypes, MakersTyped, MakerAt
<1>1. CASE MakeBundle(m)
  BY <1>1 DEF MakeBundle, Fencing, PastGuard
<1>2. CASE MakeMetadata(m)
  BY <1>2 DEF MakeMetadata, Fencing, PastGuard
<1>3. CASE MakeUndo(m)
  BY <1>3 DEF MakeUndo
<1>4. CASE UNCHANGED <<bundle, metadata>>
  BY <1>4
<1>5. \/ UNCHANGED <<bundle, metadata>>
      \/ MakeBundle(m) \/ MakeMetadata(m) \/ MakeUndo(m)
  BY DEF MakerStep, MakeAsk, MakeGuard, MakeLook, MakeAgain, MakeRead, MakeAuthorized, MakeAudit,
         MakeRaises, MakerDies, files
<1> QED
  BY <1>1, <1>2, <1>3, <1>4, <1>5

LEMMA CleanerShrinks ==
  ASSUME SupportTypes, CleanerStep
  PROVE  Shrinks
<1>1. CASE CleanFiles
  BY <1>1 DEF CleanFiles, Shrinks, SupportTypes
<1>2. CASE UNCHANGED files
  BY <1>2 DEF Shrinks, files
<1> QED
  BY <1>1, <1>2 DEF CleanerStep, Clean, CleanStart, CleanNext, CleanerDies

\* Lines are only added, and for what is gone.
LEMMA RecordingSettles ==
  ASSUME SupportTypes, deletions' = Recorded, UNCHANGED <<bundle, metadata, deletion, late>>
  PROVE  /\ Settled => Settled'
         /\ (\A c \in Copies \ late : Gone(c)) => Settled'
<1>1. \A a \in deletion.recovery : a.copy \in Copies
  BY DEF SupportTypes, DeletionState
<1> QED
  BY <1>1, Recording DEF Settled, Gone, Occupied

LEMMA AccountsHold ==
  ASSUME SupportTypes, Fencing, PassIsFenced, NothingMissed, StatusIsTrue, DeleterStep
  PROVE  PassIsFenced' /\ NothingMissed' /\ StatusIsTrue'
<1> USE DEF DeleterAt, Pass, NotDeleting, SupportTypes, DeletionState, DeleterState
<1>1. CASE DeletePlan
  <2>1. \A c \in Copies : metadata[c] # None => ~Gone(c)
    BY DEF Gone, Occupied
  <2>2. \A a \in Captured : a.copy \in Copies /\ metadata[a.copy] # None
    BY DEF Captured
  <2>3. deletion'.recovery \in {deletion.recovery, Captured}
    BY <1>1 DEF DeletePlan
  <2>4. UNCHANGED <<bundle, metadata, source, late, fence, deletions>>
    BY <1>1 DEF DeletePlan, files, audits
  <2>5. Settled => Settled'
    BY <2>1, <2>2, <2>3, <2>4 DEF Settled, Gone, Occupied
  <2>6. /\ deletion'.support = "DELETED" => deletion.support = "DELETED"
        /\ deletion'.support = "no target" => deletion.support = "no target" /\ OnDisk = {}
        /\ deletion'.recovery = {} \/ deletion'.recovery = deletion.recovery \/ OnDisk # {}
    BY <1>1 DEF DeletePlan
  <2>7. deleter'.pc = "fence" /\ deleter'.support = deletion'.support /\ deletion'.state = "IN_PROGRESS"
    BY <1>1 DEF DeletePlan
  <2> QED
    BY <2>4, <2>5, <2>6, <2>7 DEF PassIsFenced, NothingMissed, StatusIsTrue
<1>2. CASE DeleteFence
  <2>1. UNCHANGED <<bundle, metadata, source, deletion, deletions>> /\ late \subseteq late'
    BY <1>2 DEF DeleteFence, files, audits
  <2>2. Settled => Settled'
    BY <2>1 DEF Settled, Gone, Occupied
  <2>3. PassIsFenced' /\ NothingMissed'
    BY <1>2 DEF DeleteFence, PassIsFenced, NothingMissed
  <2>4. deleter'.pc # "finish"
    BY <1>2 DEF DeleteFence
  <2> QED
    BY <2>1, <2>2, <2>3, <2>4 DEF StatusIsTrue
<1>3. CASE DeleteOpen
  <2>1. UNCHANGED <<bundle, metadata, source, fence, deletion, late, deletions>>
    BY <1>3 DEF DeleteOpen, files, fencing, audits
  <2>2. Settled' <=> Settled
    BY <2>1 DEF Settled, Gone, Occupied
  <2>3. fence /\ deletion.state = "IN_PROGRESS" /\ deleter.support = deletion.support
    BY <1>3 DEF DeleteOpen, PassIsFenced
  <2>4. PassIsFenced'
    BY <1>3, <2>1, <2>3 DEF DeleteOpen, PassIsFenced
  <2>5. NothingMissed'
    BY <1>3, <2>1, Listing DEF DeleteOpen, NothingMissed
  <2>6. StatusIsTrue'
    BY <1>3, <2>1, <2>2, <2>3 DEF DeleteOpen, StatusIsTrue, PassIsFenced
  <2> QED
    BY <2>4, <2>5, <2>6
<1>4. CASE DeleteUnlink
  <2>1. PICK f \in deleter.todo :
          /\ bundle' = IF f[2] = "zip" THEN [bundle EXCEPT ![f[1]] = FALSE] ELSE bundle
          /\ metadata' = IF f[2] = "json" THEN [metadata EXCEPT ![f[1]] = None] ELSE metadata
          /\ deleter' = [deleter EXCEPT !.pc = "record", !.todo = @ \ {f}]
    BY <1>4 DEF DeleteUnlink
  <2>2. UNCHANGED <<source, fence, deletion, late, deletions>>
    BY <1>4 DEF DeleteUnlink, fencing, audits
  <2>3. Shrinks
    BY <2>1 DEF Shrinks
  <2>4. Settled => Settled'
    BY <2>2, <2>3 DEF Settled, Gone, Occupied, Shrinks
  <2>5. PassIsFenced'
    BY <1>4, <2>1, <2>2 DEF DeleteUnlink, PassIsFenced
  <2>6. NothingMissed'
    <3> SUFFICES ASSUME NEW c \in Copies \ late
                 PROVE  /\ bundle'[c] => <<c, "zip">> \in deleter.todo \ {f}
                        /\ metadata'[c] # None => <<c, "json">> \in deleter.todo \ {f}
      BY <2>1, <2>2 DEF NothingMissed
    <3>1. /\ bundle[c] => <<c, "zip">> \in deleter.todo
          /\ metadata[c] # None => <<c, "json">> \in deleter.todo
      BY <1>4 DEF DeleteUnlink, NothingMissed
    <3>2. bundle'[c] => f # <<c, "zip">>
      BY <2>1
    <3>3. metadata'[c] # None => f # <<c, "json">>
      BY <2>1
    <3> QED
      BY <2>3, <3>1, <3>2, <3>3 DEF Shrinks
  <2>7. StatusIsTrue'
    BY <2>1, <2>2, <2>4 DEF StatusIsTrue
  <2> QED
    BY <2>5, <2>6, <2>7
<1>5. CASE DeleteRecord
  <2>1. UNCHANGED <<bundle, metadata, source, fence, deletion, late>> /\ deletions' = Recorded
    BY <1>5 DEF DeleteRecord, files, fencing
  <2>2. Settled => Settled'
    BY <2>1, RecordingSettles
  <2>3. deleter.todo = {} => \A c \in Copies \ late : Gone(c)
    BY <1>5 DEF DeleteRecord, NothingMissed, Gone, Occupied
  <2>4. deleter.todo = {} => Settled'
    BY <2>1, <2>3, RecordingSettles
  <2>5. PassIsFenced'
    BY <1>5, <2>1 DEF DeleteRecord, PassIsFenced
  <2>6. NothingMissed'
    BY <1>5, <2>1 DEF DeleteRecord, NothingMissed
  <2>7. StatusIsTrue'
    BY <1>5, <2>1, <2>2, <2>4 DEF DeleteRecord, StatusIsTrue
  <2> QED
    BY <2>5, <2>6, <2>7
<1>6. CASE DeleteFails
  <2>1. deletion'.state = "PARTIAL" /\ deletion'.support = "FAILED" /\ deleter'.pc = "fence"
    BY <1>6 DEF DeleteFails
  <2> QED
    BY <2>1 DEF PassIsFenced, NothingMissed, StatusIsTrue
<1>7. CASE DeleteFinish
  <2>1. /\ UNCHANGED <<bundle, metadata, fence, late, deletions>> /\ source' = FALSE
        /\ deletion'.recovery = deletion.recovery /\ deletion'.support = deleter.support
        /\ deleter'.pc = "fence" /\ deletion'.state \in {"PARTIAL", "COMPLETE"}
        /\ deletion'.state = "COMPLETE" => deleter.support # "ADDED" /\ OnDisk = {}
    BY <1>7 DEF DeleteFinish, audits
  <2>2. Settled => Settled'
    BY <2>1 DEF Settled, Gone, Occupied
  <2>3. deletion.recovery = {} /\ OnDisk = {} => Settled'
    BY <2>1, Listing DEF Settled, Gone, Occupied
  <2>4. /\ deleter.support = "DELETED" => Settled
        /\ deleter.support \in {"DELETED", "ADDED"} \/ deletion.recovery = {}
    BY <1>7 DEF DeleteFinish, StatusIsTrue
  <2>5. PassIsFenced' /\ NothingMissed'
    BY <2>1, <2>4 DEF PassIsFenced, NothingMissed
  <2>6. StatusIsTrue'
    BY <2>1, <2>2, <2>3, <2>4 DEF StatusIsTrue
  <2> QED
    BY <2>5, <2>6
<1>8. CASE DeleterDies
  <2>1. UNCHANGED <<bundle, metadata, source, fence, deletion, late, deletions>> /\ deleter'.pc = "idle"
    BY <1>8 DEF DeleterDies, files, fencing, audits
  <2> QED
    BY <2>1 DEF PassIsFenced, NothingMissed, StatusIsTrue, Settled, Gone, Occupied
<1> QED
  BY <1>1, <1>2, <1>3, <1>4, <1>5, <1>6, <1>7, <1>8 DEF DeleterStep, Delete

-----------------------------------------------------------------------------
(* Theorems *)

LEMMA IInvHolds ==
  ASSUME IInv, [SupportNext]_supportVars
  PROVE  IInv'
<1> USE DEF IInv
<1>1. SupportTypes' /\ Decisions' /\ Fencing'
  BY TypesHold, DecisionsHold, FencingHolds
<1>2. PassIsFenced' /\ NothingMissed' /\ StatusIsTrue'
  <2>1. CASE DeleterStep
    BY <2>1, AccountsHold
  <2>2. ASSUME UNCHANGED <<source, fencing, deletions, deleter>>, fence \/ ~source => Shrinks
        PROVE  PassIsFenced' /\ NothingMissed' /\ StatusIsTrue'
    BY <2>2, OthersDisturbNothing
  <2>3. ASSUME NEW m \in Makers, MakerStep(m)
        PROVE  UNCHANGED <<source, fencing, deletions, deleter>> /\ (fence \/ ~source => Shrinks)
    BY <2>3, MakersTouch, LateMakersOnly
  <2>4. CASE CleanerStep
    BY <2>2, <2>4, CleanerTouches, CleanerShrinks DEF audits
  <2>5. ASSUME UNCHANGED <<files, fencing, deletions, deleter>>
        PROVE  PassIsFenced' /\ NothingMissed' /\ StatusIsTrue'
    BY <2>2, <2>5 DEF Shrinks, files
  <2> QED
    BY <2>1, <2>2, <2>3, <2>4, <2>5, Steps, ReadersTouch, WorldTouches DEF supportVars, files, fencing, audits
<1> QED
  BY <1>1, <1>2

\* All behaviours keep the inductive invariant: materialisation, reading, cleanup
\* and deletion, over every interleaving and crash.
THEOREM Invariance == SupportSpec => []IInv
<1>1. SupportInit => IInv
  BY InitEstablishes
<1>2. IInv /\ [SupportNext]_supportVars => IInv'
  BY IInvHolds
<1> QED
  BY <1>1, <1>2, PTL DEF SupportSpec

\* read_controlled_support_bundle hands out nothing it read after the decision had
\* ended, for any number of readers and whatever revokes or expires in between.
THEOREM BytesNeedADecision == SupportSpec => []NoBytesWithoutDecision
<1>1. IInv => NoBytesWithoutDecision
  BY DEF IInv, Decisions, NoBytesWithoutDecision
<1> QED
  BY <1>1, Invariance, PTL

\* DeletionCoordinator.run says COMPLETE only when every copy but those of makers
\* that were past the fence is gone and has its line in the support audit.
THEOREM CopiesAccounted == SupportSpec => []CopiesAreAccountedFor
<1>1. IInv => CopiesAreAccountedFor
  BY DEF IInv, StatusIsTrue, Settled, CopiesAreAccountedFor
<1> QED
  BY <1>1, Invariance, PTL

=============================================================================
