---------------------------- MODULE ContentSupport ----------------------------
(***************************************************************************)
(* Content-bearing support of one workspace run                             *)
(* (src/src/k_slide/content_support.py): controlled copies of run content,  *)
(* each a bundle and a metadata file, made and read under an external       *)
(* authority's decision, removed when the decision has expired, and removed *)
(* with the run (deletion.py, _delete_support_content and the support part  *)
(* of DeletionCoordinator.run).                                             *)
(*                                                                         *)
(* A copy stands for one request: its decision and its selection give it    *)
(* its identity.  No lock orders the calls that make, read and expire       *)
(* copies, or either of them with a deletion: every write and every lookup  *)
(* of the decision is a step, reads in a row are one, and a process may die *)
(* between any two.  Locks, holds and generations of a deletion are those   *)
(* of module Deletion.  Of the audit's lines the model keeps MATERIALIZED,  *)
(* which a call returns a copy with, and DELETED, which a deletion owes.    *)
(***************************************************************************)
EXTENDS Naturals, FiniteSets

CONSTANTS
  Copies,     \* requests, and so the identities of the copies they make
  Makers,     \* calls of materialize_controlled_support_bundle
  Readers,    \* calls of read_controlled_support_bundle
  Expiry,     \* when the decisions expire
  MaxFaults,  \* bound: crashes, and failed unlinks of cleanup or deletion
  None        \* no metadata, no copy

ASSUME SupportBounds == Expiry \in Nat \ {0} /\ MaxFaults \in Nat

VARIABLES
  bundle,     \* per copy, is its zip on disk
  metadata,   \* per copy, the creation time its metadata carries, or None
  source,     \* is the content it selects still there
  granted,    \* per decision, does the authority still stand by it
  now,        \* the clock
  held,       \* is the run under legal hold
  fence,      \* the workspace deletion fence
  deletion,   \* the deletion audit
  returned,   \* copies with a MATERIALIZED line, as their callers hold them
  deletions,  \* how many DELETED lines per copy and creation time
  maker, reader, cleaner, deleter,
  late,       \* history: copies whose maker was past the guard when the fence rose
  faults

supportVars == <<bundle, metadata, source, granted, now, held, fence, deletion, returned, deletions,
                 maker, reader, cleaner, deleter, late, faults>>
files == <<bundle, metadata, source>>
world == <<granted, now, held>>
fencing == <<fence, deletion, late>>
audits == <<returned, deletions>>

Time == 0..Expiry
Resting == [pc |-> "idle", copy |-> None, at |-> 0]
NotReading == [pc |-> "idle", copy |-> None, at |-> 0, live |-> FALSE]
NotCleaning == [pc |-> "idle", todo |-> {}, copy |-> None, expired |-> FALSE]
NotDeleting == [pc |-> "idle", todo |-> {}, support |-> "no target", found |-> FALSE]

SupportInit ==
  /\ bundle = [c \in Copies |-> FALSE]
  /\ metadata = [c \in Copies |-> None]
  /\ source = TRUE
  /\ granted = [c \in Copies |-> TRUE]
  /\ now = 0
  /\ held \in BOOLEAN
  /\ fence = FALSE
  /\ deletion = [state |-> "NONE", support |-> "no target", recovery |-> {}]
  /\ returned = {}
  /\ deletions = [c \in Copies |-> [t \in Time |-> 0]]
  /\ maker = [m \in Makers |-> Resting]
  /\ reader = [r \in Readers |-> NotReading]
  /\ cleaner = NotCleaning
  /\ deleter = NotDeleting
  /\ late = {}
  /\ faults = 0

\* _authorize: the decision as the authority has it now, and its times.
Live(c) == granted[c] /\ now < Expiry

-----------------------------------------------------------------------------
(* The world outside *)

Tick ==
  /\ now < Expiry
  /\ now' = now + 1
  /\ UNCHANGED <<files, granted, held, fencing, audits, maker, reader, cleaner, deleter, faults>>

Revoke(c) ==
  /\ granted[c]
  /\ granted' = [granted EXCEPT ![c] = FALSE]
  /\ UNCHANGED <<files, now, held, fencing, audits, maker, reader, cleaner, deleter, faults>>

ReleaseHold ==
  /\ held
  /\ held' = FALSE
  /\ UNCHANGED <<files, granted, now, fencing, audits, maker, reader, cleaner, deleter, faults>>

-----------------------------------------------------------------------------
(* materialize_controlled_support_bundle *)

MakerAt(m, pc) == maker[m].pc = pc
MakerGoes(m, pc) == maker' = [maker EXCEPT ![m].pc = pc]
MakerRests(m) == maker' = [maker EXCEPT ![m] = Resting]
PastGuard == {"look", "read", "zip", "confirm", "metadata", "check", "audit", "undo", "erase"}
\* What a raise after the bundle is written takes back.
Undoing == {"confirm", "metadata", "check", "audit"}

\* The first decision; its time becomes the copy's creation time.
MakeAsk(m, c) ==
  /\ MakerAt(m, "idle")
  /\ Live(c)
  /\ maker' = [maker EXCEPT ![m] = [pc |-> "guard", copy |-> c, at |-> now]]
  /\ UNCHANGED <<files, world, fencing, audits, reader, cleaner, deleter, faults>>

\* ensure_directory and path(create_parent): the only look at the fence.
MakeGuard(m) ==
  /\ MakerAt(m, "guard")
  /\ IF fence THEN MakerRests(m) ELSE MakerGoes(m, "look")
  /\ UNCHANGED <<files, world, fencing, audits, reader, cleaner, deleter, faults>>

Occupied(c) == bundle[c] \/ metadata[c] # None

\* Nothing has this identity yet, or half a copy has it and the call raises.
MakeLook(m) ==
  LET c == maker[m].copy
  IN /\ MakerAt(m, "look")
     /\ ~(bundle[c] /\ metadata[c] # None)
     /\ IF Occupied(c) THEN MakerRests(m) ELSE MakerGoes(m, "read")
     /\ UNCHANGED <<files, world, fencing, audits, reader, cleaner, deleter, faults>>

\* The copy exists: it is returned under a fresh decision.
MakeAgain(m) ==
  LET c == maker[m].copy
  IN /\ MakerAt(m, "look")
     /\ bundle[c] /\ metadata[c] # None
     /\ Live(c)
     /\ returned' = returned \cup {[copy |-> c, created |-> metadata[c]]}
     /\ MakerRests(m)
     /\ UNCHANGED <<files, world, fencing, deletions, reader, cleaner, deleter, faults>>

\* The selected content is read under the decision, which is looked up again before
\* the bundle is written.
MakeRead(m) ==
  /\ MakerAt(m, "read")
  /\ Live(maker[m].copy) /\ source
  /\ MakerGoes(m, "zip")
  /\ UNCHANGED <<files, world, fencing, audits, reader, cleaner, deleter, faults>>

\* And again before the metadata and before the audit.
MakeAuthorized(m) ==
  /\ \E step \in {<<"confirm", "metadata">>, <<"check", "audit">>} :
       MakerAt(m, step[1]) /\ MakerGoes(m, step[2])
  /\ Live(maker[m].copy)
  /\ UNCHANGED <<files, world, fencing, audits, reader, cleaner, deleter, faults>>

MakeBundle(m) ==
  /\ MakerAt(m, "zip")
  /\ bundle' = [bundle EXCEPT ![maker[m].copy] = TRUE]
  /\ MakerGoes(m, "confirm")
  /\ UNCHANGED <<metadata, source, world, fencing, audits, reader, cleaner, deleter, faults>>

MakeMetadata(m) ==
  /\ MakerAt(m, "metadata")
  /\ metadata' = [metadata EXCEPT ![maker[m].copy] = maker[m].at]
  /\ MakerGoes(m, "check")
  /\ UNCHANGED <<bundle, source, world, fencing, audits, reader, cleaner, deleter, faults>>

MakeAudit(m) ==
  /\ MakerAt(m, "audit")
  /\ returned' = returned \cup {[copy |-> maker[m].copy, created |-> maker[m].at]}
  /\ MakerRests(m)
  /\ UNCHANGED <<files, world, fencing, deletions, reader, cleaner, deleter, faults>>

\* A refusal, a lookup without an answer or a failed write, at any point.
MakeRaises(m) ==
  /\ maker[m].pc \notin {"idle", "undo", "erase"}
  /\ IF maker[m].pc \in Undoing THEN MakerGoes(m, "undo") ELSE MakerRests(m)
  /\ UNCHANGED <<files, world, fencing, audits, reader, cleaner, deleter, faults>>

\* The copy under this identity goes, whichever call wrote it.
MakeUndo(m) ==
  LET c == maker[m].copy
  IN /\ \/ /\ MakerAt(m, "undo")
           /\ bundle' = [bundle EXCEPT ![c] = FALSE]
           /\ MakerGoes(m, "erase")
           /\ UNCHANGED metadata
        \/ /\ MakerAt(m, "erase")
           /\ metadata' = [metadata EXCEPT ![c] = None]
           /\ MakerRests(m)
           /\ UNCHANGED bundle
     /\ UNCHANGED <<source, world, fencing, audits, reader, cleaner, deleter, faults>>

MakerDies(m) ==
  /\ ~MakerAt(m, "idle")
  /\ faults < MaxFaults
  /\ faults' = faults + 1
  /\ MakerRests(m)
  /\ UNCHANGED <<files, world, fencing, audits, reader, cleaner, deleter>>

-----------------------------------------------------------------------------
(* read_controlled_support_bundle *)

ReaderAt(r, pc) == reader[r].pc = pc

\* The caller brings the artifact a materialisation returned.
ReadAsk(r) ==
  /\ reader[r].pc \in {"idle", "given"}
  /\ \E a \in returned :
       /\ Live(a.copy)
       /\ reader' = [reader EXCEPT ![r] = [pc |-> "fetch", copy |-> a.copy, at |-> a.created,
                                           live |-> FALSE]]
  /\ UNCHANGED <<files, world, fencing, audits, maker, cleaner, deleter, faults>>

\* The metadata is that of the artifact, and the bytes are in memory; "live" notes
\* whether the decision stood then.
ReadBytes(r) ==
  LET c == reader[r].copy
  IN /\ ReaderAt(r, "fetch")
     /\ metadata[c] = reader[r].at /\ bundle[c]
     /\ reader' = [reader EXCEPT ![r].pc = "recheck", ![r].live = Live(c)]
     /\ UNCHANGED <<files, world, fencing, audits, maker, cleaner, deleter, faults>>

ReadReturns_Cached(r) ==
  /\ ReaderAt(r, "recheck")
  /\ bundle[reader[r].copy]
  /\ reader' = [reader EXCEPT ![r].pc = "given"]
  /\ UNCHANGED <<files, world, fencing, audits, maker, cleaner, deleter, faults>>

\* The decision is looked up again, the bundle opened again for its members, and
\* the bytes are returned.
ReadReturns(r) ==
  /\ ReaderAt(r, "recheck")
  /\ Live(reader[r].copy) /\ bundle[reader[r].copy]
  /\ reader' = [reader EXCEPT ![r].pc = "given"]
  /\ UNCHANGED <<files, world, fencing, audits, maker, cleaner, deleter, faults>>

ReadRaises(r) ==
  /\ reader[r].pc \in {"fetch", "recheck"}
  /\ reader' = [reader EXCEPT ![r] = NotReading]
  /\ UNCHANGED <<files, world, fencing, audits, maker, cleaner, deleter, faults>>

-----------------------------------------------------------------------------
(* cleanup_expired_support_content *)

CleanerAt(pc) == cleaner.pc = pc

\* The clock is read once; the copies are those that have metadata.
CleanStart ==
  /\ CleanerAt("idle")
  /\ cleaner' = [cleaner EXCEPT !.pc = "next", !.expired = now = Expiry,
                                !.todo = {c \in Copies : metadata[c] # None}]
  /\ UNCHANGED <<files, world, fencing, audits, maker, reader, deleter, faults>>

\* Metadata that has vanished since the listing ends the call.
CleanNext ==
  /\ CleanerAt("next")
  /\ IF cleaner.todo = {} THEN cleaner' = NotCleaning
     ELSE \E c \in cleaner.todo :
            cleaner' = IF metadata[c] = None THEN NotCleaning
                       ELSE IF ~cleaner.expired \/ held
                       THEN [cleaner EXCEPT !.todo = @ \ {c}]
                       ELSE [cleaner EXCEPT !.pc = "zip", !.todo = @ \ {c}, !.copy = c]
  /\ UNCHANGED <<files, world, fencing, audits, maker, reader, deleter, faults>>

CleanFiles_MetadataFirst ==
  /\ \/ /\ CleanerAt("zip")
        /\ metadata' = [metadata EXCEPT ![cleaner.copy] = None]
        /\ cleaner' = [cleaner EXCEPT !.pc = "metadata"]
        /\ UNCHANGED bundle
     \/ /\ CleanerAt("metadata")
        /\ bundle' = [bundle EXCEPT ![cleaner.copy] = FALSE]
        /\ cleaner' = [cleaner EXCEPT !.pc = "next", !.copy = None]
        /\ UNCHANGED metadata
  /\ UNCHANGED <<source, world, fencing, audits, maker, reader, deleter, faults>>

\* The bundle first: metadata without a bundle is found again.
CleanFiles ==
  /\ \/ /\ CleanerAt("zip")
        /\ bundle' = [bundle EXCEPT ![cleaner.copy] = FALSE]
        /\ cleaner' = [cleaner EXCEPT !.pc = "metadata"]
        /\ UNCHANGED metadata
     \/ /\ CleanerAt("metadata")
        /\ metadata' = [metadata EXCEPT ![cleaner.copy] = None]
        /\ cleaner' = [cleaner EXCEPT !.pc = "next", !.copy = None]
        /\ UNCHANGED bundle
  /\ UNCHANGED <<source, world, fencing, audits, maker, reader, deleter, faults>>

\* Dies, or raises on an unanswered hold lookup, an unlink or an audit write.
CleanerDies ==
  /\ ~CleanerAt("idle")
  /\ faults < MaxFaults
  /\ faults' = faults + 1
  /\ cleaner' = NotCleaning
  /\ UNCHANGED <<files, world, fencing, audits, maker, reader, deleter>>

-----------------------------------------------------------------------------
(* Deletion of the run: the support target among the others *)

DeleterAt(pc) == deleter.pc = pc
OnDisk == {<<c, "zip">> : c \in {x \in Copies : bundle[x]}}
            \cup {<<c, "json">> : c \in {x \in Copies : metadata[x] # None}}

\* prepare_deleted_support_artifacts
Captured == {[copy |-> c, created |-> metadata[c]] : c \in {x \in Copies : metadata[x] # None}}

\* A pass plans, or replans: what the audit must know of the copies is saved
\* before anything is unlinked, and a class that appears after the first plan
\* is never adopted.
DeletePlan ==
  LET found == OnDisk # {}
      known == deletion.support # "no target"
      support == IF known \/ ~found THEN deletion.support
                 ELSE IF deletion.state = "NONE" THEN "PLANNED" ELSE "ADDED"
      recovery == IF deletion.recovery = {} /\ found THEN Captured ELSE deletion.recovery
  IN /\ DeleterAt("idle")
     /\ deletion.state # "COMPLETE" /\ ~held
     /\ deletion' = [state |-> "IN_PROGRESS", support |-> support, recovery |-> recovery]
     /\ deleter' = [pc |-> "fence", todo |-> {}, support |-> support, found |-> found]
     /\ UNCHANGED <<files, world, fence, late, audits, maker, reader, cleaner, faults>>

\* _set_fence, the second write of save_audit.
DeleteFence ==
  /\ DeleterAt("fence")
  /\ fence' = (deletion.state # "COMPLETE")
  /\ late' = late \cup {maker[m].copy : m \in {x \in Makers : maker[x].pc \in PastGuard}}
  /\ deleter' = IF deletion.state = "IN_PROGRESS" THEN [deleter EXCEPT !.pc = "support"] ELSE NotDeleting
  /\ UNCHANGED <<files, world, deletion, audits, maker, reader, cleaner, faults>>

DeleteOpen_OnlyFound ==
  /\ DeleterAt("support")
  /\ deleter' = IF deleter.support # "ADDED" /\ deleter.found
                THEN [deleter EXCEPT !.pc = IF OnDisk = {} THEN "record" ELSE "unlink", !.todo = OnDisk]
                ELSE [deleter EXCEPT !.pc = "finish"]
  /\ UNCHANGED <<files, world, fencing, audits, maker, reader, cleaner, faults>>

\* The target is opened although its files are gone as long as the audit knows
\* of copies and not of their deletion.
DeleteOpen ==
  LET adopted == deleter.support \notin {"no target", "ADDED"}
      reopened == deletion.recovery # {} /\ deleter.support # "DELETED"
      status == IF deleter.support = "PLANNED" \/ deleter.support = "FAILED" THEN "ABSENT"
                ELSE deleter.support
  IN /\ DeleterAt("support")
     /\ deleter' = IF adopted /\ (deleter.found \/ reopened)
                   THEN [deleter EXCEPT !.pc = IF OnDisk = {} THEN "record" ELSE "unlink",
                                        !.todo = OnDisk]
                   ELSE [deleter EXCEPT !.pc = "finish", !.support = status]
     /\ UNCHANGED <<files, world, fencing, audits, maker, reader, cleaner, faults>>

DeleteUnlink ==
  /\ DeleterAt("unlink")
  /\ \E f \in deleter.todo :
       /\ f[2] = "json" => \A g \in deleter.todo : g[2] = "json"
       /\ bundle' = IF f[2] = "zip" THEN [bundle EXCEPT ![f[1]] = FALSE] ELSE bundle
       /\ metadata' = IF f[2] = "json" THEN [metadata EXCEPT ![f[1]] = None] ELSE metadata
       /\ deleter' = [deleter EXCEPT !.pc = "record", !.todo = @ \ {f}]
  /\ UNCHANGED <<source, world, fencing, audits, maker, reader, cleaner, faults>>

Gone(c) == ~Occupied(c)

\* record_removed over SupportAccessAuditWriter.write: one line per copy that is
\* gone, however often it is recorded.
Recorded ==
  [c \in Copies |-> [t \in Time |->
     IF Gone(c) /\ [copy |-> c, created |-> t] \in deletion.recovery THEN 1 ELSE deletions[c][t]]]

DeleteRecord ==
  /\ DeleterAt("record")
  /\ deletions' = Recorded
  /\ deleter' = IF deleter.todo = {} THEN [deleter EXCEPT !.pc = "finish", !.support = "DELETED"]
                ELSE [deleter EXCEPT !.pc = "unlink"]
  /\ UNCHANGED <<files, world, fencing, returned, maker, reader, cleaner, faults>>

\* A failed unlink or audit write ends the pass; what is gone is recorded again,
\* if that write does not fail too.
DeleteFails ==
  /\ deleter.pc \in {"unlink", "record"}
  /\ faults < MaxFaults
  /\ faults' = faults + 1
  /\ deletions' \in {deletions, Recorded}
  /\ deletion' = [deletion EXCEPT !.state = "PARTIAL", !.support = "FAILED"]
  /\ deleter' = [NotDeleting EXCEPT !.pc = "fence"]
  /\ UNCHANGED <<files, world, fence, late, returned, maker, reader, cleaner>>

\* The rest of the run goes, and the pass is over when its directory is empty.
\* (Classes that sort before the copies go before them: to a maker past the guard
\* that is one more reason to raise.)
DeleteFinish ==
  /\ DeleterAt("finish")
  /\ source' = FALSE
  /\ deletion' = [deletion EXCEPT
                    !.state = IF deleter.support = "ADDED" \/ OnDisk # {} THEN "PARTIAL" ELSE "COMPLETE",
                    !.support = deleter.support]
  /\ deleter' = [NotDeleting EXCEPT !.pc = "fence"]
  /\ UNCHANGED <<bundle, metadata, world, fence, late, audits, maker, reader, cleaner, faults>>

DeleterDies ==
  /\ ~DeleterAt("idle")
  /\ faults < MaxFaults
  /\ faults' = faults + 1
  /\ deleter' = NotDeleting
  /\ UNCHANGED <<files, world, fencing, audits, maker, reader, cleaner>>

-----------------------------------------------------------------------------
(* The system *)

Make ==
  \E m \in Makers :
    \/ \E c \in Copies : MakeAsk(m, c)
    \/ MakeGuard(m) \/ MakeLook(m) \/ MakeAgain(m) \/ MakeRead(m) \/ MakeAuthorized(m)
    \/ MakeBundle(m) \/ MakeMetadata(m) \/ MakeAudit(m)
    \/ MakeRaises(m) \/ MakeUndo(m) \/ MakerDies(m)

Read ==
  \E r \in Readers :
    \/ ReadAsk(r) \/ ReadBytes(r) \/ ReadReturns(r) \/ ReadRaises(r)

Clean == CleanStart \/ CleanNext \/ CleanFiles

Delete ==
  \/ DeletePlan \/ DeleteFence \/ DeleteOpen \/ DeleteUnlink
  \/ DeleteRecord \/ DeleteFails \/ DeleteFinish

SupportNext ==
  \/ Tick \/ (\E c \in Copies : Revoke(c)) \/ ReleaseHold
  \/ Make \/ Read \/ Clean \/ CleanerDies \/ Delete \/ DeleterDies

\* Retention runs again and again; nobody else is bound to act.
SupportSpec == SupportInit /\ [][SupportNext]_supportVars /\ WF_supportVars(Clean)

-----------------------------------------------------------------------------
(* Properties *)

\* read_controlled_support_bundle looks the decision up before it reads and again
\* afterwards, without any lock against the authority: whatever the revocations
\* and the clock do in between, bytes that were read when the decision no longer
\* stood are not handed out.
NoBytesWithoutDecision ==
  \A r \in Readers : reader[r].pc = "given" => reader[r].live

\* A completed deletion of the run leaves no copy behind and has, for each copy it
\* knew of, one DELETED line in the support audit, over crashes between the unlink
\* and the line, failed writes, repeated passes and an expiry cleanup that removes
\* the same files.  Not so for a copy whose maker was past the fence's only check
\* when the fence rose: it may still write its files.
CopiesAreAccountedFor ==
  deletion.state = "COMPLETE" =>
    /\ \A c \in Copies \ late : Gone(c)
    /\ \A a \in deletion.recovery : a.copy \notin late => deletions[a.copy][a.created] = 1

\* Content outlives its authorization only until a cleanup passes: a copy with
\* metadata that nobody is making or removing any more loses its bundle, whatever
\* cleanups die half-way.  (A bundle whose maker died before it wrote the metadata
\* is never found.)
Undisturbed(c) ==
  (\A m \in Makers : maker[m].copy # c) /\ CleanerAt("idle") /\ DeleterAt("idle")
ExpiredBytesGo ==
  \A c \in Copies :
    (metadata[c] # None /\ now = Expiry /\ ~held /\ Undisturbed(c)) ~> ~bundle[c]
===============================================================================
