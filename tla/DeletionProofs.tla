---------------------------- MODULE DeletionProofs ----------------------------
(***************************************************************************)
(* Proofs about Deletion for any deleters, deletion identities, backends,   *)
(* number of submissions and faults.                                        *)
(*                                                                         *)
(* The lock alone does not carry the argument: cleanup removes its name, so *)
(* that two callers may hold two files of that name.  What does is that the *)
(* name is only replaced over a workspace run of which nothing is left, and *)
(* of such a run nothing ever comes back (Bare): either a caller holds the  *)
(* lock everybody else asks for, or there is nothing left to guard.         *)
(***************************************************************************)
EXTENDS Deletion, Integers, TLAPS

PCs == {"idle", "ask"} \cup Waiting \cup Holding
CallerState == [pc : PCs, id : DeletionIds \cup {None}, at : Int, save : Audit \cup {None},
                found : SUBSET Class, next : Nat \ {0}]

\* A call that is under way has an identity, and under the lock an audit.
CallersTyped ==
  /\ caller \in [Deleters -> CallerState]
  /\ \A c \in Deleters : caller[c].pc # "idle" => caller[c].id \in DeletionIds
  /\ \A c \in Deleters : caller[c].pc \in Holding => caller[c].save \in Audit

Types ==
  /\ DeletionTypeOK
  /\ CallersTyped
  /\ shielded \in BOOLEAN
  /\ inode \in Int
  /\ straggler \in 0..MaxGenerations
  /\ generation \in 1..MaxGenerations

\* Nothing is left but what a late charge of the budget has written.
Bare == Files \subseteq {"metrics"}

\* What each backend keeps; the field of the run state goes with the run state.
Layout ==
  /\ Workspace => ~Present("record")
  /\ ~Workspace => ~Present("state") /\ ~Present("metrics")
  /\ fence.field => Present("state")

\* Two callers hold different files, and whoever has opened one that has lost its
\* name guards a run of which nothing is left.
Locking ==
  /\ \A c, e \in Deleters :
       c # e /\ caller[c].pc \in Holding /\ caller[e].pc \in Holding => caller[c].at # caller[e].at
  /\ \A c \in Deleters :
       /\ caller[c].pc \in Holding => caller[c].at # 0
       /\ caller[c].at \notin {0, inode} => Workspace /\ Bare

\* No pass is under way while the shield lasts.
Shield == shielded => hold = "HOLD" /\ \A c \in Deleters : ~InPass(c)

HasTargets(a) == a.anchors # NoAnchors => \E k \in Class : a.targets[k] # "no target"
Past(a) == \A k \in Anchor : a.anchors[k] # <<>> => a.anchors[k][1] \leq generation

\* An audit with anchors has targets, and its anchors are of generations gone by.
Plans ==
  /\ \A d \in DeletionIds : audit[d] # None => HasTargets(audit[d]) /\ Past(audit[d])
  /\ \A c \in Deleters : caller[c].pc \in Holding => HasTargets(caller[c].save) /\ Past(caller[c].save)
  /\ \A k \in Class : file[k] \leq generation
  /\ straggler \leq generation

\* A pass is destructive, and begins with the first target.
Progress(c) ==
  /\ caller[c].pc = "remove" => caller[c].save.state = "IN_PROGRESS"
  /\ InPass(c) /\ caller[c].pc # "remove" => caller[c].next = 1

\* It has the anchors of what is still there, and in a scope knows of it all.
Knows(c) ==
  InPass(c) =>
    /\ \A k \in Anchor : Present(k) => caller[c].save.anchors[k] = Proof(k)
    /\ ~Workspace =>
         /\ \A k \in Files : k \in caller[c].found /\ caller[c].save.targets[k] # "no target"
         /\ \A d \in DeletionIds \ {caller[c].id} : audit[d] = None

\* In a scope what it leaves behind is new.
LeavesNew(c) ==
  ~Workspace /\ caller[c].pc = "remove" =>
    /\ caller[c].next > 1 /\ Present("record") => caller[c].save.targets["record"] = "ADDED"
    /\ caller[c].next > 2 /\ Present("job") => caller[c].save.targets["job"] = "ADDED"
    /\ caller[c].next > 3 /\ Present("content") => caller[c].save.targets["content"] = "ADDED"

Passes == \A c \in Deleters : Progress(c) /\ Knows(c) /\ LeavesNew(c)

\* From the fence file on, or in a scope the audit, writers are out; but a cleanup
\* may unlink the audit of a pass.
Own(c) == audit[caller[c].id] # None /\ audit[caller[c].id].state = "IN_PROGRESS"
Fences ==
  \A c \in Deleters :
    /\ Workspace /\ caller[c].pc \in {"mark", "remove"} /\ Destructive(caller[c].save) =>
         fence.file \/ Bare
    /\ ~Workspace /\ caller[c].pc = "remove" => audit[caller[c].id] = None \/ Own(c)
    /\ ~Workspace => caller[c].pc \notin {"fence", "mark"}

Truthful(a) == a.state = "COMPLETE" => Gone(a) /\ (Workspace => Bare)

\* COMPLETE is true of the run, on disk and in the hands of a caller.
Completions ==
  /\ \A d \in DeletionIds : audit[d] # None => Truthful(audit[d])
  /\ \A c \in Deleters : caller[c].pc \in Holding => Truthful(caller[c].save)

IInv == Types /\ Layout /\ Locking /\ Shield /\ Plans /\ Passes /\ Fences /\ Completions

-----------------------------------------------------------------------------
(* Documents are audits *)

LEMMA ProofsAreReadable ==
  ASSUME Types
  PROVE  /\ Anchors \in [Anchor -> {<<>>} \cup (Nat \X {"open", "over", ""})]
         /\ GenerationRef \in Nat \X Nat \X {"open", "over", ""}
<1>1. \A k \in Class : file[k] \in Nat
  BY DeletionBounds DEF Types, DeletionTypeOK
<1>2. phase \in {"open", "over", ""}
  BY DEF Types, DeletionTypeOK
<1>3. ASSUME NEW k \in Anchor PROVE Proof(k) \in {<<>>} \cup (Nat \X {"open", "over", ""})
  <2>1. file[k] \in Nat
    BY <1>1 DEF Anchor, Class
  <2>2. (IF k = "state" THEN phase ELSE "") \in {"open", "over", ""}
    BY <1>2
  <2> QED
    BY <2>1, <2>2 DEF Proof
<1>4. GenerationRef \in Nat \X Nat \X {"open", "over", ""}
  <2>1. file["job"] \in Nat /\ file["state"] \in Nat
    BY <1>1 DEF Class
  <2>2. (IF Present("state") THEN phase ELSE "") \in {"open", "over", ""}
    BY <1>2
  <2>3. CASE Workspace
    BY <2>1, <2>2, <2>3 DEF GenerationRef
  <2>4. CASE ~Workspace
    BY <2>4 DEF GenerationRef
  <2> QED
    BY <2>3, <2>4
<1> QED
  BY <1>3, <1>4 DEF Anchors

LEMMA CurrentIsAnAudit ==
  ASSUME Types, NEW d \in DeletionIds, NEW ref \in {Unknown} \cup (Nat \X Nat \X {"open", "over", ""})
  PROVE  /\ (IF audit[d] = None THEN Fresh(ref) ELSE audit[d]) \in Audit
         /\ Blocked(d) \in Audit
         /\ BlockedOn(d) \in Audit
<1>1. \A r \in {Unknown} \cup (Nat \X Nat \X {"open", "over", ""}) : Fresh(r) \in Audit
  BY DEF Fresh, Audit, Untouched, NoAnchors
<1>2. audit[d] # None => audit[d] \in Audit
  BY DEF Types, DeletionTypeOK
<1>3. Current(d) \in Audit
  BY <1>1, <1>2 DEF Current
<1>4. Blocked(d) \in Audit
  BY <1>3 DEF Blocked, Audit
<1>5. BlockedOn(d) \in Audit
  BY <1>3, ProofsAreReadable DEF BlockedOn, Audit
<1> QED
  BY <1>1, <1>2, <1>4, <1>5

\* What a plan says: a pass, with anchors of what is there, and a target for it all.
LEMMA PlanIsAnAudit ==
  ASSUME Types, NEW d \in DeletionIds
  PROVE  /\ Plan(d) \in Audit
         /\ Plan(d).state = "IN_PROGRESS"
         /\ Plan(d).anchors = IF audit[d] = None \/ audit[d].anchors = NoAnchors THEN Anchors ELSE audit[d].anchors
         /\ \A k \in Files : Plan(d).targets[k] # "no target"
         /\ audit[d] # None => \A k \in Class : audit[d].targets[k] # "no target" => Plan(d).targets[k] # "no target"
<1> DEFINE a == IF audit[d] = None THEN Fresh(GenerationRef) ELSE audit[d]
           known == {k \in Class : a.targets[k] # "no target"}
           targets == [k \in Class |-> IF k \in Files \ known
                                       THEN IF known = {} THEN "PLANNED" ELSE "ADDED"
                                       ELSE a.targets[k]]
           anchors == IF a.anchors = NoAnchors THEN Anchors ELSE a.anchors
<1>1. a \in Audit
  BY CurrentIsAnAudit, ProofsAreReadable
<1>2. Plan(d) = [a EXCEPT !.state = "IN_PROGRESS", !.anchors = anchors, !.targets = targets]
  BY DEF Plan
<1>3. /\ a.targets \in [Class -> {"no target", "PLANNED", "DELETED", "ABSENT", "FAILED", "ADDED"}]
      /\ a.anchors \in [Anchor -> {<<>>} \cup (Nat \X {"open", "over", ""})]
  BY <1>1 DEF Audit
<1>4. targets \in [Class -> {"no target", "PLANNED", "DELETED", "ABSENT", "FAILED", "ADDED"}]
  BY <1>3
<1>5. anchors \in [Anchor -> {<<>>} \cup (Nat \X {"open", "over", ""})]
  BY <1>3, ProofsAreReadable
<1> HIDE DEF targets, anchors
<1>6. Plan(d) \in Audit /\ Plan(d).state = "IN_PROGRESS" /\ Plan(d).anchors = anchors /\ Plan(d).targets = targets
  BY <1>1, <1>2, <1>4, <1>5 DEF Audit
<1>7. anchors = IF audit[d] = None \/ audit[d].anchors = NoAnchors THEN Anchors ELSE audit[d].anchors
  BY DEF anchors, Fresh
<1>8. /\ \A k \in Files : targets[k] # "no target"
      /\ \A k \in Class : a.targets[k] # "no target" => targets[k] # "no target"
  BY DEF targets, Files
<1> QED
  BY <1>6, <1>7, <1>8

LEMMA OrderIs ==
  /\ Workspace => Order = <<"job", "metrics", "state", "content">> /\ Len(Order) = 4
  /\ ~Workspace => Order = <<"record", "job", "content">> /\ Len(Order) = 3
BY DEF Order

LEMMA TargetIsAClass ==
  ASSUME Types, NEW c \in Deleters, Removing(c)
  PROVE  /\ Target(c) \in Class
         /\ ~Workspace => \/ caller[c].next = 1 /\ Target(c) = "record"
                          \/ caller[c].next = 2 /\ Target(c) = "job"
                          \/ caller[c].next = 3 /\ Target(c) = "content"
<1>1. caller[c].next \in Nat \ {0} /\ caller[c].next <= Len(Order)
  BY DEF Types, CallersTyped, CallerState, Removing
<1>2. CASE Workspace
  <2>0. Len(Order) = 4
    BY <1>2, OrderIs
  <2>1. caller[c].next \in {1, 2, 3, 4}
    BY <1>1, <2>0
  <2> QED
    BY <1>2, <2>1, OrderIs DEF Target, Class
<1>3. CASE ~Workspace
  <2>0. Len(Order) = 3
    BY <1>3, OrderIs
  <2>1. caller[c].next \in {1, 2, 3}
    BY <1>1, <2>0
  <2> QED
    BY <1>3, <2>1, OrderIs DEF Target, Class
<1> QED
  BY <1>2, <1>3

-----------------------------------------------------------------------------
(* The moves of a caller that touch no document *)

Others(c) == \A e \in Deleters \ {c} : caller'[e] = caller[e]
Still == UNCHANGED <<backend, file, phase, audit, fence, hold, shielded, inode, expiring, straggler,
                     generation>>

\* It waits for the lock, or is done.
Waits(c) == caller'[c].pc \notin Holding /\ caller'[c].at \in {0, inode, caller[c].at}

\* It takes the lock: to refuse, or to start a pass.
Takes(c) == Locks(c) /\ caller'[c].pc = "save" /\ caller'[c].at = caller[c].at
Refuses(c) == Takes(c) /\ \E d \in DeletionIds : caller'[c].save \in {Blocked(d), BlockedOn(d)}
Starts(c) ==
  /\ Takes(c) /\ hold = "RELEASE"
  /\ \E d \in DeletionIds :
       /\ Bound(d) /\ ~Replaced(d)
       /\ caller'[c].id = d /\ caller'[c].save = Plan(d)
       /\ caller'[c].found = Files /\ caller'[c].next = 1

\* Under the lock it goes on to the next target, or gives up.
Noted(c, s) == [caller[c].save EXCEPT !.targets[Target(c)] = s]
Skips(c) ==
  /\ Removing(c) /\ caller'[c].pc = "remove" /\ caller'[c].at = caller[c].at /\ caller'[c].id = caller[c].id
  /\ caller'[c].found = caller[c].found /\ caller'[c].next = caller[c].next + 1
  /\ Status(c) \in {"no target", "ADDED"} \/ Target(c) \notin caller[c].found
  /\ \E s \in {"no target", "ADDED", "ABSENT", "DELETED"} :
       /\ caller'[c].save = Noted(c, s)
       /\ s = "no target" => Status(c) = "no target"
       /\ Status(c) = "ADDED" => s = "ADDED"
GivesUp(c) ==
  /\ Due(c) /\ caller'[c].pc = "save" /\ caller'[c].at = caller[c].at
  /\ caller'[c].save = [Noted(c, "FAILED") EXCEPT !.state = "PARTIAL"]

Quiet(c) == Waits(c) \/ Refuses(c) \/ Starts(c) \/ Skips(c) \/ GivesUp(c)
QuietStep(c) ==
  \/ \E d \in DeletionIds : Begin(c, d) \/ Refuse(c, d) \/ RefuseActive(c, d) \/ StartPass(c, d) \/ ClaimRaises(c, d)
  \/ Ask(c) \/ AskInVain(c) \/ Open(c) \/ Replay(c) \/ Block(c)
  \/ SkipTarget(c) \/ FailTarget(c) \/ DeleterDies(c)

LEMMA Lets ==
  ASSUME Types, NEW c \in Deleters, NEW r \in CallerState, caller' = [caller EXCEPT ![c] = r],
         r.pc # "idle" => r.id \in DeletionIds, r.pc \in Holding => r.save \in Audit
  PROVE  CallersTyped' /\ Others(c) /\ caller'[c] = r
BY DEF Types, CallersTyped, Others

\* Callers with other fields are callers.
LEMMA Updates ==
  ASSUME NEW q \in CallerState
  PROVE  /\ \A id \in DeletionIds, pc \in PCs : [q EXCEPT !.id = id, !.pc = pc] \in CallerState
         /\ \A pc \in PCs, at \in Int : [q EXCEPT !.pc = pc, !.at = at] \in CallerState
         /\ \A pc \in PCs, a \in Audit, found \in SUBSET Class, n \in Nat \ {0} :
              [q EXCEPT !.pc = pc, !.save = a, !.found = found, !.next = n] \in CallerState
BY DEF CallerState

LEMMA Numbers == 1 \in Nat \ {0} /\ 0 \in Int /\ \A n \in Nat \ {0} : n + 1 \in Nat \ {0}
OBVIOUS

LEMMA IdleIsTyped == Idle \in CallerState /\ Idle.pc = "idle" /\ Idle.at = 0
BY DEF Idle, CallerState, PCs

\* Leaving, and going elsewhere with everything in hand.
LEMMA Leaving ==
  ASSUME Types, NEW c \in Deleters, Leaves(c)
  PROVE  CallersTyped' /\ Others(c) /\ Waits(c)
<1>1. Idle \in CallerState /\ Idle.pc = "idle" /\ Idle.at = 0
  BY IdleIsTyped
<1>2. caller' = [caller EXCEPT ![c] = Idle]
  BY DEF Leaves
<1> QED
  BY <1>1, <1>2, Lets DEF Waits, Holding

LEMMA Going ==
  ASSUME Types, NEW c \in Deleters, NEW pc \in PCs, Goes(c, pc), caller[c].pc # "idle",
         pc \in Holding => caller[c].pc \in Holding
  PROVE  CallersTyped' /\ Others(c) /\ caller'[c] = [caller[c] EXCEPT !.pc = pc]
<1> DEFINE r == [caller[c] EXCEPT !.pc = pc]
<1>1. caller[c] \in CallerState
  BY DEF Types, CallersTyped
<1>2. r \in CallerState /\ r.pc = pc /\ r.id = caller[c].id /\ r.save = caller[c].save
  BY <1>1 DEF CallerState
<1>3. caller' = [caller EXCEPT ![c] = r]
  BY DEF Goes, Types, CallersTyped
<1>4. caller[c].id \in DeletionIds /\ (pc \in Holding => caller[c].save \in Audit)
  BY DEF Types, CallersTyped
<1> HIDE DEF r
<1>5. CallersTyped' /\ Others(c) /\ caller'[c] = r
  BY <1>2, <1>3, <1>4, Lets
<1> QED
  BY <1>5 DEF r

LEMMA Saving ==
  ASSUME Types, NEW c \in Deleters, NEW a \in Audit, Saves(c, a), caller[c].pc # "idle"
  PROVE  CallersTyped' /\ Others(c) /\ caller'[c] = [caller[c] EXCEPT !.pc = "save", !.save = a]
<1> DEFINE r == [caller[c] EXCEPT !.pc = "save", !.save = a]
<1>1. caller[c] \in CallerState
  BY DEF Types, CallersTyped
<1>2. r \in CallerState /\ r.pc = "save" /\ r.id = caller[c].id /\ r.save = a
  BY <1>1 DEF CallerState, PCs, Holding
<1>3. caller' = [caller EXCEPT ![c] = r]
  BY DEF Saves, Types, CallersTyped
<1>4. caller[c].id \in DeletionIds
  BY DEF Types, CallersTyped
<1> HIDE DEF r
<1>5. CallersTyped' /\ Others(c) /\ caller'[c] = r
  BY <1>2, <1>3, <1>4, Lets
<1> QED
  BY <1>5 DEF r

LEMMA Noting ==
  ASSUME Types, NEW c \in Deleters, Removing(c),
         NEW s \in {"no target", "DELETED", "ABSENT", "FAILED", "ADDED"}
  PROVE  /\ Noted(c, s) \in Audit
         /\ Noted(c, s).state = caller[c].save.state
         /\ Noted(c, s).anchors = caller[c].save.anchors
         /\ Noted(c, s).targets[Target(c)] = s
         /\ \A k \in Class \ {Target(c)} : Noted(c, s).targets[k] = caller[c].save.targets[k]
<1>1. caller[c].save \in Audit /\ Target(c) \in Class
  BY TargetIsAClass DEF Types, CallersTyped, Removing, Holding
<1> QED
  BY <1>1 DEF Noted, Audit

LEMMA Recording ==
  ASSUME Types, NEW c \in Deleters, Removing(c),
         NEW s \in {"no target", "DELETED", "ABSENT", "ADDED"}, Records(c, s)
  PROVE  /\ CallersTyped' /\ Others(c)
         /\ caller'[c] = [caller[c] EXCEPT !.save = Noted(c, s), !.next = caller[c].next + 1]
<1> DEFINE r == [caller[c] EXCEPT !.save = Noted(c, s), !.next = caller[c].next + 1]
<1>1. caller[c] \in CallerState /\ caller[c].pc = "remove" /\ caller[c].id \in DeletionIds
  BY DEF Types, CallersTyped, Removing, Holding
<1>2. Noted(c, s) \in Audit
  BY Noting
<1>3. caller' = [caller EXCEPT ![c] = r]
  BY <1>1 DEF Records, Types, CallersTyped, Noted, CallerState
<1>n. caller[c].next \in Nat \ {0}
  BY <1>1 DEF CallerState
<1>m. caller[c].next + 1 \in Nat \ {0}
  BY <1>n, Numbers
<1>4. r \in CallerState /\ r.pc = "remove" /\ r.id = caller[c].id /\ r.save = Noted(c, s)
  BY <1>1, <1>2, <1>m DEF CallerState
<1> HIDE DEF r
<1>5. CallersTyped' /\ Others(c) /\ caller'[c] = r
  BY <1>1, <1>2, <1>3, <1>4, Lets
<1> QED
  BY <1>5 DEF r

LEMMA Deciding ==
  ASSUME Types, NEW c \in Deleters, NEW d \in DeletionIds, Claims(c, d)
  PROVE  caller[c].pc = "claim" /\ caller[c].id = d /\ caller[c].at # 0 /\ caller[c].pc \notin Holding
BY DEF Claims, Locks, Holding

Moved(c) ==
  /\ CallersTyped' /\ Others(c) /\ Still /\ Quiet(c)
  /\ lifecycle' \in {"live", "asked", "canceled", "over"}

\* Every quiet move is one of the five, and leaves all the rest alone.
LEMMA QuietMoves ==
  ASSUME Types, NEW c \in Deleters, QuietStep(c)
  PROVE  Moved(c)
<1> USE DEF Moved, given, runFiles, control, surroundings
<1>a. caller[c] \in CallerState /\ caller \in [Deleters -> CallerState]
  BY DEF Types, CallersTyped
<1>b. lifecycle \in {"live", "asked", "canceled", "over"}
  BY DEF Types, DeletionTypeOK
<1>c. ASSUME NEW d \in DeletionIds PROVE Blocked(d) \in Audit /\ BlockedOn(d) \in Audit
  BY <1>c, CurrentIsAnAudit
<1>d. ASSUME NEW a \in Audit, NEW d \in DeletionIds, Saves(c, a), caller[c].pc # "idle", Locks(c),
             a \in {Blocked(d), BlockedOn(d)}
      PROVE  CallersTyped' /\ Others(c) /\ Refuses(c)
  <2>1. CallersTyped' /\ Others(c) /\ caller'[c] = [caller[c] EXCEPT !.pc = "save", !.save = a]
    BY <1>d, Saving
  <2>2. caller'[c].pc = "save" /\ caller'[c].at = caller[c].at /\ caller'[c].save = a
    BY <2>1, <1>a DEF CallerState
  <2> QED
    BY <2>1, <2>2, <1>d DEF Refuses, Takes
<1>e. ASSUME NEW pc \in {"ask", "block", "claim"}, Goes(c, pc), caller[c].pc # "idle"
      PROVE  CallersTyped' /\ Others(c) /\ Waits(c)
  <2>1. pc \in PCs /\ pc \notin Holding
    BY DEF PCs, Waiting, Holding
  <2>2. CallersTyped' /\ Others(c) /\ caller'[c] = [caller[c] EXCEPT !.pc = pc]
    BY <1>e, <2>1, Going
  <2>3. caller'[c].pc = pc /\ caller'[c].at = caller[c].at
    BY <2>2, <1>a DEF CallerState
  <2> QED
    BY <2>1, <2>2, <2>3 DEF Waits
<1>1. ASSUME NEW d \in DeletionIds, Begin(c, d) PROVE Moved(c)
  <2> DEFINE pc == IF audit[d] # None /\ audit[d].state = "COMPLETE" THEN "replay" ELSE "ask"
             r == [Idle EXCEPT !.id = d, !.pc = pc]
  <2>1. pc \in {"replay", "ask"}
    OBVIOUS
  <2> HIDE DEF pc
  <2>p. pc \in PCs
    BY <2>1 DEF PCs, Waiting
  <2>2. r \in CallerState /\ r.pc = pc /\ r.id = d /\ r.at = 0
    <3>1. r \in CallerState
      BY <2>p, IdleIsTyped, Updates
    <3>2. r.pc = pc /\ r.id = d /\ r.at = Idle.at
      BY DEF Idle
    <3> QED
      BY <3>1, <3>2, IdleIsTyped
  <2>3. caller' = [caller EXCEPT ![c] = r]
    BY <1>1 DEF Begin, pc
  <2> HIDE DEF r
  <2>4. CallersTyped' /\ Others(c) /\ caller'[c] = r
    BY <2>1, <2>2, <2>3, Lets DEF Holding
  <2> QED
    BY <1>1, <1>b, <2>1, <2>2, <2>4 DEF Begin, Still, Quiet, Waits, Holding
<1>2. ASSUME Ask(c) PROVE Moved(c)
  <2>1. caller[c].pc # "idle" /\ (Goes(c, "claim") \/ Goes(c, "block"))
    BY <1>2 DEF Ask
  <2>2. CallersTyped' /\ Others(c) /\ Waits(c)
    BY <2>1, <1>e
  <2> QED
    BY <1>2, <1>b, <2>2 DEF Ask, Still, Quiet
<1>3. ASSUME AskInVain(c) PROVE Moved(c)
  <2>1. caller[c].pc # "idle" /\ Goes(c, "block")
    BY <1>3 DEF AskInVain
  <2>2. CallersTyped' /\ Others(c) /\ Waits(c)
    BY <2>1, <1>e
  <2> QED
    BY <1>3, <1>b, <2>2 DEF AskInVain, Still, Quiet
<1>4. ASSUME Open(c) PROVE Moved(c)
  <2> DEFINE r == [caller[c] EXCEPT !.at = inode]
  <2>1. inode \in Int
    BY DEF Types
  <2>2. r \in CallerState /\ r.pc = caller[c].pc /\ r.id = caller[c].id /\ r.at = inode
    BY <1>a, <2>1 DEF CallerState
  <2>3. caller' = [caller EXCEPT ![c] = r]
    BY <1>4, <1>a DEF Open
  <2>4. caller[c].pc \in Waiting /\ caller[c].pc \notin Holding /\ caller[c].id \in DeletionIds
    BY <1>4 DEF Open, Waiting, Holding, Types, CallersTyped
  <2> HIDE DEF r
  <2>5. CallersTyped' /\ Others(c) /\ caller'[c] = r
    BY <2>2, <2>3, <2>4, Lets
  <2> QED
    BY <1>4, <1>b, <2>2, <2>4, <2>5 DEF Open, Still, Quiet, Waits
<1>5. ASSUME Replay(c) PROVE Moved(c)
  <2> DEFINE d == caller[c].id
  <2>1. caller[c].pc = "replay" /\ Locks(c) /\ d \in DeletionIds
    BY <1>5 DEF Replay, Types, CallersTyped
  <2>2. CASE caller' = [caller EXCEPT ![c].pc = "ask", ![c].at = 0]
    <3> DEFINE r == [caller[c] EXCEPT !.pc = "ask", !.at = 0]
    <3>p. "ask" \in PCs
      BY DEF PCs
    <3>0. r \in CallerState
      BY <1>a, <3>p, Updates, Numbers
    <3>1. r \in CallerState /\ r.pc = "ask" /\ r.at = 0 /\ r.id = d
      BY <1>a, <3>0 DEF CallerState
    <3>2. caller' = [caller EXCEPT ![c] = r]
      BY <2>2, <1>a
    <3> HIDE DEF r
    <3>3. CallersTyped' /\ Others(c) /\ caller'[c] = r
      BY <2>1, <3>1, <3>2, Lets DEF Holding
    <3> QED
      BY <1>5, <1>b, <3>1, <3>3 DEF Replay, Still, Quiet, Waits, Holding
  <2>3. CASE Saves(c, Blocked(d))
    <3>1. CallersTyped' /\ Others(c) /\ Refuses(c)
      BY <2>1, <2>3, <1>c, <1>d
    <3> QED
      BY <1>5, <1>b, <3>1 DEF Replay, Still, Quiet
  <2>4. CASE Leaves(c)
    <3>1. CallersTyped' /\ Others(c) /\ Waits(c)
      BY <2>4, Leaving
    <3> QED
      BY <1>5, <1>b, <3>1 DEF Replay, Still, Quiet
  <2> QED
    BY <1>5, <2>2, <2>3, <2>4 DEF Replay
<1>6. ASSUME Block(c) PROVE Moved(c)
  <2> DEFINE d == caller[c].id
  <2>1. caller[c].pc = "block" /\ Locks(c) /\ d \in DeletionIds
    BY <1>6 DEF Block, Types, CallersTyped
  <2>3. CASE Saves(c, Blocked(d))
    <3>1. CallersTyped' /\ Others(c) /\ Refuses(c)
      BY <2>1, <2>3, <1>c, <1>d
    <3> QED
      BY <1>6, <1>b, <3>1 DEF Block, Still, Quiet
  <2>4. CASE Leaves(c)
    <3>1. CallersTyped' /\ Others(c) /\ Waits(c)
      BY <2>4, Leaving
    <3> QED
      BY <1>6, <1>b, <3>1 DEF Block, Still, Quiet
  <2> QED
    BY <1>6, <2>3, <2>4 DEF Block
<1>7. ASSUME NEW d \in DeletionIds, Refuse(c, d) PROVE Moved(c)
  <2>1. caller[c].pc = "claim" /\ Locks(c) /\ Saves(c, Blocked(d))
    BY <1>7 DEF Refuse, Claims
  <2>2. CallersTyped' /\ Others(c) /\ Refuses(c)
    BY <2>1, <1>c, <1>d
  <2> QED
    BY <1>7, <1>b, <2>2 DEF Refuse, Still, Quiet
<1>8. ASSUME NEW d \in DeletionIds, RefuseActive(c, d) PROVE Moved(c)
  <2>1. caller[c].pc = "claim" /\ Locks(c) /\ Saves(c, BlockedOn(d))
    BY <1>8 DEF RefuseActive, Claimed, Claims
  <2>2. CallersTyped' /\ Others(c) /\ Refuses(c)
    BY <2>1, <1>c, <1>d
  <2>3. lifecycle' \in {lifecycle, "asked"}
    BY <1>8 DEF RefuseActive
  <2> QED
    BY <1>8, <1>b, <2>2, <2>3 DEF RefuseActive, Still, Quiet
<1>9. ASSUME NEW d \in DeletionIds, StartPass(c, d) PROVE Moved(c)
  <2> DEFINE r == [caller[c] EXCEPT !.pc = "save", !.save = Plan(d), !.found = Files, !.next = 1]
  <2>1. caller[c].pc = "claim" /\ caller[c].id = d /\ Locks(c) /\ hold = "RELEASE" /\ Bound(d) /\ ~Replaced(d)
    BY <1>9 DEF StartPass, Claimed, Claims
  <2>2. Plan(d) \in Audit /\ Files \in SUBSET Class
    BY PlanIsAnAudit DEF Files
  <2>p. "save" \in PCs
    BY DEF PCs, Holding
  <2>r. r \in CallerState
    BY <1>a, <2>p, <2>2, Updates, Numbers
  <2>3. /\ r \in CallerState /\ r.pc = "save" /\ r.id = d /\ r.save = Plan(d) /\ r.at = caller[c].at
        /\ r.found = Files /\ r.next = 1
    BY <1>a, <2>1, <2>r DEF CallerState
  <2>4. caller' = [caller EXCEPT ![c] = r]
    BY <1>9, <1>a DEF StartPass
  <2> HIDE DEF r
  <2>5. CallersTyped' /\ Others(c) /\ caller'[c] = r
    BY <2>2, <2>3, <2>4, Lets
  <2>6. Starts(c)
    BY <2>1, <2>3, <2>5 DEF Starts, Takes
  <2> QED
    BY <1>9, <1>b, <2>5, <2>6 DEF StartPass, Still, Quiet
<1>10. ASSUME NEW d \in DeletionIds, ClaimRaises(c, d) PROVE Moved(c)
  <2>1. CallersTyped' /\ Others(c) /\ Waits(c)
    BY <1>10, Leaving DEF ClaimRaises
  <2> QED
    BY <1>10, <1>b, <2>1 DEF ClaimRaises, Still, Quiet
<1>11. ASSUME DeleterDies(c) PROVE Moved(c)
  <2>1. CallersTyped' /\ Others(c) /\ Waits(c)
    BY <1>11, Leaving DEF DeleterDies
  <2> QED
    BY <1>11, <1>b, <2>1 DEF DeleterDies, Still, Quiet
<1>12. ASSUME SkipTarget(c) PROVE Moved(c)
  <2> DEFINE s == IF Status(c) \in {"PLANNED", "FAILED"} THEN "ABSENT" ELSE Status(c)
  <2>1. /\ Removing(c) /\ Records(c, s)
        /\ Status(c) \in {"no target", "ADDED"} \/ Target(c) \notin caller[c].found
    BY <1>12 DEF SkipTarget
  <2>2. caller[c].save \in Audit /\ Target(c) \in Class
    BY <2>1, TargetIsAClass DEF Types, CallersTyped, Removing, Holding
  <2>3. Status(c) \in {"no target", "PLANNED", "DELETED", "ABSENT", "FAILED", "ADDED"}
    BY <2>2 DEF Status, Audit
  <2>4. /\ s \in {"no target", "DELETED", "ABSENT", "ADDED"}
        /\ s = "no target" => Status(c) = "no target"
        /\ Status(c) = "ADDED" => s = "ADDED"
    BY <2>3
  <2> HIDE DEF s
  <2>5. /\ CallersTyped' /\ Others(c)
        /\ caller'[c] = [caller[c] EXCEPT !.save = Noted(c, s), !.next = caller[c].next + 1]
    BY <2>1, <2>4, Recording
  <2>6. /\ caller'[c].pc = "remove" /\ caller'[c].at = caller[c].at /\ caller'[c].id = caller[c].id
        /\ caller'[c].found = caller[c].found /\ caller'[c].next = caller[c].next + 1
        /\ caller'[c].save = Noted(c, s)
    BY <1>a, <2>1, <2>5 DEF CallerState, Removing
  <2>7. Skips(c)
    BY <2>1, <2>4, <2>6 DEF Skips
  <2> QED
    BY <1>12, <1>b, <2>5, <2>7 DEF SkipTarget, Still, Quiet
<1>13. ASSUME FailTarget(c) PROVE Moved(c)
  <2> DEFINE a == [Noted(c, "FAILED") EXCEPT !.state = "PARTIAL"]
  <2>1. Due(c) /\ Removing(c) /\ caller[c].pc = "remove"
    BY <1>13 DEF FailTarget, Due, Removing
  <2>2. Noted(c, "FAILED") \in Audit /\ caller[c].save \in Audit /\ Target(c) \in Class
    BY <2>1, Noting, TargetIsAClass DEF Types, CallersTyped, Holding
  <2>3. a \in Audit
    BY <2>2 DEF Audit
  <2>4. a = [caller[c].save EXCEPT !.targets[Target(c)] = "FAILED", !.state = "PARTIAL"]
    BY <2>2 DEF Noted, Audit
  <2>5. Saves(c, a)
    BY <1>13, <2>4 DEF FailTarget
  <2> HIDE DEF a
  <2>6. CallersTyped' /\ Others(c) /\ caller'[c] = [caller[c] EXCEPT !.pc = "save", !.save = a]
    BY <2>1, <2>3, <2>5, Saving
  <2>7. caller'[c].pc = "save" /\ caller'[c].at = caller[c].at /\ caller'[c].save = a
    BY <1>a, <2>6 DEF CallerState
  <2>8. GivesUp(c)
    BY <2>1, <2>7 DEF GivesUp, a
  <2> QED
    BY <1>13, <1>b, <2>6, <2>8 DEF FailTarget, Still, Quiet
<1> QED
  BY <1>1, <1>2, <1>3, <1>4, <1>5, <1>6, <1>7, <1>8, <1>9, <1>10, <1>11, <1>12, <1>13 DEF QuietStep

-----------------------------------------------------------------------------
(* The moves of a caller that write *)

\* It goes on with all it has in hand, or is done.
Onward(c, pc) ==
  /\ caller'[c].pc = pc /\ caller'[c].id = caller[c].id /\ caller'[c].at = caller[c].at
  /\ caller'[c].save = caller[c].save /\ caller'[c].found = caller[c].found
  /\ caller'[c].next = caller[c].next
Written(c) ==
  IF caller[c].save.state = "IN_PROGRESS" THEN Onward(c, "remove") ELSE Waits(c)
Removed(c) ==
  /\ caller'[c].pc = "remove" /\ caller'[c].id = caller[c].id /\ caller'[c].at = caller[c].at
  /\ caller'[c].save = Noted(c, "DELETED") /\ caller'[c].found = caller[c].found
  /\ caller'[c].next = caller[c].next + 1
Ended(c) ==
  /\ caller'[c].pc = "save" /\ caller'[c].id = caller[c].id /\ caller'[c].at = caller[c].at
  /\ caller'[c].save =
       [caller[c].save EXCEPT !.state = IF Failures(c) = {} /\ Leftover = {} THEN "COMPLETE" ELSE "PARTIAL"]

LEMMA Goings ==
  ASSUME Types, NEW c \in Deleters, NEW pc \in {"fence", "mark", "remove"}, Goes(c, pc),
         caller[c].pc \in Holding
  PROVE  CallersTyped' /\ Others(c) /\ Onward(c, pc)
<1>1. pc \in PCs /\ caller[c].pc # "idle"
  BY DEF PCs, Holding
<1>2. CallersTyped' /\ Others(c) /\ caller'[c] = [caller[c] EXCEPT !.pc = pc]
  BY <1>1, Going
<1>3. caller[c] \in CallerState
  BY DEF Types, CallersTyped
<1> QED
  BY <1>2, <1>3 DEF Onward, CallerState

LEMMA Writing ==
  ASSUME Types, NEW c \in Deleters, Wrote(c), caller[c].pc \in Holding
  PROVE  CallersTyped' /\ Others(c) /\ Written(c)
<1>1. CASE caller[c].save.state = "IN_PROGRESS"
  <2>1. Goes(c, "remove")
    BY <1>1 DEF Wrote
  <2>2. CallersTyped' /\ Others(c) /\ Onward(c, "remove")
    BY <2>1, Goings
  <2> QED
    BY <1>1, <2>2 DEF Written
<1>2. CASE caller[c].save.state # "IN_PROGRESS"
  <2>1. Leaves(c)
    BY <1>2 DEF Wrote
  <2> QED
    BY <1>2, <2>1, Leaving DEF Written
<1> QED
  BY <1>1, <1>2

LEMMA WritingMoves ==
  ASSUME Types, NEW c \in Deleters
  PROVE  /\ SaveAudit(c) =>
              CallersTyped' /\ Others(c) /\ IF Workspace THEN Onward(c, "fence") ELSE Written(c)
         /\ SetFence(c) => CallersTyped' /\ Others(c) /\ Onward(c, "mark")
         /\ MarkState(c) => CallersTyped' /\ Others(c) /\ Written(c)
         /\ RemoveTarget(c) => CallersTyped' /\ Others(c) /\ Removed(c)
         /\ EndPass(c) => CallersTyped' /\ Others(c) /\ Ended(c)
<1>1. ASSUME SaveAudit(c)
      PROVE  CallersTyped' /\ Others(c) /\ IF Workspace THEN Onward(c, "fence") ELSE Written(c)
  <2>1. caller[c].pc \in Holding
    BY <1>1 DEF SaveAudit, Holding
  <2>2. CASE Workspace
    <3>1. Goes(c, "fence")
      BY <1>1, <2>2 DEF SaveAudit
    <3> QED
      BY <2>1, <2>2, <3>1, Goings
  <2>3. CASE ~Workspace
    <3>1. Wrote(c)
      BY <1>1, <2>3 DEF SaveAudit
    <3> QED
      BY <2>1, <2>3, <3>1, Writing
  <2> QED
    BY <2>2, <2>3
<1>2. ASSUME SetFence(c) PROVE CallersTyped' /\ Others(c) /\ Onward(c, "mark")
  BY <1>2, Goings DEF SetFence, Holding
<1>3. ASSUME MarkState(c) PROVE CallersTyped' /\ Others(c) /\ Written(c)
  BY <1>3, Writing DEF MarkState, Holding
<1>4. ASSUME RemoveTarget(c) PROVE CallersTyped' /\ Others(c) /\ Removed(c)
  <2>1. Removing(c) /\ Records(c, "DELETED")
    BY <1>4 DEF RemoveTarget, Due
  <2>2. /\ CallersTyped' /\ Others(c)
        /\ caller'[c] = [caller[c] EXCEPT !.save = Noted(c, "DELETED"), !.next = caller[c].next + 1]
    BY <2>1, Recording
  <2>3. caller[c] \in CallerState /\ caller[c].pc = "remove"
    BY <2>1 DEF Types, CallersTyped, Removing
  <2> QED
    BY <2>2, <2>3 DEF Removed, CallerState
<1>5. ASSUME EndPass(c) PROVE CallersTyped' /\ Others(c) /\ Ended(c)
  <2> DEFINE s == IF Failures(c) = {} /\ Leftover = {} THEN "COMPLETE" ELSE "PARTIAL"
             a == [caller[c].save EXCEPT !.state = s]
  <2>1. caller[c].pc = "remove" /\ Saves(c, a)
    BY <1>5 DEF EndPass
  <2>2. caller[c].save \in Audit /\ caller[c] \in CallerState
    BY <2>1 DEF Types, CallersTyped, Holding
  <2>3. s \in {"COMPLETE", "PARTIAL"}
    OBVIOUS
  <2> HIDE DEF s
  <2>4. a \in Audit
    BY <2>2, <2>3 DEF Audit
  <2> HIDE DEF a
  <2>5. CallersTyped' /\ Others(c) /\ caller'[c] = [caller[c] EXCEPT !.pc = "save", !.save = a]
    BY <2>1, <2>4, Saving
  <2>6. /\ caller'[c].pc = "save" /\ caller'[c].id = caller[c].id /\ caller'[c].at = caller[c].at
        /\ caller'[c].save = a
    BY <2>2, <2>5 DEF CallerState
  <2> QED
    BY <2>5, <2>6 DEF Ended, a, s
<1> QED
  BY <1>1, <1>2, <1>3, <1>4, <1>5

-----------------------------------------------------------------------------
(* Types *)

\* A cleanup touches nothing but audits, of which it makes none.
LEMMA CleaningIsApart ==
  ASSUME NEW k \in Cleanups, Cleans(k)
  PROVE  StepsOfCleanup
BY DEF Cleans, ReadAudits, AskToExpire, ExpireAudit, CleanupEnds

LEMMA CleaningMoves ==
  ASSUME Types, NEW k \in Cleanups, Cleans(k)
  PROVE  /\ audit' \in [DeletionIds -> Audit \cup {None}]
         /\ \A d \in DeletionIds : audit'[d] = audit[d] \/ audit'[d] = None
         /\ expiring' \in [Cleanups -> [DeletionIds -> {"kept", "old", "released"}]]
<1>1. /\ audit \in [DeletionIds -> Audit \cup {None}]
      /\ expiring \in [Cleanups -> [DeletionIds -> {"kept", "old", "released"}]]
  BY DEF Types, DeletionTypeOK
<1>2. CASE ReadAudits(k)
  <2>1. PICK old \in SUBSET DeletionIds :
          expiring' = [expiring EXCEPT ![k] = [d \in DeletionIds |-> IF d \in old THEN "old" ELSE "kept"]]
    BY <1>2 DEF ReadAudits
  <2> QED
    BY <1>1, <1>2, <2>1 DEF ReadAudits
<1>3. CASE CleanupEnds(k)
  BY <1>1, <1>3 DEF CleanupEnds, AllKept
<1>4. ASSUME NEW d \in DeletionIds, AskToExpire(k, d)
      PROVE  audit' = audit /\ expiring' \in [Cleanups -> [DeletionIds -> {"kept", "old", "released"}]]
  <2>1. (IF hold = "RELEASE" THEN "released" ELSE "kept") \in {"kept", "old", "released"}
    OBVIOUS
  <2> QED
    BY <1>1, <1>4, <2>1 DEF AskToExpire
<1>5. ASSUME NEW d \in DeletionIds, ExpireAudit(k, d)
      PROVE  /\ audit' = [audit EXCEPT ![d] = None]
             /\ expiring' \in [Cleanups -> [DeletionIds -> {"kept", "old", "released"}]]
  BY <1>1, <1>5 DEF ExpireAudit
<1> QED
  BY <1>1, <1>2, <1>3, <1>4, <1>5 DEF Cleans

LEMMA StepsAre ==
  ASSUME DeletionNext
  PROVE  \/ \E c \in Deleters :
              QuietStep(c) \/ SaveAudit(c) \/ SetFence(c) \/ MarkState(c) \/ RemoveTarget(c) \/ EndPass(c)
         \/ EndRun \/ EndJob \/ Acknowledge \/ WriteContent \/ CheckRun \/ ChargeBudget \/ Resubmit
         \/ \E d \in DeletionIds : Preview(d)
         \/ \E k \in Cleanups : Cleans(k) /\ StepsOfCleanup
         \/ \E answer \in {"RELEASE", "HOLD"} : ChangeHold(answer)
BY CleaningIsApart DEF DeletionNext, Decides, Proceeds, Fails, Product, Operators, QuietStep

LEMMA InitTypes == DeletionInit => Types
<1> SUFFICES ASSUME DeletionInit PROVE Types
  OBVIOUS
<1>1. MaxGenerations \in Nat /\ MaxGenerations >= 1
  BY DeletionBounds
<1>2. file \in [Class -> 0..MaxGenerations]
  BY <1>1 DEF DeletionInit
<1>3. audit \in [DeletionIds -> Audit \cup {None}] /\ fence \in [file : BOOLEAN, field : BOOLEAN]
  BY DEF DeletionInit
<1>4. phase \in {"open", "over"}
  BY DEF DeletionInit
<1>5. caller \in [Deleters -> CallerState] /\ \A c \in Deleters : caller[c] = Idle
  BY IdleIsTyped DEF DeletionInit
<1>6. Idle.pc = "idle" /\ Idle.save = None
  BY DEF Idle
<1>7. CallersTyped
  BY <1>5, <1>6 DEF CallersTyped, Holding
<1>8. DeletionTypeOK
  BY <1>2, <1>3, <1>4, <1>5, <1>6 DEF DeletionTypeOK, DeletionInit, AllKept
<1>9. inode \in Int /\ straggler \in 0..MaxGenerations /\ generation \in 1..MaxGenerations
  <2>1. inode = 1 /\ straggler = 0 /\ generation = 1
    BY DEF DeletionInit
  <2> QED
    BY <1>1, <2>1
<1>10. shielded \in BOOLEAN
  BY DEF DeletionInit
<1> QED
  BY <1>7, <1>8, <1>9, <1>10 DEF Types

LEMMA TypesFollow ==
  ASSUME CallersTyped',
         file' \in [Class -> 0..MaxGenerations], phase' \in {"open", "over"},
         lifecycle' \in {"live", "asked", "canceled", "over"},
         audit' \in [DeletionIds -> Audit \cup {None}],
         fence' \in [file : BOOLEAN, field : BOOLEAN],
         hold' \in {"RELEASE", "HOLD"}, shielded' \in BOOLEAN, inode' \in Int,
         expiring' \in [Cleanups -> [DeletionIds -> {"kept", "old", "released"}]],
         straggler' \in 0..MaxGenerations, generation' \in 1..MaxGenerations
  PROVE  Types'
<1>1. \A c \in Deleters : caller'[c].pc \in {"idle", "ask"} \cup Waiting \cup Holding
                          /\ caller'[c].save \in Audit \cup {None}
  BY DEF CallersTyped, CallerState, PCs
<1> QED
  BY <1>1 DEF Types, DeletionTypeOK

LEMMA TypesKept ==
  ASSUME Types, [DeletionNext]_deletionVars
  PROVE  Types'
<1> USE DEF given, runFiles, control, surroundings
<1>a. /\ file \in [Class -> 0..MaxGenerations] /\ phase \in {"open", "over"}
      /\ lifecycle \in {"live", "asked", "canceled", "over"}
      /\ audit \in [DeletionIds -> Audit \cup {None}]
      /\ fence \in [file : BOOLEAN, field : BOOLEAN]
      /\ hold \in {"RELEASE", "HOLD"} /\ shielded \in BOOLEAN /\ inode \in Int
      /\ expiring \in [Cleanups -> [DeletionIds -> {"kept", "old", "released"}]]
      /\ straggler \in 0..MaxGenerations /\ generation \in 1..MaxGenerations /\ CallersTyped
  BY DEF Types, DeletionTypeOK
<1>b. caller' = caller => CallersTyped'
  BY <1>a DEF CallersTyped
<1>c. MaxGenerations \in Nat /\ MaxGenerations >= 1
  BY DeletionBounds
<1>1. ASSUME NEW c \in Deleters, QuietStep(c) PROVE Types'
  <2>1. Moved(c)
    BY <1>1, QuietMoves
  <2> QED
    BY <1>a, <2>1, TypesFollow DEF Moved, Still
<1>2. ASSUME NEW c \in Deleters, SaveAudit(c) PROVE Types'
  <2>1. CallersTyped'
    BY <1>2, WritingMoves
  <2>2. caller[c].save \in Audit
    BY <1>2, <1>a DEF CallersTyped, SaveAudit, Holding
  <2>3. audit' \in [DeletionIds -> Audit \cup {None}]
    BY <1>2, <1>a, <2>2 DEF SaveAudit
  <2> QED
    BY <1>2, <1>a, <2>1, <2>3, TypesFollow DEF SaveAudit
<1>3. ASSUME NEW c \in Deleters, SetFence(c) PROVE Types'
  <2>1. CallersTyped'
    BY <1>3, WritingMoves
  <2>2. Destructive(caller[c].save) \in BOOLEAN
    BY DEF Destructive
  <2>3. fence' \in [file : BOOLEAN, field : BOOLEAN]
    BY <1>3, <1>a, <2>2 DEF SetFence
  <2> QED
    BY <1>3, <1>a, <2>1, <2>3, TypesFollow DEF SetFence
<1>4. ASSUME NEW c \in Deleters, MarkState(c) PROVE Types'
  <2>1. CallersTyped'
    BY <1>4, WritingMoves
  <2>2. (Present("state") /\ Destructive(caller[c].save)) \in BOOLEAN
    BY DEF Destructive, Present
  <2>3. fence' \in [file : BOOLEAN, field : BOOLEAN]
    BY <1>4, <1>a, <2>2 DEF MarkState
  <2> QED
    BY <1>4, <1>a, <2>1, <2>3, TypesFollow DEF MarkState
<1>5. ASSUME NEW c \in Deleters, RemoveTarget(c) PROVE Types'
  <2>1. CallersTyped'
    BY <1>5, WritingMoves
  <2>2. fence' \in [file : BOOLEAN, field : BOOLEAN]
    BY <1>5, <1>a DEF RemoveTarget
  <2>3. 0 \in 0..MaxGenerations
    BY <1>c
  <2>4. file' \in [Class -> 0..MaxGenerations]
    BY <1>5, <1>a, <2>3 DEF RemoveTarget
  <2> QED
    BY <1>5, <1>a, <2>1, <2>2, <2>4, TypesFollow DEF RemoveTarget
<1>6. ASSUME NEW c \in Deleters, EndPass(c) PROVE Types'
  <2>1. CallersTyped'
    BY <1>6, WritingMoves
  <2>2. FreshInodes \subseteq Int
    BY DEF FreshInodes
  <2>3. inode' \in Int
    BY <1>6, <1>a, <2>2 DEF EndPass
  <2> QED
    BY <1>6, <1>a, <2>1, <2>3, TypesFollow DEF EndPass
<1>7. ASSUME EndRun PROVE Types'
  BY <1>7, <1>a, <1>b, TypesFollow DEF EndRun
<1>8. ASSUME EndJob PROVE Types'
  BY <1>8, <1>a, <1>b, TypesFollow DEF EndJob
<1>9. ASSUME Acknowledge PROVE Types'
  BY <1>9, <1>a, <1>b, TypesFollow DEF Acknowledge
<1>10. ASSUME WriteContent PROVE Types'
  <2>1. file["job"] \in 0..MaxGenerations /\ file["state"] \in 0..MaxGenerations
    BY <1>a DEF Class
  <2>2. file' \in [Class -> 0..MaxGenerations]
    BY <1>10, <1>a, <2>1 DEF WriteContent
  <2> QED
    BY <1>10, <1>a, <1>b, <2>2, TypesFollow DEF WriteContent
<1>11. ASSUME CheckRun PROVE Types'
  <2>1. straggler' \in 0..MaxGenerations
    BY <1>11, <1>a, <1>c DEF CheckRun
  <2> QED
    BY <1>11, <1>a, <1>b, <2>1, TypesFollow DEF CheckRun
<1>12. ASSUME ChargeBudget PROVE Types'
  <2>1. file' \in [Class -> 0..MaxGenerations]
    BY <1>12, <1>a DEF ChargeBudget
  <2>2. straggler' \in 0..MaxGenerations
    BY <1>12, <1>c DEF ChargeBudget
  <2> QED
    BY <1>12, <1>a, <1>b, <2>1, <2>2, TypesFollow DEF ChargeBudget
<1>13. ASSUME Resubmit PROVE Types'
  <2>1. straggler' \in 0..MaxGenerations
    BY <1>13, <1>c DEF Resubmit
  <2>2. CASE ~Present("job") /\ generation < MaxGenerations
    <3>1. generation' = generation + 1 /\ lifecycle' = "live"
      BY <1>13, <2>2 DEF Resubmit
    <3>2. generation' \in 1..MaxGenerations /\ generation' \in 0..MaxGenerations
      BY <1>a, <1>c, <2>2, <3>1
    <3>3. (IF file["record"] = 0 THEN generation' ELSE file["record"]) \in 0..MaxGenerations
      BY <1>a, <3>2 DEF Class
    <3>4. file' \in [Class -> 0..MaxGenerations]
      BY <1>13, <1>a, <2>2, <3>2, <3>3 DEF Resubmit, Class
    <3> QED
      BY <1>13, <1>a, <1>b, <2>1, <3>1, <3>2, <3>4, TypesFollow DEF Resubmit
  <2>3. CASE ~(~Present("job") /\ generation < MaxGenerations)
    <3>1. file' = file /\ lifecycle' = lifecycle /\ generation' = generation
      BY <1>13, <2>3 DEF Resubmit
    <3> QED
      BY <1>13, <1>a, <1>b, <2>1, <3>1, TypesFollow DEF Resubmit
  <2> QED
    BY <2>2, <2>3
<1>14. ASSUME NEW d \in DeletionIds, Preview(d) PROVE Types'
  BY <1>14, <1>a, <1>b, TypesFollow DEF Preview
<1>15. ASSUME NEW k \in Cleanups, Cleans(k), StepsOfCleanup PROVE Types'
  <2>1. /\ audit' \in [DeletionIds -> Audit \cup {None}]
        /\ expiring' \in [Cleanups -> [DeletionIds -> {"kept", "old", "released"}]]
    BY <1>15, CleaningMoves
  <2> QED
    BY <1>15, <1>a, <1>b, <2>1, TypesFollow DEF StepsOfCleanup
<1>16. ASSUME NEW answer \in {"RELEASE", "HOLD"}, ChangeHold(answer) PROVE Types'
  <2>1. shielded' \in BOOLEAN
    BY <1>16 DEF ChangeHold
  <2>2. hold' \in {"RELEASE", "HOLD"}
    BY <1>16 DEF ChangeHold
  <2> QED
    BY <1>16, <1>a, <1>b, <2>1, <2>2, TypesFollow DEF ChangeHold
<1>17. CASE UNCHANGED deletionVars
  BY <1>17, <1>a, <1>b, TypesFollow DEF deletionVars
<1> QED
  BY <1>1, <1>2, <1>3, <1>4, <1>5, <1>6, <1>7, <1>8, <1>9, <1>10, <1>11, <1>12, <1>13, <1>14,
     <1>15, <1>16, <1>17, StepsAre

-----------------------------------------------------------------------------
(* Everything that one caller may do under the lock *)

Advances(c) ==
  /\ caller[c].pc \in Holding \ {"remove"}
  /\ \E pc \in {"fence", "mark", "remove"} :
       Onward(c, pc) /\ (pc = "remove" => caller[c].save.state = "IN_PROGRESS")

LEMMA OwnMoves ==
  ASSUME Types, [DeletionNext]_deletionVars, NEW e \in Deleters, caller'[e].pc \in Holding
  PROVE  \/ caller'[e] = caller[e]
         \/ QuietStep(e) /\ (Refuses(e) \/ Starts(e) \/ Skips(e) \/ GivesUp(e))
         \/ (SaveAudit(e) \/ SetFence(e) \/ MarkState(e)) /\ Advances(e)
         \/ RemoveTarget(e) /\ Removed(e)
         \/ EndPass(e) /\ Ended(e)
<1> USE DEF given, runFiles, control, surroundings
<1>w. ~Waits(e)
  BY DEF Waits
<1>1. ASSUME QuietStep(e) PROVE Refuses(e) \/ Starts(e) \/ Skips(e) \/ GivesUp(e)
  BY <1>1, <1>w, QuietMoves DEF Moved, Quiet
<1>2. ASSUME caller[e].pc \in Holding \ {"remove"}, Written(e) PROVE Advances(e)
  BY <1>2, <1>w DEF Written, Advances
<1>3. ASSUME SaveAudit(e) PROVE Advances(e)
  <2>1. caller[e].pc \in Holding \ {"remove"}
    BY <1>3 DEF SaveAudit, Holding
  <2>2. Onward(e, "fence") => Advances(e)
    BY <2>1 DEF Advances
  <2> QED
    BY <1>2, <1>3, <2>1, <2>2, WritingMoves
<1>4. ASSUME SetFence(e) PROVE Advances(e)
  <2>1. caller[e].pc \in Holding \ {"remove"} /\ Onward(e, "mark")
    BY <1>4, WritingMoves DEF SetFence, Holding
  <2> QED
    BY <2>1 DEF Advances
<1>5. ASSUME MarkState(e) PROVE Advances(e)
  <2>1. caller[e].pc \in Holding \ {"remove"} /\ Written(e)
    BY <1>5, WritingMoves DEF MarkState, Holding
  <2> QED
    BY <1>2, <2>1
<1>6. ASSUME NEW c \in Deleters, c # e,
             QuietStep(c) \/ SaveAudit(c) \/ SetFence(c) \/ MarkState(c) \/ RemoveTarget(c) \/ EndPass(c)
      PROVE  caller'[e] = caller[e]
  <2>1. Others(c)
    BY <1>6, QuietMoves, WritingMoves DEF Moved
  <2> QED
    BY <1>6, <2>1 DEF Others
<1>7. ASSUME \/ EndRun \/ EndJob \/ Acknowledge \/ WriteContent \/ CheckRun \/ ChargeBudget \/ Resubmit
             \/ \E d \in DeletionIds : Preview(d)
             \/ \E k \in Cleanups : Cleans(k) /\ StepsOfCleanup
             \/ \E answer \in {"RELEASE", "HOLD"} : ChangeHold(answer)
             \/ UNCHANGED deletionVars
      PROVE  caller' = caller
  BY <1>7 DEF EndRun, EndJob, Acknowledge, WriteContent, CheckRun, ChargeBudget, Resubmit, Preview,
       StepsOfCleanup, ChangeHold, deletionVars
<1> QED
  BY <1>1, <1>3, <1>4, <1>5, <1>6, <1>7, WritingMoves, StepsAre

-----------------------------------------------------------------------------
(* The lock *)

LEMMA OnlyOne ==
  ASSUME Locking, ~Workspace \/ ~Bare, NEW c \in Deleters, NEW e \in Deleters,
         caller[c].pc \in Holding, caller[e].pc \in Holding
  PROVE  c = e /\ caller[c].at = inode
BY DEF Locking

LEMMA NobodyHolds ==
  ASSUME Locking, Unlocked, NEW c \in Deleters, caller[c].pc \in Holding
  PROVE  Workspace /\ Bare
BY DEF Locking, Unlocked, HeldBy

LEMMA BackendStays ==
  ASSUME Types, [DeletionNext]_deletionVars
  PROVE  Workspace' <=> Workspace
<1> USE DEF given, runFiles, control, surroundings
<1>1. ASSUME NEW c \in Deleters, QuietStep(c) PROVE backend' = backend
  BY <1>1, QuietMoves DEF Moved, Still
<1>2. ASSUME NEW c \in Deleters, SaveAudit(c) \/ SetFence(c) \/ MarkState(c) \/ RemoveTarget(c) \/ EndPass(c)
      PROVE  backend' = backend
  BY <1>2 DEF SaveAudit, SetFence, MarkState, RemoveTarget, EndPass
<1>3. ASSUME EndRun \/ EndJob \/ Acknowledge \/ WriteContent \/ CheckRun \/ ChargeBudget \/ Resubmit
      PROVE  backend' = backend
  BY <1>3 DEF EndRun, EndJob, Acknowledge, WriteContent, CheckRun, ChargeBudget, Resubmit
<1>4. backend' = backend
  BY <1>1, <1>2, <1>3, StepsAre DEF Preview, StepsOfCleanup, ChangeHold, deletionVars
<1> QED
  BY <1>4 DEF Workspace

\* Only four kinds of step touch a document of the run.
LEMMA FilesChange ==
  ASSUME Types, [DeletionNext]_deletionVars
  PROVE  \/ file' = file
         \/ \E c \in Deleters : RemoveTarget(c)
         \/ WriteContent \/ ChargeBudget \/ Resubmit
<1> USE DEF given, runFiles, control, surroundings
<1>1. ASSUME NEW c \in Deleters, QuietStep(c) PROVE file' = file
  BY <1>1, QuietMoves DEF Moved, Still
<1> QED
  BY <1>1, StepsAre DEF deletionVars, SaveAudit, SetFence, MarkState, EndPass, EndRun, EndJob, Acknowledge,
       CheckRun, Preview, StepsOfCleanup, ChangeHold

\* Nothing comes back to a workspace run of which nothing is left.
LEMMA BareStays ==
  ASSUME Types, [DeletionNext]_deletionVars, Workspace, Bare
  PROVE  Bare'
<1>1. file \in [Class -> 0..MaxGenerations] /\ "metrics" \in Class /\ "content" \in Class /\ "state" \in Class
  BY DEF Types, DeletionTypeOK, Class
<1>2. \A k \in Class \ {"metrics"} : file[k] = 0
  BY DEF Bare, Files, Present
<1>3. ~Present("state")
  BY <1>1, <1>2 DEF Present
<1>4. ASSUME NEW c \in Deleters, RemoveTarget(c) PROVE \A k \in Class \ {"metrics"} : file'[k] = 0
  BY <1>1, <1>2, <1>4 DEF RemoveTarget
<1>5. ~WriteContent /\ ~Resubmit
  BY <1>3 DEF WriteContent, Resubmit
<1>6. ASSUME ChargeBudget PROVE \A k \in Class \ {"metrics"} : file'[k] = 0
  BY <1>1, <1>2, <1>6 DEF ChargeBudget
<1>7. \A k \in Class \ {"metrics"} : file'[k] = 0
  BY <1>2, <1>4, <1>5, <1>6, FilesChange
<1> QED
  BY <1>7 DEF Bare, Files, Present

Stays(c) == caller[c].pc \in Holding /\ caller'[c].pc \in Holding /\ caller'[c].at = caller[c].at

\* A caller waits, takes the lock or keeps it; the lock's name is replaced only over
\* an empty workspace.
LEMMA LockMoves ==
  ASSUME Types, [DeletionNext]_deletionVars
  PROVE  /\ \/ caller' = caller
            \/ \E c \in Deleters : Others(c) /\ (Waits(c) \/ (Takes(c) /\ caller'[c].pc \in Holding) \/ Stays(c))
         /\ inode' = inode \/ (Workspace /\ Bare)
<1> USE DEF given, runFiles, control, surroundings
<1> DEFINE Goal == /\ \/ caller' = caller
                      \/ \E c \in Deleters :
                           Others(c) /\ (Waits(c) \/ (Takes(c) /\ caller'[c].pc \in Holding) \/ Stays(c))
                   /\ inode' = inode \/ (Workspace /\ Bare)
<1>1. ASSUME NEW c \in Deleters, QuietStep(c) PROVE Goal
  <2>1. Others(c) /\ Quiet(c) /\ inode' = inode
    BY <1>1, QuietMoves DEF Moved, Still
  <2>2. Refuses(c) \/ Starts(c) => Takes(c) /\ caller'[c].pc \in Holding
    BY DEF Refuses, Starts, Takes, Holding
  <2>3. Skips(c) \/ GivesUp(c) => Stays(c)
    BY DEF Skips, GivesUp, Stays, Due, Removing, Holding
  <2> QED
    BY <2>1, <2>2, <2>3 DEF Quiet
<1>2. ASSUME NEW c \in Deleters, caller[c].pc \in Holding, Written(c) PROVE Waits(c) \/ Stays(c)
  BY <1>2 DEF Written, Onward, Stays, Holding
<1>3. ASSUME NEW c \in Deleters, SaveAudit(c) PROVE Goal
  <2>1. caller[c].pc \in Holding /\ Others(c) /\ inode' = inode
    BY <1>3, WritingMoves DEF SaveAudit, Holding
  <2>2. Onward(c, "fence") => Stays(c)
    BY <2>1 DEF Onward, Stays, Holding
  <2> QED
    BY <1>2, <1>3, <2>1, <2>2, WritingMoves
<1>4. ASSUME NEW c \in Deleters, SetFence(c) PROVE Goal
  <2>1. caller[c].pc \in Holding /\ Others(c) /\ inode' = inode /\ Onward(c, "mark")
    BY <1>4, WritingMoves DEF SetFence, Holding
  <2>2. Stays(c)
    BY <2>1 DEF Onward, Stays, Holding
  <2> QED
    BY <2>1, <2>2
<1>5. ASSUME NEW c \in Deleters, MarkState(c) PROVE Goal
  <2>1. caller[c].pc \in Holding /\ Others(c) /\ inode' = inode /\ Written(c)
    BY <1>5, WritingMoves DEF MarkState, Holding
  <2> QED
    BY <1>2, <2>1
<1>6. ASSUME NEW c \in Deleters, RemoveTarget(c) PROVE Goal
  <2>1. caller[c].pc \in Holding /\ Others(c) /\ inode' = inode /\ Removed(c)
    BY <1>6, WritingMoves DEF RemoveTarget, Due, Removing, Holding
  <2>2. Stays(c)
    BY <2>1 DEF Removed, Stays, Holding
  <2> QED
    BY <2>1, <2>2
<1>7. ASSUME NEW c \in Deleters, EndPass(c) PROVE Goal
  <2>1. caller[c].pc \in Holding /\ Others(c) /\ Ended(c)
    BY <1>7, WritingMoves DEF EndPass, Holding
  <2>2. Stays(c)
    BY <2>1 DEF Ended, Stays, Holding
  <2>3. inode' = inode \/ (Workspace /\ Leftover = {})
    BY <1>7 DEF EndPass
  <2>4. Workspace /\ Leftover = {} => Bare
    BY DEF Leftover, Bare
  <2> QED
    BY <2>1, <2>2, <2>3, <2>4
<1>8. ASSUME \/ EndRun \/ EndJob \/ Acknowledge \/ WriteContent \/ CheckRun \/ ChargeBudget \/ Resubmit
             \/ \E d \in DeletionIds : Preview(d)
             \/ \E k \in Cleanups : Cleans(k) /\ StepsOfCleanup
             \/ \E answer \in {"RELEASE", "HOLD"} : ChangeHold(answer)
             \/ UNCHANGED deletionVars
      PROVE  Goal
  BY <1>8 DEF EndRun, EndJob, Acknowledge, WriteContent, CheckRun, ChargeBudget, Resubmit, Preview,
       StepsOfCleanup, ChangeHold, deletionVars
<1> HIDE DEF Goal
<1>9. Goal
  BY <1>1, <1>3, <1>4, <1>5, <1>6, <1>7, <1>8, StepsAre
<1> QED
  BY <1>9 DEF Goal

LEMMA LockingKept ==
  ASSUME Types, Locking, [DeletionNext]_deletionVars
  PROVE  Locking'
<1>1. Workspace /\ Bare => Workspace' /\ Bare'
  BY BareStays, BackendStays
<1>2. ASSUME NEW e \in Deleters, caller'[e].at = caller[e].at, caller'[e].at \notin {0, inode'}
      PROVE  Workspace' /\ Bare'
  <2>1. Workspace /\ Bare
    BY <1>2, LockMoves DEF Locking
  <2> QED
    BY <1>1, <2>1
<1>3. CASE caller' = caller
  BY <1>2, <1>3 DEF Locking
<1>4. ASSUME NEW c \in Deleters, Others(c), Waits(c) \/ (Takes(c) /\ caller'[c].pc \in Holding) \/ Stays(c)
      PROVE  Locking'
  <2>1. \A e \in Deleters \ {c} : caller'[e] = caller[e]
    BY <1>4 DEF Others
  <2>2. CASE Waits(c)
    <3>1. caller'[c].at \notin {0, inode'} => Workspace' /\ Bare'
      <4> SUFFICES ASSUME caller'[c].at \notin {0, inode'} PROVE Workspace /\ Bare
        BY <1>1
      <4>1. caller'[c].at = inode \/ caller'[c].at = caller[c].at
        BY <2>2 DEF Waits
      <4> QED
        BY <4>1, LockMoves DEF Locking
    <3> QED
      BY <1>2, <2>1, <2>2, <3>1 DEF Locking, Waits
  <2>3. CASE Takes(c) /\ caller'[c].pc \in Holding
    <3>1. caller'[c].at = caller[c].at /\ caller[c].at # 0
      BY <2>3 DEF Takes, Locks
    <3>2. \A e \in Deleters : caller[e].pc \in Holding => caller[e].at # caller[c].at
      BY <2>3 DEF Takes, Locks, HeldBy
    <3> QED
      BY <1>2, <2>1, <3>1, <3>2 DEF Locking
  <2>4. CASE Stays(c)
    BY <1>2, <2>1, <2>4 DEF Locking, Stays
  <2> QED
    BY <1>4, <2>2, <2>3, <2>4
<1> QED
  BY <1>3, <1>4, LockMoves

LEMMA LayoutKept ==
  ASSUME Types, Layout, [DeletionNext]_deletionVars
  PROVE  Layout'
<1> USE DEF given, runFiles, control, surroundings
<1>a. file \in [Class -> 0..MaxGenerations] /\ fence \in [file : BOOLEAN, field : BOOLEAN]
  BY DEF Types, DeletionTypeOK
<1>b. {"record", "metrics", "state", "content", "job"} \subseteq Class
  BY DEF Class
<1>c. Workspace' <=> Workspace
  BY BackendStays
<1>1. ASSUME file' = file, fence' = fence PROVE Layout'
  BY <1>1, <1>c DEF Layout, Present
<1>2. ASSUME NEW c \in Deleters, QuietStep(c) PROVE Layout'
  BY <1>1, <1>2, QuietMoves DEF Moved, Still
<1>3. ASSUME NEW c \in Deleters, SetFence(c) PROVE Layout'
  <2>1. fence'.field = fence.field /\ file' = file
    BY <1>3, <1>a DEF SetFence
  <2> QED
    BY <2>1, <1>c DEF Layout, Present
<1>4. ASSUME NEW c \in Deleters, MarkState(c) PROVE Layout'
  <2>1. fence'.field = (Present("state") /\ Destructive(caller[c].save)) /\ file' = file
    BY <1>4, <1>a DEF MarkState
  <2> QED
    BY <2>1, <1>c DEF Layout, Present
<1>5. ASSUME NEW c \in Deleters, RemoveTarget(c) PROVE Layout'
  <2>1. \A k \in Class : Present(k)' => Present(k)
    BY <1>5, <1>a DEF RemoveTarget, Present
  <2>2. ASSUME fence'.field PROVE Present("state")'
    <3>1. CASE Target(c) = "state"
      BY <1>5, <1>a, <2>2, <3>1 DEF RemoveTarget
    <3>2. CASE Target(c) # "state"
      <4>1. fence' = fence /\ file'["state"] = file["state"]
        BY <1>5, <1>a, <1>b, <3>2 DEF RemoveTarget
      <4> QED
        BY <2>2, <4>1 DEF Layout, Present
    <3> QED
      BY <3>1, <3>2
  <2> QED
    BY <2>1, <2>2, <1>b, <1>c DEF Layout
<1>6. ASSUME WriteContent PROVE Layout'
  <2>0. fence' = fence
    BY <1>6 DEF WriteContent
  <2>1. file'["record"] = file["record"] /\ file'["state"] = file["state"]
    BY <1>6, <1>a, <1>b DEF WriteContent
  <2>2. ~Workspace => file'["metrics"] = file["metrics"]
    BY <1>6, <1>a, <1>b DEF WriteContent
  <2> QED
    BY <2>0, <2>1, <2>2, <1>c DEF Layout, Present
<1>7. ASSUME ChargeBudget PROVE Layout'
  <2>1. fence' = fence /\ Workspace
    BY <1>7 DEF ChargeBudget
  <2>2. file'["record"] = file["record"] /\ file'["state"] = file["state"]
    BY <1>7, <1>a, <1>b DEF ChargeBudget
  <2> QED
    BY <2>1, <2>2, <1>c DEF Layout, Present
<1>8. ASSUME Resubmit PROVE Layout'
  <2>1. fence' = fence /\ ~Workspace
    BY <1>8 DEF Resubmit
  <2>2. file'["metrics"] = file["metrics"] /\ file'["state"] = file["state"]
    BY <1>8, <1>a, <1>b DEF Resubmit
  <2> QED
    BY <2>1, <2>2, <1>c DEF Layout, Present
<1>9. ASSUME \/ EndRun \/ EndJob \/ Acknowledge \/ CheckRun
             \/ \E c \in Deleters : SaveAudit(c) \/ EndPass(c)
             \/ \E d \in DeletionIds : Preview(d)
             \/ \E k \in Cleanups : Cleans(k) /\ StepsOfCleanup
             \/ \E answer \in {"RELEASE", "HOLD"} : ChangeHold(answer)
             \/ UNCHANGED deletionVars
      PROVE  file' = file /\ fence' = fence
  BY <1>9 DEF EndRun, EndJob, Acknowledge, CheckRun, SaveAudit, EndPass, Preview, StepsOfCleanup, ChangeHold,
     deletionVars
<1> QED
  BY <1>1, <1>2, <1>3, <1>4, <1>5, <1>6, <1>7, <1>8, <1>9, StepsAre

-----------------------------------------------------------------------------
(* Passes under way *)

\* Blocking an audit, or planning from it, keeps what it promises.
LEMMA RefusalsAreBlocked ==
  ASSUME Types, NEW d \in DeletionIds, NEW a \in {Blocked(d), BlockedOn(d)}
  PROVE  /\ a \in Audit /\ a.state = "BLOCKED"
         /\ a.anchors = IF audit[d] = None THEN NoAnchors ELSE audit[d].anchors
         /\ a.targets = IF audit[d] = None THEN Untouched ELSE audit[d].targets
<1> DEFINE b == IF audit[d] = None THEN Fresh(Unknown) ELSE audit[d]
<1>1. b \in Audit
  BY CurrentIsAnAudit
<1>2. Current(d) = b
  BY DEF Current
<1>3. /\ b.anchors = IF audit[d] = None THEN NoAnchors ELSE audit[d].anchors
      /\ b.targets = IF audit[d] = None THEN Untouched ELSE audit[d].targets
  BY DEF Fresh
<1>4. a \in Audit
  BY CurrentIsAnAudit
<1> HIDE DEF b
<1>5. Blocked(d) = [b EXCEPT !.state = "BLOCKED"]
  BY <1>2 DEF Blocked
<1>6. BlockedOn(d) = [b EXCEPT !.state = "BLOCKED", !.ref = GenerationRef]
  BY <1>2 DEF BlockedOn
<1>7. a.state = "BLOCKED" /\ a.anchors = b.anchors /\ a.targets = b.targets
  BY <1>1, <1>5, <1>6 DEF Audit
<1> QED
  BY <1>3, <1>4, <1>7

LEMMA GivingUp ==
  ASSUME Types, NEW c \in Deleters, GivesUp(c)
  PROVE  /\ caller'[c].save.state = "PARTIAL"
         /\ caller'[c].save.anchors = caller[c].save.anchors
         /\ caller'[c].save.targets = Noted(c, "FAILED").targets
<1>1. Removing(c)
  BY DEF GivesUp, Due
<1>2. Noted(c, "FAILED") \in Audit /\ Noted(c, "FAILED").anchors = caller[c].save.anchors
  BY <1>1, Noting
<1> QED
  BY <1>2 DEF GivesUp, Audit

LEMMA Skipping ==
  ASSUME Types, NEW c \in Deleters, Skips(c)
  PROVE  /\ Removing(c) /\ Target(c) \in Class
         /\ caller'[c].save.state = caller[c].save.state
         /\ caller'[c].save.anchors = caller[c].save.anchors
         /\ \A k \in Class : caller'[c].save.targets[k] = "no target" => caller[c].save.targets[k] = "no target"
         /\ \A k \in Class \ {Target(c)} : caller'[c].save.targets[k] = caller[c].save.targets[k]
         /\ Status(c) = "ADDED" => caller'[c].save.targets[Target(c)] = "ADDED"
<1>1. Removing(c) /\ Target(c) \in Class
  BY TargetIsAClass DEF Skips
<1>2. PICK s \in {"no target", "ADDED", "ABSENT", "DELETED"} :
        /\ caller'[c].save = Noted(c, s)
        /\ s = "no target" => Status(c) = "no target"
        /\ Status(c) = "ADDED" => s = "ADDED"
  BY DEF Skips
<1>s. s \in {"no target", "DELETED", "ABSENT", "FAILED", "ADDED"}
  OBVIOUS
<1>3. /\ Noted(c, s).state = caller[c].save.state
      /\ Noted(c, s).anchors = caller[c].save.anchors
      /\ Noted(c, s).targets[Target(c)] = s
      /\ \A k \in Class \ {Target(c)} : Noted(c, s).targets[k] = caller[c].save.targets[k]
  BY <1>1, <1>s, Noting
<1> QED
  BY <1>1, <1>2, <1>3 DEF Status

LEMMA Ending ==
  ASSUME Types, NEW c \in Deleters, Ended(c), caller[c].pc \in Holding
  PROVE  /\ caller'[c].save.state \in {"COMPLETE", "PARTIAL"}
         /\ caller'[c].save.state = "COMPLETE" => Failures(c) = {} /\ Leftover = {}
         /\ caller'[c].save.anchors = caller[c].save.anchors
         /\ caller'[c].save.targets = caller[c].save.targets
<1>1. caller[c].save \in Audit
  BY DEF Types, CallersTyped
<1> QED
  BY <1>1 DEF Ended, Audit

\* A pass goes on with its identity, anchors, findings and targets, or begins.
GoesOn(e) ==
  /\ InPass(e)
  /\ caller'[e].id = caller[e].id /\ caller'[e].found = caller[e].found
  /\ caller'[e].save.anchors = caller[e].save.anchors
  /\ \A k \in Class : caller'[e].save.targets[k] = "no target" => caller[e].save.targets[k] = "no target"

LEMMA Removal ==
  ASSUME Types, NEW c \in Deleters, RemoveTarget(c), Removed(c)
  PROVE  /\ Removing(c) /\ Target(c) \in Class
         /\ caller'[c].save.state = caller[c].save.state
         /\ caller'[c].save.anchors = caller[c].save.anchors
         /\ caller'[c].save.targets[Target(c)] = "DELETED"
         /\ \A k \in Class \ {Target(c)} : caller'[c].save.targets[k] = caller[c].save.targets[k]
<1>1. Removing(c)
  BY DEF RemoveTarget, Due
<1>2. Target(c) \in Class
  BY <1>1, TargetIsAClass
<1>3. /\ Noted(c, "DELETED").state = caller[c].save.state
      /\ Noted(c, "DELETED").anchors = caller[c].save.anchors
      /\ Noted(c, "DELETED").targets[Target(c)] = "DELETED"
      /\ \A k \in Class \ {Target(c)} : Noted(c, "DELETED").targets[k] = caller[c].save.targets[k]
  BY <1>1, Noting
<1> QED
  BY <1>1, <1>2, <1>3 DEF Removed

LEMMA PassesGoOn ==
  ASSUME Types, [DeletionNext]_deletionVars, NEW e \in Deleters, InPass(e)'
  PROVE  GoesOn(e) \/ (QuietStep(e) /\ Starts(e))
<1>1. caller'[e].pc \in Holding /\ caller'[e].save.state = "IN_PROGRESS"
  BY DEF InPass
<1>2. CASE caller'[e] = caller[e]
  BY <1>1, <1>2 DEF GoesOn, InPass
<1>3. ~Refuses(e)
  BY <1>1, RefusalsAreBlocked DEF Refuses
<1>4. ~GivesUp(e)
  BY <1>1, GivingUp
<1>5. ASSUME Skips(e) PROVE GoesOn(e)
  <2>1. caller'[e].id = caller[e].id /\ caller'[e].found = caller[e].found
    BY <1>5 DEF Skips
  <2> QED
    BY <1>1, <1>5, <2>1, Skipping DEF GoesOn, InPass, Removing, Holding
<1>6. ASSUME Advances(e) PROVE GoesOn(e)
  BY <1>1, <1>6 DEF Advances, Onward, GoesOn, InPass
<1>7. ASSUME RemoveTarget(e), Removed(e) PROVE GoesOn(e)
  <2>1. caller'[e].id = caller[e].id /\ caller'[e].found = caller[e].found
    BY <1>7 DEF Removed
  <2>2. InPass(e) /\ caller'[e].save.anchors = caller[e].save.anchors
    BY <1>1, <1>7, Removal DEF InPass, Removing, Holding
  <2>3. \A k \in Class : caller'[e].save.targets[k] = "no target" => caller[e].save.targets[k] = "no target"
    BY <1>7, Removal
  <2> QED
    BY <2>1, <2>2, <2>3 DEF GoesOn
<1>8. ~(EndPass(e) /\ Ended(e))
  <2>1. EndPass(e) => caller[e].pc \in Holding
    BY DEF EndPass, Holding
  <2> QED
    BY <1>1, <2>1, Ending
<1> QED
  BY <1>1, <1>2, <1>3, <1>4, <1>5, <1>6, <1>7, <1>8, OwnMoves

LEMMA ShieldKept ==
  ASSUME Types, Shield, [DeletionNext]_deletionVars
  PROVE  Shield'
<1> USE DEF given, runFiles, control, surroundings
<1>1. ASSUME NEW answer \in {"RELEASE", "HOLD"}, ChangeHold(answer) PROVE Shield'
  <2>1. hold' = answer /\ shielded' = (answer = "HOLD" /\ \A c \in Deleters : ~InPass(c)) /\ caller' = caller
    BY <1>1 DEF ChangeHold
  <2>2. \A c \in Deleters : InPass(c)' <=> InPass(c)
    BY <2>1 DEF InPass
  <2> QED
    BY <2>1, <2>2 DEF Shield
<1>2. ASSUME shielded' = shielded, hold' = hold PROVE Shield'
  <2>1. ASSUME NEW c \in Deleters, shielded PROVE ~InPass(c)'
    BY <2>1, PassesGoOn DEF Shield, GoesOn, Starts
  <2> QED
    BY <1>2, <2>1 DEF Shield
<1>3. ASSUME NEW c \in Deleters, QuietStep(c) PROVE shielded' = shielded /\ hold' = hold
  BY <1>3, QuietMoves DEF Moved, Still
<1>4. ASSUME \/ \E c \in Deleters : SaveAudit(c) \/ SetFence(c) \/ MarkState(c) \/ RemoveTarget(c) \/ EndPass(c)
             \/ EndRun \/ EndJob \/ Acknowledge \/ WriteContent \/ CheckRun \/ ChargeBudget \/ Resubmit
             \/ \E d \in DeletionIds : Preview(d)
             \/ \E k \in Cleanups : Cleans(k) /\ StepsOfCleanup
             \/ UNCHANGED deletionVars
      PROVE  shielded' = shielded /\ hold' = hold
  BY <1>4 DEF SaveAudit, SetFence, MarkState, RemoveTarget, EndPass, EndRun, EndJob, Acknowledge, WriteContent,
       CheckRun, ChargeBudget, Resubmit, Preview, StepsOfCleanup, deletionVars
<1> QED
  BY <1>1, <1>2, <1>3, <1>4, StepsAre

-----------------------------------------------------------------------------
(* Plans *)

Sound(a) == HasTargets(a) /\ Past(a)

LEMMA SoundFollows ==
  ASSUME NEW a, NEW b, Sound(b), a.anchors = b.anchors,
         \A k \in Class : a.targets[k] = "no target" => b.targets[k] = "no target"
  PROVE  Sound(a)
BY DEF Sound, HasTargets, Past

\* What a caller has in hand is sound, whatever it does next.
LEMMA SoundSaves ==
  ASSUME Types, Plans, [DeletionNext]_deletionVars, NEW e \in Deleters, caller'[e].pc \in Holding
  PROVE  Sound(caller'[e].save)
<1>a. caller[e].pc \in Holding => Sound(caller[e].save)
  BY DEF Plans, Sound
<1>b. \A d \in DeletionIds : audit[d] # None => Sound(audit[d])
  BY DEF Plans, Sound
<1>2. ASSUME Refuses(e) PROVE Sound(caller'[e].save)
  <2>1. PICK d \in DeletionIds : caller'[e].save \in {Blocked(d), BlockedOn(d)}
    BY <1>2 DEF Refuses
  <2>2. /\ caller'[e].save.anchors = IF audit[d] = None THEN NoAnchors ELSE audit[d].anchors
        /\ caller'[e].save.targets = IF audit[d] = None THEN Untouched ELSE audit[d].targets
    BY <2>1, RefusalsAreBlocked
  <2>3. CASE audit[d] = None
    <3>1. caller'[e].save.anchors = NoAnchors
      BY <2>2, <2>3
    <3> QED
      BY <3>1 DEF Sound, HasTargets, Past, NoAnchors
  <2>4. CASE audit[d] # None
    BY <1>b, <2>2, <2>4, SoundFollows
  <2> QED
    BY <2>3, <2>4
<1>3. ASSUME Starts(e) PROVE Sound(caller'[e].save)
  <2>1. PICK d \in DeletionIds : caller'[e].save = Plan(d)
    BY <1>3 DEF Starts
  <2>2. /\ Plan(d).anchors = IF audit[d] = None \/ audit[d].anchors = NoAnchors THEN Anchors ELSE audit[d].anchors
        /\ \A k \in Files : Plan(d).targets[k] # "no target"
        /\ audit[d] # None => \A k \in Class : audit[d].targets[k] # "no target" => Plan(d).targets[k] # "no target"
    BY PlanIsAnAudit
  <2>3. CASE audit[d] = None \/ audit[d].anchors = NoAnchors
    <3>1. Plan(d).anchors = Anchors
      BY <2>2, <2>3
    <3>2. HasTargets(Plan(d))
      <4> SUFFICES ASSUME Anchors # NoAnchors PROVE \E k \in Class : Plan(d).targets[k] # "no target"
        BY <3>1 DEF HasTargets
      <4>1. PICK k \in Anchor : Proof(k) # <<>>
        BY DEF Anchors, NoAnchors
      <4>2. k \in Files
        BY <4>1 DEF Proof, Files, Anchor, Class
      <4> QED
        BY <2>2, <4>2 DEF Files
    <3>3. Past(Plan(d))
      <4>1. \A k \in Anchor : Anchors[k] # <<>> => Anchors[k][1] = file[k]
        BY DEF Anchors, Proof
      <4>2. \A k \in Anchor : file[k] <= generation
        BY DEF Plans, Anchor, Class
      <4> QED
        BY <3>1, <4>1, <4>2 DEF Past
    <3> QED
      BY <2>1, <3>2, <3>3 DEF Sound
  <2>4. CASE ~(audit[d] = None \/ audit[d].anchors = NoAnchors)
    <3>1. Plan(d).anchors = audit[d].anchors /\ Sound(audit[d])
      BY <1>b, <2>2, <2>4
    <3>2. \A k \in Class : Plan(d).targets[k] = "no target" => audit[d].targets[k] = "no target"
      BY <2>2, <2>4
    <3>3. Sound(Plan(d))
      BY <3>1, <3>2, SoundFollows
    <3> QED
      BY <2>1, <3>3
  <2> QED
    BY <2>1, <2>3, <2>4
<1>4. ASSUME Skips(e) PROVE Sound(caller'[e].save)
  <2>1. caller[e].pc \in Holding
    BY <1>4 DEF Skips, Removing, Holding
  <2> QED
    BY <1>a, <1>4, <2>1, Skipping, SoundFollows
<1>5. ASSUME GivesUp(e) PROVE Sound(caller'[e].save)
  <2>1. Removing(e) /\ caller[e].pc \in Holding
    BY <1>5 DEF GivesUp, Due, Removing, Holding
  <2>2. \A k \in Class : Noted(e, "FAILED").targets[k] = "no target" => caller[e].save.targets[k] = "no target"
    BY <2>1, Noting
  <2>3. /\ caller'[e].save.anchors = caller[e].save.anchors
        /\ \A k \in Class : caller'[e].save.targets[k] = "no target" => caller[e].save.targets[k] = "no target"
    BY <1>5, <2>2, GivingUp
  <2> QED
    BY <1>a, <2>1, <2>3, SoundFollows
<1>6. ASSUME Advances(e) PROVE Sound(caller'[e].save)
  BY <1>6, <1>a DEF Advances, Onward
<1>7. ASSUME RemoveTarget(e), Removed(e) PROVE Sound(caller'[e].save)
  <2>1. caller[e].pc \in Holding
    BY <1>7, Removal DEF Removing, Holding
  <2>2. \A k \in Class : caller'[e].save.targets[k] = "no target" => caller[e].save.targets[k] = "no target"
    BY <1>7, Removal
  <2> QED
    BY <1>a, <1>7, <2>1, <2>2, Removal, SoundFollows
<1>8. ASSUME EndPass(e), Ended(e) PROVE Sound(caller'[e].save)
  <2>1. caller[e].pc \in Holding
    BY <1>8 DEF EndPass, Holding
  <2> QED
    BY <1>a, <1>8, <2>1, Ending, SoundFollows
<1>9. ASSUME caller'[e] = caller[e] PROVE Sound(caller'[e].save)
  BY <1>a, <1>9
<1> QED
  BY <1>2, <1>3, <1>4, <1>5, <1>6, <1>7, <1>8, <1>9, OwnMoves

\* An audit is what a caller under the lock had in hand.
LEMMA AuditMoves ==
  ASSUME Types, [DeletionNext]_deletionVars, NEW d \in DeletionIds, audit'[d] # None
  PROVE  \/ audit'[d] = audit[d]
         \/ \E c \in Deleters :
              caller[c].pc \in Holding /\ SaveAudit(c) /\ caller[c].id = d /\ audit'[d] = caller[c].save
<1> USE DEF given, runFiles, control, surroundings
<1>a. audit \in [DeletionIds -> Audit \cup {None}]
  BY DEF Types, DeletionTypeOK
<1>1. ASSUME NEW c \in Deleters, QuietStep(c) PROVE audit' = audit
  BY <1>1, QuietMoves DEF Moved, Still
<1>2. ASSUME NEW c \in Deleters, SaveAudit(c)
      PROVE  audit'[d] = audit[d] \/ (caller[c].pc \in Holding /\ caller[c].id = d /\ audit'[d] = caller[c].save)
  <2>1. audit' = [audit EXCEPT ![caller[c].id] = caller[c].save] /\ caller[c].pc \in Holding
    BY <1>2 DEF SaveAudit, Holding
  <2> QED
    BY <1>a, <2>1
<1>3. ASSUME NEW k \in Cleanups, Cleans(k) PROVE audit'[d] = audit[d] \/ audit'[d] = None
  BY <1>3, CleaningMoves
<1>4. ASSUME \/ \E c \in Deleters : SetFence(c) \/ MarkState(c) \/ RemoveTarget(c) \/ EndPass(c)
             \/ EndRun \/ EndJob \/ Acknowledge \/ WriteContent \/ CheckRun \/ ChargeBudget \/ Resubmit
             \/ \E e \in DeletionIds : Preview(e)
             \/ \E answer \in {"RELEASE", "HOLD"} : ChangeHold(answer)
             \/ UNCHANGED deletionVars
      PROVE  audit' = audit
  BY <1>4 DEF SetFence, MarkState, RemoveTarget, EndPass, EndRun, EndJob, Acknowledge, WriteContent, CheckRun,
       ChargeBudget, Resubmit, Preview, ChangeHold, deletionVars
<1> QED
  BY <1>1, <1>2, <1>3, <1>4, StepsAre

LEMMA PlansKept ==
  ASSUME Types, Plans, [DeletionNext]_deletionVars
  PROVE  Plans'
<1> USE DEF given, runFiles, control, surroundings
<1>a. /\ file \in [Class -> 0..MaxGenerations] /\ straggler \in Int /\ generation \in Int
      /\ \A k \in Class : file[k] \in Int
  BY DeletionBounds DEF Types, DeletionTypeOK
<1>b. (\A k \in Class : file[k] <= generation) /\ straggler <= generation
  BY DEF Plans
<1>c. {"record", "metrics", "state", "content", "job"} \subseteq Class
  BY DEF Class
<1>d. Types'
  BY TypesKept
<1>1. /\ generation' >= generation
      /\ \A k \in Class : file'[k] <= generation'
      /\ straggler' <= generation'
  <2> DEFINE Goal == /\ generation' >= generation
                     /\ \A k \in Class : file'[k] <= generation'
                     /\ straggler' <= generation'
  <2>1. ASSUME file' = file, straggler' = straggler, generation' = generation PROVE Goal
    BY <1>a, <1>b, <2>1
  <2>2. ASSUME NEW c \in Deleters, QuietStep(c) PROVE Goal
    BY <2>1, <2>2, QuietMoves DEF Moved, Still
  <2>3. ASSUME NEW c \in Deleters, RemoveTarget(c) PROVE Goal
    <3>1. /\ file' = [file EXCEPT ![Target(c)] = 0] /\ straggler' = straggler /\ generation' = generation
          /\ generation >= 0
      BY <2>3, DeletionBounds DEF RemoveTarget, Types
    <3>2. \A k \in Class : file'[k] = file[k] \/ file'[k] = 0
      BY <1>a, <3>1
    <3> QED
      BY <1>a, <1>b, <3>1, <3>2
  <2>4. ASSUME WriteContent PROVE Goal
    <3>1. straggler' = straggler /\ generation' = generation
      BY <2>4 DEF WriteContent
    <3>2. \A k \in Class : file'[k] \in {file[k], file["job"], file["state"]}
      BY <1>a, <2>4 DEF WriteContent
    <3> QED
      BY <1>a, <1>b, <1>c, <3>1, <3>2
  <2>5. ASSUME CheckRun PROVE Goal
    <3>1. file' = file /\ straggler' = generation /\ generation' = generation
      BY <2>5 DEF CheckRun
    <3> QED
      BY <1>a, <1>b, <3>1
  <2>6. ASSUME ChargeBudget PROVE Goal
    <3>1. straggler' = 0 /\ generation' = generation /\ generation >= 0
      BY <2>6, DeletionBounds DEF ChargeBudget, Types
    <3>2. \A k \in Class : file'[k] \in {file[k], straggler}
      BY <1>a, <2>6 DEF ChargeBudget
    <3> QED
      BY <1>a, <1>b, <3>1, <3>2
  <2>7. ASSUME Resubmit PROVE Goal
    <3>1. straggler' = 0 /\ generation >= 0
      BY <2>7, DeletionBounds DEF Resubmit, Types
    <3>2. CASE ~Present("job") /\ generation < MaxGenerations
      <4>1. generation' = generation + 1
        BY <2>7, <3>2 DEF Resubmit
      <4>2. \A k \in Class : file'[k] \in {file[k], generation'}
        BY <1>a, <2>7, <3>2 DEF Resubmit
      <4> QED
        BY <1>a, <1>b, <3>1, <4>1, <4>2
    <3>3. CASE ~(~Present("job") /\ generation < MaxGenerations)
      <4>1. file' = file /\ generation' = generation
        BY <2>7, <3>3 DEF Resubmit
      <4> QED
        BY <1>a, <1>b, <3>1, <4>1
    <3> QED
      BY <3>2, <3>3
  <2>8. ASSUME \/ \E c \in Deleters : SaveAudit(c) \/ SetFence(c) \/ MarkState(c) \/ EndPass(c)
               \/ EndRun \/ EndJob \/ Acknowledge
               \/ \E d \in DeletionIds : Preview(d)
               \/ \E k \in Cleanups : Cleans(k) /\ StepsOfCleanup
               \/ \E answer \in {"RELEASE", "HOLD"} : ChangeHold(answer)
               \/ UNCHANGED deletionVars
        PROVE  file' = file /\ straggler' = straggler /\ generation' = generation
    BY <2>8 DEF SaveAudit, SetFence, MarkState, EndPass, EndRun, EndJob, Acknowledge, Preview, StepsOfCleanup,
         ChangeHold, deletionVars
  <2> HIDE DEF Goal
  <2>9. Goal
    BY <2>1, <2>2, <2>3, <2>4, <2>5, <2>6, <2>7, <2>8, StepsAre
  <2> QED
    BY <2>9 DEF Goal
<1>2. ASSUME NEW a \in Audit, Past(a) PROVE Past(a)'
  <2>1. \A k \in Anchor : a.anchors[k] # <<>> => a.anchors[k] \in Nat \X {"open", "over", ""}
    BY DEF Audit
  <2>2. \A k \in Anchor : a.anchors[k] # <<>> => a.anchors[k][1] \in Nat
    BY <2>1
  <2>3. generation' \in Int
    BY <1>d DEF Types
  <2> QED
    BY <1>1, <1>2, <1>a, <2>2, <2>3 DEF Past
<1>3. ASSUME NEW e \in Deleters, caller'[e].pc \in Holding
      PROVE  HasTargets(caller'[e].save) /\ Past(caller[e].save)'
  <2>1. Sound(caller'[e].save)
    BY <1>3, SoundSaves
  <2>2. caller'[e].save \in Audit
    BY <1>3, <1>d DEF Types, CallersTyped
  <2>3. \A a \in Audit : Past(a) => Past(a)'
    BY <1>2
  <2> QED
    BY <1>1, <2>1, <2>2, <1>2 DEF Sound, Past
<1>4. ASSUME NEW d \in DeletionIds, audit'[d] # None
      PROVE  HasTargets(audit'[d]) /\ Past(audit[d])'
  <2>1. audit'[d] = audit[d] \/ \E c \in Deleters : caller[c].pc \in Holding /\ audit'[d] = caller[c].save
    BY <1>4, AuditMoves
  <2>2. Sound(audit'[d])
    BY <1>4, <2>1 DEF Plans, Sound
  <2>3. audit'[d] \in Audit
    BY <1>4, <1>d DEF Types, DeletionTypeOK
  <2>4. \A a \in Audit : Past(a) => Past(a)'
    BY <1>2
  <2> QED
    BY <1>1, <2>2, <2>3, <2>4 DEF Sound, Past
<1> QED
  BY <1>1, <1>3, <1>4 DEF Plans, HasTargets

-----------------------------------------------------------------------------
(* What a pass knows *)

\* While a pass is under way nobody changes what it is about: documents only
\* vanish, no run ends, and in a scope no audit appears.
LEMMA Undisturbed ==
  ASSUME Types, Layout, Locking, [DeletionNext]_deletionVars, NEW e \in Deleters, InPass(e)
  PROVE  /\ \A k \in Anchor : Present(k)' => Present(k) /\ Proof(k)' = Proof(k)
         /\ \A k \in Anchor : file'[k] = file[k] \/ file'[k] = 0
         /\ phase' = phase
         /\ ~Workspace => Files' \subseteq Files
         /\ ~Workspace => \A d \in DeletionIds \ {caller[e].id} : audit[d] = None => audit'[d] = None
<1> USE DEF given, runFiles, control, surroundings
<1>a. file \in [Class -> 0..MaxGenerations] /\ Anchor \subseteq Class
  BY DEF Types, DeletionTypeOK, Anchor, Class
<1>b. caller[e].pc \in Holding
  BY DEF InPass
<1>1. ~Resubmit
  BY <1>b, NobodyHolds DEF Resubmit
<1>2. ~EndRun
  <2> SUFFICES ASSUME EndRun PROVE FALSE
    OBVIOUS
  <2>1. Bare /\ Present("state")
    BY <1>b, NobodyHolds DEF EndRun, Writable
  <2> QED
    BY <2>1 DEF Bare, Files, Class
<1>3. ASSUME WriteContent PROVE Workspace
  BY <1>3, <1>b, NobodyHolds DEF WriteContent, Writable
<1>4. phase' = phase
  <2>1. ASSUME NEW c \in Deleters, QuietStep(c) PROVE phase' = phase
    BY <2>1, QuietMoves DEF Moved, Still
  <2> QED
    BY <2>1, <1>1, <1>2, StepsAre DEF SaveAudit, SetFence, MarkState, RemoveTarget, EndPass, EndJob, Acknowledge,
         WriteContent, CheckRun, ChargeBudget, Preview, StepsOfCleanup, ChangeHold, deletionVars
<1>5. ASSUME NEW c \in Deleters, RemoveTarget(c) PROVE \A k \in Class : file'[k] = file[k] \/ file'[k] = 0
  BY <1>a, <1>5 DEF RemoveTarget
<1>6. \A k \in Anchor : file'[k] = file[k] \/ file'[k] = 0
  <2>1. WriteContent => \A k \in Anchor : file'[k] = file[k]
    BY <1>a DEF WriteContent, Anchor
  <2>2. ChargeBudget => \A k \in Anchor : file'[k] = file[k]
    BY <1>a DEF ChargeBudget, Anchor
  <2> QED
    BY <1>a, <1>1, <1>5, <2>1, <2>2, FilesChange
<1>7. \A k \in Anchor : Present(k)' => Present(k) /\ Proof(k)' = Proof(k)
  BY <1>4, <1>6 DEF Present, Proof
<1>8. ASSUME ~Workspace PROVE Files' \subseteq Files
  <2>1. \A k \in Class : file'[k] = file[k] \/ file'[k] = 0
    BY <1>1, <1>3, <1>5, <1>8, FilesChange DEF ChargeBudget
  <2> QED
    BY <2>1 DEF Files, Present
<1>9. ASSUME ~Workspace, NEW d \in DeletionIds \ {caller[e].id}, audit[d] = None PROVE audit'[d] = None
  <2> SUFFICES ASSUME audit'[d] # None PROVE FALSE
    OBVIOUS
  <2>1. PICK c \in Deleters : caller[c].pc \in Holding /\ caller[c].id = d
    BY <1>9, AuditMoves
  <2>2. c = e
    BY <1>9, <1>b, <2>1, OnlyOne
  <2> QED
    BY <2>1, <2>2
<1> QED
  BY <1>4, <1>6, <1>7, <1>8, <1>9

\* Nor does anybody end, cancel or ask to cancel a job that is being deleted.
LEMMA LifeStays ==
  ASSUME Types, Locking, [DeletionNext]_deletionVars, NEW e \in Deleters, InPass(e), Present("job")
  PROVE  lifecycle' = lifecycle
<1> USE DEF given, runFiles, control, surroundings
<1>a. caller[e].pc \in Holding /\ ~Bare
  BY DEF InPass, Bare, Files, Class
<1>1. ~Unlocked
  BY <1>a, NobodyHolds
<1>2. ~EndJob /\ ~Acknowledge /\ ~Resubmit /\ \A d \in DeletionIds : ~Preview(d)
  BY <1>1 DEF EndJob, Acknowledge, Resubmit, Preview, Writable, Unlocked
<1>3. ASSUME NEW c \in Deleters, NEW d \in DeletionIds, RefuseActive(c, d) PROVE FALSE
  <2>1. caller[c].at # 0 /\ HeldBy(caller[c].at) = {}
    BY <1>3 DEF RefuseActive, Claimed, Claims, Locks
  <2>2. caller[c].at = inode /\ caller[e].at = inode
    BY <1>a, <2>1 DEF Locking
  <2> QED
    BY <1>a, <2>1, <2>2 DEF HeldBy
<1>4. ASSUME NEW c \in Deleters, QuietStep(c) PROVE lifecycle' = lifecycle
  BY <1>3, <1>4 DEF QuietStep, Begin, Refuse, StartPass, ClaimRaises, Ask, AskInVain, Open, Replay, Block,
     SkipTarget, FailTarget, DeleterDies
<1> QED
  BY <1>2, <1>4, StepsAre DEF SaveAudit, SetFence, MarkState, RemoveTarget, EndPass, EndRun, WriteContent,
     CheckRun, ChargeBudget, StepsOfCleanup, ChangeHold, deletionVars

LEMMA ProgressKept ==
  ASSUME Types, Passes, [DeletionNext]_deletionVars, NEW e \in Deleters
  PROVE  Progress(e)'
<1>1. ASSUME caller'[e].pc = "remove" PROVE caller'[e].save.state = "IN_PROGRESS"
  <2>1. caller'[e].pc \in Holding
    BY <1>1 DEF Holding
  <2>2. CASE caller'[e] = caller[e]
    BY <1>1, <2>2 DEF Passes, Progress
  <2>3. ~Refuses(e) /\ ~Starts(e) /\ ~GivesUp(e) /\ ~Ended(e)
    BY <1>1 DEF Refuses, Starts, Takes, GivesUp, Ended
  <2>4. ASSUME Skips(e) PROVE caller'[e].save.state = "IN_PROGRESS"
    BY <2>4, Skipping DEF Passes, Progress, Removing
  <2>5. ASSUME RemoveTarget(e), Removed(e) PROVE caller'[e].save.state = "IN_PROGRESS"
    BY <2>5, Removal DEF Passes, Progress, Removing
  <2>6. ASSUME Advances(e) PROVE caller'[e].save.state = "IN_PROGRESS"
    BY <1>1, <2>6 DEF Advances, Onward
  <2> QED
    BY <2>1, <2>2, <2>3, <2>4, <2>5, <2>6, OwnMoves
<1>2. ASSUME InPass(e)', caller'[e].pc # "remove" PROVE caller'[e].next = 1
  <2>1. caller'[e].pc \in Holding /\ caller'[e].save.state = "IN_PROGRESS"
    BY <1>2 DEF InPass
  <2>2. CASE caller'[e] = caller[e]
    BY <1>2, <2>1, <2>2 DEF Passes, Progress, InPass
  <2>3. Starts(e) => caller'[e].next = 1
    BY DEF Starts
  <2>4. ASSUME Advances(e) PROVE caller'[e].next = 1
    <3>1. InPass(e) /\ caller[e].pc # "remove" /\ caller'[e].next = caller[e].next
      BY <2>1, <2>4 DEF Advances, Onward, InPass
    <3> QED
      BY <3>1 DEF Passes, Progress
  <2>5. ~Refuses(e) /\ ~GivesUp(e)
    BY <2>1, RefusalsAreBlocked, GivingUp DEF Refuses
  <2>6. ~Skips(e) /\ ~Removed(e)
    BY <1>2 DEF Skips, Removed
  <2>7. ~(EndPass(e) /\ Ended(e))
    <3>1. EndPass(e) => caller[e].pc \in Holding
      BY DEF EndPass, Holding
    <3> QED
      BY <2>1, <3>1, Ending
  <2> QED
    BY <2>1, <2>2, <2>3, <2>4, <2>5, <2>6, <2>7, OwnMoves
<1> QED
  BY <1>1, <1>2 DEF Progress

LEMMA KnowsKept ==
  ASSUME Types, Layout, Locking, Plans, Passes, [DeletionNext]_deletionVars, NEW e \in Deleters
  PROVE  Knows(e)'
<1> SUFFICES ASSUME InPass(e)'
             PROVE  /\ \A k \in Anchor : Present(k)' => caller'[e].save.anchors[k] = Proof(k)'
                    /\ ~Workspace' =>
                         /\ \A k \in Files' : k \in caller'[e].found /\ caller'[e].save.targets[k] # "no target"
                         /\ \A d \in DeletionIds \ {caller'[e].id} : audit'[d] = None
  BY DEF Knows
<1>b. Workspace' <=> Workspace
  BY BackendStays
<1>1. CASE GoesOn(e)
  <2>1. InPass(e) /\ Knows(e)
    BY <1>1 DEF GoesOn, Passes
  <2>2. \A k \in Anchor : Present(k)' => caller'[e].save.anchors[k] = Proof(k)'
    BY <1>1, <2>1, Undisturbed DEF GoesOn, Knows
  <2>3. ASSUME ~Workspace
        PROVE  /\ \A k \in Files' : k \in caller'[e].found /\ caller'[e].save.targets[k] # "no target"
               /\ \A d \in DeletionIds \ {caller'[e].id} : audit'[d] = None
    <3>1. Files' \subseteq Files /\ Files \subseteq Class
      BY <2>1, <2>3, Undisturbed DEF Files
    <3>2. \A d \in DeletionIds \ {caller[e].id} : audit[d] = None => audit'[d] = None
      BY <2>1, <2>3, Undisturbed
    <3>3. /\ \A k \in Files : k \in caller[e].found /\ caller[e].save.targets[k] # "no target"
          /\ \A d \in DeletionIds \ {caller[e].id} : audit[d] = None
      BY <2>1, <2>3 DEF Knows
    <3> QED
      BY <1>1, <3>1, <3>2, <3>3 DEF GoesOn
  <2> QED
    BY <1>b, <2>2, <2>3
<1>2. CASE QuietStep(e) /\ Starts(e)
  <2>1. PICK d \in DeletionIds :
          /\ Bound(d) /\ ~Replaced(d)
          /\ caller'[e].id = d /\ caller'[e].save = Plan(d) /\ caller'[e].found = Files
    BY <1>2 DEF Starts
  <2>2. file' = file /\ phase' = phase /\ audit' = audit
    BY <1>2, QuietMoves DEF Moved, Still
  <2>3. /\ Plan(d).anchors = IF audit[d] = None \/ audit[d].anchors = NoAnchors THEN Anchors ELSE audit[d].anchors
        /\ \A k \in Files : Plan(d).targets[k] # "no target"
    BY PlanIsAnAudit
  <2>4. ASSUME NEW k \in Anchor, Present(k) PROVE Plan(d).anchors[k] = Proof(k)
    <3>1. CASE audit[d] = None \/ audit[d].anchors = NoAnchors
      BY <2>3, <3>1 DEF Anchors
    <3>2. CASE ~(audit[d] = None \/ audit[d].anchors = NoAnchors)
      <4>1. HasTargets(audit[d])
        BY <3>2 DEF Plans
      <4>2. Planned(audit[d])
        BY <3>2, <4>1 DEF HasTargets, Planned, Untouched
      <4>3. Matches(audit[d])
        BY <2>1, <3>2, <4>2 DEF Replaced
      <4> QED
        BY <2>3, <2>4, <3>2, <4>3 DEF Matches
    <3> QED
      BY <3>1, <3>2
  <2>5. \A k \in Anchor : Present(k)' => caller'[e].save.anchors[k] = Proof(k)'
    BY <2>1, <2>2, <2>4 DEF Present, Proof
  <2>6. Files' = Files
    BY <2>2 DEF Files, Present
  <2>7. ~Workspace => \A i \in DeletionIds \ {d} : audit[i] = None
    BY <2>1 DEF Bound
  <2> QED
    BY <1>b, <2>1, <2>2, <2>3, <2>5, <2>6, <2>7
<1> QED
  BY <1>1, <1>2, PassesGoOn

LEMMA LeavesNewKept ==
  ASSUME Types, Layout, Locking, Passes, [DeletionNext]_deletionVars, NEW e \in Deleters
  PROVE  LeavesNew(e)'
<1>b. Workspace' <=> Workspace
  BY BackendStays
<1> SUFFICES ASSUME ~Workspace, caller'[e].pc = "remove"
             PROVE  /\ caller'[e].next > 1 /\ file'["record"] # 0 => caller'[e].save.targets["record"] = "ADDED"
                    /\ caller'[e].next > 2 /\ file'["job"] # 0 => caller'[e].save.targets["job"] = "ADDED"
                    /\ caller'[e].next > 3 /\ file'["content"] # 0 => caller'[e].save.targets["content"] = "ADDED"
  BY <1>b DEF LeavesNew, Present
<1>c. caller'[e].pc \in Holding /\ {"record", "job", "content"} \subseteq Class
  BY DEF Holding, Class
<1>1. CASE caller[e].pc = "remove"
  <2>1. InPass(e) /\ Knows(e) /\ LeavesNew(e)
    BY <1>1 DEF Passes, Progress, InPass, Holding
  <2>2. \A k \in Class : file'[k] # 0 => Present(k) /\ k \in caller[e].found /\ caller[e].save.targets[k] # "no target"
    <3>1. Files' \subseteq Files
      BY <2>1, Undisturbed
    <3> QED
      BY <2>1, <3>1 DEF Knows, Files, Present
  <2>3. CASE caller'[e] = caller[e]
    BY <1>1, <1>c, <2>1, <2>2, <2>3 DEF LeavesNew
  <2>4. ASSUME Skips(e) \/ (RemoveTarget(e) /\ Removed(e))
        PROVE  /\ caller'[e].next = caller[e].next + 1 /\ Removing(e)
               /\ file'[Target(e)] # 0 => caller'[e].save.targets[Target(e)] = "ADDED"
               /\ \A k \in Class \ {Target(e)} : caller'[e].save.targets[k] = caller[e].save.targets[k]
    <3>1. CASE Skips(e)
      <4>1. /\ caller'[e].next = caller[e].next + 1
            /\ Status(e) \in {"no target", "ADDED"} \/ Target(e) \notin caller[e].found
        BY <3>1 DEF Skips
      <4>2. file'[Target(e)] # 0 => Status(e) = "ADDED"
        BY <2>2, <3>1, <4>1, Skipping DEF Status
      <4> QED
        BY <3>1, <4>1, <4>2, Skipping
    <3>2. CASE RemoveTarget(e) /\ Removed(e)
      <4>1. caller'[e].next = caller[e].next + 1 /\ Target(e) \in Class
        BY <3>2, Removal DEF Removed
      <4>2. file'[Target(e)] = 0
        BY <3>2, <4>1 DEF RemoveTarget, Types, DeletionTypeOK
      <4> QED
        BY <3>2, <4>1, <4>2, Removal
    <3> QED
      BY <2>4, <3>1, <3>2
  <2>5. ASSUME Skips(e) \/ (RemoveTarget(e) /\ Removed(e))
        PROVE  /\ caller'[e].next > 1 /\ file'["record"] # 0 => caller'[e].save.targets["record"] = "ADDED"
               /\ caller'[e].next > 2 /\ file'["job"] # 0 => caller'[e].save.targets["job"] = "ADDED"
               /\ caller'[e].next > 3 /\ file'["content"] # 0 => caller'[e].save.targets["content"] = "ADDED"
    <3>1. \/ caller[e].next = 1 /\ Target(e) = "record"
          \/ caller[e].next = 2 /\ Target(e) = "job"
          \/ caller[e].next = 3 /\ Target(e) = "content"
      BY <2>4, <2>5, TargetIsAClass
    <3>2. caller'[e].next = caller[e].next + 1
      BY <2>4, <2>5
    <3>3. CASE caller[e].next = 1 /\ Target(e) = "record"
      <4>1. caller'[e].next = 2
        BY <3>2, <3>3
      <4> QED
        BY <2>4, <2>5, <3>3, <4>1
    <3>4. CASE caller[e].next = 2 /\ Target(e) = "job"
      <4>1. caller'[e].next = 3 /\ caller[e].next > 1
        BY <3>2, <3>4
      <4>2. Present("record") => caller[e].save.targets["record"] = "ADDED"
        BY <1>1, <2>1, <4>1 DEF LeavesNew
      <4>3. caller'[e].save.targets["record"] = caller[e].save.targets["record"]
        BY <1>c, <2>4, <2>5, <3>4
      <4>4. file'["job"] # 0 => caller'[e].save.targets["job"] = "ADDED"
        BY <2>4, <2>5, <3>4
      <4>5. file'["record"] # 0 => caller'[e].save.targets["record"] = "ADDED"
        BY <1>c, <2>2, <4>2, <4>3
      <4>6. ~(caller'[e].next > 3)
        BY <4>1
      <4> QED
        BY <4>4, <4>5, <4>6
    <3>5. CASE caller[e].next = 3 /\ Target(e) = "content"
      <4>1. caller'[e].next = 4 /\ caller[e].next > 1 /\ caller[e].next > 2
        BY <3>2, <3>5
      <4>2. /\ Present("record") => caller[e].save.targets["record"] = "ADDED"
            /\ Present("job") => caller[e].save.targets["job"] = "ADDED"
        BY <1>1, <2>1, <4>1 DEF LeavesNew
      <4>3. /\ caller'[e].save.targets["record"] = caller[e].save.targets["record"]
            /\ caller'[e].save.targets["job"] = caller[e].save.targets["job"]
        BY <1>c, <2>4, <2>5, <3>5
      <4> QED
        BY <1>c, <2>2, <2>4, <2>5, <3>5, <4>1, <4>2, <4>3
    <3> QED
      BY <3>1, <3>3, <3>4, <3>5
  <2>6. ~Refuses(e) /\ ~Starts(e) /\ ~GivesUp(e) /\ ~Ended(e) /\ ~Advances(e)
    BY <1>1 DEF Refuses, Starts, Takes, GivesUp, Ended, Advances
  <2> QED
    BY <1>c, <2>3, <2>5, <2>6, OwnMoves
<1>2. CASE caller[e].pc # "remove"
  <2>1. Advances(e)
    <3>1. ~Refuses(e) /\ ~Starts(e) /\ ~GivesUp(e) /\ ~Ended(e) /\ caller'[e] # caller[e]
      BY <1>2 DEF Refuses, Starts, Takes, GivesUp, Ended
    <3>2. ~Skips(e) /\ ~RemoveTarget(e)
      BY <1>2 DEF Skips, RemoveTarget, Due, Removing
    <3> QED
      BY <1>c, <3>1, <3>2, OwnMoves
  <2>2. caller'[e].next = caller[e].next /\ InPass(e)
    BY <2>1 DEF Advances, Onward, InPass
  <2>3. caller'[e].next = 1
    BY <1>2, <2>2 DEF Passes, Progress
  <2> QED
    BY <2>3
<1> QED
  BY <1>1, <1>2

LEMMA PassesKept ==
  ASSUME Types, Layout, Locking, Plans, Passes, [DeletionNext]_deletionVars
  PROVE  Passes'
BY ProgressKept, KnowsKept, LeavesNewKept DEF Passes

-----------------------------------------------------------------------------
(* The fence *)

\* Writers are let in again only by a caller that lets go of the deletion.
LEMMA FencesKept ==
  ASSUME Types, Layout, Locking, Passes, Fences, [DeletionNext]_deletionVars
  PROVE  Fences'
<1> USE DEF given, runFiles, control, surroundings
<1>a. fence \in [file : BOOLEAN, field : BOOLEAN]
  BY DEF Types, DeletionTypeOK
<1>b. Workspace' <=> Workspace
  BY BackendStays
<1>c. Workspace /\ Bare => Bare'
  BY BareStays
<1>1. ASSUME NEW e \in Deleters, Workspace, caller'[e].pc \in {"mark", "remove"}, Destructive(caller'[e].save)
      PROVE  fence'.file \/ Bare'
  <2>1. caller'[e].pc \in Holding
    BY <1>1 DEF Holding
  <2>2. CASE Workspace /\ Bare
    BY <1>c, <2>2
  <2>3. ASSUME fence'.file = fence.file,
               caller[e].pc \in {"mark", "remove"}, Destructive(caller[e].save)
        PROVE  fence'.file \/ Bare'
    BY <1>1, <1>c, <2>3 DEF Fences
  <2>4. CASE ~Bare /\ SetFence(e)
    <3>1. Onward(e, "mark")
      BY <2>4, WritingMoves
    <3>2. Destructive(caller[e].save)
      BY <1>1, <3>1 DEF Onward
    <3>3. fence'.file = Destructive(caller[e].save)
      BY <1>a, <2>4 DEF SetFence
    <3> QED
      BY <3>2, <3>3
  <2>5. CASE ~Bare /\ ~SetFence(e)
    <3>1. caller[e].pc \in {"mark", "remove"} /\ caller[e].pc \in Holding /\ Destructive(caller[e].save)
      <4>1. CASE caller'[e] = caller[e]
        BY <1>1, <2>1, <4>1
      <4>2. ~Refuses(e) /\ ~Starts(e) /\ ~GivesUp(e) /\ ~Ended(e)
        BY <1>1 DEF Refuses, Starts, Takes, GivesUp, Ended
      <4>3. CASE Skips(e)
        <5>1. caller'[e].save.state = caller[e].save.state /\ caller[e].pc = "remove"
          BY <4>3, Skipping DEF Removing
        <5> QED
          BY <1>1, <5>1 DEF Destructive, Holding
      <4>4. CASE RemoveTarget(e) /\ Removed(e)
        <5>1. caller'[e].save.state = caller[e].save.state /\ caller[e].pc = "remove"
          BY <4>4, Removal DEF Removing
        <5> QED
          BY <1>1, <5>1 DEF Destructive, Holding
      <4>5. CASE SaveAudit(e)
        <5>1. Onward(e, "fence")
          BY <1>1, <4>5, WritingMoves
        <5> QED
          BY <1>1, <5>1 DEF Onward
      <4>6. CASE MarkState(e) /\ Advances(e)
        <5>1. caller[e].pc = "mark" /\ caller'[e].save = caller[e].save
          BY <4>6 DEF MarkState, Advances, Onward
        <5> QED
          BY <1>1, <5>1 DEF Holding
      <4> QED
        BY <2>1, <2>5, <4>1, <4>2, <4>3, <4>4, <4>5, <4>6, OwnMoves
    <3>2. \A c \in Deleters : ~SetFence(c)
      <4> SUFFICES ASSUME NEW c \in Deleters, SetFence(c) PROVE FALSE
        OBVIOUS
      <4>1. caller[c].pc \in Holding
        BY DEF SetFence, Holding
      <4>2. c = e
        BY <2>5, <3>1, <4>1, OnlyOne
      <4> QED
        BY <2>5, <4>2
    <3>3. ASSUME NEW c \in Deleters, QuietStep(c) PROVE fence' = fence
      BY <3>3, QuietMoves DEF Moved, Still
    <3>4. ASSUME NEW c \in Deleters, MarkState(c) \/ RemoveTarget(c) PROVE fence'.file = fence.file
      BY <1>a, <3>4 DEF MarkState, RemoveTarget
    <3>5. fence'.file = fence.file
      BY <3>2, <3>3, <3>4, StepsAre DEF SaveAudit, EndPass, EndRun, EndJob, Acknowledge, WriteContent, CheckRun,
           ChargeBudget, Resubmit, Preview, StepsOfCleanup, ChangeHold, deletionVars
    <3> QED
      BY <2>3, <3>1, <3>5
  <2> QED
    BY <1>1, <2>2, <2>4, <2>5
<1>2. ASSUME NEW e \in Deleters, ~Workspace PROVE caller'[e].pc \notin {"fence", "mark"}
  <2> SUFFICES ASSUME caller'[e].pc \in {"fence", "mark"} PROVE FALSE
    OBVIOUS
  <2>1. caller'[e].pc \in Holding /\ caller[e].pc \notin {"fence", "mark"}
    BY <1>2 DEF Holding, Fences
  <2>2. ~Refuses(e) /\ ~Starts(e) /\ ~GivesUp(e) /\ ~Ended(e) /\ ~Skips(e) /\ ~Removed(e)
    BY DEF Refuses, Starts, Takes, GivesUp, Ended, Skips, Removed
  <2>3. ~SetFence(e) /\ ~MarkState(e)
    BY <2>1 DEF SetFence, MarkState
  <2>4. ~SaveAudit(e)
    <3> SUFFICES ASSUME SaveAudit(e) PROVE FALSE
      OBVIOUS
    <3>1. Written(e)
      BY <1>2, WritingMoves
    <3> QED
      BY <2>1, <3>1 DEF Written, Onward, Waits
  <2> QED
    BY <2>1, <2>2, <2>3, <2>4, OwnMoves
<1>3. ASSUME NEW e \in Deleters, ~Workspace, caller'[e].pc = "remove"
      PROVE  \/ audit'[caller'[e].id] = None
             \/ audit'[caller'[e].id] # None /\ audit'[caller'[e].id].state = "IN_PROGRESS"
  <2>1. caller'[e].pc \in Holding
    BY <1>3 DEF Holding
  <2>2. CASE caller[e].pc = "remove"
    <3>0. caller[e].pc \in Holding /\ caller[e].id \in DeletionIds
      BY <2>2 DEF Holding, Types, CallersTyped
    <3>1. caller'[e].id = caller[e].id
      <4>1. ~Refuses(e) /\ ~Starts(e) /\ ~GivesUp(e) /\ ~Ended(e) /\ ~Advances(e)
        BY <1>3, <2>2 DEF Refuses, Starts, Takes, GivesUp, Ended, Advances
      <4> QED
        BY <2>1, <4>1, OwnMoves DEF Skips, Removed
    <3>2. audit[caller[e].id] = None \/ audit[caller[e].id].state = "IN_PROGRESS"
      BY <1>3, <2>2 DEF Fences, Own
    <3>3. audit'[caller[e].id] = audit[caller[e].id] \/ audit'[caller[e].id] = None
      <4>1. ASSUME NEW c \in Deleters, SaveAudit(c) PROVE FALSE
        <5>1. caller[c].pc \in Holding /\ caller[c].pc # "remove"
          BY <4>1 DEF SaveAudit, Holding
        <5>2. c = e
          BY <1>3, <3>0, <5>1, OnlyOne
        <5> QED
          BY <2>2, <5>1, <5>2
      <4>2. ASSUME NEW k \in Cleanups, Cleans(k)
            PROVE  audit'[caller[e].id] = audit[caller[e].id] \/ audit'[caller[e].id] = None
        BY <3>0, <4>2, CleaningMoves
      <4>3. ASSUME NEW c \in Deleters, QuietStep(c) PROVE audit' = audit
        BY <4>3, QuietMoves DEF Moved, Still
      <4>4. ASSUME NEW c \in Deleters, SetFence(c) \/ MarkState(c) \/ RemoveTarget(c) \/ EndPass(c)
            PROVE  audit' = audit
        BY <4>4 DEF SetFence, MarkState, RemoveTarget, EndPass
      <4> QED
        BY <4>1, <4>2, <4>3, <4>4, StepsAre DEF EndRun, EndJob, Acknowledge, WriteContent, CheckRun,
             ChargeBudget, Resubmit, Preview, ChangeHold, deletionVars
    <3> QED
      BY <3>1, <3>2, <3>3
  <2>3. CASE caller[e].pc # "remove"
    <3>1. ~Refuses(e) /\ ~Starts(e) /\ ~GivesUp(e) /\ ~Ended(e) /\ caller'[e] # caller[e]
      BY <1>3, <2>3 DEF Refuses, Starts, Takes, GivesUp, Ended
    <3>2. ~Skips(e) /\ ~RemoveTarget(e) /\ ~SetFence(e) /\ ~MarkState(e)
      BY <1>3, <2>3 DEF Skips, RemoveTarget, Due, Removing, SetFence, MarkState, Fences
    <3>3. SaveAudit(e) /\ Advances(e)
      BY <2>1, <3>1, <3>2, OwnMoves
    <3>4. caller'[e].id = caller[e].id /\ caller[e].save.state = "IN_PROGRESS"
      BY <1>3, <3>3 DEF Advances, Onward
    <3>5. caller[e].id \in DeletionIds /\ caller[e].save \in Audit
      BY <3>3 DEF SaveAudit, Types, CallersTyped, Holding
    <3>6. audit'[caller[e].id] = caller[e].save
      BY <3>3, <3>5 DEF SaveAudit, Types, DeletionTypeOK
    <3> QED
      BY <3>4, <3>5, <3>6, NoneIsNoAudit
  <2> QED
    BY <2>2, <2>3
<1> QED
  BY <1>1, <1>2, <1>3, <1>b DEF Fences, Own

-----------------------------------------------------------------------------
(* Completions *)

\* Of a workspace run of which nothing is left, nothing is left of any generation.
LEMMA BareIsGone ==
  ASSUME Workspace, Layout, Bare, NEW a
  PROVE  Gone(a)
<1>1. \A k \in Class \ {"metrics"} : ~Present(k)
  BY DEF Bare, Files
<1>2. \A k \in Anchor : k \in Class \ {"metrics"}
  BY DEF Anchor, Class
<1> QED
  BY <1>1, <1>2 DEF Gone, Proof, Class

\* In a scope what is gone stays gone, under a generation that is submitted anew too.
LEMMA GoneStays ==
  ASSUME Types, Layout, [DeletionNext]_deletionVars, ~Workspace, \A c \in Deleters : ~RemoveTarget(c)
  PROVE  \A a \in Audit : Past(a) /\ Gone(a) => Gone(a)'
<1> SUFFICES ASSUME NEW a \in Audit, Past(a), Gone(a) PROVE Gone(a)'
  OBVIOUS
<1>a. /\ file \in [Class -> 0..MaxGenerations] /\ generation \in Nat
      /\ {"record", "job", "state", "content"} \subseteq Class
  BY DeletionBounds DEF Types, DeletionTypeOK, Class
<1>b. file["state"] = 0 /\ file'["state"] = 0
  BY LayoutKept, BackendStays DEF Layout, Present
<1>c. \A k \in Anchor : Proof(k) = IF file[k] = 0 THEN <<>> ELSE <<file[k], "">>
  BY <1>b DEF Proof, Present
<1>d. \A k \in Anchor : Proof(k)' = IF file'[k] = 0 THEN <<>> ELSE <<file'[k], "">>
  BY <1>b DEF Proof, Present
<1>e. ASSUME \A k \in Anchor : file'[k] = file[k] PROVE \A k \in Anchor : Proof(k)' = <<>> \/ Proof(k)' # a.anchors[k]
  BY <1>c, <1>d, <1>e DEF Gone
<1>1. CASE file' = file
  BY <1>1, <1>e DEF Gone, Present
<1>2. CASE WriteContent
  <2>1. Present("job")
    BY <1>2 DEF WriteContent, Active
  <2>2. \A k \in Anchor : file'[k] = file[k]
    BY <1>a, <1>2 DEF WriteContent, Anchor
  <2>3. file'["content"] = file["job"] /\ "job" \in Anchor
    BY <1>a, <1>2 DEF WriteContent, Anchor
  <2>4. file'["job"] = file'["content"]
    BY <2>2, <2>3
  <2> QED
    BY <1>e, <2>2, <2>3, <2>4 DEF Gone
<1>3. CASE Resubmit
  <2>1. CASE ~Present("job") /\ generation < MaxGenerations
    <3>1. /\ generation' = generation + 1
          /\ file' = [file EXCEPT !["job"] = generation', !["record"] = IF @ = 0 THEN generation' ELSE @]
      BY <1>3, <2>1 DEF Resubmit
    <3>2. /\ file'["content"] = file["content"] /\ file'["job"] = generation'
          /\ file'["record"] = IF file["record"] = 0 THEN generation' ELSE file["record"]
      BY <1>a, <3>1
    <3>3. ASSUME NEW k \in Anchor PROVE Proof(k)' = <<>> \/ Proof(k)' # a.anchors[k]
      <4>1. CASE file'[k] = file[k]
        BY <1>c, <1>d, <4>1 DEF Gone
      <4>2. CASE file'[k] = generation'
        <5>1. a.anchors[k] # <<>> => a.anchors[k] \in Nat \X {"open", "over", ""}
          BY DEF Audit
        <5>2. a.anchors[k] # <<>> => a.anchors[k][1] \in Nat /\ a.anchors[k][1] <= generation
          BY <5>1 DEF Past
        <5>3. a.anchors[k] # <<>> => a.anchors[k][1] # generation'
          BY <1>a, <3>1, <5>2
        <5>4. Proof(k)' = <<generation', "">>
          <6>1. generation + 1 # 0
            BY <1>a
          <6>2. file'[k] # 0
            BY <3>1, <4>2, <6>1
          <6> QED
            BY <1>d, <4>2, <6>2
        <5>5. <<generation', "">> # <<>> /\ <<generation', "">>[1] = generation'
          OBVIOUS
        <5>6. a.anchors[k] # <<generation', "">>
          BY <5>3, <5>5
        <5> QED
          BY <5>4, <5>6
      <4> QED
        BY <1>b, <3>2, <4>1, <4>2 DEF Anchor
    <3>4. ASSUME file'["content"] # 0 PROVE \E k \in Anchor : file'[k] = file'["content"]
      <4>1. PICK k \in Anchor : file[k] = file["content"]
        BY <3>2, <3>4 DEF Gone, Present
      <4>2. file[k] # 0
        BY <3>2, <3>4, <4>1
      <4>3. file'[k] = file[k]
        BY <1>b, <2>1, <3>2, <4>2 DEF Anchor, Present
      <4> QED
        BY <3>2, <4>1, <4>3
    <3> QED
      BY <3>3, <3>4 DEF Gone, Present
  <2>2. CASE ~(~Present("job") /\ generation < MaxGenerations)
    <3>1. file' = file
      BY <1>3, <2>2 DEF Resubmit
    <3> QED
      BY <1>1, <3>1
  <2> QED
    BY <2>1, <2>2
<1> QED
  BY <1>1, <1>2, <1>3, FilesChange DEF ChargeBudget

\* A caller has COMPLETE in hand because it had, or because it ends a pass.
LEMMA CompletionComes ==
  ASSUME Types, Passes, [DeletionNext]_deletionVars, NEW e \in Deleters,
         caller'[e].pc \in Holding, caller'[e].save.state = "COMPLETE"
  PROVE  \/ caller[e].pc \in Holding /\ caller'[e].save = caller[e].save
         \/ EndPass(e) /\ Failures(e) = {} /\ Leftover = {}
<1>1. ~Refuses(e) /\ ~GivesUp(e) /\ ~Starts(e)
  BY RefusalsAreBlocked, GivingUp, PlanIsAnAudit DEF Refuses, Starts
<1>2. ~Skips(e)
  BY Skipping DEF Passes, Progress, Removing
<1>3. ~(RemoveTarget(e) /\ Removed(e))
  BY Removal DEF Passes, Progress, Removing
<1>4. Advances(e) => caller[e].pc \in Holding /\ caller'[e].save = caller[e].save
  BY DEF Advances, Onward
<1>5. ASSUME EndPass(e), Ended(e) PROVE Failures(e) = {} /\ Leftover = {}
  <2>1. caller[e].pc \in Holding
    BY <1>5 DEF EndPass, Holding
  <2> QED
    BY <1>5, <2>1, Ending
<1> QED
  BY <1>1, <1>2, <1>3, <1>4, <1>5, OwnMoves

\* When a pass ends in a scope without failures, nothing of the run is left.
LEMMA NothingIsLeft ==
  ASSUME Types, Layout, Passes, ~Workspace, NEW e \in Deleters,
         EndPass(e), Failures(e) = {}, Leftover = {}
  PROVE  \A k \in Anchor \cup {"content"} : ~Present(k)
<1>1. caller[e].pc = "remove" /\ caller[e].next > 3
  BY OrderIs DEF EndPass
<1>2. caller[e].next \in Nat
  BY DEF Types, CallersTyped, CallerState
<1>3. caller[e].next > 1 /\ caller[e].next > 2
  BY <1>1, <1>2
<1>4. ~Present("record") /\ ~Present("job")
  <2>1. LeavesNew(e)
    BY DEF Passes
  <2>2. \A k \in Class : caller[e].save.targets[k] # "ADDED"
    BY DEF Failures
  <2>3. "record" \in Class /\ "job" \in Class
    BY DEF Class
  <2> QED
    BY <1>1, <1>3, <2>1, <2>2, <2>3 DEF LeavesNew
<1>5. ~Present("content")
  BY DEF Leftover, Files, Class
<1>6. ~Present("state")
  BY DEF Layout
<1> QED
  BY <1>4, <1>5, <1>6 DEF Anchor

LEMMA CompletionsKept ==
  ASSUME Types, Layout, Locking, Plans, Passes, Fences, Completions, [DeletionNext]_deletionVars
  PROVE  Completions'
<1>a. Types' /\ Layout'
  BY TypesKept, LayoutKept
<1>b. Workspace' <=> Workspace
  BY BackendStays
<1>c. ASSUME Workspace, Bare PROVE \A a : Gone(a)' /\ Bare'
  <2>1. Bare'
    BY <1>c, BareStays
  <2>2. \A k \in Class \ {"metrics"} : file'[k] = 0
    BY <2>1 DEF Bare, Files, Present
  <2>3. \A k \in Anchor : k \in Class \ {"metrics"}
    BY DEF Anchor, Class
  <2> QED
    BY <2>1, <2>2, <2>3 DEF Gone, Proof, Present, Class
<1>1. ASSUME NEW d \in DeletionIds, audit'[d] # None, audit'[d].state = "COMPLETE"
      PROVE  Gone(audit[d])' /\ (Workspace => Bare')
  <2>1. \/ audit'[d] = audit[d]
        \/ \E c \in Deleters : caller[c].pc \in Holding /\ SaveAudit(c) /\ audit'[d] = caller[c].save
    BY <1>1, AuditMoves
  <2>2. Gone(audit'[d]) /\ (Workspace => Bare)
    BY <1>1, <2>1 DEF Completions, Truthful
  <2>3. Past(audit'[d]) /\ audit'[d] \in Audit
    BY <1>1, <1>a, <2>1 DEF Plans, Types, DeletionTypeOK
  <2>4. CASE Workspace
    <3>1. \A a : Gone(a)' /\ Bare'
      BY <1>c, <2>2, <2>4
    <3> QED
      BY <3>1 DEF Gone
  <2>5. CASE ~Workspace /\ \A c \in Deleters : ~RemoveTarget(c)
    <3>1. \A a \in Audit : Past(a) /\ Gone(a) => Gone(a)'
      BY <2>5, GoneStays
    <3> QED
      BY <2>2, <2>3, <2>5, <3>1 DEF Gone, Past
  <2>6. ASSUME ~Workspace, NEW c \in Deleters, RemoveTarget(c) PROVE FALSE
    <3>1. caller[c].pc = "remove" /\ InPass(c) /\ ~SaveAudit(c)
      BY <2>6 DEF RemoveTarget, Due, Removing, Passes, Progress, InPass, Holding, SaveAudit
    <3>2. audit'[d] = audit[d]
      BY <2>6 DEF RemoveTarget, control
    <3>3. d = caller[c].id
      BY <1>1, <2>6, <3>1, <3>2 DEF Passes, Knows
    <3> QED
      BY <1>1, <2>6, <3>1, <3>2, <3>3 DEF Fences, Own
  <2> QED
    BY <2>4, <2>5, <2>6
<1>2. ASSUME NEW e \in Deleters, caller'[e].pc \in Holding, caller'[e].save.state = "COMPLETE"
      PROVE  Gone(caller[e].save)' /\ (Workspace => Bare')
  <2>1. CASE caller[e].pc \in Holding /\ caller'[e].save = caller[e].save
    <3>1. Gone(caller'[e].save) /\ (Workspace => Bare)
      BY <1>2, <2>1 DEF Completions, Truthful
    <3>2. Past(caller'[e].save) /\ caller'[e].save \in Audit
      BY <1>2, <1>a, <2>1 DEF Plans, Types, CallersTyped
    <3>3. CASE Workspace
      <4>1. \A a : Gone(a)' /\ Bare'
        BY <1>c, <3>1, <3>3
      <4> QED
        BY <4>1 DEF Gone
    <3>4. CASE ~Workspace /\ \A c \in Deleters : ~RemoveTarget(c)
      <4>1. \A a \in Audit : Past(a) /\ Gone(a) => Gone(a)'
        BY <3>4, GoneStays
      <4> QED
        BY <3>1, <3>2, <3>4, <4>1 DEF Gone, Past
    <3>5. ASSUME ~Workspace, NEW c \in Deleters, RemoveTarget(c) PROVE FALSE
      <4>1. caller[c].pc = "remove" /\ caller[c].pc \in Holding
        BY <3>5 DEF RemoveTarget, Due, Removing, Holding
      <4>2. c = e
        BY <2>1, <3>5, <4>1, OnlyOne
      <4> QED
        BY <1>2, <2>1, <4>1, <4>2 DEF Passes, Progress
    <3> QED
      BY <3>3, <3>4, <3>5
  <2>2. CASE EndPass(e) /\ Failures(e) = {} /\ Leftover = {}
    <3>1. file' = file
      BY <2>2 DEF EndPass, runFiles
    <3>2. CASE Workspace
      <4>1. Bare
        BY <2>2, <3>2 DEF Leftover, Bare
      <4>2. \A a : Gone(a)' /\ Bare'
        BY <1>c, <3>2, <4>1
      <4> QED
        BY <4>2 DEF Gone
    <3>3. CASE ~Workspace
      <4>1. \A k \in Anchor \cup {"content"} : file'[k] = 0
        BY <2>2, <3>1, <3>3, NothingIsLeft DEF Present
      <4> QED
        BY <3>3, <4>1 DEF Gone, Proof, Present
    <3> QED
      BY <3>2, <3>3
  <2> QED
    BY <1>2, <2>1, <2>2, CompletionComes
<1> QED
  BY <1>1, <1>2, <1>b DEF Completions, Truthful, Gone

-----------------------------------------------------------------------------
(* Theorems *)

LEMMA InitEstablishes == DeletionInit => IInv
<1> SUFFICES ASSUME DeletionInit PROVE IInv
  OBVIOUS
<1>1. Types
  BY InitTypes
<1>2. /\ \A c \in Deleters : caller[c] = Idle
      /\ \A d \in DeletionIds : audit[d] = None
      /\ shielded = FALSE /\ fence.field = FALSE
  BY DEF DeletionInit
<1>3. Idle.pc = "idle" /\ Idle.at = 0 /\ "idle" \notin Holding
  BY DEF Idle, Holding
<1>4. \A k \in Class : file[k] = IF k \in {Order[i] : i \in 1..Len(Order)} THEN 1 ELSE 0
  BY DEF DeletionInit
<1>5. Layout
  <2>1. CASE Workspace
    <3>1. \A i \in 1..4 : Order[i] # "record"
      BY <2>1, OrderIs
    <3>2. file["record"] = 0
      BY <1>4, <2>1, <3>1, OrderIs DEF Class
    <3> QED
      BY <1>2, <2>1, <3>2 DEF Layout, Present
  <2>2. CASE ~Workspace
    <3>1. \A i \in 1..3 : Order[i] # "state" /\ Order[i] # "metrics"
      BY <2>2, OrderIs
    <3>2. file["state"] = 0 /\ file["metrics"] = 0
      BY <1>4, <2>2, <3>1, OrderIs DEF Class
    <3> QED
      BY <1>2, <2>2, <3>2 DEF Layout, Present
  <2> QED
    BY <2>1, <2>2
<1>6. Locking /\ Shield
  BY <1>2, <1>3 DEF Locking, Shield
<1>7. Plans
  <2>1. \A k \in Class : file[k] <= 1
    BY <1>4
  <2>2. straggler = 0 /\ generation = 1
    BY DEF DeletionInit
  <2> QED
    BY <1>2, <1>3, <2>1, <2>2 DEF Plans
<1>8. Passes
  BY <1>2, <1>3 DEF Passes, Progress, Knows, LeavesNew, InPass
<1>9. Fences
  BY <1>2, <1>3 DEF Fences, Holding
<1>10. Completions
  BY <1>2, <1>3 DEF Completions
<1> QED
  BY <1>1, <1>5, <1>6, <1>7, <1>8, <1>9, <1>10 DEF IInv

LEMMA StepKeeps == IInv /\ [DeletionNext]_deletionVars => IInv'
<1> SUFFICES ASSUME IInv, [DeletionNext]_deletionVars PROVE IInv'
  OBVIOUS
<1>1. Types /\ Layout /\ Locking /\ Shield /\ Plans /\ Passes /\ Fences /\ Completions
  BY DEF IInv
<1>2. Types' /\ Layout' /\ Locking' /\ Shield' /\ Plans'
  BY <1>1, TypesKept, LayoutKept, LockingKept, ShieldKept, PlansKept
<1>3. Passes' /\ Fences' /\ Completions'
  BY <1>1, PassesKept, FencesKept, CompletionsKept
<1> QED
  BY <1>2, <1>3 DEF IInv

\* The invariant that carries the others: one caller under the lock or an empty
\* workspace, passes that know what they delete, fences that precede them.
THEOREM Invariance == DeletionSpec => []IInv
<1>1. DeletionInit => IInv
  BY InitEstablishes
<1>2. IInv /\ [DeletionNext]_deletionVars => IInv'
  BY StepKeeps
<1> QED
  BY <1>1, <1>2, PTL DEF DeletionSpec

\* Every caller, audit and file has a state the code can read.
THEOREM DeletionTypeCorrect == DeletionSpec => []DeletionTypeOK
<1>1. IInv => DeletionTypeOK
  BY DEF IInv, Types
<1> QED
  BY <1>1, Invariance, PTL

\* An audit that reads COMPLETE is right about the run, also after the identity is
\* submitted anew (_complete_audit, cleanup_after_targets).
THEOREM CompletionsAreTrue == DeletionSpec => []CompleteMeansGone
<1>1. IInv => CompleteMeansGone
  BY DEF IInv, Completions, Truthful, CompleteMeansGone
<1> QED
  BY <1>1, Invariance, PTL

\* Only the destructive pass makes a document vanish.
LEMMA Vanishing ==
  ASSUME Types, [DeletionNext]_deletionVars, NEW k \in Class, Present(k), file'[k] = 0
  PROVE  \E c \in Deleters : RemoveTarget(c)
<1>a. /\ file \in [Class -> 0..MaxGenerations] /\ generation \in Nat
      /\ {"record", "job", "state", "content", "metrics"} \subseteq Class
  BY DeletionBounds DEF Types, DeletionTypeOK, Class
<1>1. file' # file
  BY DEF Present
<1>2. ~WriteContent
  <2> SUFFICES ASSUME WriteContent PROVE FALSE
    OBVIOUS
  <2>1. \/ file'[k] = file[k]
        \/ ~Workspace /\ file'[k] = file["job"]
        \/ Workspace /\ file'[k] = file["state"]
    BY <1>a DEF WriteContent
  <2>2. (~Workspace => file["job"] # 0) /\ (Workspace => file["state"] # 0)
    BY DEF WriteContent, Active, Present
  <2> QED
    BY <2>1, <2>2 DEF Present
<1>3. ~ChargeBudget
  <2>1. ChargeBudget => straggler # 0 /\ file'[k] \in {file[k], straggler}
    BY <1>a DEF ChargeBudget
  <2> QED
    BY <2>1 DEF Present
<1>4. ~Resubmit
  <2>1. Resubmit => file' = file \/ (generation' = generation + 1 /\ file'[k] \in {file[k], generation'})
    BY <1>a DEF Resubmit
  <2>2. generation + 1 # 0
    BY <1>a
  <2> QED
    BY <1>1, <2>1, <2>2 DEF Present
<1> QED
  BY <1>1, <1>2, <1>3, <1>4, FilesChange

LEMMA RemoversPass ==
  ASSUME Types, Passes, NEW c \in Deleters, RemoveTarget(c)
  PROVE  caller[c].pc = "remove" /\ caller[c].save.state = "IN_PROGRESS" /\ InPass(c)
BY DEF RemoveTarget, Due, Removing, Passes, Progress, InPass, Holding

\* A legal hold placed while no pass is under way keeps every file of the run: the
\* authority is asked again under the lock (DeletionCoordinator.run).
THEOREM HeldFiles == DeletionSpec => HeldFilesSurvive
<1>1. IInv /\ [DeletionNext]_deletionVars
        => [shielded /\ shielded' => \A k \in Class : Present(k) => file'[k] # 0]_deletionVars
  <2> SUFFICES ASSUME IInv, [DeletionNext]_deletionVars, shielded, NEW k \in Class, Present(k), file'[k] = 0
               PROVE  FALSE
    OBVIOUS
  <2>1. Types /\ Shield /\ Passes
    BY DEF IInv
  <2>2. PICK c \in Deleters : RemoveTarget(c)
    BY <2>1, Vanishing
  <2> QED
    BY <2>1, <2>2, RemoversPass DEF Shield
<1> QED
  BY <1>1, Invariance, PTL DEF DeletionSpec, HeldFilesSurvive

\* A deletion removes only the generation it was planned for (_generation_matches,
\* and the lock that keeps every other write out of a pass).
THEOREM RightGeneration == DeletionSpec => OnlyThePlannedGeneration
<1>1. IInv /\ [DeletionNext]_deletionVars
        => [\A k \in Anchor : Present(k) /\ file'[k] = 0 =>
              \E c \in Deleters : caller[c].pc = "remove" /\ caller[c].save.anchors[k] = Proof(k)]_deletionVars
  <2> SUFFICES ASSUME IInv, [DeletionNext]_deletionVars, NEW k \in Anchor, Present(k), file'[k] = 0
               PROVE  \E c \in Deleters : caller[c].pc = "remove" /\ caller[c].save.anchors[k] = Proof(k)
    OBVIOUS
  <2>1. Types /\ Passes /\ k \in Class
    BY DEF IInv, Anchor, Class
  <2>2. PICK c \in Deleters : RemoveTarget(c)
    BY <2>1, Vanishing
  <2>3. caller[c].pc = "remove" /\ InPass(c)
    BY <2>1, <2>2, RemoversPass
  <2> QED
    BY <2>1, <2>3 DEF Passes, Knows
<1> QED
  BY <1>1, Invariance, PTL DEF DeletionSpec, OnlyThePlannedGeneration

LEMMA RemovalNeedsTheFence ==
  ASSUME IInv, NEW c \in Deleters, RemoveTarget(c), ~(Workspace /\ Bare)
  PROVE  IF Workspace THEN fence.file ELSE Fenced \/ Unfenced(c)
<1>1. caller[c].pc = "remove" /\ caller[c].save.state = "IN_PROGRESS"
  BY RemoversPass DEF IInv
<1>2. CASE Workspace
  BY <1>1, <1>2 DEF IInv, Fences, Destructive
<1>3. CASE ~Workspace
  <2>1. caller[c].id \in DeletionIds
    BY <1>1 DEF IInv, Types, CallersTyped
  <2>2. audit[caller[c].id] = None \/ Own(c)
    BY <1>1, <1>3 DEF IInv, Fences
  <2>3. Own(c) => audit[caller[c].id] # None /\ Destructive(audit[caller[c].id])
    BY DEF Own, Destructive
  <2> QED
    BY <1>1, <1>3, <2>1, <2>2, <2>3 DEF Fenced, Unfenced
<1> QED
  BY <1>2, <1>3

\* Product writes are out before the first document goes, and stay out until a call
\* completes or blocks the deletion (_set_fence, _deletion_fenced).  Only in a scope may
\* a cleanup, which takes no lock, let them in again; under a pass the lock still keeps
\* them from the documents it is about.
THEOREM RemovalsFenced == DeletionSpec => RemovalIsFenced
<1> DEFINE First == (\E k \in Class \ {"metrics"} : Present(k) /\ file'[k] = 0) =>
                      Fenced \/ \E c \in Deleters : Unfenced(c)
           Last == Fenced /\ ~Fenced' =>
                     \/ \E c \in Deleters : Lifts(c)
                     \/ ~Workspace /\ \E d \in DeletionIds : audit[d] # None /\ audit'[d] = None
           Beside == (\E c \in Deleters : InPass(c)) =>
                       /\ \A k \in Anchor : file'[k] \in {file[k], 0}
                       /\ Present("job") => lifecycle' = lifecycle
                       /\ Present("state") => phase' = phase
<1>1. ASSUME IInv, [DeletionNext]_deletionVars PROVE First
  <2> SUFFICES ASSUME NEW k \in Class \ {"metrics"}, Present(k), file'[k] = 0
               PROVE  Fenced \/ \E c \in Deleters : Unfenced(c)
    OBVIOUS
  <2>1. PICK c \in Deleters : RemoveTarget(c)
    BY <1>1, Vanishing DEF IInv
  <2>2. ~Bare
    BY DEF Bare, Files
  <2> QED
    BY <1>1, <2>1, <2>2, RemovalNeedsTheFence DEF Fenced
<1>2. ASSUME IInv, [DeletionNext]_deletionVars PROVE Last
  <2> USE DEF given, runFiles, control, surroundings
  <2> SUFFICES ASSUME Fenced, ~Fenced',
                      Workspace \/ \A d \in DeletionIds : audit[d] # None => audit'[d] # None
               PROVE  \E c \in Deleters : Lifts(c)
    OBVIOUS
  <2>a. Types /\ Layout /\ Fences /\ fence \in [file : BOOLEAN, field : BOOLEAN]
    BY <1>2 DEF IInv, Types, DeletionTypeOK
  <2>b. Workspace' <=> Workspace
    BY <1>2, <2>a, BackendStays
  <2>c. ASSUME NEW c \in Deleters, caller[c].pc \in {"save", "fence", "mark"}, ~Destructive(caller[c].save) PROVE Lifts(c)
    <3>1. caller[c].save \in Audit
      BY <2>a, <2>c DEF Types, CallersTyped, Holding
    <3>2. caller[c].save.state \in {"BLOCKED", "IN_PROGRESS", "PARTIAL", "COMPLETE"}
      BY <3>1 DEF Audit
    <3> QED
      BY <2>c, <3>2 DEF Lifts, Destructive
  <2>1. CASE Workspace
    <3>1. ~fence'.file /\ ~fence'.field /\ (fence.file \/ fence.field)
      BY <2>1, <2>b DEF Fenced
    <3>2. fence.field => ~Bare
      BY <2>a DEF Layout, Bare, Files, Class
    <3>3. ASSUME NEW c \in Deleters, SetFence(c) PROVE Lifts(c)
      <4>1. caller[c].pc = "fence" /\ ~Destructive(caller[c].save)
        BY <2>a, <3>1, <3>3 DEF SetFence
      <4> QED
        BY <2>c, <4>1
    <3>4. ASSUME NEW c \in Deleters, MarkState(c) PROVE Lifts(c)
      <4>1. caller[c].pc = "mark" /\ ~fence.file
        BY <2>a, <3>1, <3>4 DEF MarkState
      <4>2. ~Destructive(caller[c].save)
        BY <2>1, <2>a, <3>1, <3>2, <4>1 DEF Fences
      <4> QED
        BY <2>c, <4>1, <4>2
    <3>5. ASSUME NEW c \in Deleters, RemoveTarget(c) PROVE FALSE
      <4>1. ~fence.file
        BY <2>a, <3>1, <3>5 DEF RemoveTarget
      <4> QED
        BY <1>2, <2>1, <3>1, <3>2, <3>5, <4>1, RemovalNeedsTheFence
    <3>6. ASSUME NEW c \in Deleters, QuietStep(c) PROVE fence' = fence
      BY <2>a, <3>6, QuietMoves DEF Moved, Still
    <3>7. fence' # fence
      BY <3>1
    <3> QED
      BY <1>2, <3>3, <3>4, <3>5, <3>6, <3>7, StepsAre DEF SaveAudit, EndPass, EndRun, EndJob, Acknowledge,
         WriteContent, CheckRun, ChargeBudget, Resubmit, Preview, StepsOfCleanup, ChangeHold, deletionVars
  <2>2. CASE ~Workspace
    <3>1. PICK d \in DeletionIds : audit[d] # None /\ Destructive(audit[d])
      BY <2>2 DEF Fenced
    <3>2. audit'[d] # None
      BY <2>2, <3>1
    <3>3. ~(audit'[d].state \in {"IN_PROGRESS", "PARTIAL"})
      BY <2>2, <2>b, <3>2 DEF Fenced, Destructive
    <3>4. PICK c \in Deleters : SaveAudit(c) /\ audit'[d] = caller[c].save
      BY <1>2, <2>a, <3>1, <3>2, <3>3, AuditMoves DEF Destructive
    <3> QED
      BY <2>c, <3>3, <3>4 DEF SaveAudit, Destructive
  <2> QED
    BY <2>1, <2>2
<1>3. ASSUME IInv, [DeletionNext]_deletionVars PROVE Beside
  <2> SUFFICES ASSUME NEW c \in Deleters, InPass(c)
               PROVE  /\ \A k \in Anchor : file'[k] \in {file[k], 0}
                      /\ Present("job") => lifecycle' = lifecycle
                      /\ Present("state") => phase' = phase
    OBVIOUS
  <2>1. Types /\ Layout /\ Locking
    BY <1>3 DEF IInv
  <2> QED
    BY <1>3, <2>1, Undisturbed, LifeStays
<1>4. IInv /\ [DeletionNext]_deletionVars => [First /\ Last /\ Beside]_deletionVars
  BY <1>1, <1>2, <1>3
<1> QED
  BY <1>4, Invariance, PTL DEF DeletionSpec, RemovalIsFenced

=============================================================================
