-------------------------- MODULE WorkspaceRunProofs --------------------------
(***************************************************************************)
(* Proofs about WorkspaceRun, for any number of work units, repairs and    *)
(* setbacks.                                                               *)
(*                                                                         *)
(* A call promises the versions that it has yet to write when it takes the *)
(* lock; Write only keeps the promise, and Dies breaks it off between two  *)
(* of them.  So every version has to be sound by itself, and to keep what  *)
(* the one before it had: that is what Path says of the pending versions,  *)
(* and each call is shown to set out on a path from the run it finds.      *)
(***************************************************************************)
EXTENDS WorkspaceRun, TLAPS, WellFoundedInduction

\* What the bounds amount to in the proofs.
LEMMA RunBoundsFact == UnitCount \in Nat /\ UnitCount > 0 /\ MaxRepairs \in Nat
  BY RunBounds

-----------------------------------------------------------------------------
(* The invariant *)

\* The phases in which no unit has been handed out yet; prepare, normalisation
\* and extraction mark every unit afresh.
Untouched == FailurePhase \cup Early

Sound(r) ==
  /\ r \in Run
  /\ Earned(r)
  /\ r.phase \in Untouched => WithStatus(r, Translated) = {}

Keeps(r, s) == \A u \in Units : GoodUnit(r, u) => GoodUnit(s, u)

\* A sequence of versions that may follow r on the disk, one by one.
Path(r, versions) ==
  /\ versions \in Seq(Run)
  /\ \A i \in 1..Len(versions) :
       Sound(versions[i]) /\ Keeps(IF i = 1 THEN r ELSE versions[i - 1], versions[i])

Reports == [lifecycle : DOMAIN Successors, outcome : {"NONE", "DONE", "NEEDS_REVIEW", "PROCESSING_FAILED"}]
Justified == report.outcome = "DONE" => \A u \in Units : GoodUnit(run, u)

\* Nothing in them is about to move the run on.
Idle(versions) == \A i \in 1..Len(versions) : versions[i].phase = "CREATED"

RunInv ==
  /\ Sound(run)
  /\ Path(run, pending)
  /\ job \in Reports /\ report \in Reports
  /\ Justified
  /\ ahead \in {"create", "admit"} => run.phase = "CREATED" /\ Idle(pending)

-----------------------------------------------------------------------------
(* Paths *)

LEMMA PathOfNothing == ASSUME NEW r PROVE Path(r, <<>>)
  BY DEF Path

LEMMA PathOfOne ==
  ASSUME NEW r, NEW a, Sound(a), Keeps(r, a)
  PROVE  Path(r, <<a>>)
  BY DEF Path, Sound

LEMMA PathOfTwo ==
  ASSUME NEW r, NEW a, NEW b, Sound(a), Sound(b), Keeps(r, a), Keeps(a, b)
  PROVE  Path(r, <<a, b>>)
  BY DEF Path, Sound

LEMMA PathOfThree ==
  ASSUME NEW r, NEW a, NEW b, NEW c, Sound(a), Sound(b), Sound(c),
         Keeps(r, a), Keeps(a, b), Keeps(b, c)
  PROVE  Path(r, <<a, b, c>>)
<1> DEFINE v == <<a, b, c>>
<1>1. a \in Run /\ b \in Run /\ c \in Run
  BY DEF Sound
<1>2. v \in Seq(Run) /\ Len(v) = 3 /\ v[1] = a /\ v[2] = b /\ v[3] = c
  BY <1>1
<1>3. ASSUME NEW i \in 1..3
      PROVE  Sound(v[i]) /\ Keeps(IF i = 1 THEN r ELSE v[i - 1], v[i])
  <2>1. i = 1 \/ i = 2 \/ i = 3
    OBVIOUS
  <2> HIDE DEF v
  <2> QED
    BY <2>1, <1>2
<1> HIDE DEF v
<1>4. Path(r, v)
  BY <1>2, <1>3 DEF Path
<1> QED
  BY <1>4 DEF v

\* A path may be entered one version earlier.
LEMMA PathFromBefore ==
  ASSUME NEW r, NEW a, Sound(a), Keeps(r, a), NEW versions, Path(a, versions)
  PROVE  Path(r, <<a>> \o versions)
<1> DEFINE w == <<a>> \o versions
<1>1. /\ versions \in Seq(Run) /\ a \in Run
      /\ w \in Seq(Run) /\ Len(w) = Len(versions) + 1
      /\ w[1] = a /\ \A i \in 1..Len(versions) : w[i + 1] = versions[i]
  BY DEF Path, Sound
<1>2. ASSUME NEW i \in 1..Len(w)
      PROVE  Sound(w[i]) /\ Keeps(IF i = 1 THEN r ELSE w[i - 1], w[i])
  <2>1. CASE i = 1
    BY <2>1, <1>1
  <2>2. CASE i > 1
    <3> DEFINE j == i - 1
    <3>1. j \in 1..Len(versions) /\ i = j + 1 /\ i # 1
      BY <2>2, <1>1
    <3>2. w[i] = versions[j]
      BY <3>1, <1>1
    <3>3. w[i - 1] = IF j = 1 THEN a ELSE versions[j - 1]
      <4>1. CASE j = 1
        BY <4>1, <3>1, <1>1
      <4>2. CASE j > 1
        <5>1. j - 1 \in 1..Len(versions) /\ i - 1 = (j - 1) + 1
          BY <3>1, <4>2, <1>1
        <5>2. w[(j - 1) + 1] = versions[j - 1]
          BY <5>1, <1>1
        <5> QED
          BY <5>1, <5>2, <4>2
      <4> QED
        BY <4>1, <4>2, <3>1
    <3>4. Sound(versions[j]) /\ Keeps(IF j = 1 THEN a ELSE versions[j - 1], versions[j])
      BY <3>1 DEF Path
    <3> HIDE DEF w, j
    <3> QED
      BY <3>1, <3>2, <3>3, <3>4
  <2> QED
    BY <2>1, <2>2, <1>1
<1> HIDE DEF w
<1>3. Path(r, w)
  BY <1>1, <1>2 DEF Path
<1> QED
  BY <1>3 DEF w

\* Writing the next version leaves the rest of the path.
LEMMA PathGoesOn ==
  ASSUME NEW r, NEW versions, Path(r, versions), versions # <<>>
  PROVE  /\ Sound(Head(versions)) /\ Keeps(r, Head(versions))
         /\ Path(Head(versions), Tail(versions))
<1> DEFINE t == Tail(versions)
           h == Head(versions)
<1>1. /\ versions \in Seq(Run) /\ Len(versions) \in Nat /\ Len(versions) > 0 /\ h = versions[1]
      /\ t \in Seq(Run) /\ Len(t) = Len(versions) - 1
      /\ \A i \in 1..Len(t) : t[i] = versions[i + 1]
  BY DEF Path
<1>2. Sound(h) /\ Keeps(r, h)
  <2>1. 1 \in 1..Len(versions)
    BY <1>1
  <2> QED
    BY <2>1, <1>1 DEF Path
<1>3. ASSUME NEW i \in 1..Len(t)
      PROVE  Sound(t[i]) /\ Keeps(IF i = 1 THEN h ELSE t[i - 1], t[i])
  <2>1. i + 1 \in 1..Len(versions) /\ i + 1 # 1 /\ (i + 1) - 1 = i /\ t[i] = versions[i + 1]
    BY <1>1
  <2>2. Sound(versions[i + 1]) /\ Keeps(versions[i], versions[i + 1])
    BY <2>1 DEF Path
  <2>3. versions[i] = IF i = 1 THEN h ELSE t[i - 1]
    <3>1. CASE i = 1
      BY <3>1, <1>1
    <3>2. CASE i > 1
      <4>1. i - 1 \in 1..Len(t) /\ (i - 1) + 1 = i
        BY <3>2, <1>1
      <4>2. t[i - 1] = versions[(i - 1) + 1]
        BY <4>1, <1>1
      <4> QED
        BY <4>1, <4>2, <3>2
    <3> QED
      BY <3>1, <3>2, <1>1
  <2> HIDE DEF t, h
  <2> QED
    BY <2>1, <2>2, <2>3
<1> HIDE DEF t, h
<1>4. Path(h, t)
  BY <1>1, <1>3 DEF Path
<1> QED
  BY <1>2, <1>4 DEF t, h

-----------------------------------------------------------------------------
(* Versions *)

UnitRecord == [status : UnitStatus, repairs : 0..MaxRepairs, ir : Quality \cup {""}]
AllGood(r) == \A u \in Units : GoodUnit(r, u)
Won == {"VERIFIED", "COMPLETE"}

Moved(r, n, p) == [r EXCEPT !.current = n, !.phase = p]
WithUnits(r, f) == [r EXCEPT !.unit = f]
Recorded(r, u, q, x) == [r EXCEPT !.unit[u].ir = q, !.unit[u].status = x]
Handed(r, u, x, n) == [r EXCEPT !.unit[u].status = x, !.unit[u].repairs = n]

\* What a version has to show to be sound: it keeps the good work, and claims
\* nothing new unless all of it is good.
LEMMA Advance ==
  ASSUME NEW r, Sound(r), NEW s \in Run, Keeps(r, s),
         s.sentinel => r.sentinel \/ AllGood(r),
         s.phase \in Won => r.phase \in Won \/ AllGood(r),
         s.phase \in Untouched => WithStatus(s, Translated) = {}
  PROVE  Sound(s)
<1>1. s.phase \in Won \/ s.sentinel => AllGood(r)
  BY DEF Sound, Earned, Won, AllGood
<1> QED
  BY <1>1 DEF Sound, Earned, Won, AllGood, Keeps

\* A run in one of the claiming phases, or with the sentinel, is good throughout,
\* so that no unit of it awaits anything.
LEMMA NothingToDo ==
  ASSUME NEW r, Sound(r), NEW u \in Units, r.unit[u].status \notin Translated
  PROVE  ~GoodUnit(r, u) /\ r.phase \notin Won /\ ~r.sentinel
  BY DEF Sound, Earned, GoodUnit, Won

\* A new phase and another unit in hand.
LEMMA MoveSound ==
  ASSUME NEW r, Sound(r), NEW p \in Phase \cup FailurePhase, NEW n \in Units \cup {NoUnit},
         p \in Won => r.phase \in Won \/ AllGood(r), p \in Untouched => r.phase \in Untouched
  PROVE  LET s == Moved(r, n, p)
         IN /\ Sound(s) /\ Keeps(r, s) /\ s.phase = p
            /\ s.unit = r.unit /\ s.ir = r.ir /\ s.registry = r.registry
            /\ s.marker = r.marker /\ s.sentinel = r.sentinel
            /\ AllGood(s) = AllGood(r)
<1> DEFINE s == Moved(r, n, p)
<1>1. /\ s \in Run /\ s.phase = p
      /\ s.unit = r.unit /\ s.ir = r.ir /\ s.registry = r.registry
      /\ s.marker = r.marker /\ s.sentinel = r.sentinel
  BY DEF Sound, Run, Moved
<1> HIDE DEF s
<1>2. \A u \in Units : GoodUnit(s, u) = GoodUnit(r, u)
  BY <1>1 DEF GoodUnit
<1>3. Keeps(r, s) /\ AllGood(s) = AllGood(r)
  BY <1>2 DEF Keeps, AllGood
<1>4. s.phase \in Untouched => WithStatus(s, Translated) = {}
  BY <1>1 DEF Sound, WithStatus
<1>5. Sound(s)
  BY <1>1, <1>3, <1>4, Advance
<1> QED
  BY <1>1, <1>3, <1>5 DEF s

LEMMA ToSound ==
  ASSUME NEW r, Sound(r), NEW p \in Phase \cup FailurePhase,
         p \in Won => r.phase \in Won \/ AllGood(r), p \in Untouched => r.phase \in Untouched
  PROVE  /\ Sound(To(r, p)) /\ Keeps(r, To(r, p)) /\ To(r, p).phase = p
         /\ To(r, p).unit = r.unit /\ To(r, p).ir = r.ir /\ To(r, p).registry = r.registry
         /\ To(r, p).marker = r.marker /\ To(r, p).sentinel = r.sentinel
         /\ AllGood(To(r, p)) = AllGood(r)
<1>1. r.current \in Units \cup {NoUnit}
  BY DEF Sound, Run
<1>2. To(r, p) = Moved(r, r.current, p)
  BY DEF To, Moved, Sound, Run
<1> QED
  BY <1>1, <1>2, MoveSound

\* Another state of the units, under the same phase.
LEMMA UnitsSound ==
  ASSUME NEW r, Sound(r), NEW f \in [Units -> UnitRecord],
         \A v \in Units : GoodUnit(r, v) => f[v].status \in Translated /\ f[v].ir = r.unit[v].ir,
         r.phase \in Untouched => \A v \in Units : f[v].status \notin Translated
  PROVE  LET s == WithUnits(r, f)
         IN /\ Sound(s) /\ Keeps(r, s)
            /\ s.phase = r.phase /\ s.unit = f /\ s.ir = r.ir /\ s.registry = r.registry
            /\ s.marker = r.marker /\ s.sentinel = r.sentinel /\ s.current = r.current
<1> DEFINE s == WithUnits(r, f)
<1>1. /\ s \in Run /\ s.phase = r.phase /\ s.unit = f /\ s.ir = r.ir /\ s.registry = r.registry
      /\ s.marker = r.marker /\ s.sentinel = r.sentinel /\ s.current = r.current
  BY DEF Sound, Run, UnitRecord, WithUnits
<1> HIDE DEF s
<1>2. Keeps(r, s)
  BY <1>1 DEF Keeps, GoodUnit
<1>3. s.phase \in Untouched => WithStatus(s, Translated) = {}
  BY <1>1 DEF WithStatus
<1>4. Sound(s)
  BY <1>1, <1>2, <1>3, Advance
<1> QED
  BY <1>1, <1>2, <1>4 DEF s

LEMMA MarkedSound ==
  ASSUME NEW r, Sound(r), r.phase \in Untouched, NEW x \in UnitStatus \ Translated
  PROVE  /\ Sound(Marked(r, x)) /\ Keeps(r, Marked(r, x)) /\ Marked(r, x).phase = r.phase
         /\ WithStatus(Marked(r, x), Translated) = {}
<1> DEFINE f == [u \in Units |-> [r.unit[u] EXCEPT !.status = x]]
<1>1. r.unit \in [Units -> UnitRecord]
  BY DEF Sound, Run, UnitRecord
<1>2. f \in [Units -> UnitRecord] /\ \A v \in Units : f[v].status = x
  BY <1>1 DEF UnitRecord
<1>3. \A v \in Units : ~GoodUnit(r, v)
  BY DEF Sound, WithStatus, GoodUnit
<1>4. Marked(r, x) = WithUnits(r, f)
  BY DEF Marked, WithUnits, Sound, Run
<1> HIDE DEF f
<1>5. /\ Sound(Marked(r, x)) /\ Keeps(r, Marked(r, x)) /\ Marked(r, x).phase = r.phase
      /\ Marked(r, x).unit = f
  BY <1>2, <1>3, <1>4, UnitsSound
<1> QED
  BY <1>2, <1>5 DEF WithStatus

-----------------------------------------------------------------------------
(* Calls *)

\* The first unit of a set that is not empty belongs to it.
LEMMA FirstIsMember ==
  ASSUME NEW S \in SUBSET Units, S # {}
  PROVE  First(S) \in S
<1> DEFINE R == {ss \in Nat \X Nat : ss[1] < ss[2]}
<1>1. S \subseteq Nat
  BY RunBoundsFact DEF Units
<1>2. IsWellFoundedOn(R, Nat)
  BY NatLessThanWellFounded, Zenon DEF OpToRel
<1>3. \E u \in S : \A v \in S : ~(<<v, u>> \in R)
  BY <1>1, <1>2, WFMin
<1>4. PICK u \in S : \A v \in S : ~(<<v, u>> \in R)
  BY <1>3
<1>5. ASSUME NEW v \in S PROVE u <= v
  <2>1. <<v, u>> \in Nat \X Nat /\ u \in Nat /\ v \in Nat
    BY <1>1
  <2>2. ~(v < u)
    BY <2>1, <1>4
  <2> QED
    BY <2>1, <2>2
<1> QED
  BY <1>5 DEF First

\* A call that sets out on a path keeps the invariant and leaves the files alone.
LEMMA CallKeeps ==
  ASSUME RunInv, NEW name, NEW versions, Commits(name, versions), Path(run, versions),
         \/ ahead' \in {"nothing", "fail"}
         \/ ahead' = ahead /\ (run.phase = "CREATED" => Idle(versions))
  PROVE  RunInv' /\ run' = run /\ job' = job
<1>1. run' = run /\ job' = job /\ report' = report /\ pending' = versions
  BY DEF Commits
<1>2. Sound(run)' /\ Path(run, pending)'
  BY <1>1 DEF RunInv
<1>3. Justified' /\ (ahead' \in {"create", "admit"} => run'.phase = "CREATED" /\ Idle(pending)')
  BY <1>1 DEF RunInv, Justified, Idle
<1> QED
  BY <1>1, <1>2, <1>3 DEF RunInv

LEMMA AdmitKeeps ==
  ASSUME RunInv, NEW p \in {"INPUT_VALIDATED", "FAILED_INPUT", "FAILED_RUNTIME"}, Admit(p)
  PROVE  RunInv' /\ run' = run /\ job' = job
<1>1. run.phase = "CREATED" /\ Sound(run)
  BY DEF RunInv, Admit
<1>2. Sound(To(run, p)) /\ Keeps(run, To(run, p))
  BY <1>1, ToSound DEF Won, Untouched, Early, FailurePhase, Phase
<1>3. Path(run, <<To(run, p)>>)
  BY <1>2, PathOfOne
<1> QED
  BY <1>3, CallKeeps DEF Admit

LEMMA NormalizeKeeps ==
  ASSUME RunInv, NEW succeeds \in BOOLEAN, Normalize(succeeds)
  PROVE  RunInv' /\ run' = run /\ job' = job
<1> DEFINE begun == To(run, "NORMALIZING")
           queued == Marked(begun, "NORMALIZED")
           done == To(queued, "NORMALIZED")
           failed == To(begun, "FAILED_NORMALIZATION")
<1> USE DEF Won, Untouched, Early, FailurePhase, Phase
<1>1. run.phase \in Untouched /\ Sound(run)
  BY DEF RunInv, Normalize
<1>2. Sound(begun) /\ Keeps(run, begun) /\ begun.phase = "NORMALIZING"
  BY <1>1, ToSound
<1>3. Sound(queued) /\ Keeps(begun, queued) /\ queued.phase = "NORMALIZING"
  BY <1>2, MarkedSound DEF UnitStatus, Translated
<1>4. Sound(done) /\ Keeps(queued, done)
  BY <1>3, ToSound
<1>5. Sound(failed) /\ Keeps(begun, failed)
  BY <1>2, ToSound
<1>6. Path(run, <<begun, queued, done>>)
  BY <1>2, <1>3, <1>4, PathOfThree
<1>7. Path(run, <<begun, failed>>)
  BY <1>2, <1>5, PathOfTwo
<1> HIDE DEF begun, queued, done, failed
<1>8. Path(run, IF succeeds THEN <<begun, queued, done>> ELSE <<begun, failed>>)
  BY <1>6, <1>7
<1>9. Decides("normalize", IF succeeds THEN <<begun, queued, done>> ELSE <<begun, failed>>)
  BY DEF Normalize, begun, queued, done, failed
<1>10. run.phase # "CREATED"
  BY DEF Normalize
<1> QED
  BY <1>8, <1>9, <1>10, CallKeeps DEF Decides

LEMMA ExtractKeeps ==
  ASSUME RunInv, Extract
  PROVE  RunInv' /\ run' = run /\ job' = job
<1> DEFINE begun == To(run, "EXTRACTING")
           queued == Marked(begun, "READY")
           done == [To(queued, "EXTRACTED") EXCEPT !.current = NoUnit]
<1> USE DEF Won, Untouched, Early, FailurePhase, Phase
<1>1. run.phase \in Untouched /\ Sound(run)
  BY DEF RunInv, Extract
<1>2. Sound(begun) /\ Keeps(run, begun) /\ begun.phase = "EXTRACTING"
  BY <1>1, ToSound
<1>3. Sound(queued) /\ Keeps(begun, queued) /\ queued.phase = "EXTRACTING"
  BY <1>2, MarkedSound DEF UnitStatus, Translated
<1>4. done = Moved(queued, NoUnit, "EXTRACTED")
  BY <1>3 DEF To, Moved, Sound, Run
<1> HIDE DEF begun, queued, done
<1>5. Sound(done) /\ Keeps(queued, done)
  BY <1>3, <1>4, MoveSound
<1>6. Path(run, <<begun, queued, done>>)
  BY <1>2, <1>3, <1>5, PathOfThree
<1> QED
  BY <1>6, CallKeeps DEF Extract, Decides, begun, queued, done

LEMMA ExtractFailsKeeps ==
  ASSUME RunInv, ExtractFails
  PROVE  RunInv' /\ run' = run /\ job' = job
<1> USE DEF Won, Untouched, Early, FailurePhase, Phase
<1>1. Sound(To(run, "EXTRACTING")) /\ Keeps(run, To(run, "EXTRACTING"))
  BY ToSound DEF RunInv, ExtractFails
<1>2. Path(run, <<To(run, "EXTRACTING")>>)
  BY <1>1, PathOfOne
<1> QED
  BY <1>2, CallKeeps DEF ExtractFails

LEMMA RecordFailureKeeps ==
  ASSUME RunInv, RecordFailure
  PROVE  RunInv' /\ run' = run /\ job' = job
<1> USE DEF Won, Untouched, Early, FailurePhase, Phase
<1>1. CASE run.phase = "EXTRACTING"
  <2>1. Sound(To(run, "FAILED_EXTRACTION")) /\ Keeps(run, To(run, "FAILED_EXTRACTION"))
    BY <1>1, ToSound DEF RunInv
  <2>2. Path(run, <<To(run, "FAILED_EXTRACTION")>>)
    BY <2>1, PathOfOne
  <2> QED
    BY <1>1, <2>2, CallKeeps DEF RecordFailure
<1>2. CASE run.phase # "EXTRACTING"
  <2>1. run' = run /\ job' = job /\ report' = report /\ pending' = pending /\ ahead' = "nothing"
    BY <1>2 DEF RecordFailure
  <2> QED
    BY <2>1 DEF RunInv, Justified
<1> QED
  BY <1>1, <1>2

-----------------------------------------------------------------------------
(* next *)

\* A unit that is handed out leaves the good work alone: it was not part of it.
LEMMA HandOut ==
  ASSUME NEW r, Sound(r), NEW u \in Units, NEW x \in UnitStatus, NEW n \in 0..MaxRepairs,
         r.unit[u].status \notin Translated, x \notin Translated,
         NEW p \in Phase, p \in Won \cup Untouched => p = r.phase,
         NEW m \in Units \cup {NoUnit}
  PROVE  LET queued == Handed(r, u, x, n)
         IN Path(r, <<queued, Moved(queued, m, p)>>)
<1> DEFINE queued == Handed(r, u, x, n)
           s == Moved(queued, m, p)
           f == [r.unit EXCEPT ![u] = [status |-> x, repairs |-> n, ir |-> @.ir]]
<1>1. r.unit \in [Units -> UnitRecord]
  BY DEF Sound, Run, UnitRecord
<1>2. f \in [Units -> UnitRecord]
  BY <1>1 DEF UnitRecord
<1>3. \A v \in Units : f[v] = IF v = u THEN [status |-> x, repairs |-> n, ir |-> r.unit[u].ir]
                                       ELSE r.unit[v]
  BY <1>1
<1>4. queued = WithUnits(r, f)
  <2> DEFINE g == [[r.unit EXCEPT ![u].status = x] EXCEPT ![u].repairs = n]
  <2>1. g \in [Units -> UnitRecord]
    BY <1>1 DEF UnitRecord
  <2>2. ASSUME NEW v \in Units PROVE g[v] = f[v]
    <3>1. CASE v # u
      BY <3>1, <1>1
    <3>2. CASE v = u
      <4>1. r.unit[u] \in UnitRecord
        BY <1>1
      <4>2. g[u] = [[r.unit[u] EXCEPT !.status = x] EXCEPT !.repairs = n]
        BY <1>1
      <4>3. g[u] = [status |-> x, repairs |-> n, ir |-> r.unit[u].ir]
        BY <4>1, <4>2 DEF UnitRecord
      <4> QED
        BY <3>2, <4>3, <1>3
    <3> QED
      BY <3>1, <3>2
  <2>3. g = f
    BY <1>2, <2>1, <2>2
  <2>4. queued = [r EXCEPT !.unit = g]
    BY DEF Handed, Sound, Run
  <2> HIDE DEF f, g, queued
  <2> QED
    BY <2>3, <2>4 DEF WithUnits
<1> HIDE DEF f, queued, s
<1>5. \A v \in Units : GoodUnit(r, v) => f[v].status \in Translated /\ f[v].ir = r.unit[v].ir
  BY <1>3 DEF GoodUnit
<1>6. r.phase \in Untouched => \A v \in Units : f[v].status \notin Translated
  BY <1>3 DEF Sound, WithStatus
<1>7. Sound(queued) /\ Keeps(r, queued) /\ queued.phase = r.phase
  BY <1>2, <1>4, <1>5, <1>6, UnitsSound
<1>8. r.phase \notin Won
  BY NothingToDo
<1>9. Sound(s) /\ Keeps(queued, s)
  BY <1>7, <1>8, MoveSound DEF s
<1> QED
  BY <1>7, <1>9, PathOfTwo DEF queued, s

LEMMA NextReadyKeeps ==
  ASSUME RunInv, NextReady
  PROVE  RunInv' /\ run' = run /\ job' = job
<1> DEFINE u == First(WithStatus(run, {"READY"}))
           queued == [run EXCEPT !.unit[u].status = "TRANSLATING"]
           reviewing == run.phase # "TRANSLATING" /\ AwaitsReview(run)
           s == [queued EXCEPT !.current = u, !.phase = IF reviewing THEN @ ELSE "TRANSLATING"]
           p == IF reviewing THEN run.phase ELSE "TRANSLATING"
<1>1. Decides("next", <<queued, s>>)
  BY DEF NextReady
<1>2. Sound(run) /\ run \in Run
  BY DEF RunInv, Sound
<1>3. u \in Units /\ run.unit[u].status = "READY"
  BY FirstIsMember DEF NextReady, Offers, WithStatus
<1>4. p \in Phase /\ (p \in Won \cup Untouched => p = run.phase)
  BY <1>2 DEF NextReady, Offers, Stopped, Run, Phase, Won, Untouched, FailurePhase, Early
<1>5. queued = Handed(run, u, "TRANSLATING", run.unit[u].repairs)
  <2> HIDE DEF u
  <2> QED
    BY <1>2, <1>3 DEF Run, Handed
<1>6. queued.phase = run.phase
  <2> HIDE DEF u
  <2> QED
    BY <1>2 DEF Run
<1>7. s = Moved(queued, u, p)
  <2> HIDE DEF u, queued
  <2>1. run \in Run
    BY <1>2
  <2> QED
    BY <1>6 DEF Moved
<1>8. run.unit[u].repairs \in 0..MaxRepairs
  BY <1>2, <1>3 DEF Run
<1> HIDE DEF u, queued, s, p, reviewing
<1>9. Path(run, <<queued, s>>)
  BY <1>2, <1>3, <1>4, <1>5, <1>7, <1>8, HandOut DEF UnitStatus, Translated
<1>10. run.phase # "CREATED"
  BY DEF NextReady, Offers, Stopped, Early
<1> QED
  BY <1>1, <1>9, <1>10, CallKeeps DEF Decides

LEMMA NextRepairKeeps ==
  ASSUME RunInv, NextRepair
  PROVE  RunInv' /\ run' = run /\ job' = job
<1> DEFINE u == First(WithStatus(run, {"VERIFY_FAILED", "REPAIRING"}))
           queued == [run EXCEPT !.unit[u].status = "REPAIRING", !.unit[u].repairs = @ + 1]
           s == [queued EXCEPT !.current = u, !.phase = "REPAIRING"]
           n == run.unit[u].repairs + 1
<1>1. Decides("next", <<queued, s>>) /\ run.unit[u].repairs < MaxRepairs
  BY DEF NextRepair
<1>2. Sound(run) /\ run \in Run
  BY DEF RunInv, Sound
<1>3. u \in Units /\ run.unit[u].status \in {"VERIFY_FAILED", "REPAIRING"}
  BY FirstIsMember DEF NextRepair, ForRepair, Offers, WithStatus
<1>4. queued = Handed(run, u, "REPAIRING", n)
  <2> HIDE DEF u
  <2> QED
    BY <1>2, <1>3 DEF Run, Handed
<1>5. n \in 0..MaxRepairs
  <2> HIDE DEF u
  <2> QED
    <3>1. run.unit[u].repairs \in 0..MaxRepairs
      BY <1>2, <1>3 DEF Run
    <3> QED
      BY <3>1, <1>1, RunBoundsFact
<1>7. s = Moved(queued, u, "REPAIRING")
  BY DEF Moved
<1> HIDE DEF u, queued, s, n
<1>6. Path(run, <<queued, s>>)
  BY <1>7, <1>2, <1>3, <1>4, <1>5, HandOut
     DEF UnitStatus, Translated, Phase, Won, Untouched, FailurePhase, Early
<1>8. run.phase # "CREATED"
  BY DEF NextRepair, ForRepair, Offers, Stopped, Early
<1> QED
  BY <1>1, <1>6, <1>8, CallKeeps DEF Decides, s

LEMMA NextExhaustedKeeps ==
  ASSUME RunInv, NextExhausted
  PROVE  RunInv' /\ run' = run /\ job' = job
<1> DEFINE u == First(WithStatus(run, {"VERIFY_FAILED", "REPAIRING"}))
           queued == [run EXCEPT !.unit[u].status = "NEEDS_REVIEW"]
           s == [queued EXCEPT !.current = NoUnit, !.phase = "NEEDS_REVIEW"]
<1>1. Decides("next", <<queued, s>>)
  BY DEF NextExhausted
<1>2. Sound(run) /\ run \in Run
  BY DEF RunInv, Sound
<1>3. u \in Units /\ run.unit[u].status \in {"VERIFY_FAILED", "REPAIRING"}
  BY FirstIsMember DEF NextExhausted, ForRepair, Offers, WithStatus
<1>4. queued = Handed(run, u, "NEEDS_REVIEW", run.unit[u].repairs)
  <2> HIDE DEF u
  <2> QED
    BY <1>2, <1>3 DEF Run, Handed
<1>5. run.unit[u].repairs \in 0..MaxRepairs
  BY <1>2, <1>3 DEF Run
<1>7. s = Moved(queued, NoUnit, "NEEDS_REVIEW")
  BY DEF Moved
<1>8. NoUnit \in Units \cup {NoUnit} /\ "NEEDS_REVIEW" \in UnitStatus \ Translated
  BY DEF UnitStatus, Translated
<1>9. "NEEDS_REVIEW" \in Phase \ (Won \cup Untouched) /\ run.unit[u].status \notin Translated
  BY <1>3 DEF Translated, Phase, Won, Untouched, FailurePhase, Early
<1> HIDE DEF u, queued, s
<1>6. Path(run, <<queued, s>>)
  BY <1>7, <1>2, <1>3, <1>4, <1>5, <1>8, <1>9, HandOut
<1>10. run.phase # "CREATED"
  BY DEF NextExhausted, ForRepair, Offers, Stopped, Early
<1> QED
  BY <1>1, <1>6, <1>10, CallKeeps DEF Decides, s

-----------------------------------------------------------------------------
(* submit, assess, resolve *)

LEMMA RewrittenSound ==
  ASSUME NEW r, Sound(r), NEW u \in Units, r.unit[u].status \notin Translated,
         NEW q \in Quality, NEW affects \in BOOLEAN
  PROVE  LET s == Rewritten(r, u, q, affects)
         IN Sound(s) /\ Keeps(r, s) /\ s.phase = r.phase /\ s.unit = r.unit
<1> DEFINE s == Rewritten(r, u, q, affects)
<1>1. s \in Run /\ s.phase = r.phase /\ s.unit = r.unit /\ s.sentinel = r.sentinel
  BY DEF Rewritten, Sound, Run, Registry
<1>2. \A v \in Units : v # u => s.ir[v] = r.ir[v]
  BY DEF Rewritten, Sound, Run
<1> HIDE DEF s
<1>3. Keeps(r, s)
  BY <1>1, <1>2 DEF Keeps, GoodUnit
<1>4. s.phase \in Untouched => WithStatus(s, Translated) = {}
  BY <1>1 DEF Sound, WithStatus
<1>5. Sound(s)
  BY <1>1, <1>3, <1>4, Advance
<1> QED
  BY <1>1, <1>3, <1>5 DEF s

\* What the queue records of a unit whose translation has been submitted.
LEMMA RecordedSound ==
  ASSUME NEW r, Sound(r), r.phase \notin Untouched, NEW u \in Units,
         r.unit[u].status \notin Translated, NEW q \in Quality, NEW x \in UnitStatus
  PROVE  LET s == Recorded(r, u, q, x)
         IN Sound(s) /\ Keeps(r, s) /\ s.phase = r.phase
<1> DEFINE s == Recorded(r, u, q, x)
           g == [[r.unit EXCEPT ![u].ir = q] EXCEPT ![u].status = x]
<1>1. r.unit \in [Units -> UnitRecord]
  BY DEF Sound, Run, UnitRecord
<1>2. g \in [Units -> UnitRecord]
  BY <1>1 DEF UnitRecord
<1>3. \A v \in Units : v # u => g[v] = r.unit[v]
  BY <1>1
<1>4. s = WithUnits(r, g)
  <2>1. s = [r EXCEPT !.unit = g]
    BY DEF Sound, Run, Recorded
  <2> HIDE DEF s, g
  <2> QED
    BY <2>1 DEF WithUnits
<1> HIDE DEF s, g
<1>5. \A v \in Units : GoodUnit(r, v) => g[v].status \in Translated /\ g[v].ir = r.unit[v].ir
  BY <1>3 DEF GoodUnit
<1> QED
  BY <1>2, <1>4, <1>5, UnitsSound DEF s

LEMMA SubmitKeeps ==
  ASSUME RunInv, NEW u \in Units, NEW q \in Quality, NEW affects \in BOOLEAN,
         Submit(u, q, affects)
  PROVE  RunInv' /\ run' = run /\ job' = job
<1> DEFINE written == Rewritten(run, u, q, affects)
           x == IF q = "open" THEN "NEEDS_REVIEW" ELSE "TRANSLATED"
           queued == Recorded(written, u, q, x)
           target == CASE q = "open" -> "NEEDS_REVIEW"
                       [] q # "open" /\ run.phase = "NEEDS_REVIEW" /\ ~AwaitsReview(queued) ->
                            "TRANSLATING"
                       [] OTHER -> run.phase
           moved == [To(queued, target) EXCEPT !.current = NoUnit]
           versions == IF May(queued, target) THEN <<written, queued, moved>> ELSE <<written, queued>>
<1>1. Commits("submit", versions) /\ ahead' = ahead
  BY DEF Submit, Recorded
<1>2. Sound(run) /\ run.phase \in OpenPhase /\ run.unit[u].status \notin Translated
  BY DEF RunInv, Submit, OpenPhase, Translated
<1>3. Sound(written) /\ Keeps(run, written) /\ written.phase = run.phase /\ written.unit = run.unit
  BY <1>2, RewrittenSound
<1>4. target \in OpenPhase
  BY <1>2 DEF OpenPhase
<1>5. run.phase \notin Untouched /\ target \notin Untouched \cup Won /\ target \in Phase
  BY <1>2, <1>4 DEF OpenPhase, Untouched, Won, Early, FailurePhase, Phase
<1>6. x \in UnitStatus
  BY DEF UnitStatus
<1> HIDE DEF written, x, target
<1>7. Sound(queued) /\ Keeps(written, queued) /\ queued.phase = run.phase
  BY <1>2, <1>3, <1>5, <1>6, RecordedSound
<1> HIDE DEF queued
<1>8. moved = Moved(queued, NoUnit, target)
  BY <1>7 DEF To, Moved, Sound, Run
<1> HIDE DEF moved
<1>9. Sound(moved) /\ Keeps(queued, moved)
  BY <1>5, <1>7, <1>8, MoveSound
<1>10. Path(run, <<written, queued, moved>>) /\ Path(run, <<written, queued>>)
  BY <1>3, <1>7, <1>9, PathOfThree, PathOfTwo
<1>11. Path(run, versions)
  BY <1>10
<1> HIDE DEF versions
<1>12. run.phase # "CREATED"
  BY <1>2 DEF OpenPhase
<1> QED
  BY <1>1, <1>11, <1>12, CallKeeps

LEMMA RegistersKeeps ==
  ASSUME RunInv, NEW name, NEW registry \in Registry, Registers(name, registry), ahead' = ahead
  PROVE  RunInv' /\ run' = run /\ job' = job
<1> DEFINE recorded == [run EXCEPT !.registry = registry]
           m == AssessmentStatus(recorded)
           marked == [recorded EXCEPT !.marker = m]
<1>1. Commits(name, <<recorded, marked>>)
  BY DEF Registers
<1>2. Sound(run) /\ run \in Run
  BY DEF RunInv, Sound
<1>3. /\ recorded \in Run /\ recorded.phase = run.phase /\ recorded.unit = run.unit
      /\ recorded.ir = run.ir /\ recorded.sentinel = run.sentinel
  BY <1>2 DEF Run
<1> HIDE DEF recorded
<1>4. m \in {"NOT_ASSESSED", "ZERO", "CONFLICTS"}
  BY DEF AssessmentStatus
<1> HIDE DEF m
<1>5. /\ marked \in Run /\ marked.phase = run.phase /\ marked.unit = run.unit
      /\ marked.ir = run.ir /\ marked.sentinel = run.sentinel
  BY <1>3, <1>4 DEF Run
<1> HIDE DEF marked
<1>6. Keeps(run, recorded) /\ Keeps(recorded, marked)
  BY <1>3, <1>5 DEF Keeps, GoodUnit
<1>7. /\ recorded.phase \in Untouched => WithStatus(recorded, Translated) = {}
      /\ marked.phase \in Untouched => WithStatus(marked, Translated) = {}
  BY <1>2, <1>3, <1>5 DEF Sound, WithStatus
<1>8. Sound(recorded)
  BY <1>2, <1>3, <1>6, <1>7, Advance
<1>9. Sound(marked)
  BY <1>3, <1>5, <1>6, <1>7, <1>8, Advance
<1> QED
  <2>1. Path(run, <<recorded, marked>>)
    BY <1>6, <1>8, <1>9, PathOfTwo
  <2>2. run.phase = "CREATED" => Idle(<<recorded, marked>>)
    BY <1>3, <1>5 DEF Idle
  <2> QED
    BY <1>1, <2>1, <2>2, CallKeeps

LEMMA AssessKeeps ==
  ASSUME RunInv, NEW contradicts \in BOOLEAN, Assess(contradicts)
  PROVE  RunInv' /\ run' = run /\ job' = job
<1> DEFINE registry == IF contradicts THEN "open"
                       ELSE IF run.registry = "absent" THEN "clear" ELSE run.registry
<1>1. Registers("assess", registry) /\ ahead' = ahead
  BY DEF Assess
<1>2. run \in Run
  BY DEF RunInv, Sound
<1>3. registry \in Registry
  BY <1>2 DEF Run, Registry
<1> HIDE DEF registry
<1> QED
  BY <1>1, <1>3, RegistersKeeps

LEMMA ResolveKeeps ==
  ASSUME RunInv, Resolve
  PROVE  RunInv' /\ run' = run /\ job' = job
  BY RegistersKeeps DEF Resolve, Registry

-----------------------------------------------------------------------------
(* verify_run, finalize_run *)

LEMMA UnmarkedSound ==
  ASSUME NEW r, Sound(r)
  PROVE  LET s == Unmarked(r)
         IN /\ Sound(s) /\ Keeps(r, s) /\ s.phase = r.phase /\ AllGood(s) = AllGood(r)
            /\ r.phase # "COMPLETE" => s = r
<1> DEFINE s == Unmarked(r)
<1>1. /\ s \in Run /\ s.phase = r.phase /\ s.unit = r.unit /\ s.ir = r.ir
      /\ s.sentinel => r.sentinel
      /\ r.phase # "COMPLETE" => s = r
  BY DEF Unmarked, Sound, Run
<1> HIDE DEF s
<1>2. \A u \in Units : GoodUnit(s, u) = GoodUnit(r, u)
  BY <1>1 DEF GoodUnit
<1>3. Keeps(r, s) /\ AllGood(s) = AllGood(r)
  BY <1>2 DEF Keeps, AllGood
<1>4. s.phase \in Untouched => WithStatus(s, Translated) = {}
  BY <1>1 DEF Sound, WithStatus
<1>5. Sound(s)
  BY <1>1, <1>3, <1>4, Advance
<1> QED
  BY <1>1, <1>3, <1>5 DEF s

\* Where a path sets out from a completed run, the sentinel goes first.
LEMMA UnmarkedPath ==
  ASSUME NEW r, Sound(r), NEW versions, Path(Unmarked(r), versions)
  PROVE  Path(r, Unmarks(r) \o versions)
<1>1. Sound(Unmarked(r)) /\ Keeps(r, Unmarked(r)) /\ (r.phase # "COMPLETE" => Unmarked(r) = r)
  BY UnmarkedSound
<1>2. CASE r.phase = "COMPLETE"
  BY <1>1, <1>2, PathFromBefore DEF Unmarks
<1>3. CASE r.phase # "COMPLETE"
  <2>1. versions \in Seq(Run) /\ Unmarks(r) = <<>>
    BY <1>3 DEF Path, Unmarks
  <2>2. Unmarks(r) \o versions = versions
    BY <2>1
  <2> QED
    BY <1>1, <1>3, <2>2
<1> QED
  BY <1>2, <1>3

\* The verifier marks each translated unit by what it finds.
LEMMA JudgedSound ==
  ASSUME NEW r, Sound(r), r.phase \notin Untouched
  PROVE  /\ Sound(Judged(r)) /\ Keeps(r, Judged(r)) /\ Judged(r).phase = r.phase
         /\ AllGood(r) => AllGood(Judged(r))
<1> DEFINE f == [u \in Units |->
                   IF r.unit[u].status \notin Translated THEN r.unit[u]
                   ELSE [r.unit[u] EXCEPT !.status = IF GoodUnit(r, u) THEN "VERIFIED" ELSE "VERIFY_FAILED"]]
<1>1. r.unit \in [Units -> UnitRecord]
  BY DEF Sound, Run, UnitRecord
<1>2. ASSUME NEW u \in Units
      PROVE  /\ f[u] \in UnitRecord
             /\ GoodUnit(r, u) => f[u].status \in Translated /\ f[u].ir = r.unit[u].ir
  <2>1. r.unit[u] \in UnitRecord
    BY <1>1
  <2>2. CASE r.unit[u].status \notin Translated
    BY <2>1, <2>2 DEF GoodUnit
  <2>3. CASE r.unit[u].status \in Translated
    BY <2>1, <2>3 DEF UnitRecord, UnitStatus, Translated
  <2> QED
    BY <2>2, <2>3
<1>3. Judged(r) = WithUnits(r, f)
  BY DEF Judged, WithUnits, Sound, Run
<1>4. f \in [Units -> UnitRecord]
  BY <1>2
<1> HIDE DEF f
<1>5. Sound(Judged(r)) /\ Keeps(r, Judged(r)) /\ Judged(r).phase = r.phase
  BY <1>2, <1>3, <1>4, UnitsSound
<1>6. AllGood(r) => AllGood(Judged(r))
  BY <1>5 DEF Keeps, AllGood
<1> QED
  BY <1>5, <1>6

LEMMA PassesIsGood == ASSUME NEW r, Passes(r) PROVE AllGood(r)
  BY DEF Passes, AllGood

LEMMA VerifyKeeps ==
  ASSUME RunInv, Verify
  PROVE  RunInv' /\ run' = run /\ job' = job
<1> DEFINE open == Unmarked(run)
           begun == To(open, "VERIFYING")
           judged == Judged(begun)
           p == IF Passes(begun) THEN "VERIFIED" ELSE "FAIL_REPAIRABLE"
           versions == <<begun, judged, To(judged, p)>>
<1> USE DEF Untouched, Won, Early, FailurePhase, Phase
<1>1. Commits("verify", Unmarks(run) \o versions) /\ ahead' = ahead
  BY DEF Verify
<1>2. Sound(run) /\ run.phase \notin Untouched
  BY DEF RunInv, Verify, OpenPhase
<1>3. Sound(open)
  BY <1>2, UnmarkedSound
<1> HIDE DEF open
<1>4. Sound(begun) /\ Keeps(open, begun) /\ begun.phase = "VERIFYING"
  BY <1>3, ToSound
<1> HIDE DEF begun
<1>5. /\ Sound(judged) /\ Keeps(begun, judged) /\ judged.phase = "VERIFYING"
      /\ AllGood(begun) => AllGood(judged)
  BY <1>4, JudgedSound
<1> HIDE DEF judged
<1>6. p \in Phase \ Untouched /\ (p \in Won => AllGood(judged))
  BY <1>5, PassesIsGood
<1> HIDE DEF p
<1>7. Sound(To(judged, p)) /\ Keeps(judged, To(judged, p))
  BY <1>5, <1>6, ToSound
<1>8. Path(open, versions)
  BY <1>4, <1>5, <1>7, PathOfThree
<1> HIDE DEF versions
<1>9. Path(run, Unmarks(run) \o versions)
  BY <1>2, <1>8, UnmarkedPath DEF open
<1>10. run.phase # "CREATED"
  BY DEF Verify, OpenPhase
<1> QED
  BY <1>1, <1>9, <1>10, CallKeeps

LEMMA FinalizeKeeps ==
  ASSUME RunInv, Finalize
  PROVE  RunInv' /\ run' = run /\ job' = job
<1> DEFINE open == Unmarked(run)
           begun == To(open, "VERIFYING")
           marked == [begun EXCEPT !.sentinel = TRUE]
           success == <<begun, marked, To(marked, "COMPLETE")>>
           failure == <<begun, To(begun, "FAIL_REPAIRABLE")>>
           versions == IF Passes(begun) THEN success ELSE failure
<1> USE DEF Untouched, Won, Early, FailurePhase, Phase
<1>1. Commits("finalize", Unmarks(run) \o versions) /\ ahead' = ahead
  BY DEF Finalize
<1>2. Sound(run)
  BY DEF RunInv
<1>3. Sound(open)
  BY <1>2, UnmarkedSound
<1> HIDE DEF open
<1>4. Sound(begun) /\ Keeps(open, begun) /\ begun.phase = "VERIFYING"
  BY <1>3, ToSound
<1> HIDE DEF begun
<1>5. ASSUME Passes(begun) PROVE Path(open, success)
  <2>1. AllGood(begun)
    BY <1>5, PassesIsGood
  <2>2. /\ marked \in Run /\ marked.phase = "VERIFYING"
        /\ marked.unit = begun.unit /\ marked.ir = begun.ir
    BY <1>4 DEF Sound, Run
  <2> HIDE DEF marked
  <2>3. Keeps(begun, marked) /\ AllGood(marked)
    BY <2>1, <2>2 DEF Keeps, GoodUnit, AllGood
  <2>4. Sound(marked)
    BY <1>4, <2>1, <2>2, <2>3, Advance
  <2>5. Sound(To(marked, "COMPLETE")) /\ Keeps(marked, To(marked, "COMPLETE"))
    BY <2>3, <2>4, ToSound
  <2> QED
    BY <1>4, <2>3, <2>4, <2>5, PathOfThree DEF marked
<1>6. Path(open, failure)
  <2>1. Sound(To(begun, "FAIL_REPAIRABLE")) /\ Keeps(begun, To(begun, "FAIL_REPAIRABLE"))
    BY <1>4, ToSound
  <2> QED
    BY <1>4, <2>1, PathOfTwo
<1>7. Path(open, versions)
  BY <1>5, <1>6
<1> HIDE DEF versions
<1>8. Path(run, Unmarks(run) \o versions)
  BY <1>2, <1>7, UnmarkedPath DEF open
<1>9. run.phase # "CREATED"
  BY DEF Finalize, May, Follows
<1> QED
  BY <1>1, <1>8, <1>9, CallKeeps

-----------------------------------------------------------------------------
(* Reports, writes, deaths *)

LEMMA CreateJobKeeps ==
  ASSUME RunInv, CreateJob
  PROVE  RunInv' /\ run' = run /\ job'.outcome # "DONE"
<1>1. /\ run' = run /\ pending' = pending /\ report' = report /\ ahead = "create"
      /\ job' = [lifecycle |-> "QUEUED", outcome |-> "NONE"]
  BY DEF CreateJob
<1>2. job' \in Reports
  BY <1>1 DEF Reports, Successors
<1> QED
  BY <1>1, <1>2 DEF RunInv, Justified

LEMMA OperationalIsReport ==
  ASSUME NEW p
  PROVE  Operational(p) \in Reports /\ (Operational(p).outcome = "DONE" => p = "COMPLETE")
<1>1. DOMAIN Successors =
        {"NONE", "QUEUED", "RUNNING", "RETRYING", "COMPLETED", "PROCESSING_FAILED"}
  BY DEF Successors
<1> QED
  BY <1>1 DEF Operational, Reports

LEMMA ReadRunKeeps ==
  ASSUME RunInv, ReadRun
  PROVE  RunInv' /\ run' = run /\ job' = job
<1>1. /\ run' = run /\ job' = job /\ pending' = pending /\ ahead' = ahead
      /\ report' = Operational(run.phase)
  BY DEF ReadRun
<1>2. report' \in Reports /\ (report'.outcome = "DONE" => run.phase = "COMPLETE")
  BY <1>1, OperationalIsReport
<1>3. run.phase = "COMPLETE" => \A u \in Units : GoodUnit(run, u)
  BY DEF RunInv, Sound, Earned
<1> QED
  BY <1>1, <1>2, <1>3 DEF RunInv, Justified

LEMMA CommitReportKeeps ==
  ASSUME RunInv, CommitReport
  PROVE  RunInv' /\ run' = run /\ (job'.outcome = "DONE" => AllGood(run))
<1>1. /\ run' = run /\ job' = report /\ pending' = pending /\ ahead' = ahead
      /\ report' = NoReport
  BY DEF CommitReport
<1>2. NoReport \in Reports /\ NoReport.outcome # "DONE"
  BY DEF NoReport, Reports, Successors
<1> QED
  BY <1>1, <1>2 DEF RunInv, Justified, AllGood

LEMMA WriteKeeps ==
  ASSUME RunInv, Write
  PROVE  RunInv' /\ Keeps(run, run') /\ job' = job
<1>1. /\ pending # <<>> /\ run' = Head(pending) /\ pending' = Tail(pending)
      /\ job' = job /\ report' = report /\ ahead' = ahead
  BY DEF Write
<1>2. Sound(run') /\ Keeps(run, run') /\ Path(run', pending')
  BY <1>1, PathGoesOn DEF RunInv
<1>3. Justified'
  BY <1>1, <1>2 DEF RunInv, Justified, Keeps
<1>4. Idle(pending) => run'.phase = "CREATED" /\ Idle(pending')
  <2>1. /\ pending \in Seq(Run) /\ Len(pending) \in Nat /\ Len(pending) > 0
        /\ run' = pending[1] /\ Len(pending') = Len(pending) - 1
        /\ \A i \in 1..Len(pending') : pending'[i] = pending[i + 1]
    BY <1>1 DEF RunInv, Path
  <2> QED
    BY <2>1 DEF Idle
<1> QED
  BY <1>1, <1>2, <1>3, <1>4 DEF RunInv

LEMMA DiesKeeps ==
  ASSUME RunInv, Dies
  PROVE  RunInv' /\ run' = run /\ job' = job
<1>1. run' = run /\ job' = job /\ pending' = <<>> /\ report' = NoReport /\ ahead' = "nothing"
  BY DEF Dies
<1>2. Path(run', pending')
  BY <1>1, PathOfNothing
<1>3. NoReport \in Reports /\ NoReport.outcome # "DONE"
  BY DEF NoReport, Reports, Successors
<1> QED
  BY <1>1, <1>2, <1>3 DEF RunInv, Justified

-----------------------------------------------------------------------------
(* The theorems *)

LEMMA InitHolds == RunInit => RunInv
<1> SUFFICES ASSUME RunInit PROVE RunInv
  OBVIOUS
<1>1. /\ run \in Run /\ run.phase = "CREATED" /\ ~run.sentinel
      /\ \A u \in Units : run.unit[u].status = "PENDING"
  <2> DEFINE f == [u \in Units |-> [status |-> "PENDING", repairs |-> 0, ir |-> ""]]
             g == [u \in Units |-> ""]
  <2>1. 0 \in 0..MaxRepairs
    BY RunBoundsFact
  <2>2. /\ f \in [Units -> [status : UnitStatus, repairs : 0..MaxRepairs, ir : Quality \cup {""}]]
        /\ \A u \in Units : f[u].status = "PENDING"
    BY <2>1 DEF UnitStatus
  <2>3. g \in [Units -> Quality \cup {""}]
    OBVIOUS
  <2>4. run = [phase |-> "CREATED", current |-> NoUnit, unit |-> f, ir |-> g,
               registry |-> "absent", marker |-> "NOT_ASSESSED", sentinel |-> FALSE]
    BY DEF RunInit
  <2> HIDE DEF f, g
  <2> QED
    BY <2>2, <2>3, <2>4 DEF Run, Phase, Registry
<1>2. Sound(run)
  BY <1>1 DEF Sound, Earned, WithStatus, Translated
<1>3. job \in Reports /\ report \in Reports /\ report.outcome # "DONE"
  BY DEF RunInit, NoReport, Reports, Successors
<1>4. pending = <<>>
  BY DEF RunInit
<1>5. Path(run, pending) /\ Idle(pending)
  BY <1>4, PathOfNothing DEF Idle
<1> QED
  BY <1>1, <1>2, <1>3, <1>5 DEF RunInv, Justified

\* What any step does to the good work and to the job.
StepKeeps ==
  /\ Keeps(run, run')
  /\ job'.outcome = "DONE" => job.outcome = "DONE" \/ AllGood(run)

LEMMA StepHolds ==
  ASSUME RunInv, [RunNext]_runVars
  PROVE  RunInv' /\ StepKeeps
<1>1. Keeps(run, run)
  BY DEF Keeps
<1>2. CASE UNCHANGED runVars
  <2>1. /\ run' = run /\ job' = job /\ report' = report /\ pending' = pending /\ ahead' = ahead
    BY <1>2 DEF runVars
  <2> QED
    BY <2>1, <1>1 DEF RunInv, Justified, StepKeeps
<1>3. ASSUME RunInv' /\ run' = run /\ job' = job
      PROVE  RunInv' /\ StepKeeps
  BY <1>1, <1>3 DEF StepKeeps
<1>4. CASE Prepares
  <2>1. CASE CreateJob
    BY <2>1, <1>1, CreateJobKeeps DEF StepKeeps
  <2>2. CASE \E p \in {"INPUT_VALIDATED", "FAILED_INPUT", "FAILED_RUNTIME"} : Admit(p)
    BY <2>2, <1>3, AdmitKeeps
  <2> QED
    BY <1>4, <2>1, <2>2 DEF Prepares
<1>5. CASE Processes
  BY <1>5, <1>3, ExtractKeeps, ExtractFailsKeeps, RecordFailureKeeps, NormalizeKeeps DEF Processes
<1>6. CASE NextCall
  BY <1>6, <1>3, NextReadyKeeps, NextRepairKeeps, NextExhaustedKeeps DEF NextCall
<1>7. CASE Translates
  BY <1>7, <1>3, SubmitKeeps, AssessKeeps, ResolveKeeps DEF Translates
<1>8. CASE Verify
  BY <1>8, <1>3, VerifyKeeps
<1>9. CASE Finalize
  BY <1>9, <1>3, FinalizeKeeps
<1>10. CASE ReadRun
  BY <1>10, <1>3, ReadRunKeeps
<1>11. CASE CommitReport
  BY <1>11, <1>1, CommitReportKeeps DEF StepKeeps
<1>12. CASE Write
  BY <1>12, WriteKeeps DEF StepKeeps
<1>13. CASE Dies
  BY <1>13, <1>3, DiesKeeps
<1> QED
  BY <1>2, <1>4, <1>5, <1>6, <1>7, <1>8, <1>9, <1>10, <1>11, <1>12, <1>13 DEF RunNext

LEMMA RunInvariance == RunSpec => []RunInv
<1>1. RunInv /\ [RunNext]_runVars => RunInv'
  BY StepHolds
<1> QED
  BY <1>1, InitHolds, PTL DEF RunSpec

\* Every version of the run that reaches the disk, or is about to, can be read
\* back, and no unit is repaired more often than MAX_AUTO_REPAIRS_PER_UNIT.
THEOREM RunTypeCorrect == RunSpec => []RunTypeOK
<1>1. RunInv => RunTypeOK
  <2> SUFFICES ASSUME RunInv PROVE RunTypeOK
    OBVIOUS
  <2>1. run \in Run /\ job.lifecycle \in DOMAIN Successors
    BY DEF RunInv, Sound, Reports
  <2>2. \A i \in 1..Len(pending) : pending[i] \in Run
    BY DEF RunInv, Path, Sound
  <2> QED
    BY <2>1, <2>2 DEF RunTypeOK
<1> QED
  BY <1>1, RunInvariance, PTL

\* However calls and deaths follow each other, VERIFIED, COMPLETE and
\* RUN_COMPLETE.md stand only over a run all of whose translations pass.
THEOREM VerdictEarned == RunSpec => []VerdictIsEarned
<1>1. RunInv => VerdictIsEarned
  BY DEF RunInv, Sound, VerdictIsEarned
<1> QED
  BY <1>1, RunInvariance, PTL

\* No step of any call, and no death between two writes, takes a good
\* translation away once it is recorded.
THEOREM GoodWorkKept == RunSpec => GoodWorkSurvives
<1>1. RunInv /\ [RunNext]_runVars =>
        [\A u \in Units : GoodUnit(run, u) => GoodUnit(run', u)]_runVars
  BY StepHolds DEF StepKeeps, Keeps
<1> QED
  BY <1>1, RunInvariance, PTL DEF RunSpec, GoodWorkSurvives

\* The execution job turns DONE only over a run that has earned it, although the
\* run is read without the lock and may have moved on when the job is written.
THEOREM JobNotAhead == RunSpec => JobIsNotAhead
<1>1. RunInv /\ [RunNext]_runVars =>
        [job'.outcome = "DONE" /\ job.outcome # "DONE" => \A u \in Units : GoodUnit(run, u)]_runVars
  BY StepHolds DEF StepKeeps, AllGood
<1> QED
  BY <1>1, RunInvariance, PTL DEF RunSpec, JobIsNotAhead

=============================================================================
