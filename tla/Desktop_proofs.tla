---------------------------- MODULE Desktop_proofs ----------------------------
(***************************************************************************)
(* Proofs about the files of profiles and the desktop side of the           *)
(* application, each for every value of its constants.  The components share *)
(* no variable; each has its own specification and inductive invariant.      *)
(***************************************************************************)
EXTENDS ProfileMaterialization, Hotkeys, LogIndexer, TrayProxies,
        FiniteSetTheorems, WellFoundedInduction, TLAPS

-------------------------------------------------------------------------------
(* The files of profiles (ProfileMaterialization): the shape of the disk, and   *)
(* what each call of the file service may do to a file, for each of its outcomes. *)

PmLocs == {"StatePrepared", "StatePromoting", "StateCompensating",
           "FilePrepared", "FilePromoting", "FilePromoted", "FileCompensating"}
PmJournals == [locs : SUBSET PmLocs, path : Paths, rev : Int, hash : Resource,
               staged : Resource, backup : Resource]
PmCleanups == [phases : SUBSET {"Pending", "Ready"}, path : Paths, hash : Resource, tomb : BOOLEAN]
PmDisks == [file : [Paths -> Resource], mat : [Ids -> PmJournals], cl : [Ids -> PmCleanups]]

\* The phases one journal may have at a time: two on Windows, of one family.
PmPhased(locs) ==
  /\ locs \subseteq StateFamily \/ locs \cap StateFamily = {}
  /\ \E l, m \in PmLocs : locs \subseteq {l, m} /\ (windows \/ l = m)

\* A journal is of a content that an operation materializes.
PmSpeaks(j) == j.locs # {} => j.hash \in Contents

PmGood(d) == d \in PmDisks /\ \A i \in Ids : PmPhased(d.mat[i].locs) /\ PmSpeaks(d.mat[i])

\* What a call for a journal leaves alone: cleanups, the other journals, and what it says.
PmFrame(d, e, i) ==
  /\ PmGood(e) /\ e.cl = d.cl
  /\ \A j \in Ids \ {i} : e.mat[j] = d.mat[j]
  /\ HasJournal(e, i) => /\ HasJournal(d, i) /\ e.mat[i].path = d.mat[i].path
                         /\ e.mat[i].hash = d.mat[i].hash

\* Two effects on the files: none; or a promotion replaces bytes a user typed.
PmStill(d, e) == e.file = d.file
PmPromoted(d, e, i) ==
  \A p \in Paths : d.file[p] = Mine =>
    \/ e.file[p] = Mine
    \/ HasJournal(d, i) /\ d.mat[i].path = p /\ e.file[p] = d.mat[i].hash

\* The outcomes of one filesystem call.
LEMMA PmStep ==
  ASSUME NEW d, NEW e, NEW o \in Step(d, e)
  PROVE  o.disk \in {d, e} /\ (o.kind = "ok" => o.disk = e)
BY DEF Step, Ok, Out

LEMMA PmOk ==
  ASSUME NEW d, NEW o \in Ok(d) \cup Bail(d)
  PROVE  o.disk = d
BY DEF Ok, Bail, Out

\* An outcome that is not at a fence, and what the comparison of one that is has found.
PmPlain(o) == o.kind \notin {"restore", "superseded", "cleanup"}

PmStops(o, i) ==
  /\ o.kind \in {"restore", "superseded"} => HasJournal(o.disk, i) /\ TargetMatches(o.disk, i)
  /\ o.kind = "cleanup" => HasCleanup(o.disk, i) /\ o.disk.file[o.disk.cl[i].path] = o.disk.cl[i].hash

LEMMA PmPlainStops ==
  ASSUME NEW o, NEW i, PmPlain(o)
  PROVE  PmStops(o, i)
BY DEF PmPlain, PmStops

LEMMA PmPlainStep ==
  ASSUME NEW d, NEW e, NEW o \in Step(d, e) \cup Ok(d) \cup Bail(d)
  PROVE  PmPlain(o)
BY DEF Step, Ok, Bail, Out, PmPlain

\* Calls that compare nothing with what a journal says, or do no more when it matches.
LEMMA PmPlainJournal ==
  ASSUME NEW d, NEW i, NEW to, NEW o \in Locate(d, i) \cup Transition(d, i, to) \cup RemoveOperation(d, i)
  PROVE  PmPlain(o)
<1>1. CASE o \in Locate(d, i)
  BY <1>1, PmPlainStep DEF Locate
<1>2. CASE o \in Transition(d, i, to)
  <2> DEFINE both == [d EXCEPT !.mat[i].locs = @ \cup {to}]
             moved(e) == [e EXCEPT !.mat[i].locs = {to}]
  <2>1. \/ o \in Step(d, moved(d)) \/ o \in Step(d, both)
        \/ \E x \in Step(d, both) : o \in Step(x.disk, moved(x.disk))
    BY <1>2 DEF Transition, Then
  <2> HIDE DEF both, moved
  <2> QED
    BY <2>1, PmPlainStep
<1>3. CASE o \in RemoveOperation(d, i)
  <2>1. (\E e, f : o \in Step(e, f)) \/ \E e : o \in RemoveArtifacts(e, i)
    BY <1>3 DEF RemoveOperation, Then
  <2>2. (\E e : o \in RemoveArtifacts(e, i)) => \E e, f : o \in Step(e, f)
    BY DEF RemoveArtifacts, Then
  <2> QED
    BY <2>1, <2>2, PmPlainStep
<1> QED
  BY <1>1, <1>2, <1>3

LEMMA PmPlainPromote ==
  ASSUME NEW d, NEW i, NEW o \in Promote(d, i) \cup Complete(d, i)
  PROVE  PmPlain(o)
<1>1. ASSUME NEW e, NEW x \in PromoteLocated(e, i)
      PROVE  PmPlain(x)
  <2>1. \/ \E f : x \in Ok(f) \cup Bail(f) \cup PromoteResource(f, i)
        \/ \E f, to : x \in Transition(f, i, to)
    BY <1>1 DEF PromoteLocated, Then
  <2>2. (\E f : x \in PromoteResource(f, i)) => \E f, g : x \in Step(f, g) \cup Bail(f)
    BY DEF PromoteResource
  <2> QED
    BY <2>1, <2>2, PmPlainStep, PmPlainJournal
<1>2. ASSUME NEW e, NEW x \in CompleteLocated(e, i)
      PROVE  PmPlain(x)
  <2>1. \/ \E f : x \in Ok(f) \cup Bail(f) \cup RemoveOperation(f, i)
        \/ \E f, to : x \in Transition(f, i, to)
    BY <1>2 DEF CompleteLocated, Then
  <2> QED
    BY <2>1, PmPlainStep, PmPlainJournal
<1>3. \/ o \in Bail(d) \cup Ok(d) \cup Locate(d, i)
      \/ \E e : o \in PromoteLocated(e, i) \cup CompleteLocated(e, i)
  BY DEF Promote, Complete, Then
<1> QED
  BY <1>1, <1>2, <1>3, PmPlainStep, PmPlainJournal

LEMMA PmPlainPrepare ==
  ASSUME NEW d, NEW i, NEW p, NEW c, NEW rev, NEW loc,
         NEW o \in Prepare(d, i, p, c, rev, loc) \cup PrepareCleanup(d, i, p)
  PROVE  PmPlain(o)
<1>1. (\E e, f : o \in Step(e, f)) \/ \E e : o = Out("fault", e)
  <2>1. CASE o \in PrepareCleanup(d, i, p)
    BY <2>1 DEF PrepareCleanup
  <2>2. CASE o \in Prepare(d, i, p, c, rev, loc)
    <3> DEFINE two == Then(Stage(d, i, c), LAMBDA e : CaptureBackup(e, i, p))
               all == Then(two, LAMBDA e : WriteJournalNew(e, i, p, c, rev, loc))
    <3>1. (\E x \in all : o = x) \/ \E e : o = Out("fault", e)
      BY <2>2 DEF Prepare
    <3>2. \A x \in two : \E e, f : x \in Step(e, f)
      BY DEF Then, Stage, CaptureBackup
    <3> HIDE DEF two
    <3>3. \A x \in all : x \in two \/ \E e, f : x \in Step(e, f)
      BY DEF Then, WriteJournalNew
    <3> QED
      BY <3>1, <3>2, <3>3
  <2> QED
    BY <2>1, <2>2
<1> QED
  BY <1>1, PmPlainStep DEF Out, PmPlain

LEMMA PmPlainCleanup ==
  ASSUME NEW d, NEW i,
         NEW o \in LocateCleanup(d, i) \cup TransitionCleanup(d, i) \cup ActivateCleanup(d, i)
                   \cup CancelCleanup(d, i) \cup RemoveCleanupJournal(d, i) \cup RemoveTombstone(d, i)
                   \cup RemoveCleanupTarget(d, i)
  PROVE  PmPlain(o)
<1>1. ASSUME NEW e, NEW x \in LocateCleanup(e, i) \cup RemoveCleanupJournal(e, i) \cup RemoveTombstone(e, i)
                              \cup RemoveCleanupTarget(e, i)
      PROVE  PmPlain(x)
  <2>1. \E f, g : x \in Step(f, g) \cup Ok(f) \cup Bail(f)
    BY <1>1 DEF LocateCleanup, RemoveCleanupJournal, RemoveTombstone, RemoveCleanupTarget
  <2> QED
    BY <2>1, PmPlainStep
<1>2. ASSUME NEW e, NEW x \in TransitionCleanup(e, i)
      PROVE  PmPlain(x)
  <2> DEFINE both == [e EXCEPT !.cl[i].phases = {"Pending", "Ready"}]
             ready(f) == [f EXCEPT !.cl[i].phases = {"Ready"}]
  <2>1. \/ x \in Step(e, ready(e)) \/ x \in Step(e, both)
        \/ \E y \in Step(e, both) : x \in Step(y.disk, ready(y.disk))
    BY <1>2 DEF TransitionCleanup, Then
  <2> HIDE DEF both, ready
  <2> QED
    BY <2>1, PmPlainStep
<1>3. ASSUME o \in ActivateCleanup(d, i)
      PROVE  PmPlain(o)
  <2>1. o \in LocateCleanup(d, i) \/ \E e : o \in TransitionCleanup(e, i) \cup Ok(e)
    BY <1>3 DEF ActivateCleanup, Then
  <2> QED
    BY <1>1, <1>2, <2>1, PmPlainStep
<1>4. ASSUME o \in CancelCleanup(d, i)
      PROVE  PmPlain(o)
  <2>1. \/ o \in LocateCleanup(d, i)
        \/ \E x \in LocateCleanup(d, i) :
             o \in Step(x.disk, [x.disk EXCEPT !.cl[i] = NoCleanup]) \cup Ok(x.disk) \cup Bail(x.disk)
    BY <1>4 DEF CancelCleanup, Then
  <2> QED
    BY <1>1, <2>1, PmPlainStep
<1> QED
  BY <1>1, <1>2, <1>3, <1>4

\* What is left of a journal by calls in a row.
LEMMA PmFrames ==
  ASSUME NEW d, NEW e, NEW f, NEW i \in Ids, PmFrame(d, e, i), PmFrame(e, f, i)
  PROVE  PmFrame(d, f, i)
BY DEF PmFrame

LEMMA PmFrameSelf ==
  ASSUME NEW d, NEW i \in Ids, PmGood(d)
  PROVE  PmFrame(d, d, i)
BY DEF PmFrame

\* One journal of a disk is written, or only its phases.
PmWritten(d, i, j) == [d EXCEPT !.mat[i] = j]
PmMoved(d, i, locs) == [d EXCEPT !.mat[i].locs = locs]

LEMMA PmWrite ==
  ASSUME NEW d, PmGood(d), NEW i \in Ids, NEW j \in PmJournals, PmPhased(j.locs), PmSpeaks(j)
  PROVE  /\ PmGood(PmWritten(d, i, j)) /\ PmWritten(d, i, j).mat[i] = j
         /\ PmWritten(d, i, j).file = d.file /\ PmWritten(d, i, j).cl = d.cl
         /\ \A k \in Ids \ {i} : PmWritten(d, i, j).mat[k] = d.mat[k]
<1> DEFINE e == PmWritten(d, i, j)
<1>1. d \in PmDisks
  BY DEF PmGood
<1>2. e = [file |-> d.file, mat |-> [d.mat EXCEPT ![i] = j], cl |-> d.cl]
  BY <1>1 DEF PmDisks, PmWritten
<1>3. [d.mat EXCEPT ![i] = j] \in [Ids -> PmJournals] /\ [d.mat EXCEPT ![i] = j][i] = j
  BY <1>1 DEF PmDisks
<1>4. \A k \in Ids \ {i} : [d.mat EXCEPT ![i] = j][k] = d.mat[k]
  BY <1>1 DEF PmDisks
<1>5. e \in PmDisks
  BY <1>1, <1>2, <1>3 DEF PmDisks
<1>6. e.mat[i] = j /\ e.file = d.file /\ e.cl = d.cl /\ \A k \in Ids \ {i} : e.mat[k] = d.mat[k]
  BY <1>2, <1>3, <1>4
<1> HIDE DEF e
<1>7. \A k \in Ids : PmPhased(e.mat[k].locs) /\ PmSpeaks(e.mat[k])
  <2> TAKE k \in Ids
  <2>1. CASE k = i
    BY <2>1, <1>6
  <2>2. CASE k # i
    BY <2>2, <1>6 DEF PmGood
  <2> QED
    BY <2>1, <2>2
<1> QED
  BY <1>5, <1>6, <1>7 DEF PmGood, e

\* A journal is located where one of its phases is.
LEMMA PmLocated ==
  ASSUME NEW d, PmGood(d), NEW i \in Ids, HasJournal(d, i)
  PROVE  Location(d, i) \in d.mat[i].locs /\ d.mat[i].locs \subseteq PmLocs
<1> DEFINE locs == d.mat[i].locs
<1>1. locs \subseteq PmLocs /\ locs # {}
  BY DEF PmGood, PmDisks, PmJournals, HasJournal
<1>2. \A l \in PmLocs : Rank(l) \in 0..3
  BY DEF PmLocs, Rank
<1> HIDE DEF locs
<1>3. \E l \in locs : \A m \in locs : Rank(m) <= Rank(l)
  <2>1. CASE \E l \in locs : Rank(l) = 3
    BY <2>1, <1>1, <1>2
  <2>2. CASE (\A l \in locs : Rank(l) # 3) /\ \E l \in locs : Rank(l) = 2
    BY <2>2, <1>1, <1>2
  <2>3. CASE (\A l \in locs : Rank(l) \notin {2, 3}) /\ \E l \in locs : Rank(l) = 1
    BY <2>3, <1>1, <1>2
  <2>4. CASE \A l \in locs : Rank(l) \notin {1, 2, 3}
    BY <2>4, <1>1, <1>2
  <2> QED
    BY <2>1, <2>2, <2>3, <2>4
<1> QED
  BY <1>1, <1>3 DEF Location, locs

\* The phases of a journal are rewritten.
LEMMA PmPhase ==
  ASSUME NEW d, PmGood(d), NEW i \in Ids, HasJournal(d, i), NEW locs \in SUBSET PmLocs, PmPhased(locs)
  PROVE  /\ PmFrame(d, PmMoved(d, i, locs), i) /\ PmStill(d, PmMoved(d, i, locs))
         /\ PmMoved(d, i, locs).mat[i].locs = locs
<1> DEFINE j == [d.mat[i] EXCEPT !.locs = locs]
           e == PmWritten(d, i, j)
<1>1. d.mat[i] \in PmJournals /\ PmSpeaks(d.mat[i]) /\ d \in PmDisks
  BY DEF PmGood, PmDisks
<1>2. j \in PmJournals /\ j.locs = locs /\ j.path = d.mat[i].path /\ j.hash = d.mat[i].hash
  BY <1>1 DEF PmJournals
<1>3. PmSpeaks(j)
  BY <1>1, <1>2 DEF PmSpeaks, HasJournal
<1>4. PmMoved(d, i, locs) = e
  BY <1>1 DEF PmDisks, PmWritten, PmMoved
<1> HIDE DEF j
<1>5. /\ PmGood(e) /\ e.mat[i] = j /\ e.file = d.file /\ e.cl = d.cl
      /\ \A k \in Ids \ {i} : e.mat[k] = d.mat[k]
  BY <1>2, <1>3, PmWrite
<1> HIDE DEF e
<1>6. PmFrame(d, e, i) /\ PmStill(d, e)
  BY <1>2, <1>5 DEF PmFrame, PmStill, HasJournal
<1> QED
  BY <1>2, <1>4, <1>5, <1>6

\* What is left of an artifact is rewritten.
LEMMA PmArtifact ==
  ASSUME NEW d, PmGood(d), NEW i \in Ids, NEW c \in Resource, NEW e,
         \/ e = [d EXCEPT !.mat[i].staged = c]
         \/ e = [d EXCEPT !.mat[i].backup = c]
  PROVE  PmFrame(d, e, i) /\ PmStill(d, e) /\ e.mat[i].locs = d.mat[i].locs
<1>0. d.mat[i] \in PmJournals /\ PmSpeaks(d.mat[i]) /\ PmPhased(d.mat[i].locs) /\ d \in PmDisks
  BY DEF PmGood, PmDisks
<1>1. ASSUME NEW j \in PmJournals, j.locs = d.mat[i].locs, j.path = d.mat[i].path, j.hash = d.mat[i].hash,
             e = PmWritten(d, i, j)
      PROVE  PmFrame(d, e, i) /\ PmStill(d, e) /\ e.mat[i].locs = d.mat[i].locs
  <2>1. PmSpeaks(j) /\ PmPhased(j.locs)
    BY <1>0, <1>1 DEF PmSpeaks
  <2>2. /\ PmGood(e) /\ e.mat[i] = j /\ e.file = d.file /\ e.cl = d.cl
        /\ \A k \in Ids \ {i} : e.mat[k] = d.mat[k]
    BY <2>1, <1>1, PmWrite
  <2> QED
    BY <2>2, <1>1 DEF PmFrame, PmStill, HasJournal
<1>2. CASE e = [d EXCEPT !.mat[i].staged = c]
  <2> DEFINE j == [d.mat[i] EXCEPT !.staged = c]
  <2>1. j \in PmJournals /\ j.locs = d.mat[i].locs /\ j.path = d.mat[i].path /\ j.hash = d.mat[i].hash
    BY <1>0 DEF PmJournals
  <2>2. e = PmWritten(d, i, j)
    BY <1>0, <1>2 DEF PmDisks, PmWritten
  <2> HIDE DEF j
  <2> QED
    BY <1>1, <2>1, <2>2
<1>3. CASE e = [d EXCEPT !.mat[i].backup = c]
  <2> DEFINE j == [d.mat[i] EXCEPT !.backup = c]
  <2>1. j \in PmJournals /\ j.locs = d.mat[i].locs /\ j.path = d.mat[i].path /\ j.hash = d.mat[i].hash
    BY <1>0 DEF PmJournals
  <2>2. e = PmWritten(d, i, j)
    BY <1>0, <1>3 DEF PmDisks, PmWritten
  <2> HIDE DEF j
  <2> QED
    BY <1>1, <2>1, <2>2
<1> QED
  BY <1>2, <1>3

LEMMA PmLocate ==
  ASSUME NEW d, PmGood(d), NEW i \in Ids, HasJournal(d, i), NEW o \in Locate(d, i)
  PROVE  /\ PmFrame(d, o.disk, i) /\ PmStill(d, o.disk)
         /\ o.kind = "ok" => HasJournal(o.disk, i) /\ o.disk.mat[i].locs = {Location(d, i)}
<1> DEFINE l == Location(d, i)
           e == PmMoved(d, i, {l})
<1>1. l \in PmLocs
  BY PmLocated
<1>2. (d.mat[i].locs = {l} /\ o \in Ok(d)) \/ o \in Step(d, e)
  BY DEF Locate, PmMoved
<1> HIDE DEF l
<1>3. PmPhased({l}) /\ {l} \in SUBSET PmLocs
  BY <1>1 DEF PmPhased
<1>5. PmFrame(d, e, i) /\ PmStill(d, e) /\ e.mat[i].locs = {l}
  BY <1>1, <1>3, PmPhase
<1> HIDE DEF e
<1>6. PmFrame(d, d, i) /\ PmStill(d, d)
  BY PmFrameSelf DEF PmStill
<1>7. CASE d.mat[i].locs = {l} /\ o \in Ok(d)
  <2>1. o.disk = d
    BY <1>7, PmOk
  <2> QED
    BY <2>1, <1>6, <1>7 DEF l
<1>8. CASE o \in Step(d, e)
  <2>1. o.disk \in {d, e} /\ (o.kind = "ok" => o.disk = e)
    BY <1>8, PmStep
  <2>2. HasJournal(e, i)
    BY <1>5 DEF HasJournal
  <2> QED
    BY <2>1, <2>2, <1>5, <1>6 DEF l
<1> QED
  BY <1>2, <1>7, <1>8

\* A journal that has been located has one phase, that where it is.
LEMMA PmAt ==
  ASSUME NEW d, NEW i \in Ids, NEW l \in PmLocs, d.mat[i].locs = {l}
  PROVE  Location(d, i) = l
<1>1. Rank(l) <= Rank(l)
  BY DEF Rank, PmLocs
<1> QED
  BY <1>1 DEF Location

PmSameFamily(l, m) == l \in PmLocs /\ m \in PmLocs /\ (l \in StateFamily <=> m \in StateFamily)

LEMMA PmTransition ==
  ASSUME NEW d, PmGood(d), NEW i \in Ids, NEW at, d.mat[i].locs = {at}, NEW to, PmSameFamily(at, to),
         NEW o \in Transition(d, i, to)
  PROVE  /\ PmFrame(d, o.disk, i) /\ PmStill(d, o.disk)
         /\ o.kind = "ok" => HasJournal(o.disk, i) /\ o.disk.mat[i].locs = {to}
<1>1. HasJournal(d, i) /\ at \in PmLocs /\ to \in PmLocs
  BY DEF HasJournal, PmSameFamily
<1>2. d \in PmDisks /\ d.mat[i] \in PmJournals
  BY DEF PmGood, PmDisks
<1>3. /\ PmPhased({to}) /\ {to} \in SUBSET PmLocs /\ {at, to} \in SUBSET PmLocs
      /\ windows => PmPhased({at, to})
  BY <1>1 DEF PmPhased, PmSameFamily
<1>4. ASSUME NEW e, PmFrame(d, e, i), PmStill(d, e), HasJournal(e, i),
             NEW f, f = PmMoved(e, i, {to})
      PROVE  PmFrame(d, f, i) /\ PmStill(d, f) /\ HasJournal(f, i) /\ f.mat[i].locs = {to}
  <2>1. PmGood(e)
    BY <1>4 DEF PmFrame
  <2> DEFINE locs == {to}
  <2>0. PmPhased(locs) /\ locs \in SUBSET PmLocs /\ f = PmMoved(e, i, locs)
    BY <1>3, <1>4
  <2> HIDE DEF locs
  <2>2. PmFrame(e, f, i) /\ PmStill(e, f) /\ f.mat[i].locs = locs
    BY <1>4, <2>0, <2>1, PmPhase
  <2>3. PmFrame(d, f, i)
    BY <2>2, <1>4, PmFrames
  <2> QED
    BY <2>2, <2>3, <1>4 DEF HasJournal, PmStill, locs
<1>5. PmFrame(d, d, i) /\ PmStill(d, d)
  BY PmFrameSelf DEF PmStill
<1>6. CASE ~windows
  <2> DEFINE f == PmMoved(d, i, {to})
  <2>1. o \in Step(d, f)
    BY <1>6 DEF Transition, PmMoved
  <2>2. f = PmMoved(d, i, {to})
    OBVIOUS
  <2> HIDE DEF f
  <2>3. o.disk \in {d, f} /\ (o.kind = "ok" => o.disk = f)
    BY <2>1, PmStep
  <2> QED
    BY <2>2, <2>3, <1>1, <1>4, <1>5
<1>7. CASE windows
  <2> DEFINE e == PmMoved(d, i, {at, to})
  <2>1. [d EXCEPT !.mat[i].locs = @ \cup {to}] = e
    BY <1>2 DEF PmDisks, PmJournals, PmMoved
  <2>3. \/ \E x \in Step(d, e) : x.kind = "ok" /\ o \in Step(x.disk, PmMoved(x.disk, i, {to}))
        \/ o \in Step(d, e) /\ o.kind # "ok"
    BY <1>7, <2>1 DEF Transition, Then, PmMoved
  <2> DEFINE locs == {at, to}
  <2>2. PmPhased(locs) /\ locs \in SUBSET PmLocs /\ e = PmMoved(d, i, locs)
    BY <1>3, <1>7
  <2> HIDE DEF e, locs
  <2>4. PmFrame(d, e, i) /\ PmStill(d, e) /\ e.mat[i].locs = locs
    BY <1>1, <2>2, PmPhase
  <2>5. HasJournal(e, i)
    BY <2>4 DEF HasJournal, locs
  <2>6. CASE o \in Step(d, e) /\ o.kind # "ok"
    <3>1. o.disk \in {d, e}
      BY <2>6, PmStep
    <3> QED
      BY <3>1, <2>4, <2>6, <1>5
  <2>7. ASSUME NEW x \in Step(d, e), x.kind = "ok",
               o \in Step(x.disk, PmMoved(x.disk, i, {to}))
        PROVE  /\ PmFrame(d, o.disk, i) /\ PmStill(d, o.disk)
               /\ o.kind = "ok" => HasJournal(o.disk, i) /\ o.disk.mat[i].locs = {to}
    <3> DEFINE f == PmMoved(e, i, {to})
    <3>1. x.disk = e
      BY <2>7, PmStep
    <3>2. o \in Step(e, f) /\ f = PmMoved(e, i, {to})
      BY <2>7, <3>1
    <3> HIDE DEF f
    <3>3. o.disk \in {e, f} /\ (o.kind = "ok" => o.disk = f)
      BY <3>2, PmStep
    <3> QED
      BY <3>2, <3>3, <1>4, <2>4, <2>5
  <2> QED
    BY <2>3, <2>6, <2>7
<1> QED
  BY <1>6, <1>7

\* A call that changes no file.
PmQuiet(d, e, i) == PmFrame(d, e, i) /\ PmStill(d, e)

LEMMA PmQuiets ==
  ASSUME NEW d, NEW e, NEW f, NEW i \in Ids, PmQuiet(d, e, i)
  PROVE  /\ PmQuiet(e, f, i) => PmQuiet(d, f, i)
         /\ PmFrame(e, f, i) /\ PmPromoted(e, f, i) => PmFrame(d, f, i) /\ PmPromoted(d, f, i)
<1>1. PmFrame(e, f, i) => PmFrame(d, f, i)
  BY PmFrames DEF PmQuiet
<1>2. e.file = d.file
  BY DEF PmQuiet, PmStill
<1>3. PmStill(e, f) => PmStill(d, f)
  BY <1>2 DEF PmStill
<1>4. PmPromoted(e, f, i) => PmPromoted(d, f, i)
  BY <1>2 DEF PmPromoted, PmQuiet, PmFrame
<1> QED
  BY <1>1, <1>3, <1>4 DEF PmQuiet

\* What no call after it changes.
LEMMA PmThenQuiet ==
  ASSUME NEW d, NEW e, NEW f, NEW i \in Ids, PmQuiet(e, f, i), PmFrame(d, e, i), PmPromoted(d, e, i)
  PROVE  PmFrame(d, f, i) /\ PmPromoted(d, f, i)
<1>1. PmFrame(d, f, i)
  BY PmFrames DEF PmQuiet
<1>2. f.file = e.file
  BY DEF PmQuiet, PmStill
<1> QED
  BY <1>1, <1>2 DEF PmPromoted

LEMMA PmQuietSelf ==
  ASSUME NEW d, NEW i \in Ids, PmGood(d)
  PROVE  PmQuiet(d, d, i)
BY PmFrameSelf DEF PmQuiet, PmStill

LEMMA PmQuietPromotes ==
  ASSUME NEW d, NEW e, NEW i \in Ids, PmQuiet(d, e, i)
  PROVE  PmFrame(d, e, i) /\ PmPromoted(d, e, i)
BY DEF PmQuiet, PmStill, PmPromoted

LEMMA PmRemoveArtifacts ==
  ASSUME NEW d, PmGood(d), NEW i \in Ids, NEW o \in RemoveArtifacts(d, i)
  PROVE  PmQuiet(d, o.disk, i)
<1> DEFINE e == [d EXCEPT !.mat[i].staged = Absent]
<1>1. Absent \in Resource
  BY DEF Resource
<1>2. PmQuiet(d, e, i)
  BY <1>1, PmArtifact DEF PmQuiet
<1>3. \/ \E x \in Step(d, e) : x.kind = "ok" /\ o \in Step(x.disk, [x.disk EXCEPT !.mat[i].backup = Absent])
      \/ o \in Step(d, e) /\ o.kind # "ok"
  BY DEF RemoveArtifacts, Then
<1> HIDE DEF e
<1>4. CASE o \in Step(d, e) /\ o.kind # "ok"
  BY <1>2, <1>4, PmStep, PmQuietSelf
<1>5. ASSUME NEW x \in Step(d, e), x.kind = "ok", o \in Step(x.disk, [x.disk EXCEPT !.mat[i].backup = Absent])
      PROVE  PmQuiet(d, o.disk, i)
  <2>1. x.disk = e
    BY <1>5, PmStep
  <2> DEFINE f == [e EXCEPT !.mat[i].backup = Absent]
  <2>2. PmGood(e)
    BY <1>2 DEF PmQuiet, PmFrame
  <2>3. PmQuiet(e, f, i)
    BY <1>1, <2>2, PmArtifact DEF PmQuiet
  <2>4. o \in Step(e, f)
    BY <1>5, <2>1
  <2> HIDE DEF f
  <2>5. o.disk = e \/ o.disk = f
    BY <2>4, PmStep
  <2> QED
    BY <1>2, <2>3, <2>5, PmQuiets
<1> QED
  BY <1>3, <1>4, <1>5

LEMMA PmRemoveOperation ==
  ASSUME NEW d, PmGood(d), NEW i \in Ids, NEW o \in RemoveOperation(d, i)
  PROVE  PmQuiet(d, o.disk, i)
<1> DEFINE j == [NoJournal EXCEPT !.staged = d.mat[i].staged, !.backup = d.mat[i].backup]
           e == PmWritten(d, i, j)
<1>1. d.mat[i] \in PmJournals
  BY DEF PmGood, PmDisks
<1>2. j \in PmJournals /\ j.locs = {}
  <2>1. d.mat[i].staged \in Resource /\ d.mat[i].backup \in Resource
    BY <1>1 DEF PmJournals
  <2>0. Absent \in Resource
    BY DEF Resource
  <2>2. NoJournal \in PmJournals /\ NoJournal.locs = {}
    BY <2>0, MaterialAssumption DEF PmJournals, NoJournal
  <2> DEFINE j1 == [NoJournal EXCEPT !.staged = d.mat[i].staged]
  <2>3. j1 \in PmJournals /\ j1.locs = {}
    BY <2>1, <2>2 DEF PmJournals
  <2>4. j = [j1 EXCEPT !.backup = d.mat[i].backup]
    OBVIOUS
  <2> HIDE DEF j1, j
  <2> QED
    BY <2>1, <2>3, <2>4 DEF PmJournals
<1>3. \/ \E x \in Step(d, e) : x.kind = "ok" /\ o \in RemoveArtifacts(x.disk, i)
      \/ o \in Step(d, e) /\ o.kind # "ok"
  BY DEF RemoveOperation, Then, PmWritten
<1> HIDE DEF j
<1>4. PmPhased({})
  BY DEF PmPhased, PmLocs
<1>5. j \in PmJournals /\ PmPhased(j.locs) /\ PmSpeaks(j)
  BY <1>2, <1>4 DEF PmSpeaks
<1>6. /\ PmGood(e) /\ e.mat[i] = j /\ e.file = d.file /\ e.cl = d.cl
      /\ \A k \in Ids \ {i} : e.mat[k] = d.mat[k]
  BY <1>5, PmWrite
<1> HIDE DEF e
<1>7. PmQuiet(d, e, i)
  BY <1>2, <1>6 DEF PmQuiet, PmFrame, PmStill, HasJournal
<1>8. CASE o \in Step(d, e) /\ o.kind # "ok"
  BY <1>7, <1>8, PmStep, PmQuietSelf
<1>9. ASSUME NEW x \in Step(d, e), x.kind = "ok", o \in RemoveArtifacts(x.disk, i)
      PROVE  PmQuiet(d, o.disk, i)
  <2>1. x.disk = e
    BY <1>9, PmStep
  <2>2. PmQuiet(e, o.disk, i)
    BY <1>6, <1>9, <2>1, PmRemoveArtifacts
  <2> QED
    BY <1>7, <2>2, PmQuiets
<1> QED
  BY <1>3, <1>8, <1>9

\* A file of a disk is written.
PmFiled(d, p, c) == [d EXCEPT !.file[p] = c]

LEMMA PmFile ==
  ASSUME NEW d, PmGood(d), NEW p \in Paths, NEW c \in Resource
  PROVE  /\ PmGood(PmFiled(d, p, c)) /\ PmFiled(d, p, c).mat = d.mat /\ PmFiled(d, p, c).cl = d.cl
         /\ PmFiled(d, p, c).file[p] = c
         /\ \A q \in Paths \ {p} : PmFiled(d, p, c).file[q] = d.file[q]
         /\ \A i \in Ids : PmFrame(d, PmFiled(d, p, c), i)
<1> DEFINE e == PmFiled(d, p, c)
<1>1. d \in PmDisks
  BY DEF PmGood
<1>2. e = [file |-> [d.file EXCEPT ![p] = c], mat |-> d.mat, cl |-> d.cl]
  BY <1>1 DEF PmDisks, PmFiled
<1>3. [d.file EXCEPT ![p] = c] \in [Paths -> Resource]
  BY <1>1 DEF PmDisks
<1>4. e \in PmDisks
  BY <1>1, <1>2, <1>3 DEF PmDisks
<1>5. e.mat = d.mat /\ e.cl = d.cl /\ e.file[p] = c /\ \A q \in Paths \ {p} : e.file[q] = d.file[q]
  BY <1>1, <1>2 DEF PmDisks
<1> HIDE DEF e
<1>6. PmGood(e)
  BY <1>4, <1>5 DEF PmGood
<1>7. \A i \in Ids : PmFrame(d, e, i)
  BY <1>5, <1>6 DEF PmFrame, HasJournal
<1> QED
  BY <1>5, <1>6, <1>7 DEF e

\* A staged resource is moved over its target.
LEMMA PmPromoteResource ==
  ASSUME NEW d, PmGood(d), NEW i \in Ids, HasJournal(d, i), NEW o \in PromoteResource(d, i)
  PROVE  /\ PmFrame(d, o.disk, i) /\ PmPromoted(d, o.disk, i)
         /\ o.kind = "ok" => o.disk.mat[i].locs = d.mat[i].locs
<1> DEFINE m == d.mat[i]
           c == IF m.hash \in Links THEN m.staged ELSE Absent
           f == PmFiled(d, m.path, m.hash)
           e == [f EXCEPT !.mat[i].staged = c]
<1>1. d \in PmDisks /\ m \in PmJournals
  BY DEF PmGood, PmDisks
<1>2. m.path \in Paths /\ m.hash \in Resource /\ m.staged \in Resource
  BY <1>1 DEF PmJournals
<1>3. c \in Resource
  BY <1>2 DEF Resource
<1>4. [d EXCEPT !.file[m.path] = m.hash, !.mat[i].staged = IF m.hash \in Links THEN @ ELSE Absent] = e
  BY <1>1 DEF PmFiled, PmDisks, PmJournals
<1>5. o \in Bail(d) \/ o \in Step(d, e)
  BY <1>4 DEF PromoteResource
<1> HIDE DEF c, m
<1>6. /\ PmGood(f) /\ f.mat = d.mat /\ PmFrame(d, f, i) /\ f.file[m.path] = m.hash
      /\ \A q \in Paths \ {m.path} : f.file[q] = d.file[q]
  BY <1>2, PmFile
<1> HIDE DEF f
<1>7. PmFrame(f, e, i) /\ PmStill(f, e) /\ e.mat[i].locs = f.mat[i].locs
  BY <1>3, <1>6, PmArtifact
<1> HIDE DEF e
<1>8. PmFrame(d, e, i) /\ e.mat[i].locs = d.mat[i].locs
  BY <1>6, <1>7, PmFrames
<1>9. PmPromoted(d, e, i)
  BY <1>6, <1>7 DEF PmPromoted, PmStill, m
<1>10. CASE o \in Bail(d)
  BY <1>10, PmOk, PmQuietSelf, PmQuietPromotes
<1>11. CASE o \in Step(d, e)
  <2>1. o.disk = d \/ o.disk = e
    BY <1>11, PmStep
  <2> QED
    BY <2>1, <1>8, <1>9, PmQuietSelf, PmQuietPromotes
<1> QED
  BY <1>5, <1>10, <1>11

\* What a call in two parts, the second for a disk the first left, comes to.
LEMMA PmLocatedOnce ==
  ASSUME NEW d, PmGood(d), NEW i \in Ids, NEW at, d.mat[i].locs = {at}
  PROVE  HasJournal(d, i) /\ Location(d, i) = at /\ at \in PmLocs
<1>1. at \in PmLocs
  BY DEF PmGood, PmDisks, PmJournals
<1> QED
  BY <1>1, PmAt DEF HasJournal

LEMMA PmFamilies ==
  ASSUME NEW at \in PmLocs
  PROVE  /\ PmSameFamily(at, Promoting(at)) /\ PmSameFamily(at, Compensating(at))
         /\ at = "FilePromoting" => PmSameFamily(at, "FilePromoted")
         /\ Promoting(at) = "FilePromoting" => PmSameFamily(Promoting(at), "FilePromoted")
BY DEF PmLocs, PmSameFamily, StateFamily, Promoting, Compensating

LEMMA PmPromoteLocated ==
  ASSUME NEW d, PmGood(d), NEW i \in Ids, NEW at, d.mat[i].locs = {at}, NEW o \in PromoteLocated(d, i)
  PROVE  /\ PmFrame(d, o.disk, i) /\ PmPromoted(d, o.disk, i)
         /\ o.kind = "ok" => HasJournal(o.disk, i)
<1> DEFINE to == Promoting(at)
           placed(e) == IF TargetMatches(e, i) THEN Ok(e) ELSE PromoteResource(e, i)
           marked(e) == IF to = "FilePromoting" THEN Transition(e, i, "FilePromoted") ELSE Ok(e)
           Fit(e) == PmFrame(d, e, i) /\ PmPromoted(d, e, i)
           journal == IF to # at THEN Transition(d, i, to) ELSE Ok(d)
<1>1. HasJournal(d, i) /\ Location(d, i) = at /\ at \in PmLocs
  BY PmLocatedOnce
<1>2. PmSameFamily(at, to) /\ (to = "FilePromoting" => PmSameFamily(to, "FilePromoted"))
  BY <1>1, PmFamilies
<1>3. ASSUME NEW x \in journal
      PROVE  PmQuiet(d, x.disk, i) /\ (x.kind = "ok" => HasJournal(x.disk, i) /\ x.disk.mat[i].locs = {to})
  <2>1. CASE to # at
    BY <2>1, <1>2, <1>3, PmTransition DEF PmQuiet
  <2>2. CASE to = at
    BY <2>2, <1>1, <1>3, PmOk, PmQuietSelf
  <2> QED
    BY <2>1, <2>2
<1>4. ASSUME NEW e, PmQuiet(d, e, i), HasJournal(e, i), e.mat[i].locs = {to}, NEW y \in placed(e)
      PROVE  Fit(y.disk) /\ (y.kind = "ok" => y.disk.mat[i].locs = {to})
  <2>1. PmGood(e)
    BY <1>4 DEF PmQuiet, PmFrame
  <2>2. PmFrame(e, y.disk, i) /\ PmPromoted(e, y.disk, i) /\ (y.kind = "ok" => y.disk.mat[i].locs = {to})
    <3>1. CASE TargetMatches(e, i)
      BY <3>1, <1>4, <2>1, PmOk, PmQuietSelf, PmQuietPromotes
    <3>2. CASE ~TargetMatches(e, i)
      BY <3>2, <1>4, <2>1, PmPromoteResource
    <3> QED
      BY <3>1, <3>2
  <2> QED
    BY <2>2, <1>4, PmQuiets
<1>5. ASSUME NEW e, Fit(e), e.mat[i].locs = {to}, NEW z \in marked(e)
      PROVE  Fit(z.disk) /\ (z.kind = "ok" => HasJournal(z.disk, i))
  <2>1. PmGood(e)
    BY <1>5 DEF PmFrame
  <2>2. HasJournal(e, i)
    BY <1>5 DEF HasJournal
  <2>3. PmQuiet(e, z.disk, i) /\ (z.kind = "ok" => HasJournal(z.disk, i))
    <3>1. CASE to = "FilePromoting"
      BY <3>1, <1>2, <1>5, <2>1, PmTransition DEF PmQuiet
    <3>2. CASE to # "FilePromoting"
      BY <3>2, <1>5, <2>1, <2>2, PmOk, PmQuietSelf
    <3> QED
      BY <3>1, <3>2
  <2> QED
    BY <2>3, <1>5, PmThenQuiet
<1>6. \/ o \in Bail(d)
      \/ \E y : /\ \/ \E x \in journal : x.kind = "ok" /\ y \in placed(x.disk)
                   \/ y \in journal /\ y.kind # "ok"
                /\ \/ y.kind = "ok" /\ o \in marked(y.disk)
                   \/ o = y /\ y.kind # "ok"
  BY <1>1 DEF PromoteLocated, Then
<1> HIDE DEF to, placed, marked, journal
<1>7. CASE o \in Bail(d)
  BY <1>7, <1>1, PmOk, PmQuietSelf, PmQuietPromotes
<1>8. ASSUME NEW y, \/ \E x \in journal : x.kind = "ok" /\ y \in placed(x.disk)
                    \/ y \in journal /\ y.kind # "ok"
      PROVE  Fit(y.disk) /\ (y.kind = "ok" => y.disk.mat[i].locs = {to})
  <2>1. CASE \E x \in journal : x.kind = "ok" /\ y \in placed(x.disk)
    BY <2>1, <1>3, <1>4
  <2>2. CASE y \in journal /\ y.kind # "ok"
    BY <2>2, <1>3, PmQuietPromotes
  <2> QED
    BY <2>1, <2>2, <1>8
<1> QED
  BY <1>5, <1>6, <1>7, <1>8

LEMMA PmPromote ==
  ASSUME NEW d, PmGood(d), NEW i \in Ids, NEW o \in Promote(d, i)
  PROVE  /\ PmFrame(d, o.disk, i) /\ PmPromoted(d, o.disk, i)
         /\ (o.kind = "ok" /\ HasJournal(d, i)) => HasJournal(o.disk, i)
<1>1. CASE ~HasJournal(d, i)
  BY <1>1, PmOk, PmQuietSelf, PmQuietPromotes DEF Promote
<1>2. CASE HasJournal(d, i)
  <2>1. \/ \E x \in Locate(d, i) : x.kind = "ok" /\ o \in PromoteLocated(x.disk, i)
        \/ o \in Locate(d, i) /\ o.kind # "ok"
    BY <1>2 DEF Promote, Then
  <2>2. ASSUME NEW x \in Locate(d, i)
        PROVE  PmQuiet(d, x.disk, i) /\ (x.kind = "ok" => x.disk.mat[i].locs = {Location(d, i)})
    BY <1>2, PmLocate DEF PmQuiet
  <2>3. ASSUME NEW x \in Locate(d, i), x.kind = "ok", o \in PromoteLocated(x.disk, i)
        PROVE  /\ PmFrame(d, o.disk, i) /\ PmPromoted(d, o.disk, i)
               /\ o.kind = "ok" => HasJournal(o.disk, i)
    <3>1. PmGood(x.disk) /\ x.disk.mat[i].locs = {Location(d, i)} /\ PmQuiet(d, x.disk, i)
      BY <2>2, <2>3 DEF PmQuiet, PmFrame
    <3>2. /\ PmFrame(x.disk, o.disk, i) /\ PmPromoted(x.disk, o.disk, i)
          /\ o.kind = "ok" => HasJournal(o.disk, i)
      BY <3>1, <2>3, PmPromoteLocated
    <3> QED
      BY <3>1, <3>2, PmQuiets
  <2>4. CASE o \in Locate(d, i) /\ o.kind # "ok"
    BY <2>2, <2>4, PmQuietPromotes
  <2> QED
    BY <2>1, <2>3, <2>4
<1> QED
  BY <1>1, <1>2

LEMMA PmCompleteLocated ==
  ASSUME NEW d, PmGood(d), NEW i \in Ids, NEW at, d.mat[i].locs = {at}, NEW o \in CompleteLocated(d, i)
  PROVE  PmQuiet(d, o.disk, i)
<1> DEFINE marked == IF at = "FilePromoting" THEN Transition(d, i, "FilePromoted") ELSE Ok(d)
<1>1. HasJournal(d, i) /\ Location(d, i) = at /\ at \in PmLocs
  BY PmLocatedOnce
<1>2. at = "FilePromoting" => PmSameFamily(at, "FilePromoted")
  BY <1>1, PmFamilies
<1>3. ASSUME NEW x \in marked
      PROVE  PmQuiet(d, x.disk, i)
  <2>1. CASE at = "FilePromoting"
    BY <2>1, <1>2, <1>3, PmTransition DEF PmQuiet
  <2>2. CASE at # "FilePromoting"
    BY <2>2, <1>3, PmOk, PmQuietSelf
  <2> QED
    BY <2>1, <2>2
<1>4. \/ o \in Bail(d)
      \/ \E x \in marked : /\ x.kind = "ok"
                           /\ o \in Bail(x.disk) \/ o \in RemoveOperation(x.disk, i)
      \/ o \in marked
  BY <1>1 DEF CompleteLocated, Then
<1> HIDE DEF marked
<1>5. CASE o \in Bail(d)
  BY <1>5, PmOk, PmQuietSelf
<1>6. ASSUME NEW x \in marked, o \in Bail(x.disk) \/ o \in RemoveOperation(x.disk, i)
      PROVE  PmQuiet(d, o.disk, i)
  <2>1. PmQuiet(d, x.disk, i) /\ PmGood(x.disk)
    BY <1>3 DEF PmQuiet, PmFrame
  <2>2. PmQuiet(x.disk, o.disk, i)
    BY <1>6, <2>1, PmOk, PmQuietSelf, PmRemoveOperation
  <2> QED
    BY <2>1, <2>2, PmQuiets
<1> QED
  BY <1>3, <1>4, <1>5, <1>6

LEMMA PmComplete ==
  ASSUME NEW d, PmGood(d), NEW i \in Ids, NEW o \in Complete(d, i)
  PROVE  PmQuiet(d, o.disk, i)
<1>1. CASE ~HasJournal(d, i)
  BY <1>1, PmOk, PmQuietSelf DEF Complete
<1>2. CASE HasJournal(d, i)
  <2>1. \/ \E x \in Locate(d, i) : x.kind = "ok" /\ o \in CompleteLocated(x.disk, i)
        \/ o \in Locate(d, i)
    BY <1>2 DEF Complete, Then
  <2>2. ASSUME NEW x \in Locate(d, i)
        PROVE  PmQuiet(d, x.disk, i) /\ (x.kind = "ok" => x.disk.mat[i].locs = {Location(d, i)})
    BY <1>2, PmLocate DEF PmQuiet
  <2>3. ASSUME NEW x \in Locate(d, i), x.kind = "ok", o \in CompleteLocated(x.disk, i)
        PROVE  PmQuiet(d, o.disk, i)
    <3>1. PmGood(x.disk) /\ x.disk.mat[i].locs = {Location(d, i)} /\ PmQuiet(d, x.disk, i)
      BY <2>2, <2>3 DEF PmQuiet, PmFrame
    <3>2. PmQuiet(x.disk, o.disk, i)
      BY <3>1, <2>3, PmCompleteLocated
    <3> QED
      BY <3>1, <3>2, PmQuiets
  <2> QED
    BY <2>1, <2>2, <2>3
<1> QED
  BY <1>1, <1>2

\* A compensation changes no file before its fence, and comes to it with what was promoted.
LEMMA PmRestoreBackup ==
  ASSUME NEW d, PmGood(d), NEW i \in Ids, HasJournal(d, i), NEW o \in RestoreBackup(d, i)
  PROVE  PmQuiet(d, o.disk, i) /\ PmStops(o, i)
<1>1. CASE o \in Ok(d) \cup Bail(d)
  BY <1>1, PmOk, PmQuietSelf, PmPlainStep, PmPlainStops
<1>2. CASE TargetMatches(d, i) /\ o = Out("restore", d)
  <2>1. o.disk = d /\ o.kind = "restore"
    BY <1>2 DEF Out
  <2> QED
    BY <1>2, <2>1, PmQuietSelf DEF PmStops
<1> QED
  BY <1>1, <1>2 DEF RestoreBackup, Fence

LEMMA PmCompensateLocated ==
  ASSUME NEW d, PmGood(d), NEW i \in Ids, NEW at, d.mat[i].locs = {at}, NEW o \in CompensateLocated(d, i)
  PROVE  PmQuiet(d, o.disk, i) /\ PmStops(o, i)
<1> DEFINE to == Compensating(at)
           journal == IF at # to THEN Transition(d, i, to) ELSE Ok(d)
<1>1. HasJournal(d, i) /\ Location(d, i) = at /\ at \in PmLocs
  BY PmLocatedOnce
<1>2. PmSameFamily(at, to)
  BY <1>1, PmFamilies
<1>3. ASSUME NEW x \in journal
      PROVE  PmQuiet(d, x.disk, i) /\ (x.kind = "ok" => HasJournal(x.disk, i)) /\ PmPlain(x)
  <2>1. CASE at # to
    BY <2>1, <1>2, <1>3, PmTransition, PmPlainJournal DEF PmQuiet
  <2>2. CASE at = to
    BY <2>2, <1>1, <1>3, PmOk, PmQuietSelf, PmPlainStep
  <2> QED
    BY <2>1, <2>2
<1>4. \E y : /\ \/ \E x \in journal : x.kind = "ok" /\ y \in RestoreBackup(x.disk, i)
                \/ y \in journal
             /\ o \in RemoveOperation(y.disk, i) \/ o = y
  BY <1>1 DEF CompensateLocated, Then
<1> HIDE DEF journal, to
<1>5. ASSUME NEW y, \/ \E x \in journal : x.kind = "ok" /\ y \in RestoreBackup(x.disk, i)
                    \/ y \in journal
      PROVE  PmQuiet(d, y.disk, i) /\ PmStops(y, i)
  <2>1. ASSUME NEW x \in journal, x.kind = "ok", y \in RestoreBackup(x.disk, i)
        PROVE  PmQuiet(d, y.disk, i) /\ PmStops(y, i)
    <3>1. PmGood(x.disk) /\ HasJournal(x.disk, i) /\ PmQuiet(d, x.disk, i)
      BY <1>3, <2>1 DEF PmQuiet, PmFrame
    <3>2. PmQuiet(x.disk, y.disk, i) /\ PmStops(y, i)
      BY <3>1, <2>1, PmRestoreBackup
    <3> QED
      BY <3>1, <3>2, PmQuiets
  <2>2. CASE y \in journal
    BY <2>2, <1>3, PmPlainStops
  <2> QED
    BY <1>5, <2>1, <2>2
<1>6. ASSUME NEW y, PmQuiet(d, y.disk, i), o \in RemoveOperation(y.disk, i)
      PROVE  PmQuiet(d, o.disk, i) /\ PmStops(o, i)
  <2>1. PmGood(y.disk)
    BY <1>6 DEF PmQuiet, PmFrame
  <2>2. PmQuiet(y.disk, o.disk, i) /\ PmPlain(o)
    BY <1>6, <2>1, PmRemoveOperation, PmPlainJournal
  <2> QED
    BY <1>6, <2>2, PmQuiets, PmPlainStops
<1> QED
  BY <1>4, <1>5, <1>6

LEMMA PmCompensate ==
  ASSUME NEW d, PmGood(d), NEW i \in Ids, NEW o \in Compensate(d, i)
  PROVE  PmQuiet(d, o.disk, i) /\ PmStops(o, i)
<1>1. CASE ~HasJournal(d, i)
  BY <1>1, PmOk, PmQuietSelf, PmPlainStep, PmPlainStops DEF Compensate
<1>2. CASE HasJournal(d, i)
  <2>1. \/ \E x \in Locate(d, i) : x.kind = "ok" /\ o \in CompensateLocated(x.disk, i)
        \/ o \in Locate(d, i)
    BY <1>2 DEF Compensate, Then
  <2>2. ASSUME NEW x \in Locate(d, i)
        PROVE  PmQuiet(d, x.disk, i) /\ (x.kind = "ok" => x.disk.mat[i].locs = {Location(d, i)})
    BY <1>2, PmLocate DEF PmQuiet
  <2>3. ASSUME NEW x \in Locate(d, i), x.kind = "ok", o \in CompensateLocated(x.disk, i)
        PROVE  PmQuiet(d, o.disk, i) /\ PmStops(o, i)
    <3>1. PmGood(x.disk) /\ x.disk.mat[i].locs = {Location(d, i)} /\ PmQuiet(d, x.disk, i)
      BY <2>2, <2>3 DEF PmQuiet, PmFrame
    <3>2. PmQuiet(x.disk, o.disk, i) /\ PmStops(o, i)
      BY <3>1, <2>3, PmCompensateLocated
    <3> QED
      BY <3>1, <3>2, PmQuiets
  <2>4. CASE o \in Locate(d, i)
    BY <2>2, <2>4, PmPlainJournal, PmPlainStops
  <2> QED
    BY <2>1, <2>3, <2>4
<1> QED
  BY <1>1, <1>2

\* The effects a call of reconciliation for a journal may have.
PmFit(d, e, i) == PmFrame(d, e, i) /\ PmPromoted(d, e, i)

LEMMA PmQuietFits ==
  ASSUME NEW d, NEW e, NEW i \in Ids, PmQuiet(d, e, i)
  PROVE  PmFit(d, e, i)
BY PmQuietPromotes DEF PmFit

\* An operation is promoted and completed.
LEMMA PmPromotes ==
  ASSUME NEW d, PmGood(d), NEW i \in Ids, NEW o,
         o \in Promote(d, i) \/ \E x \in Promote(d, i) : x.kind = "ok" /\ o \in Complete(x.disk, i)
  PROVE  PmFit(d, o.disk, i) /\ PmStops(o, i)
<1>1. ASSUME NEW x \in Promote(d, i), o \in Complete(x.disk, i)
      PROVE  PmFit(d, o.disk, i)
  <2>1. PmFrame(d, x.disk, i) /\ PmPromoted(d, x.disk, i)
    BY PmPromote
  <2>2. PmQuiet(x.disk, o.disk, i)
    BY <1>1, <2>1, PmComplete DEF PmFrame
  <2> QED
    BY <2>1, <2>2, PmThenQuiet DEF PmFit
<1> QED
  BY <1>1, PmPromote, PmPlainPromote, PmPlainStops DEF PmFit

LEMMA PmSuperseded ==
  ASSUME NEW d, PmGood(d), NEW i \in Ids, HasJournal(d, i), NEW active, NEW o \in Superseded(d, i, active)
  PROVE  PmFit(d, o.disk, i) /\ PmStops(o, i)
<1>1. \/ TargetMatches(d, i) /\ o = Out("superseded", d)
      \/ o \in Complete(d, i)
      \/ o \in RemoveOperation(d, i)
      \/ o \in Compensate(d, i)
      \/ o \in Bail(d)
      \/ \E x \in Promote(d, i) : x.kind = "ok" /\ o \in Complete(x.disk, i)
      \/ o \in Promote(d, i)
  BY DEF Superseded, Then, Fence
<1>2. CASE TargetMatches(d, i) /\ o = Out("superseded", d)
  <2>1. o.disk = d /\ o.kind = "superseded"
    BY <1>2 DEF Out
  <2> QED
    BY <1>2, <2>1, PmQuietSelf, PmQuietFits DEF PmStops
<1>3. CASE o \in Complete(d, i) \/ o \in RemoveOperation(d, i)
  BY <1>3, PmComplete, PmRemoveOperation, PmQuietFits, PmPlainPromote, PmPlainJournal, PmPlainStops
<1>4. CASE o \in Compensate(d, i) \/ o \in Bail(d)
  BY <1>4, PmCompensate, PmOk, PmQuietSelf, PmQuietFits, PmPlainStep, PmPlainStops
<1> QED
  BY <1>1, <1>2, <1>3, <1>4, PmPromotes

LEMMA PmCurrent ==
  ASSUME NEW d, PmGood(d), NEW i \in Ids, NEW o \in Current(d, i)
  PROVE  PmFit(d, o.disk, i) /\ PmStops(o, i)
<1>1. \/ o \in Compensate(d, i)
      \/ \E x \in Promote(d, i) : x.kind = "ok" /\ o \in Complete(x.disk, i)
      \/ o \in Promote(d, i)
  BY DEF Current, Then
<1> QED
  BY <1>1, PmPromotes, PmCompensate, PmQuietFits

LEMMA PmRecover ==
  ASSUME NEW d, PmGood(d), NEW i \in Ids, NEW at, NEW rev, NEW active, NEW o \in Recover(d, i, at, rev, active)
  PROVE  PmFit(d, o.disk, i) /\ PmStops(o, i)
<1>1. CASE ~HasJournal(d, i)
  BY <1>1, PmOk, PmQuietSelf, PmQuietFits, PmPlainStep, PmPlainStops DEF Recover
<1>2. CASE HasJournal(d, i)
  <2>1. \/ \E x \in Locate(d, i) : x.kind = "ok" /\ o \in RecoverLocated(x.disk, i, at, rev, active)
        \/ o \in Locate(d, i)
    BY <1>2 DEF Recover, Then
  <2>2. ASSUME NEW x \in Locate(d, i)
        PROVE  PmQuiet(d, x.disk, i) /\ (x.kind = "ok" => HasJournal(x.disk, i))
    BY <1>2, PmLocate DEF PmQuiet
  <2>3. ASSUME NEW x \in Locate(d, i), x.kind = "ok", o \in RecoverLocated(x.disk, i, at, rev, active)
        PROVE  PmFit(d, o.disk, i) /\ PmStops(o, i)
    <3>1. PmGood(x.disk) /\ HasJournal(x.disk, i) /\ PmQuiet(d, x.disk, i)
      BY <2>2, <2>3 DEF PmQuiet, PmFrame
    <3>2. \/ o \in Ok(x.disk) \/ o \in Compensate(x.disk, i)
          \/ o \in Superseded(x.disk, i, active) \/ o \in Current(x.disk, i)
      BY <2>3 DEF RecoverLocated
    <3>3. CASE o \in Ok(x.disk) \/ o \in Compensate(x.disk, i)
      <4>1. PmQuiet(x.disk, o.disk, i) /\ PmStops(o, i)
        BY <3>1, <3>3, PmOk, PmQuietSelf, PmCompensate, PmPlainStep, PmPlainStops
      <4> QED
        BY <3>1, <4>1, PmQuiets, PmQuietFits
    <3>4. CASE o \in Superseded(x.disk, i, active) \/ o \in Current(x.disk, i)
      <4>1. PmFit(x.disk, o.disk, i) /\ PmStops(o, i)
        BY <3>1, <3>4, PmSuperseded, PmCurrent
      <4> QED
        BY <3>1, <4>1, PmQuiets DEF PmFit
    <3> QED
      BY <3>2, <3>3, <3>4
  <2>4. CASE o \in Locate(d, i)
    BY <2>2, <2>4, PmQuietFits, PmPlainJournal, PmPlainStops
  <2> QED
    BY <2>1, <2>3, <2>4
<1> QED
  BY <1>1, <1>2

\* The preparation of an operation changes no file.
PmCleared(d, i) == [d EXCEPT !.mat[i].staged = Absent, !.mat[i].backup = Absent]

LEMMA PmPrepare ==
  ASSUME NEW d, PmGood(d), NEW i \in Ids, NEW p \in Paths, NEW c \in Contents, NEW rev \in Int,
         NEW loc \in PmLocs, NEW o \in Prepare(d, i, p, c, rev, loc)
  PROVE  PmGood(o.disk) /\ PmStill(d, o.disk)
<1> DEFINE Kept(e) == PmGood(e) /\ PmStill(d, e)
           staged == [d EXCEPT !.mat[i].staged = c]
           two == UNION {IF z.kind = "ok" THEN CaptureBackup(z.disk, i, p) ELSE {z} : z \in Stage(d, i, c)}
           all == UNION {IF y.kind = "ok" THEN WriteJournalNew(y.disk, i, p, c, rev, loc) ELSE {y} : y \in two}
<1>1. c \in Resource /\ Absent \in Resource
  BY DEF Resource
<1>2. ASSUME NEW e, Kept(e), NEW k \in Resource, NEW f,
             f = [e EXCEPT !.mat[i].staged = k] \/ f = [e EXCEPT !.mat[i].backup = k]
      PROVE  Kept(f)
  <2>1. PmFrame(e, f, i) /\ PmStill(e, f)
    BY <1>2, PmArtifact
  <2> QED
    BY <2>1, <1>2 DEF PmFrame, PmStill
<1>3. ASSUME NEW x \in Stage(d, i, c)
      PROVE  Kept(x.disk)
  <2> DEFINE f == [d EXCEPT !.mat[i].staged = c]
  <2>1. Kept(d)
    BY DEF PmStill
  <2>2. Kept(f)
    BY <2>1, <1>1, <1>2
  <2>3. x \in Step(d, f)
    BY <1>3 DEF Stage
  <2> HIDE DEF f, Kept
  <2> QED
    BY <2>1, <2>2, <2>3, PmStep
<1>4. ASSUME NEW e, Kept(e), NEW x \in CaptureBackup(e, i, p)
      PROVE  Kept(x.disk)
  <2> DEFINE f == [e EXCEPT !.mat[i].backup = e.file[p]]
  <2>1. e.file[p] \in Resource
    BY <1>4 DEF PmGood, PmDisks
  <2>2. Kept(f)
    BY <2>1, <1>2, <1>4
  <2>3. x \in Step(e, f)
    BY <1>4 DEF CaptureBackup
  <2> HIDE DEF f, Kept
  <2> QED
    BY <1>4, <2>2, <2>3, PmStep
<1>5. ASSUME NEW e, Kept(e), NEW x \in WriteJournalNew(e, i, p, c, rev, loc)
      PROVE  Kept(x.disk)
  <2> DEFINE j == [e.mat[i] EXCEPT !.locs = {loc}, !.path = p, !.rev = rev, !.hash = c]
             f == PmWritten(e, i, j)
  <2>1. e.mat[i] \in PmJournals /\ e \in PmDisks
    BY <1>5 DEF PmGood, PmDisks
  <2>2. j \in PmJournals /\ j.locs = {loc} /\ j.hash = c
    BY <2>1, <1>1 DEF PmJournals
  <2>3. [e EXCEPT !.mat[i].locs = {loc}, !.mat[i].path = p, !.mat[i].rev = rev, !.mat[i].hash = c] = f
    BY <2>1 DEF PmWritten, PmDisks, PmJournals
  <2>4. x \in Step(e, f)
    BY <1>5, <2>3 DEF WriteJournalNew
  <2> HIDE DEF j
  <2>5. PmPhased({loc})
    BY DEF PmPhased
  <2>6. j \in PmJournals /\ PmPhased(j.locs) /\ PmSpeaks(j)
    BY <2>2, <2>5 DEF PmSpeaks
  <2>7. PmGood(f) /\ f.file = e.file
    BY <1>5, <2>6, PmWrite
  <2> HIDE DEF f
  <2>8. Kept(f)
    BY <2>7, <1>5 DEF PmStill
  <2> HIDE DEF Kept
  <2> QED
    BY <1>5, <2>4, <2>8, PmStep
<1>6. ASSUME NEW x \in all
      PROVE  Kept(x.disk)
  <2>1. \E y : /\ \/ \E z \in Stage(d, i, c) : z.kind = "ok" /\ y \in CaptureBackup(z.disk, i, p)
                  \/ y \in Stage(d, i, c)
               /\ x \in WriteJournalNew(y.disk, i, p, c, rev, loc) \/ x = y
    BY <1>6
  <2> HIDE DEF Kept
  <2> QED
    BY <2>1, <1>3, <1>4, <1>5
<1>7. Prepare(d, i, p, c, rev, loc) =
        UNION {IF x.kind # "fault" THEN {x} ELSE {x, Out("fault", PmCleared(x.disk, i))} : x \in all}
  BY DEF Prepare, Then, PmCleared
<1> HIDE DEF all
<1>8. PICK x \in all : o = x \/ o = Out("fault", PmCleared(x.disk, i))
  BY <1>7
<1>9. CASE o = x
  BY <1>6, <1>9
<1>10. CASE o = Out("fault", PmCleared(x.disk, i))
  <2> DEFINE f == [x.disk EXCEPT !.mat[i].staged = Absent]
             g == [f EXCEPT !.mat[i].backup = Absent]
  <2>1. Kept(x.disk)
    BY <1>6
  <2>2. Kept(f)
    BY <2>1, <1>1, <1>2
  <2>3. o.disk = g
    BY <1>10 DEF Out, PmCleared
  <2> HIDE DEF f
  <2>4. Kept(g)
    BY <2>2, <1>1, <1>2
  <2> QED
    BY <2>3, <2>4
<1> QED
  BY <1>8, <1>9, <1>10

\* What a call for a cleanup leaves alone: files and journals, and what the cleanup says.
PmCleanQuiet(d, e, i) ==
  /\ PmGood(e) /\ e.file = d.file /\ e.mat = d.mat
  /\ \A j \in Ids \ {i} : e.cl[j] = d.cl[j]
  /\ HasCleanup(e, i) => /\ HasCleanup(d, i) /\ e.cl[i].path = d.cl[i].path
                         /\ e.cl[i].hash = d.cl[i].hash

PmCleanWritten(d, i, c) == [d EXCEPT !.cl[i] = c]

LEMMA PmCleanWrite ==
  ASSUME NEW d, PmGood(d), NEW i \in Ids, NEW c \in PmCleanups
  PROVE  /\ PmGood(PmCleanWritten(d, i, c)) /\ PmCleanWritten(d, i, c).cl[i] = c
         /\ PmCleanWritten(d, i, c).file = d.file /\ PmCleanWritten(d, i, c).mat = d.mat
         /\ \A k \in Ids \ {i} : PmCleanWritten(d, i, c).cl[k] = d.cl[k]
<1> DEFINE e == PmCleanWritten(d, i, c)
<1>1. d \in PmDisks
  BY DEF PmGood
<1>2. e = [file |-> d.file, mat |-> d.mat, cl |-> [d.cl EXCEPT ![i] = c]]
  BY <1>1 DEF PmDisks, PmCleanWritten
<1>3. [d.cl EXCEPT ![i] = c] \in [Ids -> PmCleanups]
  BY <1>1 DEF PmDisks
<1>4. e \in PmDisks
  BY <1>1, <1>2, <1>3 DEF PmDisks
<1>5. e.cl[i] = c /\ e.file = d.file /\ e.mat = d.mat /\ \A k \in Ids \ {i} : e.cl[k] = d.cl[k]
  BY <1>1, <1>2 DEF PmDisks
<1> HIDE DEF e
<1>6. PmGood(e)
  BY <1>4, <1>5 DEF PmGood
<1> QED
  BY <1>5, <1>6 DEF e

LEMMA PmCleanQuiets ==
  ASSUME NEW d, NEW e, NEW f, NEW i \in Ids, PmCleanQuiet(d, e, i), PmCleanQuiet(e, f, i)
  PROVE  PmCleanQuiet(d, f, i)
BY DEF PmCleanQuiet

LEMMA PmCleanSelf ==
  ASSUME NEW d, NEW i \in Ids, PmGood(d)
  PROVE  PmCleanQuiet(d, d, i)
BY DEF PmCleanQuiet

\* A cleanup keeps its path and hash, or is gone.
LEMMA PmCleanMoves ==
  ASSUME NEW d, PmGood(d), NEW i \in Ids, NEW c \in PmCleanups,
         c.phases # {} => d.cl[i].phases # {} /\ c.path = d.cl[i].path /\ c.hash = d.cl[i].hash,
         NEW o \in Step(d, PmCleanWritten(d, i, c))
  PROVE  /\ PmCleanQuiet(d, o.disk, i)
         /\ o.kind = "ok" => o.disk.cl[i] = c
<1> DEFINE e == PmCleanWritten(d, i, c)
<1>1. /\ PmGood(e) /\ e.cl[i] = c /\ e.file = d.file /\ e.mat = d.mat
      /\ \A k \in Ids \ {i} : e.cl[k] = d.cl[k]
  BY PmCleanWrite
<1>2. o.disk \in {d, e} /\ (o.kind = "ok" => o.disk = e)
  BY PmStep
<1> HIDE DEF e
<1>3. PmCleanQuiet(d, e, i)
  BY <1>1 DEF PmCleanQuiet, HasCleanup
<1> QED
  BY <1>1, <1>2, <1>3, PmCleanSelf

LEMMA PmNoCleanup ==
  ASSUME NEW d, PmGood(d), NEW i \in Ids
  PROVE  /\ d.cl[i] \in PmCleanups /\ d \in PmDisks
         /\ \A s \in SUBSET {"Pending", "Ready"} : [d.cl[i] EXCEPT !.phases = s] \in PmCleanups
         /\ \A b \in BOOLEAN : [NoCleanup EXCEPT !.tomb = b] \in PmCleanups /\ [d.cl[i] EXCEPT !.tomb = b] \in PmCleanups
         /\ NoCleanup \in PmCleanups /\ NoCleanup.phases = {}
<1>1. d.cl[i] \in PmCleanups /\ d \in PmDisks
  BY DEF PmGood, PmDisks
<1>2. Start \in Paths /\ Absent \in Resource
  BY MaterialAssumption DEF Resource
<1>3. NoCleanup \in PmCleanups /\ NoCleanup.phases = {}
  BY <1>2 DEF NoCleanup, PmCleanups
<1>4. \A s \in SUBSET {"Pending", "Ready"} : [d.cl[i] EXCEPT !.phases = s] \in PmCleanups
  BY <1>1 DEF PmCleanups
<1>5. \A b \in BOOLEAN : [NoCleanup EXCEPT !.tomb = b] \in PmCleanups /\ [d.cl[i] EXCEPT !.tomb = b] \in PmCleanups
  BY <1>1, <1>3 DEF PmCleanups
<1> QED
  BY <1>1, <1>3, <1>4, <1>5

\* The phases of a cleanup are rewritten while it has any.
LEMMA PmCleanPhase ==
  ASSUME NEW d, PmGood(d), NEW i \in Ids, HasCleanup(d, i), NEW s \in SUBSET {"Pending", "Ready"},
         NEW o \in Step(d, [d EXCEPT !.cl[i].phases = s])
  PROVE  PmCleanQuiet(d, o.disk, i)
<1> DEFINE c == [d.cl[i] EXCEPT !.phases = s]
<1>1. d \in PmDisks /\ d.cl[i] \in PmCleanups /\ c \in PmCleanups
  BY PmNoCleanup
<1>2. [d EXCEPT !.cl[i].phases = s] = PmCleanWritten(d, i, c)
  BY <1>1 DEF PmCleanWritten, PmDisks
<1>3. c.path = d.cl[i].path /\ c.hash = d.cl[i].hash
  BY <1>1 DEF PmCleanups
<1> HIDE DEF c
<1> QED
  BY <1>1, <1>2, <1>3, PmCleanMoves DEF HasCleanup

LEMMA PmLocateCleanup ==
  ASSUME NEW d, PmGood(d), NEW i \in Ids, NEW o \in LocateCleanup(d, i)
  PROVE  PmCleanQuiet(d, o.disk, i)
<1>1. CASE d.cl[i].phases = {"Pending", "Ready"}
  <2>1. o \in Step(d, [d EXCEPT !.cl[i].phases = {"Ready"}])
    BY <1>1 DEF LocateCleanup
  <2>2. HasCleanup(d, i)
    BY <1>1 DEF HasCleanup
  <2> DEFINE s == {"Ready"}
  <2>3. s \in SUBSET {"Pending", "Ready"} /\ o \in Step(d, [d EXCEPT !.cl[i].phases = s])
    BY <2>1
  <2> HIDE DEF s
  <2> QED
    BY <2>2, <2>3, PmCleanPhase
<1>2. CASE d.cl[i].phases # {"Pending", "Ready"}
  BY <1>2, PmOk, PmCleanSelf DEF LocateCleanup
<1> QED
  BY <1>1, <1>2

LEMMA PmTransitionCleanup ==
  ASSUME NEW d, PmGood(d), NEW i \in Ids, HasCleanup(d, i), NEW o \in TransitionCleanup(d, i)
  PROVE  PmCleanQuiet(d, o.disk, i)
<1> DEFINE s == {"Ready"}
           t == {"Pending", "Ready"}
           ready(e) == [e EXCEPT !.cl[i].phases = s]
           both == [d EXCEPT !.cl[i].phases = t]
<1>1. /\ windows => \/ \E x \in Step(d, both) : x.kind = "ok" /\ o \in Step(x.disk, ready(x.disk))
                    \/ o \in Step(d, both)
      /\ ~windows => o \in Step(d, ready(d))
  BY DEF TransitionCleanup, Then
<1>2. s \in SUBSET {"Pending", "Ready"} /\ t \in SUBSET {"Pending", "Ready"}
  OBVIOUS
<1>3. both.cl[i].phases = t
  BY PmNoCleanup DEF PmDisks, PmCleanups
<1> HIDE DEF s, t
<1>4. o \in Step(d, ready(d)) \/ o \in Step(d, both) => PmCleanQuiet(d, o.disk, i)
  BY <1>2, PmCleanPhase
<1>5. ASSUME NEW x \in Step(d, both), x.kind = "ok", o \in Step(x.disk, ready(x.disk))
      PROVE  PmCleanQuiet(d, o.disk, i)
  <2>1. x.disk = both
    BY <1>5, PmStep
  <2>2. PmCleanQuiet(d, x.disk, i)
    BY <1>2, PmCleanPhase
  <2>3. PmGood(x.disk) /\ HasCleanup(x.disk, i)
    BY <1>3, <2>1, <2>2 DEF PmCleanQuiet, HasCleanup, t
  <2>4. PmCleanQuiet(x.disk, o.disk, i)
    BY <1>2, <1>5, <2>3, PmCleanPhase
  <2> QED
    BY <2>2, <2>4, PmCleanQuiets
<1> QED
  BY <1>1, <1>4, <1>5

LEMMA PmActivateCleanup ==
  ASSUME NEW d, PmGood(d), NEW i \in Ids, NEW o \in ActivateCleanup(d, i)
  PROVE  PmCleanQuiet(d, o.disk, i)
<1>1. \/ \E x \in LocateCleanup(d, i) :
           \/ x.disk.cl[i].phases = {"Pending"} /\ o \in TransitionCleanup(x.disk, i)
           \/ o \in Ok(x.disk)
      \/ o \in LocateCleanup(d, i)
  BY DEF ActivateCleanup, Then
<1>2. ASSUME NEW x \in LocateCleanup(d, i),
             \/ x.disk.cl[i].phases = {"Pending"} /\ o \in TransitionCleanup(x.disk, i)
             \/ o \in Ok(x.disk)
      PROVE  PmCleanQuiet(d, o.disk, i)
  <2>1. PmCleanQuiet(d, x.disk, i) /\ PmGood(x.disk)
    BY PmLocateCleanup DEF PmCleanQuiet
  <2>2. CASE x.disk.cl[i].phases = {"Pending"} /\ o \in TransitionCleanup(x.disk, i)
    <3>1. HasCleanup(x.disk, i)
      BY <2>2 DEF HasCleanup
    <3> QED
      BY <2>1, <2>2, <3>1, PmTransitionCleanup, PmCleanQuiets
  <2>3. CASE o \in Ok(x.disk)
    BY <2>1, <2>3, PmOk
  <2> QED
    BY <1>2, <2>2, <2>3
<1> QED
  BY <1>1, <1>2, PmLocateCleanup

LEMMA PmCancelCleanup ==
  ASSUME NEW d, PmGood(d), NEW i \in Ids, NEW o \in CancelCleanup(d, i)
  PROVE  PmCleanQuiet(d, o.disk, i)
<1>1. \/ \E x \in LocateCleanup(d, i) :
           \/ o \in Ok(x.disk) \cup Bail(x.disk)
           \/ o \in Step(x.disk, PmCleanWritten(x.disk, i, NoCleanup))
      \/ o \in LocateCleanup(d, i)
  BY DEF CancelCleanup, Then, PmCleanWritten
<1>2. ASSUME NEW x \in LocateCleanup(d, i),
             \/ o \in Ok(x.disk) \cup Bail(x.disk)
             \/ o \in Step(x.disk, PmCleanWritten(x.disk, i, NoCleanup))
      PROVE  PmCleanQuiet(d, o.disk, i)
  <2>1. PmCleanQuiet(d, x.disk, i) /\ PmGood(x.disk)
    BY PmLocateCleanup DEF PmCleanQuiet
  <2>2. NoCleanup \in PmCleanups /\ NoCleanup.phases = {}
    BY PmNoCleanup
  <2>3. CASE o \in Step(x.disk, PmCleanWritten(x.disk, i, NoCleanup))
    BY <2>1, <2>2, <2>3, PmCleanMoves, PmCleanQuiets
  <2>4. CASE o \in Ok(x.disk) \cup Bail(x.disk)
    BY <2>1, <2>4, PmOk
  <2> QED
    BY <1>2, <2>3, <2>4
<1> QED
  BY <1>1, <1>2, PmLocateCleanup

LEMMA PmRemoveCleanupJournal ==
  ASSUME NEW d, PmGood(d), NEW i \in Ids, NEW o \in RemoveCleanupJournal(d, i)
  PROVE  PmCleanQuiet(d, o.disk, i)
<1> DEFINE c == [NoCleanup EXCEPT !.tomb = d.cl[i].tomb]
<1>1. d.cl[i] \in PmCleanups
  BY PmNoCleanup
<1>2. d.cl[i].tomb \in BOOLEAN
  BY <1>1 DEF PmCleanups
<1>3. c \in PmCleanups
  BY <1>2, PmNoCleanup
<1>4. c.phases = {}
  BY PmNoCleanup DEF PmCleanups
<1>5. o \in Step(d, PmCleanWritten(d, i, c))
  BY DEF RemoveCleanupJournal, PmCleanWritten
<1> HIDE DEF c
<1> QED
  BY <1>3, <1>4, <1>5, PmCleanMoves

LEMMA PmRemoveTombstone ==
  ASSUME NEW d, PmGood(d), NEW i \in Ids, NEW o \in RemoveTombstone(d, i)
  PROVE  PmCleanQuiet(d, o.disk, i)
<1> DEFINE c == [d.cl[i] EXCEPT !.tomb = FALSE]
<1>1. d.cl[i] \in PmCleanups /\ d \in PmDisks /\ c \in PmCleanups
  BY PmNoCleanup
<1>2. c.phases = d.cl[i].phases /\ c.path = d.cl[i].path /\ c.hash = d.cl[i].hash
  BY <1>1 DEF PmCleanups
<1>3. o \in Step(d, PmCleanWritten(d, i, c)) \/ o \in Ok(d)
  BY <1>1 DEF RemoveTombstone, PmCleanWritten, PmDisks
<1> HIDE DEF c
<1> QED
  BY <1>1, <1>2, <1>3, PmCleanMoves, PmOk, PmCleanSelf

\* The call for a cleanup comes to its fence with a file that has the bytes it was prepared
\* for, and that the document does not use.
LEMMA PmRetryLocated ==
  ASSUME NEW d, PmGood(d), NEW i \in Ids, NEW active, NEW o \in RetryLocated(d, i, active)
  PROVE  PmCleanQuiet(d, o.disk, i) /\ PmStops(o, i)
<1>1. \/ o \in Ok(d)
      \/ o \in RemoveCleanupJournal(d, i)
      \/ \E x \in RemoveTombstone(d, i) : o \in RemoveCleanupJournal(x.disk, i)
      \/ o \in RemoveTombstone(d, i)
      \/ /\ d.cl[i].phases # {} /\ d.file[d.cl[i].path] = d.cl[i].hash
         /\ o = Out("cleanup", d)
  BY DEF RetryLocated, Then, Fence
<1>2. CASE o \in Ok(d)
  BY <1>2, PmOk, PmCleanSelf, PmPlainStep, PmPlainStops
<1>3. CASE o \in RemoveCleanupJournal(d, i) \/ o \in RemoveTombstone(d, i)
  BY <1>3, PmRemoveCleanupJournal, PmRemoveTombstone, PmPlainCleanup, PmPlainStops
<1>4. ASSUME NEW x \in RemoveTombstone(d, i), o \in RemoveCleanupJournal(x.disk, i)
      PROVE  PmCleanQuiet(d, o.disk, i) /\ PmStops(o, i)
  <2>1. PmCleanQuiet(d, x.disk, i) /\ PmGood(x.disk)
    BY PmRemoveTombstone DEF PmCleanQuiet
  <2> QED
    BY <1>4, <2>1, PmRemoveCleanupJournal, PmCleanQuiets, PmPlainCleanup, PmPlainStops
<1>5. CASE /\ d.cl[i].phases # {} /\ d.file[d.cl[i].path] = d.cl[i].hash
           /\ o = Out("cleanup", d)
  <2>1. o.disk = d /\ o.kind = "cleanup"
    BY <1>5 DEF Out
  <2> QED
    BY <1>5, <2>1, PmCleanSelf DEF PmStops, HasCleanup
<1> QED
  BY <1>1, <1>2, <1>3, <1>4, <1>5

LEMMA PmRetryCleanup ==
  ASSUME NEW d, PmGood(d), NEW i \in Ids, NEW active, NEW o \in RetryCleanup(d, i, active)
  PROVE  PmCleanQuiet(d, o.disk, i) /\ PmStops(o, i)
<1>1. \/ \E x \in ActivateCleanup(d, i) : o \in RetryLocated(x.disk, i, active)
      \/ o \in ActivateCleanup(d, i)
  BY DEF RetryCleanup, Then
<1>2. ASSUME NEW x \in ActivateCleanup(d, i), o \in RetryLocated(x.disk, i, active)
      PROVE  PmCleanQuiet(d, o.disk, i) /\ PmStops(o, i)
  <2>1. PmCleanQuiet(d, x.disk, i) /\ PmGood(x.disk)
    BY PmActivateCleanup DEF PmCleanQuiet
  <2>2. PmCleanQuiet(x.disk, o.disk, i) /\ PmStops(o, i)
    BY <1>2, <2>1, PmRetryLocated
  <2> QED
    BY <2>1, <2>2, PmCleanQuiets
<1> QED
  BY <1>1, <1>2, PmActivateCleanup, PmPlainCleanup, PmPlainStops

LEMMA PmPendingCleanup ==
  ASSUME NEW d, PmGood(d), NEW i \in Ids, NEW active, NEW o \in PendingCleanup(d, i, active)
  PROVE  PmCleanQuiet(d, o.disk, i) /\ PmStops(o, i)
<1>1. \/ \E x \in LocateCleanup(d, i) :
           \/ o \in Ok(x.disk) \/ o \in CancelCleanup(x.disk, i) \/ o \in ActivateCleanup(x.disk, i)
      \/ o \in LocateCleanup(d, i)
  BY DEF PendingCleanup, Then
<1>2. ASSUME NEW x \in LocateCleanup(d, i),
             \/ o \in Ok(x.disk) \/ o \in CancelCleanup(x.disk, i) \/ o \in ActivateCleanup(x.disk, i)
      PROVE  PmCleanQuiet(d, o.disk, i) /\ PmPlain(o)
  <2>1. PmCleanQuiet(d, x.disk, i) /\ PmGood(x.disk)
    BY PmLocateCleanup DEF PmCleanQuiet
  <2>2. PmCleanQuiet(x.disk, o.disk, i)
    BY <1>2, <2>1, PmOk, PmCleanSelf, PmCancelCleanup, PmActivateCleanup
  <2> QED
    BY <1>2, <2>1, <2>2, PmCleanQuiets, PmPlainStep, PmPlainCleanup
<1> QED
  BY <1>1, <1>2, PmLocateCleanup, PmPlainCleanup, PmPlainStops

LEMMA PmPrepareCleanup ==
  ASSUME NEW d, PmGood(d), NEW i \in Ids, NEW p \in Paths, NEW o \in PrepareCleanup(d, i, p)
  PROVE  PmGood(o.disk) /\ PmStill(d, o.disk)
<1> DEFINE c == [phases |-> {"Pending"}, path |-> p, hash |-> d.file[p], tomb |-> FALSE]
<1>1. d.file[p] \in Resource
  BY DEF PmGood, PmDisks
<1>2. c \in PmCleanups
  BY <1>1 DEF PmCleanups
<1>3. o \in Step(d, PmCleanWritten(d, i, c))
  BY DEF PrepareCleanup, PmCleanWritten
<1> HIDE DEF c
<1>4. PmGood(PmCleanWritten(d, i, c)) /\ PmCleanWritten(d, i, c).file = d.file
  BY <1>2, PmCleanWrite
<1> QED
  BY <1>3, <1>4, PmStep DEF PmStill

\* The sweeps remove what no journal speaks of.
PmSweptTo(d, e) ==
  /\ PmGood(e) /\ PmStill(d, e)
  /\ \A i \in Ids : (HasJournal(d, i) => e.mat[i] = d.mat[i]) /\ (HasCleanup(d, i) => e.cl[i] = d.cl[i])

LEMMA PmSweep ==
  ASSUME NEW d, PmGood(d), NEW o \in SweepArtifacts(d) \cup SweepTombstones(d)
  PROVE  PmSweptTo(d, o.disk) /\ PmPlain(o)
<1> DEFINE ms == [i \in Ids |-> IF HasJournal(d, i) THEN d.mat[i] ELSE NoJournal]
           cs == [i \in Ids |-> IF HasCleanup(d, i) THEN d.cl[i] ELSE NoCleanup]
           e == [file |-> d.file, mat |-> ms, cl |-> d.cl]
           f == [file |-> d.file, mat |-> d.mat, cl |-> cs]
<1>1. d \in PmDisks
  BY DEF PmGood
<1>2. Start \in Paths /\ Absent \in Resource
  BY MaterialAssumption DEF Resource
<1>3. NoJournal \in PmJournals /\ NoJournal.locs = {} /\ NoCleanup \in PmCleanups
  BY <1>2 DEF NoJournal, PmJournals, NoCleanup, PmCleanups
<1>4. PmPhased({})
  BY DEF PmPhased, PmLocs
<1>5. ms \in [Ids -> PmJournals] /\ cs \in [Ids -> PmCleanups]
  BY <1>1, <1>3 DEF PmDisks
<1>6. \A i \in Ids : PmPhased(ms[i].locs) /\ PmSpeaks(ms[i])
  BY <1>3, <1>4 DEF PmGood, PmSpeaks
<1>7. \A i \in Ids : (HasJournal(d, i) => ms[i] = d.mat[i]) /\ (HasCleanup(d, i) => cs[i] = d.cl[i])
  OBVIOUS
<1>8. o \in Step(d, [d EXCEPT !.mat = ms]) \/ o \in Step(d, [d EXCEPT !.cl = cs])
  BY DEF SweepArtifacts, SweepTombstones
<1> HIDE DEF ms, cs
<1>9. [d EXCEPT !.mat = ms] = e /\ [d EXCEPT !.cl = cs] = f
  BY <1>1 DEF PmDisks
<1>10. PmGood(e) /\ PmGood(f)
  BY <1>1, <1>5, <1>6 DEF PmGood, PmDisks
<1>11. PmSweptTo(d, d) /\ PmSweptTo(d, e) /\ PmSweptTo(d, f)
  BY <1>7, <1>10 DEF PmSweptTo, PmStill
<1>12. o \in Step(d, e) \/ o \in Step(d, f)
  BY <1>8, <1>9
<1> HIDE DEF e, f
<1>13. o.disk \in {d, e, f}
  BY <1>12, PmStep
<1>14. PmPlain(o)
  BY <1>12, PmPlainStep
<1> QED
  BY <1>11, <1>13, <1>14

\* What is left of a call that is at a fence changes one file.
PmOnly(d, e, p) == PmGood(e) /\ \A q \in Paths \ {p} : e.file[q] = d.file[q]

LEMMA PmUndone ==
  ASSUME NEW d, PmGood(d), NEW i \in Ids, NEW c \in Resource, NEW o,
         \/ o \in Step(d, PmFiled(d, d.mat[i].path, c))
         \/ \E x \in Step(d, PmFiled(d, d.mat[i].path, c)) : o \in RemoveOperation(x.disk, i)
  PROVE  PmOnly(d, o.disk, d.mat[i].path) /\ PmPlain(o)
<1> DEFINE p == d.mat[i].path
           e == PmFiled(d, p, c)
<1>1. p \in Paths
  BY DEF PmGood, PmDisks, PmJournals
<1>2. PmOnly(d, e, p) /\ PmOnly(d, d, p)
  BY <1>1, PmFile DEF PmOnly
<1>3. o \in Step(d, e) \/ \E x \in Step(d, e) : o \in RemoveOperation(x.disk, i)
  OBVIOUS
<1> HIDE DEF e, p
<1>4. ASSUME NEW x \in Step(d, e)
      PROVE  PmOnly(d, x.disk, p)
  BY <1>2, PmStep
<1>5. ASSUME NEW x \in Step(d, e), o \in RemoveOperation(x.disk, i)
      PROVE  PmOnly(d, o.disk, p)
  <2>1. PmOnly(d, x.disk, p) /\ PmGood(x.disk)
    BY <1>4 DEF PmOnly
  <2>2. PmGood(o.disk) /\ o.disk.file = x.disk.file
    BY <1>5, <2>1, PmRemoveOperation DEF PmQuiet, PmFrame, PmStill
  <2> QED
    BY <2>1, <2>2 DEF PmOnly
<1>6. PmPlain(o)
  BY <1>3, PmPlainStep, PmPlainJournal
<1> QED
  BY <1>3, <1>4, <1>5, <1>6 DEF p

PmTaken(d, e, p) == PmOnly(d, e, p) /\ e.file[p] \in {d.file[p], Absent}

LEMMA PmRemoveCleanupTarget ==
  ASSUME NEW d, PmGood(d), NEW i \in Ids, windows \in BOOLEAN, NEW o \in RemoveCleanupTarget(d, i)
  PROVE  PmTaken(d, o.disk, d.cl[i].path)
<1> DEFINE c == [d.cl[i] EXCEPT !.tomb = windows]
           p == d.cl[i].path
           f == PmFiled(d, p, Absent)
           e == [d EXCEPT !.file[d.cl[i].path] = Absent, !.cl[i].tomb = windows]
<1>1. d.cl[i] \in PmCleanups /\ d \in PmDisks
  BY PmNoCleanup
<1>2. p \in Paths /\ Absent \in Resource
  BY <1>1 DEF PmCleanups, Resource
<1>3. o \in Bail(d) \/ o \in Step(d, e)
  BY DEF RemoveCleanupTarget
<1>4. CASE o \in Bail(d)
  BY <1>4, PmOk DEF PmTaken, PmOnly
<1>5. PmTaken(d, e, p) /\ PmTaken(d, d, p)
  <2>1. c \in PmCleanups
    BY PmNoCleanup
  <2>2. e = PmCleanWritten(f, i, c)
    BY <1>1 DEF PmFiled, PmCleanWritten, PmDisks
  <2>3. PmGood(f) /\ f.file[p] = Absent /\ \A q \in Paths \ {p} : f.file[q] = d.file[q]
    BY <1>2, PmFile
  <2> HIDE DEF f, c, e
  <2>4. PmGood(e) /\ e.file = f.file
    BY <2>1, <2>2, <2>3, PmCleanWrite
  <2> QED
    BY <2>3, <2>4 DEF PmTaken, PmOnly
<1> HIDE DEF e
<1>6. CASE o \in Step(d, e)
  BY <1>5, <1>6, PmStep
<1> QED
  BY <1>3, <1>4, <1>6

LEMMA PmCleaned ==
  ASSUME NEW d, PmGood(d), NEW i \in Ids, windows \in BOOLEAN, NEW o \in PassCleanup(d, i)
  PROVE  PmTaken(d, o.disk, d.cl[i].path) /\ PmPlain(o)
<1> DEFINE p == d.cl[i].path
<1>1. \E y : /\ \/ \E x \in RemoveCleanupTarget(d, i) : y \in RemoveCleanupJournal(x.disk, i)
                \/ y \in RemoveCleanupTarget(d, i)
             /\ o \in RemoveTombstone(y.disk, i) \/ o = y
  BY DEF PassCleanup, Then
<1>2. ASSUME NEW x \in RemoveCleanupTarget(d, i)
      PROVE  PmTaken(d, x.disk, p)
  BY PmRemoveCleanupTarget
<1> HIDE DEF p
<1>3. ASSUME NEW e, PmTaken(d, e, p), NEW f, PmCleanQuiet(e, f, i)
      PROVE  PmTaken(d, f, p)
  BY <1>3 DEF PmTaken, PmOnly, PmCleanQuiet
<1>4. ASSUME NEW y, \/ \E x \in RemoveCleanupTarget(d, i) : y \in RemoveCleanupJournal(x.disk, i)
                    \/ y \in RemoveCleanupTarget(d, i)
      PROVE  PmTaken(d, y.disk, p) /\ PmPlain(y)
  <2>1. ASSUME NEW x \in RemoveCleanupTarget(d, i), y \in RemoveCleanupJournal(x.disk, i)
        PROVE  PmTaken(d, y.disk, p)
    <3>1. PmTaken(d, x.disk, p) /\ PmGood(x.disk)
      BY <1>2 DEF PmTaken, PmOnly
    <3> QED
      BY <1>3, <2>1, <3>1, PmRemoveCleanupJournal
  <2> QED
    BY <1>2, <1>4, <2>1, PmPlainCleanup
<1>5. ASSUME NEW y, PmTaken(d, y.disk, p), o \in RemoveTombstone(y.disk, i)
      PROVE  PmTaken(d, o.disk, p) /\ PmPlain(o)
  <2>1. PmGood(y.disk)
    BY <1>5 DEF PmTaken, PmOnly
  <2> QED
    BY <1>3, <1>5, <2>1, PmRemoveTombstone, PmPlainCleanup
<1> QED
  BY <1>1, <1>4, <1>5 DEF p

\* The operation the actor runs has what its next call needs, and room for its revisions.
PmRuns ==
  /\ pc \in {"idle", "down", "reconcile", "prepare", "prepareCleanup", "promote", "complete", "cancel",
             "compensate", "activate", "retry", "commit", "rollback"}
  /\ pc \notin {"idle", "down", "reconcile"} =>
       /\ op.kind \in {"state", "file"} /\ op.path \in Paths /\ op.content \in Contents \cup {Absent}
       /\ op.mat \in Ids \cup {0} /\ op.cl \in Ids \cup {0}
       /\ op.next \subseteq Paths /\ op.was \subseteq Paths /\ op.wanted \in [Paths -> Resource]
       /\ op.kind = "file" => op.mat \in Ids
  /\ pc = "prepare" => op.mat \in Ids /\ op.content \in Contents
  /\ pc \in {"promote", "complete", "compensate"} => op.mat \in Ids
  /\ pc = "prepareCleanup" \/ op.cl # 0 => op.drop \in Paths
  /\ pc \in {"prepareCleanup", "cancel", "activate", "retry"} => op.cl \in Ids
  /\ pc \in {"prepare", "prepareCleanup", "commit"} => doc.rev < MaxRev
  /\ pc = "promote" /\ op.kind = "file" => doc.rev < MaxRev
  /\ pc \in {"promote", "rollback"} => doc.rev <= MaxRev

\* A call is at a fence with what its journal says, which the file held there.
PmFence ==
  fence # NoFence =>
    /\ fence.id \in Ids
    /\ \/ /\ fence.at \in {"restore", "superseded"} /\ HasJournal(disk, fence.id)
          /\ fence.saw = disk.mat[fence.id].hash
       \/ /\ fence.at = "cleanup" /\ HasCleanup(disk, fence.id)
          /\ fence.saw = disk.cl[fence.id].hash

PmSound ==
  /\ PmGood(disk) /\ windows \in BOOLEAN
  /\ doc.rev \in 0..(MaxRev + 1) /\ doc.active \subseteq Paths /\ want \in [Paths -> Resource]
  /\ recon.pass \in 0..11 /\ recon.ids \subseteq Ids
  /\ PmRuns /\ PmFence

\* What a step may do to the bytes a user typed.
PmKept(d, e) ==
  \A p \in Paths : d.file[p] = Mine =>
    \/ e.file[p] = Mine
    \/ \E i \in Ids : HasJournal(d, i) /\ d.mat[i].path = p /\ e.file[p] = d.mat[i].hash
    \/ \E i \in Ids : HasCleanup(d, i) /\ d.cl[i].path = p /\ d.cl[i].hash = Mine /\ e.file[p] = Absent

\* And what one may do that follows a fence, if the file held something else there.
PmSpared(e) ==
  \A p \in Paths : disk.file[p] = Mine =>
    \/ e.file[p] = Mine
    \/ \E i \in Ids : HasJournal(disk, i) /\ disk.mat[i].path = p /\ e.file[p] = disk.mat[i].hash
    \/ \E i \in Ids : HasCleanup(disk, i) /\ disk.cl[i].path = p /\ disk.cl[i].hash = Mine /\ e.file[p] = Absent
    \/ fence # NoFence /\ FencePath = p /\ fence.saw # Mine

LEMMA PmKeptIsSpared ==
  ASSUME NEW e, PmKept(disk, e)
  PROVE  PmSpared(e)
BY DEF PmKept, PmSpared

LEMMA PmKeeps ==
  ASSUME NEW e, NEW i \in Ids
  PROVE  /\ PmStill(disk, e) => PmSpared(e)
         /\ PmFit(disk, e, i) => PmGood(e) /\ PmSpared(e)
         /\ PmQuiet(disk, e, i) => PmGood(e) /\ PmSpared(e)
         /\ PmCleanQuiet(disk, e, i) => PmGood(e) /\ PmSpared(e)
<1>1. PmStill(disk, e) => PmSpared(e)
  BY DEF PmStill, PmSpared
<1>2. PmFit(disk, e, i) => PmGood(e) /\ PmKept(disk, e)
  BY DEF PmFit, PmFrame, PmPromoted, PmKept
<1>3. PmQuiet(disk, e, i) => PmGood(e) /\ PmSpared(e)
  BY <1>1 DEF PmQuiet, PmFrame
<1>4. PmCleanQuiet(disk, e, i) => PmGood(e) /\ PmSpared(e)
  BY <1>1 DEF PmCleanQuiet, PmStill
<1> QED
  BY <1>1, <1>2, <1>3, <1>4, PmKeptIsSpared

\* What is left of a call that is at a fence: bytes that were typed after it may be lost.
LEMMA PmPassed ==
  ASSUME PmSound, fence # NoFence, NEW o \in Passed
  PROVE  PmGood(o.disk) /\ PmPlain(o) /\ PmSpared(o.disk)
<1> DEFINE i == fence.id
<1>1. PmGood(disk) /\ windows \in BOOLEAN /\ i \in Ids
  BY DEF PmSound, PmFence
<1>2. disk.mat[i] \in PmJournals /\ disk.cl[i] \in PmCleanups
  BY <1>1 DEF PmGood, PmDisks
<1>3. CASE fence.at \in {"restore", "superseded"}
  <2> DEFINE c == IF fence.at = "restore" THEN BackupResource(disk, i) ELSE Absent
             p == disk.mat[i].path
  <2>1. c \in Resource
    BY <1>2 DEF PmJournals, BackupResource, Resource
  <2>2. \/ o \in Step(disk, PmFiled(disk, p, c))
        \/ \E x \in Step(disk, PmFiled(disk, p, c)) : o \in RemoveOperation(x.disk, i)
    BY <1>3 DEF Passed, PassRestore, PassSuperseded, Then, PmFiled
  <2>3. FencePath = p /\ HasJournal(disk, i) /\ fence.saw = disk.mat[i].hash
    BY <1>3 DEF FencePath, PmSound, PmFence
  <2>4. fence.saw # Mine
    BY <1>1, <2>3, MaterialAssumption DEF PmGood, PmSpeaks, HasJournal
  <2> HIDE DEF c
  <2>5. PmOnly(disk, o.disk, p) /\ PmPlain(o)
    BY <1>1, <2>1, <2>2, PmUndone
  <2>6. PmSpared(o.disk)
    BY <2>3, <2>4, <2>5 DEF PmSpared, PmOnly
  <2> QED
    BY <2>5, <2>6 DEF PmOnly
<1>4. CASE fence.at = "cleanup"
  <2> DEFINE p == disk.cl[i].path
  <2>1. o \in PassCleanup(disk, i)
    BY <1>4 DEF Passed
  <2>2. FencePath = p /\ HasCleanup(disk, i) /\ fence.saw = disk.cl[i].hash
    BY <1>4 DEF FencePath, PmSound, PmFence
  <2>3. PmTaken(disk, o.disk, p) /\ PmPlain(o)
    BY <1>1, <2>1, PmCleaned
  <2>4. PmSpared(o.disk)
    BY <1>1, <2>2, <2>3 DEF PmSpared, PmTaken, PmOnly
  <2> QED
    BY <2>3, <2>4 DEF PmTaken, PmOnly
<1> QED
  BY <1>3, <1>4 DEF PmSound, PmFence

\* Each outcome of the call the actor is in.
LEMMA PmOutcomes ==
  ASSUME PmSound, NEW o \in Outcomes
  PROVE  /\ PmGood(o.disk) /\ PmSpared(o.disk)
         /\ \/ PmPlain(o)
            \/ /\ (IF pc = "retry" THEN op.cl ELSE op.mat) \in Ids
               /\ PmStops(o, IF pc = "retry" THEN op.cl ELSE op.mat)
<1>1. PmGood(disk)
  BY DEF PmSound
<1>0. CASE fence # NoFence
  <2>1. o \in Passed
    BY <1>0 DEF Outcomes
  <2> QED
    BY <1>0, <2>1, PmPassed
<1>2. CASE fence = NoFence /\ pc = "prepare"
  <2> DEFINE loc == IF op.kind = "state" THEN "StatePrepared" ELSE "FilePrepared"
  <2>1. o \in Prepare(disk, op.mat, op.path, op.content, doc.rev + 1, loc)
    BY <1>2 DEF Outcomes
  <2>2. /\ op.mat \in Ids /\ op.path \in Paths /\ op.content \in Contents /\ doc.rev + 1 \in Int
        /\ loc \in PmLocs
    BY <1>2, MaterialAssumption DEF PmSound, PmRuns, PmLocs
  <2> HIDE DEF loc
  <2>3. PmPlain(o)
    BY <2>1, PmPlainPrepare
  <2> QED
    BY <1>1, <2>1, <2>2, <2>3, PmPrepare, PmKeeps
<1>3. CASE fence = NoFence /\ pc = "prepareCleanup"
  <2>1. o \in PrepareCleanup(disk, op.cl, op.drop) /\ op.cl \in Ids /\ op.drop \in Paths
    BY <1>3 DEF Outcomes, PmSound, PmRuns
  <2>2. PmPlain(o)
    BY <2>1, PmPlainPrepare
  <2> QED
    BY <1>1, <2>1, <2>2, PmPrepareCleanup, PmKeeps
<1>4. CASE fence = NoFence /\ pc = "promote"
  <2>1. o \in Promote(disk, op.mat) /\ op.mat \in Ids
    BY <1>4 DEF Outcomes, PmSound, PmRuns
  <2> QED
    BY <1>1, <2>1, PmPromote, PmKeeps, PmPlainPromote DEF PmFit
<1>5. CASE fence = NoFence /\ pc \in {"complete", "compensate"}
  <2>1. (o \in Complete(disk, op.mat) \/ o \in Compensate(disk, op.mat)) /\ op.mat \in Ids
    BY <1>5 DEF Outcomes, PmSound, PmRuns
  <2>2. PmQuiet(disk, o.disk, op.mat) /\ PmStops(o, op.mat)
    BY <1>1, <2>1, PmComplete, PmCompensate, PmPlainPromote, PmPlainStops
  <2> QED
    BY <1>5, <2>1, <2>2, PmKeeps
<1>6. CASE fence = NoFence /\ pc \in {"cancel", "activate"}
  <2>1. /\ o \in CancelCleanup(disk, op.cl) \/ o \in ActivateCleanup(disk, op.cl)
        /\ op.cl \in Ids
    BY <1>6 DEF Outcomes, PmSound, PmRuns
  <2>2. PmPlain(o)
    BY <2>1, PmPlainCleanup
  <2> QED
    BY <1>1, <2>1, <2>2, PmCancelCleanup, PmActivateCleanup, PmKeeps
<1>7. CASE fence = NoFence /\ pc = "retry"
  <2>1. o \in RetryCleanup(disk, op.cl, doc.active) /\ op.cl \in Ids
    BY <1>7 DEF Outcomes, PmSound, PmRuns
  <2> QED
    BY <1>1, <1>7, <2>1, PmRetryCleanup, PmKeeps
<1>8. \/ fence # NoFence
      \/ pc \in {"prepare", "prepareCleanup", "promote", "complete", "compensate", "cancel", "activate", "retry"}
  BY DEF Outcomes
<1> QED
  BY <1>0, <1>2, <1>3, <1>4, <1>5, <1>6, <1>7, <1>8

LEMMA PmVisits ==
  ASSUME PmSound, NEW i \in Ids, NEW o \in Visit(disk, i)
  PROVE  PmGood(o.disk) /\ PmSpared(o.disk) /\ PmStops(o, i)
<1>1. PmGood(disk)
  BY DEF PmSound
<1>2. CASE fence # NoFence
  <2>1. o \in Passed
    BY <1>2 DEF Visit
  <2> QED
    BY <1>2, <2>1, PmPassed, PmPlainStops
<1>3. CASE fence = NoFence
  <2>1. \/ o \in Recover(disk, i, Locations[recon.pass - 2], doc.rev, doc.active)
        \/ o \in PendingCleanup(disk, i, doc.active)
        \/ o \in RetryCleanup(disk, i, doc.active)
    BY <1>3 DEF Visit
  <2> QED
    BY <1>1, <2>1, PmRecover, PmPendingCleanup, PmRetryCleanup, PmKeeps
<1> QED
  BY <1>2, <1>3

LEMMA PmSweeps ==
  ASSUME PmSound, NEW o \in Swept
  PROVE  PmSweptTo(disk, o.disk) /\ PmGood(o.disk) /\ PmSpared(o.disk)
<1>1. o \in SweepArtifacts(disk) \cup SweepTombstones(disk) /\ PmGood(disk)
  BY DEF Swept, PmSound
<1>2. PmSweptTo(disk, o.disk)
  BY <1>1, PmSweep
<1> QED
  BY <1>2 DEF PmSweptTo, PmSpared, PmStill

\* Whatever a crash leaves of a call.
LEMMA PmInFlights ==
  ASSUME PmSound, NEW o \in InFlight
  PROVE  PmGood(o.disk) /\ PmSpared(o.disk)
<1>1. o \in Swept \/ o \in Outcomes \/ \E i \in recon.ids : o \in Visit(disk, i)
  BY DEF InFlight
<1>2. recon.ids \subseteq Ids
  BY DEF PmSound
<1> QED
  BY <1>1, <1>2, PmSweeps, PmOutcomes, PmVisits

\* A fence is set where a call came to one, and stays until the call goes on.
LEMMA PmFenceSet ==
  ASSUME NEW o, NEW i, PmPlain(o) \/ (i \in Ids /\ PmStops(o, i)), disk' = o.disk, fence' = AtFence(o, i)
  PROVE  PmFence'
<1>1. CASE PmPlain(o)
  BY <1>1 DEF PmPlain, AtFence, PmFence
<1>2. CASE ~PmPlain(o)
  <2>1. /\ i \in Ids /\ o.kind \in {"restore", "superseded", "cleanup"}
        /\ fence'.at = o.kind /\ fence'.id = i
        /\ fence'.saw = o.disk.file[IF o.kind = "cleanup" THEN o.disk.cl[i].path ELSE o.disk.mat[i].path]
    BY <1>2 DEF PmPlain, AtFence
  <2>2. CASE o.kind = "cleanup"
    BY <1>2, <2>1, <2>2 DEF PmFence, PmStops, HasCleanup
  <2>3. CASE o.kind # "cleanup"
    BY <1>2, <2>1, <2>3 DEF PmFence, PmStops, HasJournal, TargetMatches, Target
  <2> QED
    BY <2>2, <2>3
<1> QED
  BY <1>1, <1>2

LEMMA PmFenceStays ==
  ASSUME PmFence, fence' = fence,
         \A i \in Ids : (HasJournal(disk, i) => disk'.mat[i] = disk.mat[i])
                      /\ (HasCleanup(disk, i) => disk'.cl[i] = disk.cl[i])
  PROVE  PmFence'
BY DEF PmFence, HasJournal, HasCleanup

LEMMA PmFenceSame ==
  ASSUME PmFence, UNCHANGED <<disk, fence>>
  PROVE  PmFence'
BY PmFenceStays

LEMMA PmGoodNext ==
  ASSUME PmGood(disk'), windows' = windows
  PROVE  PmGood(disk)'
BY DEF PmGood, PmPhased

LEMMA PmKeptSelf == PmKept(disk, disk)
BY DEF PmKept

LEMMA PmGoes ==
  ASSUME NEW next, Go(next)
  PROVE  pc' = next /\ (next # "idle" => op' = op) /\ (next = "idle" => op' = NoOp)
BY DEF Go

\* The actor's call returns: what it runs next has what it needs; or it came to a fence.
LEMMA PmCalls ==
  ASSUME PmSound, NEW at, NEW onOk, NEW onError, Call(at, onOk, onError)
  PROVE  /\ pc = at /\ PmGood(disk)' /\ PmSpared(disk') /\ PmFence'
         /\ \/ UNCHANGED <<pc, op>>
            \/ \E next \in {onOk, onError} : pc' = next /\ op' = IF next = "idle" THEN NoOp ELSE op
         /\ UNCHANGED <<doc, want, recon, windows>>
<1> DEFINE i == IF at = "retry" THEN op.cl ELSE op.mat
<1>1. PICK o \in Outcomes : /\ Return(o) /\ fence' = AtFence(o, i)
                            /\ UNCHANGED <<pc, op>> \/ Go(IF o.kind = "ok" THEN onOk ELSE onError)
  BY DEF Call
<1>2. pc = at /\ UNCHANGED <<doc, want, recon, windows>>
  BY DEF Call
<1>3. /\ PmGood(o.disk) /\ PmSpared(o.disk) /\ disk' = o.disk
      /\ PmPlain(o) \/ (i \in Ids /\ PmStops(o, i))
  BY <1>1, <1>2, PmOutcomes DEF Return
<1>4. PmGood(disk)' /\ PmSpared(disk')
  BY <1>2, <1>3, PmGoodNext
<1> HIDE DEF i
<1>5. PmFence'
  BY <1>1, <1>3, PmFenceSet
<1> QED
  BY <1>1, <1>2, <1>4, <1>5 DEF Go

\* The call that is next finds what it needs.
PmNeeds(next) ==
  /\ next \in {"idle", "promote", "complete", "cancel", "compensate", "activate", "retry", "commit",
               "rollback", "prepareCleanup"}
  /\ next \in {"promote", "complete", "compensate"} => op.mat \in Ids
  /\ next \in {"prepareCleanup", "cancel", "activate", "retry"} => op.cl \in Ids
  /\ next = "prepareCleanup" => op.drop \in Paths

LEMMA PmMovesOn ==
  ASSUME PmSound, pc \notin {"idle", "down", "reconcile"}, NEW next, PmNeeds(next), pc' = next,
         op' = IF next = "idle" THEN NoOp ELSE op,
         doc'.rev \in 0..(MaxRev + 1),
         next \in {"prepareCleanup", "commit"} => doc'.rev < MaxRev,
         next = "promote" => doc'.rev <= MaxRev /\ (op.kind = "file" => doc'.rev < MaxRev),
         next = "rollback" => doc'.rev <= MaxRev
  PROVE  PmRuns'
<1>1. PmRuns
  BY DEF PmSound
<1>2. CASE next = "idle"
  BY <1>2, MaterialAssumption DEF PmRuns, NoOp
<1>3. CASE next # "idle"
  <2>1. op' = op /\ pc' = next
    BY <1>3
  <2> QED
    BY <1>1, <1>3, <2>1 DEF PmRuns, PmNeeds
<1> QED
  BY <1>2, <1>3

LEMMA PmFinishes ==
  ASSUME PmSound, pc \notin {"idle", "down", "reconcile"}
  PROVE  PmNeeds("idle") /\ PmNeeds(Finish) /\ PmNeeds(Undo) /\ PmNeeds(UndoBoth)
         /\ Finish \notin {"promote", "rollback", "commit", "prepareCleanup"}
         /\ Undo \notin {"promote", "rollback", "commit", "prepareCleanup"}
         /\ UndoBoth \notin {"promote", "rollback", "commit", "prepareCleanup"}
BY DEF PmSound, PmRuns, PmNeeds, Finish, Undo, UndoBoth

LEMMA PmWorkingCalls ==
  ASSUME PmSound,
         \/ CallPrepare \/ CallPrepareCleanup \/ CallPromote \/ CallComplete
         \/ CallCancel \/ CallCompensate \/ CallActivate \/ CallRetry
  PROVE  PmSound' /\ PmSpared(disk')
<1>0. doc.rev \in 0..(MaxRev + 1) /\ PmRuns
  BY DEF PmSound
<1>1. ASSUME NEW at, NEW onOk, NEW onError, Call(at, onOk, onError),
             at \notin {"idle", "down", "reconcile"},
             \A next \in {onOk, onError} :
               /\ PmNeeds(next)
               /\ next \in {"prepareCleanup", "commit"} => doc.rev < MaxRev
               /\ next = "promote" => doc.rev <= MaxRev /\ (op.kind = "file" => doc.rev < MaxRev)
               /\ next = "rollback" => doc.rev <= MaxRev
      PROVE  PmSound' /\ PmSpared(disk')
  <2>1. /\ pc = at /\ PmGood(disk)' /\ PmSpared(disk')
        /\ \/ UNCHANGED <<pc, op>>
           \/ \E next \in {onOk, onError} : pc' = next /\ op' = IF next = "idle" THEN NoOp ELSE op
        /\ UNCHANGED <<doc, want, recon, windows>> /\ PmFence'
    BY <1>1, PmCalls
  <2>2. PmRuns'
    <3>1. CASE UNCHANGED <<pc, op>>
      BY <1>0, <2>1, <3>1 DEF PmRuns
    <3>2. ASSUME NEW next \in {onOk, onError}, pc' = next, op' = IF next = "idle" THEN NoOp ELSE op
          PROVE  PmRuns'
      BY <1>0, <1>1, <2>1, <3>2, PmMovesOn
    <3> QED
      BY <2>1, <3>1, <3>2
  <2> QED
    BY <2>1, <2>2 DEF PmSound
<1>2. CASE CallPrepare
  <2> DEFINE next == CASE op.kind = "file" -> "promote"
                       [] op.kind = "state" /\ op.cl # 0 -> "prepareCleanup"
                       [] OTHER -> "commit"
  <2>1. Call("prepare", next, "idle")
    BY <1>2 DEF CallPrepare
  <2>2. pc = "prepare"
    BY <2>1 DEF Call
  <2>3. PmNeeds("idle")
    BY <2>2, PmFinishes
  <2>4. PmNeeds(next) /\ next \in {"promote", "prepareCleanup", "commit"} /\ doc.rev < MaxRev
    BY <1>0, <2>2 DEF PmNeeds, PmRuns
  <2> HIDE DEF next
  <2>5. doc.rev <= MaxRev
    BY <1>0, <2>4, MaterialAssumption
  <2> QED
    BY <1>1, <2>1, <2>3, <2>4, <2>5
<1>3. CASE CallPrepareCleanup
  <2>1. Call("prepareCleanup", "commit", Undo) /\ pc = "prepareCleanup"
    BY <1>3 DEF CallPrepareCleanup, Call
  <2>2. PmNeeds("commit") /\ PmNeeds(Undo) /\ doc.rev < MaxRev
        /\ Undo \notin {"promote", "rollback", "commit", "prepareCleanup"}
    BY <1>0, <2>1, PmFinishes DEF PmNeeds, PmRuns
  <2> QED
    BY <1>1, <2>1, <2>2
<1>4. CASE CallPromote
  <2>1. \/ Call("promote", "commit", "compensate") /\ op.kind = "file"
        \/ Call("promote", "complete", "rollback")
    BY <1>4 DEF CallPromote
  <2>2. pc = "promote"
    BY <2>1 DEF Call
  <2>3. /\ PmNeeds("commit") /\ PmNeeds("compensate") /\ PmNeeds("complete") /\ PmNeeds("rollback")
        /\ doc.rev <= MaxRev /\ (op.kind = "file" => doc.rev < MaxRev)
    BY <1>0, <2>2 DEF PmNeeds, PmRuns
  <2> QED
    BY <1>1, <2>1, <2>3
<1>5. CASE CallComplete \/ CallCancel \/ CallCompensate \/ CallActivate \/ CallRetry
  <2>1. \/ Call("complete", Finish, Finish) \/ Call("cancel", Undo, Undo)
        \/ Call("compensate", "idle", "idle") \/ Call("activate", "retry", "idle")
        \/ Call("retry", "idle", "idle")
    BY <1>5 DEF CallComplete, CallCancel, CallCompensate, CallActivate, CallRetry
  <2>2. pc \in {"complete", "cancel", "compensate", "activate", "retry"}
    BY <2>1 DEF Call
  <2>3. /\ PmNeeds("idle") /\ PmNeeds(Finish) /\ PmNeeds(Undo)
        /\ Finish \notin {"promote", "rollback", "commit", "prepareCleanup"}
        /\ Undo \notin {"promote", "rollback", "commit", "prepareCleanup"}
    BY <2>2, PmFinishes
  <2>4. pc = "activate" => PmNeeds("retry")
    BY <1>0 DEF PmNeeds, PmRuns
  <2>5. CASE Call("activate", "retry", "idle")
    <3>1. pc = "activate"
      BY <2>5 DEF Call
    <3> QED
      BY <1>1, <2>3, <2>4, <2>5, <3>1
  <2> QED
    BY <1>1, <2>1, <2>3, <2>5
<1> QED
  BY <1>2, <1>3, <1>4, <1>5

\* A request takes ids nobody uses.
LEMMA PmBegins ==
  ASSUME PmSound, NEW kind \in {"state", "file"}, NEW p \in Paths, NEW c \in Contents \cup {Absent},
         NEW drop, drop \in Paths \cup {Absent}, NEW next \in SUBSET Paths,
         kind = "file" => c \in Contents, Begin(kind, p, c, drop, next)
  PROVE  PmSound' /\ PmKept(disk, disk')
<1> DEFINE m == CHOOSE i \in FreeIds : TRUE
           k == CHOOSE i \in FreeIds \ {m} : TRUE
<1>1. FreeIds \subseteq Ids /\ Cardinality(FreeIds) >= 2
  BY DEF FreeIds, Begin
<1>2. FreeIds # {}
  BY <1>1, FS_EmptySet
<1>3. m \in FreeIds
  BY <1>2
<1>4. FreeIds # {m}
  <2>1. SUFFICES ASSUME FreeIds = {m} PROVE FALSE
    OBVIOUS
  <2> HIDE DEF m
  <2>2. Cardinality({m}) = 1
    BY FS_Singleton
  <2> QED
    BY <1>1, <2>1, <2>2
<1>5. k \in FreeIds \ {m}
  BY <1>3, <1>4
<1>6. op' = [kind |-> kind, path |-> p, content |-> c, drop |-> drop,
             mat |-> IF c = Absent THEN 0 ELSE m, cl |-> IF drop = Absent THEN 0 ELSE k,
             next |-> next, was |-> doc.active, wanted |-> want]
  BY DEF Begin
<1>7. /\ pc' = CASE c # Absent -> "prepare"
                 [] c = Absent /\ drop # Absent -> "prepareCleanup"
                 [] OTHER -> "commit"
      /\ pc = "idle" /\ doc.rev < MaxRev /\ UNCHANGED <<disk, doc, want, recon, fence, windows>>
  BY DEF Begin
<1> HIDE DEF m, k
<1>8. m \in Ids /\ k \in Ids
  BY <1>1, <1>3, <1>5
<1>9. /\ op'.mat \in Ids \cup {0} /\ op'.cl \in Ids \cup {0} /\ op'.kind = kind /\ op'.path = p /\ op'.content = c
      /\ op'.next = next /\ op'.was = doc.active /\ op'.wanted = want /\ op'.drop = drop
      /\ c # Absent => op'.mat \in Ids
      /\ drop # Absent => op'.cl \in Ids
      /\ op'.cl # 0 => drop # Absent
  BY <1>6, <1>8
<1>10. doc.active \subseteq Paths /\ want \in [Paths -> Resource] /\ doc.rev \in 0..(MaxRev + 1)
  BY DEF PmSound
<1>11. kind = "file" => c # Absent
  BY MaterialAssumption
<1>12. PmRuns'
  BY <1>7, <1>9, <1>10, <1>11, MaterialAssumption DEF PmRuns
<1>13. PmGood(disk)' /\ PmKept(disk, disk') /\ PmFence'
  BY <1>7, PmGoodNext, PmKeptSelf, PmFenceSame DEF PmSound
<1> QED
  BY <1>7, <1>12, <1>13 DEF PmSound

LEMMA PmRequests ==
  ASSUME PmSound, Requests
  PROVE  PmSound' /\ PmKept(disk, disk')
<1>1. doc.active \subseteq Paths
  BY DEF PmSound
<1>2. CASE Add
  <2>1. PICK p \in Paths \ doc.active, c \in Contents : Begin("state", p, c, Absent, doc.active \cup {p})
    BY <1>2 DEF Add
  <2>2. doc.active \cup {p} \in SUBSET Paths
    BY <1>1
  <2> QED
    BY <2>1, <2>2, PmBegins
<1>3. CASE ReplaceDefinition
  <2>0. PICK p \in doc.active, c \in Contents : \E q \in (Paths \ doc.active) \cup {p} :
          Begin("state", q, c, IF q = p THEN Absent ELSE p, (doc.active \ {p}) \cup {q})
    BY <1>3 DEF ReplaceDefinition
  <2>1. PICK q \in (Paths \ doc.active) \cup {p} :
          Begin("state", q, c, IF q = p THEN Absent ELSE p, (doc.active \ {p}) \cup {q})
    BY <2>0
  <2> DEFINE drop == IF q = p THEN Absent ELSE p
             next == (doc.active \ {p}) \cup {q}
  <2>2. drop \in Paths \cup {Absent} /\ next \in SUBSET Paths /\ q \in Paths /\ Begin("state", q, c, drop, next)
    BY <1>1, <2>1
  <2> HIDE DEF drop, next
  <2> QED
    BY <2>2, PmBegins
<1>4. CASE Delete
  <2>1. PICK p \in doc.active : Begin("state", p, Absent, p, doc.active \ {p})
    BY <1>4 DEF Delete
  <2>2. p \in Paths /\ doc.active \ {p} \in SUBSET Paths
    BY <1>1
  <2> QED
    BY <2>1, <2>2, PmBegins
<1>5. CASE Refresh
  <2>1. PICK p \in doc.active, c \in Contents \ Links : Begin("file", p, c, Absent, doc.active)
    BY <1>5 DEF Refresh
  <2>2. p \in Paths /\ doc.active \in SUBSET Paths
    BY <1>1
  <2> QED
    BY <2>1, <2>2, PmBegins
<1>6. CASE StateWrite
  <2>1. Begin("state", Start, Absent, Absent, doc.active) /\ Start \in Paths /\ doc.active \in SUBSET Paths
    BY <1>1, <1>6, MaterialAssumption DEF StateWrite
  <2> QED
    BY <2>1, PmBegins
<1> QED
  BY <1>2, <1>3, <1>4, <1>5, <1>6 DEF Requests

\* A document is persisted, or is not.
LEMMA PmCommits ==
  ASSUME PmSound, pc \in {"commit", "rollback"}, NEW active \in SUBSET Paths, NEW wanted \in [Paths -> Resource],
         NEW onOk, NEW onError, PmNeeds(onOk), PmNeeds(onError),
         onOk \notin {"prepareCleanup", "commit", "rollback"},
         onError \notin {"promote", "prepareCleanup", "commit", "rollback"},
         onOk = "promote" => op.kind # "file" /\ pc = "commit",
         CommitDoc(active, wanted, onOk, onError)
  PROVE  PmSound' /\ PmKept(disk, disk')
<1>1. doc.rev \in 0..MaxRev /\ (pc = "commit" => doc.rev < MaxRev)
  BY MaterialAssumption DEF PmSound, PmRuns
<1>2. CASE /\ doc' = [rev |-> doc.rev + 1, active |-> active] /\ want' = wanted /\ Go(onOk)
           /\ UNCHANGED <<disk, recon, fence, windows>>
  <2>1. /\ doc'.rev = doc.rev + 1 /\ doc'.active = active
        /\ pc' = onOk /\ op' = IF onOk = "idle" THEN NoOp ELSE op
    BY <1>2 DEF Go
  <2>2. doc'.rev \in 0..(MaxRev + 1) /\ (onOk = "promote" => doc'.rev <= MaxRev)
    BY <1>1, <2>1, MaterialAssumption
  <2>3. PmRuns'
    BY <2>1, <2>2, PmMovesOn
  <2>4. PmGood(disk)' /\ PmKept(disk, disk') /\ PmFence'
    BY <1>2, PmGoodNext, PmKeptSelf, PmFenceSame DEF PmSound
  <2> QED
    BY <1>2, <2>1, <2>2, <2>3, <2>4 DEF PmSound
<1>3. CASE Go(onError) /\ UNCHANGED <<disk, doc, want, recon, fence, windows>>
  <2>1. pc' = onError /\ op' = IF onError = "idle" THEN NoOp ELSE op
    BY <1>3 DEF Go
  <2>2. doc'.rev \in 0..(MaxRev + 1)
    BY <1>3 DEF PmSound
  <2>3. PmRuns'
    BY <2>1, <2>2, PmMovesOn
  <2>4. PmGood(disk)' /\ PmKept(disk, disk') /\ PmFence'
    BY <1>3, PmGoodNext, PmKeptSelf, PmFenceSame DEF PmSound
  <2> QED
    BY <1>3, <2>3, <2>4 DEF PmSound
<1> QED
  BY <1>2, <1>3 DEF CommitDoc

LEMMA PmCommitSteps ==
  ASSUME PmSound, Commit \/ Rollback
  PROVE  PmSound' /\ PmKept(disk, disk')
<1>1. pc \in {"commit", "rollback"}
  BY DEF Commit, Rollback
<1>2. /\ op.kind \in {"state", "file"} /\ op.next \in SUBSET Paths /\ op.was \in SUBSET Paths
      /\ op.wanted \in [Paths -> Resource] /\ op.content \in Contents \cup {Absent}
      /\ op.mat \in Ids \cup {0} /\ (op.kind = "file" => op.mat \in Ids)
      /\ want \in [Paths -> Resource]
  BY <1>1 DEF PmSound, PmRuns
<1>3. Wanted \in [Paths -> Resource]
  <2>1. \A p \in Paths : (CASE p \notin op.next -> Absent
                           [] p \in op.next /\ p = op.path /\ op.content # Absent -> op.content
                           [] OTHER -> want[p]) \in Resource
    BY <1>2 DEF Resource
  <2> QED
    BY <2>1 DEF Wanted
<1>4. /\ PmNeeds("idle") /\ PmNeeds(Finish) /\ PmNeeds(UndoBoth)
      /\ Finish \notin {"promote", "rollback", "commit", "prepareCleanup"}
      /\ UndoBoth \notin {"promote", "rollback", "commit", "prepareCleanup"}
  BY <1>1, PmFinishes
<1>5. CASE Commit /\ op.kind = "file"
  <2>1. CommitDoc(op.next, Wanted, "complete", "compensate")
    BY <1>5 DEF Commit
  <2>2. PmNeeds("complete") /\ PmNeeds("compensate")
    BY <1>2, <1>5 DEF PmNeeds
  <2> QED
    BY <1>1, <1>2, <1>3, <2>1, <2>2, PmCommits
<1>6. CASE Commit /\ op.kind # "file"
  <2> DEFINE next == IF op.mat # 0 THEN "promote" ELSE Finish
  <2>1. CommitDoc(op.next, Wanted, next, UndoBoth) /\ pc = "commit"
    BY <1>6 DEF Commit
  <2>2. PmNeeds(next) /\ next \notin {"prepareCleanup", "commit", "rollback"}
    BY <1>2, <1>4 DEF PmNeeds
  <2> HIDE DEF next
  <2> QED
    BY <1>2, <1>3, <1>4, <1>6, <2>1, <2>2, PmCommits
<1>7. CASE Rollback
  <2>1. CommitDoc(op.was, op.wanted, UndoBoth, "idle") /\ pc = "rollback"
    BY <1>7 DEF Rollback
  <2> QED
    BY <1>2, <1>4, <2>1, PmCommits
<1> QED
  BY <1>5, <1>6, <1>7

LEMMA PmListed ==
  ASSUME NEW pass \in 0..11, NEW d
  PROVE  Listed(d, pass) \subseteq Ids
BY DEF Listed

LEMMA PmReconciles ==
  ASSUME PmSound, StartReconcile \/ Restart \/ ReconcileSweep \/ ReconcileVisit \/ ReconcileNext
  PROVE  PmSound' /\ PmSpared(disk')
<1>1. PmRuns /\ PmFence /\ recon.pass \in 0..11 /\ recon.ids \subseteq Ids /\ PmGood(disk)
  BY DEF PmSound
<1>2. CASE StartReconcile \/ Restart
  <2>1. /\ pc \in {"idle", "down"} /\ pc' = "reconcile" /\ recon' = [pass |-> 1, ids |-> {}]
        /\ UNCHANGED <<disk, doc, want, op, fence, windows>>
    BY <1>2 DEF StartReconcile, Restart
  <2>2. PmRuns'
    BY <1>1, <2>1 DEF PmRuns
  <2>3. PmGood(disk)' /\ PmSpared(disk') /\ PmFence'
    BY <1>1, <2>1, PmGoodNext, PmKeptSelf, PmKeptIsSpared, PmFenceSame
  <2>4. recon'.pass \in 0..11 /\ recon'.ids \subseteq Ids
    BY <2>1
  <2> QED
    BY <2>1, <2>2, <2>3, <2>4 DEF PmSound
<1>3. CASE ReconcileSweep
  <2>1. PICK o \in Swept : disk' = o.disk
    BY <1>3 DEF ReconcileSweep, Return
  <2>2. /\ recon.pass \in {1, 2} /\ UNCHANGED <<doc, want, op, pc, fence, windows>>
        /\ recon' = [pass |-> recon.pass + 1, ids |-> Listed(disk, recon.pass + 1)]
    BY <1>3 DEF ReconcileSweep
  <2>3. recon'.pass \in 0..11 /\ recon'.ids \subseteq Ids
    BY <2>2, PmListed
  <2>4. PmGood(disk)' /\ PmSpared(disk') /\ PmFence'
    <3>1. PmSweptTo(disk, disk') /\ PmGood(disk') /\ PmSpared(disk')
      BY <2>1, PmSweeps
    <3> QED
      BY <1>1, <2>2, <3>1, PmGoodNext, PmFenceStays DEF PmSweptTo
  <2>5. PmRuns'
    BY <1>1, <2>2 DEF PmRuns
  <2> QED
    BY <2>2, <2>3, <2>4, <2>5 DEF PmSound
<1>4. CASE ReconcileVisit
  <2>1. PICK i \in (IF fence = NoFence THEN recon.ids ELSE {fence.id}) :
          \E o \in Visit(disk, i) :
            /\ disk' = o.disk /\ fence' = AtFence(o, i)
            /\ (recon' = recon) \/ (recon' = [recon EXCEPT !.ids = @ \ {i}])
    BY <1>4 DEF ReconcileVisit, Return
  <2>2. PICK o \in Visit(disk, i) :
          /\ disk' = o.disk /\ fence' = AtFence(o, i)
          /\ (recon' = recon) \/ (recon' = [recon EXCEPT !.ids = @ \ {i}])
    BY <2>1
  <2>3. UNCHANGED <<doc, want, op, pc, windows>>
    BY <1>4 DEF ReconcileVisit
  <2>4. i \in Ids
    BY <1>1, <2>1 DEF PmFence
  <2>5. PmGood(o.disk) /\ PmSpared(o.disk) /\ PmStops(o, i)
    BY <2>4, PmVisits
  <2>6. PmGood(disk)' /\ PmSpared(disk') /\ PmFence'
    <3>1. PmGood(disk)'
      BY <2>2, <2>3, <2>5, PmGoodNext
    <3>2. PmFence'
      BY <2>2, <2>4, <2>5, PmFenceSet
    <3> QED
      BY <2>2, <2>5, <3>1, <3>2
  <2>7. PmRuns'
    BY <1>1, <2>3 DEF PmRuns
  <2>8. recon'.pass \in 0..11 /\ recon'.ids \subseteq Ids
    <3>1. CASE recon' = recon
      BY <1>1, <3>1
    <3>2. CASE recon' = [recon EXCEPT !.ids = @ \ {i}]
      BY <1>1, <3>2
    <3> QED
      BY <2>2, <3>1, <3>2
  <2> QED
    BY <2>3, <2>6, <2>7, <2>8 DEF PmSound
<1>5. CASE ReconcileNext
  <2>1. /\ pc = "reconcile" /\ UNCHANGED <<disk, doc, want, op, fence, windows>>
        /\ \/ /\ recon.pass < 11 /\ pc' = pc
              /\ recon' = [pass |-> recon.pass + 1, ids |-> Listed(disk, recon.pass + 1)]
           \/ recon' = NoRecon /\ pc' = "idle"
    BY <1>5 DEF ReconcileNext
  <2>2. recon'.pass \in 0..11 /\ recon'.ids \subseteq Ids
    <3>1. CASE recon.pass < 11 /\ recon' = [pass |-> recon.pass + 1, ids |-> Listed(disk, recon.pass + 1)]
      BY <1>1, <3>1, PmListed
    <3>2. CASE recon' = NoRecon
      BY <3>2 DEF NoRecon
    <3> QED
      BY <2>1, <3>1, <3>2
  <2>3. PmGood(disk)' /\ PmSpared(disk') /\ PmFence'
    BY <1>1, <2>1, PmGoodNext, PmKeptSelf, PmKeptIsSpared, PmFenceSame
  <2>4. PmRuns'
    BY <1>1, <2>1 DEF PmRuns
  <2> QED
    BY <2>1, <2>2, <2>3, <2>4 DEF PmSound
<1> QED
  BY <1>2, <1>3, <1>4, <1>5

\* A user's edit, and the end of the process.
LEMMA PmOutside ==
  ASSUME PmSound, Edit \/ Crash
  PROVE  PmSound' /\ PmSpared(disk')
<1>1. PmRuns /\ PmGood(disk) /\ PmFence
  BY DEF PmSound
<1>2. CASE Edit
  <2>1. PICK p \in Paths : disk' = [disk EXCEPT !.file[p] = Mine]
    BY <1>2 DEF Edit
  <2>2. UNCHANGED <<doc, want, op, pc, recon, fence, windows>>
    BY <1>2 DEF Edit
  <2>3. disk' = PmFiled(disk, p, Mine) /\ Mine \in Resource
    BY <2>1 DEF PmFiled, Resource
  <2>4. /\ PmGood(disk') /\ disk'.mat = disk.mat /\ disk'.cl = disk.cl
        /\ disk'.file[p] = Mine /\ \A q \in Paths \ {p} : disk'.file[q] = disk.file[q]
    BY <1>1, <2>3, PmFile
  <2>5. PmSpared(disk') /\ PmFence'
    BY <1>1, <2>2, <2>4, PmFenceStays DEF PmSpared
  <2>6. PmGood(disk)'
    BY <2>2, <2>4, PmGoodNext
  <2>7. PmRuns'
    BY <1>1, <2>2 DEF PmRuns
  <2> QED
    BY <2>2, <2>5, <2>6, <2>7 DEF PmSound
<1>3. CASE Crash
  <2>1. /\ disk' = disk \/ \E o \in InFlight : disk' = o.disk
        /\ pc' = "down" /\ op' = NoOp /\ recon' = NoRecon /\ fence' = NoFence /\ UNCHANGED <<doc, want, windows>>
    BY <1>3 DEF Crash
  <2>2. PmGood(disk') /\ PmSpared(disk')
    BY <1>1, <2>1, PmInFlights, PmKeptSelf, PmKeptIsSpared
  <2>3. PmGood(disk)' /\ PmFence'
    BY <2>1, <2>2, PmGoodNext DEF PmFence
  <2>4. PmRuns'
    BY <2>1, MaterialAssumption DEF PmRuns, NoOp
  <2>5. recon'.pass \in 0..11 /\ recon'.ids \subseteq Ids
    BY <2>1 DEF NoRecon
  <2> QED
    BY <2>1, <2>2, <2>3, <2>4, <2>5 DEF PmSound
<1> QED
  BY <1>2, <1>3

LEMMA PmSteps ==
  ASSUME PmSound, Next
  PROVE  PmSound' /\ PmSpared(disk')
BY PmRequests, PmWorkingCalls, PmCommitSteps, PmReconciles, PmOutside, PmKeptIsSpared DEF Next, Working

LEMMA PmStarts ==
  ASSUME Init
  PROVE  PmSound
<1>1. Start \in Paths /\ First \in Contents /\ Absent \in Resource /\ First \in Resource
  BY MaterialAssumption DEF Resource
<1>2. NoJournal \in PmJournals /\ NoJournal.locs = {} /\ NoCleanup \in PmCleanups
  BY <1>1 DEF NoJournal, PmJournals, NoCleanup, PmCleanups
<1>3. PmPhased({})
  BY DEF PmPhased, PmLocs
<1>4. disk \in PmDisks /\ \A i \in Ids : disk.mat[i] = NoJournal
  BY <1>1, <1>2 DEF Init, PmDisks
<1>5. PmGood(disk)
  BY <1>2, <1>3, <1>4 DEF PmGood, PmSpeaks
<1>6. PmRuns
  BY MaterialAssumption DEF Init, PmRuns, NoOp
<1>7. windows \in BOOLEAN /\ doc.rev \in 0..(MaxRev + 1) /\ doc.active \subseteq Paths
  BY <1>1, MaterialAssumption DEF Init
<1>8. want \in [Paths -> Resource]
  BY <1>1 DEF Init
<1>9. recon.pass \in 0..11 /\ recon.ids \subseteq Ids /\ PmFence
  BY DEF Init, NoRecon, PmFence
<1> QED
  BY <1>5, <1>6, <1>7, <1>8, <1>9 DEF PmSound

LEMMA PmInvariant == Spec => []PmSound
<1>1. PmSound /\ UNCHANGED vars => PmSound'
  BY PmFenceSame DEF PmSound, PmGood, PmPhased, PmRuns, vars
<1> QED
  BY <1>1, PmStarts, PmSteps, PTL DEF Spec

\* The disk, the document and the actor keep the shape they are given: a journal is in one
\* phase, or on Windows in two of its family while it moves on.
THEOREM PmTypeCorrect == Spec => []TypeOK
<1>1. \A i \in Ids : PmSound => disk.mat[i] \in PmJournals /\ disk.cl[i] \in PmCleanups
  BY DEF PmSound, PmGood, PmDisks
<1>2. ASSUME PmSound, NEW i \in Ids
      PROVE  Cardinality(disk.mat[i].locs) <= IF windows THEN 2 ELSE 1
  <2>1. PICK l \in PmLocs, m \in PmLocs : disk.mat[i].locs \subseteq {l, m} /\ (windows \/ l = m)
    BY <1>2 DEF PmSound, PmGood, PmPhased
  <2>2. IsFiniteSet({l, m}) /\ Cardinality({l, m}) <= 2 /\ Cardinality({l}) = 1 /\ IsFiniteSet({l})
    <3>1. IsFiniteSet({l}) /\ Cardinality({l}) = 1
      BY FS_Singleton
    <3>2. IsFiniteSet({l} \cup {m}) /\ Cardinality({l} \cup {m}) \in {1, 2}
      BY <3>1, FS_AddElement
    <3>3. {l} \cup {m} = {l, m}
      OBVIOUS
    <3> QED
      BY <3>1, <3>2, <3>3
  <2>3. Cardinality(disk.mat[i].locs) <= Cardinality({l, m}) /\ Cardinality(disk.mat[i].locs) \in Nat
    BY <2>1, <2>2, FS_Subset, FS_CardinalityType
  <2>4. Cardinality({l, m}) \in Nat
    BY <2>2, FS_CardinalityType
  <2>5. ~windows => {l, m} = {l}
    BY <2>1
  <2> QED
    BY <2>2, <2>3, <2>4, <2>5
<1>3. \A l \in PmLocs : l \in {Locations[k] : k \in 1..7}
  <2>1. /\ Locations[1] = "StatePrepared" /\ Locations[2] = "StatePromoting"
        /\ Locations[3] = "StateCompensating" /\ Locations[4] = "FilePrepared"
        /\ Locations[5] = "FilePromoting" /\ Locations[6] = "FilePromoted"
        /\ Locations[7] = "FileCompensating"
    BY DEF Locations
  <2> QED
    BY <2>1 DEF PmLocs
<1>4. PmSound => TypeOK
  <2>1. SUFFICES ASSUME PmSound PROVE TypeOK
    OBVIOUS
  <2>2. ASSUME NEW i \in Ids
        PROVE  /\ disk.mat[i].locs \subseteq {Locations[k] : k \in 1..7}
               /\ disk.mat[i].locs \subseteq StateFamily \/ disk.mat[i].locs \cap StateFamily = {}
               /\ disk.mat[i].path \in Paths
               /\ {disk.mat[i].hash, disk.mat[i].staged, disk.mat[i].backup} \subseteq Resource
               /\ disk.cl[i].phases \subseteq {"Pending", "Ready"} /\ disk.cl[i].path \in Paths
               /\ disk.cl[i].hash \in Resource /\ disk.cl[i].tomb \in BOOLEAN
    <3>1. disk.mat[i].locs \subseteq StateFamily \/ disk.mat[i].locs \cap StateFamily = {}
      BY <2>1 DEF PmSound, PmGood, PmPhased
    <3>2. disk.mat[i].locs \subseteq {Locations[k] : k \in 1..7}
      BY <1>1, <1>3, <2>1 DEF PmJournals
    <3>3. /\ disk.mat[i].path \in Paths
          /\ {disk.mat[i].hash, disk.mat[i].staged, disk.mat[i].backup} \subseteq Resource
      BY <1>1, <2>1 DEF PmJournals
    <3>4. /\ disk.cl[i].phases \subseteq {"Pending", "Ready"} /\ disk.cl[i].path \in Paths
          /\ disk.cl[i].hash \in Resource /\ disk.cl[i].tomb \in BOOLEAN
      BY <1>1, <2>1 DEF PmCleanups
    <3> QED
      BY <3>1, <3>2, <3>3, <3>4
  <2>3. disk.file \in [Paths -> Resource]
    BY <2>1 DEF PmSound, PmGood, PmDisks
  <2>4. fence # NoFence => /\ fence.at \in {"restore", "cleanup", "superseded"}
                           /\ fence.id \in Ids /\ fence.saw \in Resource
    BY <1>1, <2>1 DEF PmSound, PmFence, PmJournals, PmCleanups
  <2> QED
    BY <1>2, <2>1, <2>2, <2>3, <2>4 DEF TypeOK, PmSound
<1> QED
  BY <1>4, PmInvariant, PTL

\* What a user typed into a managed file is replaced only by the promotion of an operation on
\* that file, and removed only by a cleanup that was prepared for those very bytes, whatever
\* call failed or was cut short (restore_backup, retry_cleanup); or it was typed after a call
\* had compared the file with its journal, and before that call replaced or removed it.
THEOREM EditsAreKept == Spec => EditsKept
<1>1. PmSound /\ [Next]_vars => PmSpared(disk')
  <2>1. UNCHANGED vars => disk' = disk
    BY DEF vars
  <2> QED
    BY <2>1, PmSteps, PmKeptSelf, PmKeptIsSpared
<1>2. PmSound /\ [Next]_vars =>
        [\A p \in Paths : disk.file[p] = Mine =>
           \/ disk'.file[p] = Mine
           \/ \E i \in Ids : /\ HasJournal(disk, i) /\ disk.mat[i].path = p
                             /\ disk'.file[p] = disk.mat[i].hash
           \/ \E i \in Ids : /\ HasCleanup(disk, i) /\ disk.cl[i].path = p
                             /\ disk.cl[i].hash = Mine /\ disk'.file[p] = Absent
           \/ fence # NoFence /\ FencePath = p /\ fence.saw # Mine]_vars
  BY <1>1 DEF PmSpared
<1> QED
  BY <1>2, PmInvariant, PTL DEF Spec, EditsKept
-------------------------------------------------------------------------------
(* Hotkeys and the key-value storage (core/hotkey.rs, core/storage.rs).        *)

hkAll == <<kvVars, hkVars>>
KvEventsOf == [key : KvKeys, n : Nat]

\* The types the steps need.
KvShape ==
  /\ kvTable \in [KvKeys -> KvWebValues \cup HkLists \cup {NoValue}]
  /\ kvThreads \subseteq KvEventsOf /\ kvChannel \in Seq(KvEventsOf)
  /\ kvListener \in {"off", "on", "lagged", "ended"} /\ kvShown \in [KvKeys -> Nat]
  /\ kvCommit \in [last : Nat, of : [KvKeys -> Nat], overtaken : SUBSET KvKeys]
  /\ kvClear = NotClearing \/ kvClear \subseteq KvWebKeys

\* Numbers of commits: no notification is of a later one.
KvNumbered ==
  /\ \A k \in KvKeys : kvCommit.of[k] <= kvCommit.last
  /\ \A t \in kvThreads : t.n <= kvCommit.of[t.key]

\* The event of the last commit of a key.
KvLast(k) == [key |-> k, n |-> kvCommit.of[k]]

\* The thread of the last commit of a key goes last, unless the key was overtaken.
KvInTurn == \A k \in KvKeys \ kvCommit.overtaken : KvLast(k) \in kvThreads \/ \A t \in kvThreads : t.key # k

\* The last event of a key is on its way: in its thread, or the last of its key in
\* the channel; or it has been shown and none of its key is to come.
KvQueued(k, i) == kvChannel[i] = KvLast(k) /\ \A j \in DOMAIN kvChannel : j > i => kvChannel[j].key # k
KvShows(k) == kvShown[k] = kvCommit.of[k] /\ \A j \in DOMAIN kvChannel : kvChannel[j].key # k
KvOnItsWay(k) == KvLast(k) \in kvThreads \/ (\E i \in DOMAIN kvChannel : KvQueued(k, i)) \/ KvShows(k)
KvTold ==
  /\ kvListener = "off" => kvChannel = <<>>
  /\ kvListener = "on" => \A k \in KvKeys \ kvCommit.overtaken : KvOnItsWay(k)

\* What every step keeps of the storage.
KvKept == KvShape /\ KvNumbered /\ KvInTurn /\ KvTold

\* A shortcut is shown what the list has it do.
HkWants(list, k) == IF k \in DOMAIN GetMapFromVec(list) THEN GetMapFromVec(list)[k] ELSE NoFunc

\* The types the steps need, and what is empty while the application is not running.
HkShape ==
  /\ hkOs \in [HkKeys -> HkFuncs \cup {NoFunc}]
  /\ hkTrouble = [keys |-> hkTrouble.keys, unsaved |-> hkTrouble.unsaved] /\ hkTrouble.unsaved \in BOOLEAN
  /\ hkOps = [list |-> hkOps.list, left |-> hkOps.left, on |-> hkOps.on] /\ hkOps.on \in BOOLEAN
  /\ hkOps.on => hkOps.list \in HkLists
  /\ hkUp = [starts |-> hkUp.starts, on |-> hkUp.on] /\ hkUp.on \in BOOLEAN
  /\ ~hkUp.on => ~hkOps.on /\ hkCurrent = <<>> /\ hkOs = [k \in HkKeys |-> NoFunc]

\* What the update that runs has to do, from its beginning.
HkPlan == GetOps(GetMapFromVec(hkCurrent), GetMapFromVec(hkOps.list))
HkAbout(ops) == {o.key : o \in ops}

\* While an update runs: a shortcut it has still to come to does what the old list says,
\* any other what the new one says; it has only to let go of keys that do not parse.
HkUnderWay ==
  hkOps.on =>
    /\ hkOps.left \subseteq HkPlan
    /\ \A o \in HkPlan : o.is # "unbind" => o.key \in HkKeys
    /\ \A k \in HkKeys \ hkTrouble.keys :
         hkOs[k] = HkWants(IF k \in HkAbout(hkOps.left) THEN hkCurrent ELSE hkOps.list, k)

\* With no update under way every shortcut is as listed.
HkInForce == hkUp.on /\ ~hkOps.on => \A k \in HkKeys \ hkTrouble.keys : hkOs[k] = HkWants(hkCurrent, k)

\* The list in force is stored, unless its write failed.
HkSaved == hkUp.on => hkTrouble.unsaved \/ kvTable[HkStorageKey] = hkCurrent

\* What every step keeps of the hotkeys, and of both.
HkKept == HkShape /\ HkUnderWay /\ HkInForce /\ HkSaved
HkInv == KvKept /\ HkKept

\* A commit is announced by a thread of its own, the last of its key.
LEMMA KvCommits ==
  ASSUME KvKept, NEW key \in KvKeys, NEW value \in KvWebValues \cup HkLists \cup {NoValue},
         kvTable' = [kvTable EXCEPT ![key] = value], NotifySubscribers(key),
         UNCHANGED <<kvChannel, kvListener, kvShown>>,
         kvClear' = NotClearing \/ kvClear' \subseteq KvWebKeys
  PROVE  KvKept' /\ kvTable'[key] = value /\ \A k \in KvKeys \ {key} : kvTable'[k] = kvTable[k]
<1> DEFINE n == kvCommit.last + 1
           e == [key |-> key, n |-> n]
<1>1. /\ kvTable \in [KvKeys -> KvWebValues \cup HkLists \cup {NoValue}]
      /\ kvThreads \subseteq KvEventsOf /\ kvChannel \in Seq(KvEventsOf)
      /\ kvCommit.last \in Nat /\ kvCommit.of \in [KvKeys -> Nat] /\ kvCommit.overtaken \subseteq KvKeys
      /\ kvCommit \in [last : Nat, of : [KvKeys -> Nat], overtaken : SUBSET KvKeys]
  BY DEF KvKept, KvShape
<1>2. /\ kvCommit'.last = n /\ kvCommit'.of = [kvCommit.of EXCEPT ![key] = n]
      /\ kvCommit'.overtaken = kvCommit.overtaken \ {key}
      /\ kvCommit' \in [last : Nat, of : [KvKeys -> Nat], overtaken : SUBSET KvKeys]
      /\ kvThreads' = kvThreads \cup {e}
  <2> DEFINE of == [kvCommit.of EXCEPT ![key] = n]
  <2>1. of \in [KvKeys -> Nat] /\ n \in Nat /\ kvCommit.overtaken \ {key} \subseteq KvKeys
    BY <1>1
  <2>2. kvCommit' = [kvCommit EXCEPT !.last = n, !.of = of, !.overtaken = kvCommit.overtaken \ {key}]
    BY <1>1 DEF NotifySubscribers
  <2> HIDE DEF of, n
  <2>3. /\ kvCommit'.last = n /\ kvCommit'.of = of /\ kvCommit'.overtaken = kvCommit.overtaken \ {key}
        /\ kvCommit' \in [last : Nat, of : [KvKeys -> Nat], overtaken : SUBSET KvKeys]
    BY <2>1, <2>2, <1>1
  <2> QED
    BY <2>3 DEF NotifySubscribers, of, n
<1>3. n \in Nat /\ e \in KvEventsOf /\ e.key = key /\ e.n = n
  BY <1>1 DEF KvEventsOf
<1>4. kvCommit'.of[key] = n /\ \A k \in KvKeys \ {key} : kvCommit'.of[k] = kvCommit.of[k]
  BY <1>1, <1>2
<1>5. KvLast(key)' = e /\ \A k \in KvKeys \ {key} : KvLast(k)' = KvLast(k)
  BY <1>4 DEF KvLast
<1>6. KvShape'
  BY <1>1, <1>2, <1>3 DEF KvKept, KvShape
<1>7. KvNumbered'
  <2>1. \A k \in KvKeys : kvCommit'.of[k] \in Nat /\ kvCommit.of[k] \in Nat /\ kvCommit.of[k] <= kvCommit.last
    BY <1>1, <1>2 DEF KvKept, KvNumbered
  <2>2. \A k \in KvKeys : kvCommit'.of[k] <= n /\ kvCommit.of[k] <= kvCommit'.of[k]
    BY <2>1, <1>1, <1>3, <1>4
  <2>3. \A t \in kvThreads : t.key \in KvKeys /\ t.n \in Nat /\ t.n <= kvCommit.of[t.key]
    BY <1>1 DEF KvKept, KvNumbered, KvEventsOf
  <2>4. \A t \in kvThreads : t.n <= kvCommit'.of[t.key]
    BY <2>1, <2>2, <2>3
  <2> QED
    BY <2>2, <2>4, <1>2, <1>3, <1>4 DEF KvNumbered
<1> HIDE DEF n, e
<1>8. KvInTurn'
  BY <1>2, <1>3, <1>5 DEF KvKept, KvInTurn
<1>9. KvTold'
  <2>1. ASSUME kvListener = "on", NEW k \in KvKeys \ kvCommit'.overtaken PROVE KvOnItsWay(k)'
    <3>1. CASE k = key
      BY <3>1, <1>2, <1>5 DEF KvOnItsWay
    <3>2. CASE k # key
      <4>1. KvOnItsWay(k) /\ KvLast(k)' = KvLast(k) /\ kvCommit'.of[k] = kvCommit.of[k]
        BY <2>1, <3>2, <1>2, <1>4, <1>5 DEF KvKept, KvTold
      <4> QED
        BY <4>1, <1>2 DEF KvOnItsWay, KvQueued, KvShows
    <3> QED
      BY <3>1, <3>2
  <2> QED
    BY <2>1 DEF KvKept, KvTold
<1>10. kvTable'[key] = value /\ \A k \in KvKeys \ {key} : kvTable'[k] = kvTable[k]
  BY <1>1
<1> QED
  BY <1>6, <1>7, <1>8, <1>9, <1>10 DEF KvKept

\* Steps that leave the storage's own bookkeeping alone.
LEMMA KvRests ==
  ASSUME KvKept, UNCHANGED <<kvThreads, kvChannel, kvListener, kvShown, kvCommit>>,
         kvTable' \in [KvKeys -> KvWebValues \cup HkLists \cup {NoValue}],
         kvClear' = NotClearing \/ kvClear' \subseteq KvWebKeys
  PROVE  KvKept'
<1>1. KvShape' /\ KvNumbered' /\ KvInTurn'
  BY DEF KvKept, KvShape, KvNumbered, KvInTurn, KvLast
<1>2. KvTold'
  BY DEF KvKept, KvTold, KvOnItsWay, KvQueued, KvShows, KvLast
<1> QED
  BY <1>1, <1>2 DEF KvKept

\* Nothing was committed yet: the start and what an end leaves.
LEMMA KvEmpty ==
  ASSUME kvThreads' = {}, kvChannel' = <<>>, kvListener' = "off", kvShown' = [k \in KvKeys |-> 0],
         kvCommit' = NoCommits, kvClear' = NotClearing,
         kvTable' \in [KvKeys -> KvWebValues \cup HkLists \cup {NoValue}]
  PROVE  KvKept'
<1>1. /\ kvCommit'.last = 0 /\ kvCommit'.of = [k \in KvKeys |-> 0] /\ kvCommit'.overtaken = {}
      /\ kvCommit' \in [last : Nat, of : [KvKeys -> Nat], overtaken : SUBSET KvKeys]
  BY DEF NoCommits
<1>2. KvShape'
  BY <1>1 DEF KvShape
<1>3. KvNumbered' /\ KvInTurn'
  BY <1>1 DEF KvNumbered, KvInTurn
<1>4. KvTold'
  BY DEF KvTold
<1> QED
  BY <1>2, <1>3, <1>4 DEF KvKept

\* The frontend's commands keep off the hotkeys' key.
LEMMA KvCommandsKeep ==
  ASSUME KvKept, KvCommands PROVE KvKept' /\ kvTable'[HkStorageKey] = kvTable[HkStorageKey]
<1>1. HkStorageKey \in KvKeys \ KvWebKeys /\ KvWebKeys \subseteq KvKeys
  BY HkAssumption DEF KvKeys
<1>2. ASSUME NEW k \in KvWebKeys, NEW v \in KvWebValues \cup {NoValue},
             kvTable' = [kvTable EXCEPT ![k] = v], NotifySubscribers(k),
             UNCHANGED <<kvChannel, kvListener, kvShown>>,
             kvClear' = NotClearing \/ kvClear' \subseteq KvWebKeys
      PROVE  KvKept' /\ kvTable'[HkStorageKey] = kvTable[HkStorageKey]
  BY <1>1, <1>2, KvCommits
<1>3. kvTable \in [KvKeys -> KvWebValues \cup HkLists \cup {NoValue}] /\ (kvClear = NotClearing \/ kvClear \subseteq KvWebKeys)
  BY DEF KvKept, KvShape
<1>4. CASE SetStorageItem
  <2>1. PICK k \in KvWebKeys, v \in KvWebValues : SetItem(k, v)
    BY <1>4 DEF SetStorageItem
  <2> QED
    BY <2>1, <1>2, <1>4 DEF SetStorageItem, SetItem
<1>5. CASE RemoveStorageItem
  <2>1. PICK k \in KvWebKeys : RemoveItem(k)
    BY <1>5 DEF RemoveStorageItem
  <2> QED
    BY <2>1, <1>2, <1>5 DEF RemoveStorageItem, RemoveItem
<1>6. CASE ClearStorage
  BY <1>3, <1>6, KvRests DEF ClearStorage
<1>7. CASE ClearNext
  <2>1. kvClear \subseteq KvWebKeys
    BY <1>3, <1>7 DEF ClearNext
  <2>2. ASSUME NEW k \in kvClear, RemoveItem(k), kvClear' = kvClear \ {k}
        PROVE  KvKept' /\ kvTable'[HkStorageKey] = kvTable[HkStorageKey]
    BY <2>1, <2>2, <1>2 DEF RemoveItem
  <2>3. ASSUME kvClear' = NotClearing, UNCHANGED <<kvTable, kvThreads, kvChannel, kvListener, kvShown, kvCommit>>
        PROVE  KvKept' /\ kvTable'[HkStorageKey] = kvTable[HkStorageKey]
    BY <1>3, <2>3, KvRests
  <2> QED
    BY <2>2, <2>3, <1>7 DEF ClearNext
<1> QED
  BY <1>4, <1>5, <1>6, <1>7 DEF KvCommands

\* A notification is sent: it was the last of its key, or the key was overtaken.
LEMMA KvSendKeeps == ASSUME KvKept, KvSend PROVE KvKept' /\ UNCHANGED kvTable
<1>1. PICK t \in kvThreads :
        /\ kvThreads' = kvThreads \ {t}
        /\ LET full == Len(kvChannel) = KvCapacity
               kept == IF full THEN Tail(kvChannel) ELSE kvChannel
           IN  IF kvListener \in {"on", "lagged"}
               THEN /\ kvChannel' = Append(kept, t)
                    /\ kvListener' = IF full THEN "lagged" ELSE kvListener
               ELSE UNCHANGED <<kvChannel, kvListener>>
        /\ kvCommit' = IF \E u \in kvThreads : u.key = t.key /\ u.n < t.n
                       THEN [kvCommit EXCEPT !.overtaken = @ \cup {t.key}] ELSE kvCommit
        /\ UNCHANGED <<kvTable, kvShown, kvClear>>
  BY DEF KvSend
<1>2. /\ kvThreads \subseteq KvEventsOf /\ kvChannel \in Seq(KvEventsOf) /\ t \in KvEventsOf
      /\ t.key \in KvKeys /\ t.n \in Nat /\ kvCommit.of \in [KvKeys -> Nat]
      /\ kvCommit \in [last : Nat, of : [KvKeys -> Nat], overtaken : SUBSET KvKeys]
      /\ kvListener \in {"off", "on", "lagged", "ended"} /\ KvCapacity \in Nat \ {0}
  BY <1>1, KvAssumption DEF KvKept, KvShape, KvEventsOf
<1>3. /\ kvCommit'.last = kvCommit.last /\ kvCommit'.of = kvCommit.of
      /\ kvCommit.overtaken \subseteq kvCommit'.overtaken
      /\ kvCommit' \in [last : Nat, of : [KvKeys -> Nat], overtaken : SUBSET KvKeys]
      /\ \A u \in kvThreads : u.key = t.key /\ u.n < t.n => t.key \in kvCommit'.overtaken
  BY <1>1, <1>2
<1>4. \A k : KvLast(k)' = KvLast(k)
  BY <1>3 DEF KvLast
<1>5. kvChannel' \in Seq(KvEventsOf) /\ kvListener' \in {"off", "on", "lagged", "ended"}
  <2>1. Len(kvChannel) = KvCapacity => Tail(kvChannel) \in Seq(KvEventsOf)
    BY <1>2
  <2> DEFINE kept == IF Len(kvChannel) = KvCapacity THEN Tail(kvChannel) ELSE kvChannel
  <2>2. kept \in Seq(KvEventsOf)
    BY <1>2, <2>1
  <2>3. \/ kvChannel' = Append(kept, t) /\ kvListener' \in {"lagged", kvListener}
        \/ kvChannel' = kvChannel /\ kvListener' = kvListener
    BY <1>1
  <2> HIDE DEF kept
  <2>4. Append(kept, t) \in Seq(KvEventsOf)
    BY <1>2, <2>2
  <2> QED
    BY <1>2, <2>3, <2>4
<1>6. KvShape'
  BY <1>1, <1>2, <1>3, <1>5 DEF KvKept, KvShape
<1>7. KvNumbered'
  BY <1>1, <1>3 DEF KvKept, KvNumbered
<1>8. \A k \in KvKeys \ kvCommit'.overtaken :
        \/ KvLast(k) \in kvThreads /\ KvLast(k) # t
        \/ t = KvLast(k) /\ \A u \in kvThreads \ {t} : u.key # k
        \/ t.key # k /\ \A u \in kvThreads : u.key # k
  <2> SUFFICES ASSUME NEW k \in KvKeys \ kvCommit'.overtaken, ~(KvLast(k) \in kvThreads /\ KvLast(k) # t)
               PROVE  \/ t = KvLast(k) /\ \A u \in kvThreads \ {t} : u.key # k
                      \/ t.key # k /\ \A u \in kvThreads : u.key # k
    OBVIOUS
  <2>1. CASE KvLast(k) \notin kvThreads
    BY <2>1, <1>1, <1>3 DEF KvKept, KvInTurn
  <2>2. CASE t = KvLast(k)
    <3>1. t.key = k /\ t.n = kvCommit.of[k]
      BY <2>2 DEF KvLast
    <3>2. ASSUME NEW u \in kvThreads \ {t}, u.key = k PROVE FALSE
      <4>1. u \in KvEventsOf /\ u.n \in Nat /\ u.n <= kvCommit.of[k]
        BY <3>2, <1>2 DEF KvKept, KvNumbered, KvEventsOf
      <4>2. ~(u.n < t.n)
        BY <3>1, <3>2, <1>3
      <4>3. u.n = t.n
        BY <4>1, <4>2, <3>1, <1>2
      <4>4. u = t
        BY <4>1, <4>3, <3>1, <3>2, <1>2 DEF KvEventsOf
      <4> QED
        BY <4>4, <3>2
    <3> QED
      BY <2>2, <3>2
  <2> QED
    BY <2>1, <2>2
<1>9. KvInTurn'
  BY <1>1, <1>4, <1>8 DEF KvInTurn
<1>10. KvTold'
  <2>1. kvListener = "off" => kvListener' = "off" /\ kvChannel' = kvChannel
    BY <1>1
  <2>2. ASSUME kvListener' = "off" PROVE kvChannel' = <<>>
    BY <2>1, <2>2, <1>1, <1>2 DEF KvKept, KvTold
  <2>3. ASSUME kvListener' = "on", NEW k \in KvKeys \ kvCommit'.overtaken PROVE KvOnItsWay(k)'
    <3> DEFINE c == Append(kvChannel, t)
               m == Len(kvChannel)
    <3>1. kvListener = "on" /\ kvChannel' = c
      BY <2>3, <1>1
    <3>2. /\ m \in Nat /\ DOMAIN kvChannel = 1..m /\ DOMAIN c = 1..(m + 1)
          /\ c[m + 1] = t /\ \A j \in 1..m : c[j] = kvChannel[j]
      BY <1>2
    <3> HIDE DEF c, m
    <3>3. KvOnItsWay(k)
      BY <3>1, <2>3, <1>3 DEF KvKept, KvTold
    <3>4. CASE KvLast(k) \in kvThreads /\ KvLast(k) # t
      BY <3>4, <1>1, <1>4 DEF KvOnItsWay
    <3>5. CASE t = KvLast(k)
      <4>1. c[m + 1] = KvLast(k)' /\ m + 1 \in DOMAIN c /\ \A j \in DOMAIN c : ~(j > m + 1)
        BY <3>2, <3>5, <1>4
      <4>2. PICK i \in DOMAIN c : c[i] = KvLast(k)' /\ \A j \in DOMAIN c : ~(j > i)
        BY <4>1
      <4>3. KvQueued(k, i)'
        BY <4>2, <3>1 DEF KvQueued
      <4> QED
        BY <4>2, <4>3, <3>1 DEF KvOnItsWay
    <3>6. CASE t.key # k /\ \A u \in kvThreads : u.key # k
      <4>1. KvLast(k) \notin kvThreads
        BY <3>6 DEF KvLast
      <4>2. ASSUME NEW i \in DOMAIN kvChannel, KvQueued(k, i) PROVE KvOnItsWay(k)'
        <5>1. i \in 1..m /\ KvQueued(k, i)'
          BY <4>2, <3>1, <3>2, <3>6, <1>4 DEF KvQueued
        <5> QED
          BY <5>1, <3>1, <3>2 DEF KvOnItsWay
      <4>3. CASE KvShows(k)
        <5>1. KvShows(k)'
          BY <4>3, <3>1, <3>2, <3>6, <1>1, <1>3 DEF KvShows
        <5> QED
          BY <5>1 DEF KvOnItsWay
      <4> QED
        BY <3>3, <4>1, <4>2, <4>3 DEF KvOnItsWay
    <3> QED
      BY <3>4, <3>5, <3>6, <1>8, <2>3
  <2> QED
    BY <2>2, <2>3 DEF KvTold
<1> QED
  BY <1>1, <1>6, <1>7, <1>9, <1>10 DEF KvKept

\* The listener shows the oldest event, or ends at a lag.
LEMMA KvForwardKeeps == ASSUME KvKept, KvForward PROVE KvKept' /\ UNCHANGED kvTable
<1>1. UNCHANGED <<kvTable, kvThreads, kvCommit, kvClear>> /\ kvChannel \in Seq(KvEventsOf)
  BY DEF KvForward, KvKept, KvShape
<1>2. KvNumbered' /\ KvInTurn'
  BY <1>1 DEF KvKept, KvNumbered, KvInTurn, KvLast
<1>3. CASE kvListener = "lagged" /\ kvListener' = "ended" /\ kvChannel' = <<>> /\ UNCHANGED kvShown
  <2>1. KvShape' /\ KvTold'
    BY <1>1, <1>3 DEF KvKept, KvShape, KvTold
  <2> QED
    BY <2>1, <1>1, <1>2 DEF KvKept
<1>4. CASE /\ kvListener = "on" /\ kvChannel # <<>>
           /\ kvChannel' = Tail(kvChannel) /\ UNCHANGED kvListener
           /\ kvShown' = [kvShown EXCEPT ![Head(kvChannel).key] = Head(kvChannel).n]
  <2> DEFINE m == Len(kvChannel)
             c == Tail(kvChannel)
             h == Head(kvChannel)
  <2>1. /\ m \in Nat \ {0} /\ DOMAIN kvChannel = 1..m /\ DOMAIN c = 1..(m - 1) /\ c \in Seq(KvEventsOf)
        /\ h = kvChannel[1] /\ h \in KvEventsOf /\ \A j \in 1..(m - 1) : c[j] = kvChannel[j + 1]
    BY <1>1, <1>4
  <2>2. h.key \in KvKeys /\ h.n \in Nat /\ kvShown \in [KvKeys -> Nat] /\ kvShown' = [kvShown EXCEPT ![h.key] = h.n]
    BY <2>1, <1>4 DEF KvEventsOf, KvKept, KvShape
  <2>3. kvChannel' = c
    BY <1>4
  <2> HIDE DEF m, c, h
  <2>4. KvShape'
    BY <2>1, <2>2, <2>3, <1>1, <1>4 DEF KvKept, KvShape
  <2>5. ASSUME NEW k \in KvKeys \ kvCommit.overtaken PROVE KvOnItsWay(k)'
    <3>1. KvOnItsWay(k) /\ KvLast(k)' = KvLast(k) /\ KvLast(k).key = k /\ KvLast(k).n = kvCommit.of[k]
      BY <1>1, <1>4 DEF KvKept, KvTold, KvLast
    <3>2. CASE KvLast(k) \in kvThreads
      BY <3>1, <3>2, <1>1 DEF KvOnItsWay
    <3>3. ASSUME NEW i \in DOMAIN kvChannel, KvQueued(k, i) PROVE KvOnItsWay(k)'
      <4>1. CASE i = 1
        <5>1. kvShown'[k] = kvCommit.of[k]
          BY <4>1, <3>1, <3>3, <2>1, <2>2 DEF KvQueued
        <5>2. \A j \in DOMAIN kvChannel' : kvChannel'[j].key # k
          <6> SUFFICES ASSUME NEW j \in 1..(m - 1) PROVE c[j].key # k
            BY <2>1, <2>3
          <6>1. j + 1 \in 1..m /\ j + 1 > 1 /\ c[j] = kvChannel[j + 1]
            BY <2>1
          <6> QED
            BY <6>1, <4>1, <3>3, <2>1 DEF KvQueued
        <5> QED
          BY <5>1, <5>2, <1>1 DEF KvOnItsWay, KvShows
      <4>2. CASE i # 1
        <5>1. i - 1 \in 1..(m - 1) /\ c[i - 1] = kvChannel[i]
          BY <4>2, <2>1, <3>3
        <5>2. \A j \in 1..(m - 1) : j > i - 1 => c[j].key # k
          <6> SUFFICES ASSUME NEW j \in 1..(m - 1), j > i - 1 PROVE c[j].key # k
            OBVIOUS
          <6>1. j + 1 \in 1..m /\ j + 1 > i /\ c[j] = kvChannel[j + 1]
            BY <2>1, <3>3
          <6> QED
            BY <6>1, <3>3, <2>1 DEF KvQueued
        <5>3. KvQueued(k, i - 1)'
          BY <5>1, <5>2, <3>1, <3>3, <2>1, <2>3 DEF KvQueued
        <5> QED
          BY <5>1, <5>3, <2>1, <2>3 DEF KvOnItsWay
      <4> QED
        BY <4>1, <4>2
    <3>4. CASE KvShows(k)
      <4>1. h.key # k /\ \A j \in 1..(m - 1) : c[j].key # k
        <5>1. ASSUME NEW j \in 1..(m - 1) PROVE c[j].key # k
          <6>1. j + 1 \in 1..m /\ c[j] = kvChannel[j + 1]
            BY <2>1
          <6> QED
            BY <6>1, <3>4, <2>1 DEF KvShows
        <5>2. 1 \in 1..m
          BY <2>1
        <5> QED
          BY <5>1, <5>2, <3>4, <2>1 DEF KvShows
      <4>2. KvShows(k)'
        BY <4>1, <3>4, <2>1, <2>2, <2>3, <1>1 DEF KvShows
      <4> QED
        BY <4>2 DEF KvOnItsWay
    <3> QED
      BY <3>1, <3>2, <3>3, <3>4 DEF KvOnItsWay
  <2>6. KvTold'
    BY <2>5, <1>1, <1>4 DEF KvTold
  <2> QED
    BY <2>4, <2>6, <1>1, <1>2 DEF KvKept
<1> QED
  BY <1>3, <1>4 DEF KvForward

\* The windows read what was committed before they loaded.
LEMMA KvRegisterKeeps == ASSUME KvKept, RegisterWebStorageListener PROVE KvKept' /\ UNCHANGED kvTable
<1>1. /\ UNCHANGED <<kvTable, kvThreads, kvChannel, kvCommit, kvClear>> /\ kvChannel = <<>>
      /\ kvListener' = "on" /\ kvShown' = [k \in KvKeys |-> kvCommit.of[k]] /\ kvCommit.of \in [KvKeys -> Nat]
  BY DEF RegisterWebStorageListener, KvKept, KvShape, KvTold
<1>2. KvShape' /\ KvNumbered' /\ KvInTurn'
  BY <1>1 DEF KvKept, KvShape, KvNumbered, KvInTurn, KvLast
<1>3. \A k \in KvKeys : KvShows(k)'
  BY <1>1 DEF KvShows
<1>4. KvTold'
  BY <1>1, <1>3 DEF KvTold, KvOnItsWay
<1> QED
  BY <1>1, <1>2, <1>4 DEF KvKept

\* There is at most one operation for a key, and none for a key both lists agree on.
LEMMA HkOperations ==
  ASSUME NEW old, NEW new, NEW ops, ops = GetOps(GetMapFromVec(old), GetMapFromVec(new))
  PROVE  /\ \A o \in ops : HkWants(new, o.key) = (IF o.is = "unbind" THEN NoFunc ELSE o.func)
         /\ \A o, u \in ops : o.key = u.key => o = u
         /\ \A k : k \notin HkAbout(ops) => HkWants(old, k) = HkWants(new, k)
         /\ \A o \in ops : o.is \in {"unbind", "change", "bind"}
<1> DEFINE f == GetMapFromVec(old)
           g == GetMapFromVec(new)
           Unbinds == {[key |-> k, is |-> "unbind", func |-> NoFunc] : k \in DOMAIN f \ DOMAIN g}
           Changes == {[key |-> k, is |-> "change", func |-> g[k]] : k \in {x \in DOMAIN f \cap DOMAIN g : g[x] # f[x]}}
           Binds == {[key |-> k, is |-> "bind", func |-> g[k]] : k \in DOMAIN g \ DOMAIN f}
<1>1. ops = Unbinds \cup Changes \cup Binds
  BY DEF GetOps
<1>2. HkWants(old, 0) = HkWants(old, 0) /\ \A k : /\ HkWants(old, k) = (IF k \in DOMAIN f THEN f[k] ELSE NoFunc)
             /\ HkWants(new, k) = (IF k \in DOMAIN g THEN g[k] ELSE NoFunc)
  BY DEF HkWants
<1> HIDE DEF f, g
<1>3. /\ \A o \in Unbinds : o.is = "unbind" /\ o.func = NoFunc /\ o.key \in DOMAIN f \ DOMAIN g
                            /\ o = [key |-> o.key, is |-> "unbind", func |-> NoFunc]
      /\ \A o \in Changes : o.is = "change" /\ o.key \in DOMAIN f \cap DOMAIN g /\ o.func = g[o.key]
                            /\ o = [key |-> o.key, is |-> "change", func |-> g[o.key]]
      /\ \A o \in Binds : o.is = "bind" /\ o.key \in DOMAIN g \ DOMAIN f /\ o.func = g[o.key]
                          /\ o = [key |-> o.key, is |-> "bind", func |-> g[o.key]]
  OBVIOUS
<1>4. \A o \in ops : HkWants(new, o.key) = (IF o.is = "unbind" THEN NoFunc ELSE o.func)
  BY <1>1, <1>2, <1>3
<1>5. \A o, u \in ops : o.key = u.key => o = u
  BY <1>1, <1>3
<1>6. \A o \in ops : o.is \in {"unbind", "change", "bind"}
  BY <1>1, <1>3
<1>7. ASSUME NEW k, k \notin HkAbout(ops) PROVE HkWants(old, k) = HkWants(new, k)
  <2>1. \A o \in ops : o.key # k
    BY <1>7 DEF HkAbout
  <2>2. k \notin DOMAIN f \ DOMAIN g
    <3>1. k \in DOMAIN f \ DOMAIN g => [key |-> k, is |-> "unbind", func |-> NoFunc] \in ops
      BY <1>1
    <3> QED
      BY <3>1, <2>1
  <2>3. k \notin DOMAIN g \ DOMAIN f
    <3>1. k \in DOMAIN g \ DOMAIN f => [key |-> k, is |-> "bind", func |-> g[k]] \in ops
      BY <1>1
    <3> QED
      BY <3>1, <2>1
  <2>4. k \in DOMAIN f \cap DOMAIN g => g[k] = f[k]
    <3>1. k \in {x \in DOMAIN f \cap DOMAIN g : g[x] # f[x]} => [key |-> k, is |-> "change", func |-> g[k]] \in ops
      BY <1>1
    <3> QED
      BY <3>1, <2>1
  <2> QED
    BY <1>2, <2>2, <2>3, <2>4
<1> QED
  BY <1>4, <1>5, <1>6, <1>7

\* An operation that is done has its shortcut do what the new list says.
LEMMA HkDoneKeeps ==
  ASSUME HkKept, hkOps.on, NEW todo \in hkOps.left, HkDone(todo), todo.key \in HkKeys,
         hkOs' = [hkOs EXCEPT ![todo.key] = HkWants(hkOps.list, todo.key)], hkOs' \in [HkKeys -> HkFuncs \cup {NoFunc}],
         UNCHANGED <<hkCurrent, hkUp>>, kvTable'[HkStorageKey] = kvTable[HkStorageKey]
  PROVE  HkKept'
<1>1. /\ hkOps' = [list |-> hkOps.list, left |-> hkOps.left \ {todo}, on |-> TRUE]
      /\ hkTrouble' = [keys |-> hkTrouble.keys \ {todo.key}, unsaved |-> hkTrouble.unsaved]
      /\ hkOps.list \in HkLists /\ hkUp.on /\ hkOs \in [HkKeys -> HkFuncs \cup {NoFunc}]
  BY DEF HkDone, HkKept, HkShape
<1>2. HkPlan' = HkPlan
  BY <1>1 DEF HkPlan
<1>3. HkShape' /\ HkSaved' /\ HkInForce'
  BY <1>1 DEF HkKept, HkShape, HkSaved, HkInForce
<1>4. /\ hkOps.left \subseteq HkPlan
      /\ \A o \in HkPlan : o.is # "unbind" => o.key \in HkKeys
      /\ \A k \in HkKeys \ hkTrouble.keys :
           hkOs[k] = HkWants(IF k \in HkAbout(hkOps.left) THEN hkCurrent ELSE hkOps.list, k)
  BY DEF HkKept, HkUnderWay
<1>5. \A o \in hkOps.left \ {todo} : o.key # todo.key
  BY <1>4, HkOperations DEF HkPlan
<1>6. todo.key \notin HkAbout(hkOps.left \ {todo}) /\ \A k : k # todo.key => (k \in HkAbout(hkOps.left \ {todo}) <=> k \in HkAbout(hkOps.left))
  BY <1>5 DEF HkAbout
<1>7. ASSUME NEW k \in HkKeys \ hkTrouble'.keys
      PROVE  hkOs'[k] = HkWants(IF k \in HkAbout(hkOps'.left) THEN hkCurrent ELSE hkOps.list, k)
  <2>1. CASE k = todo.key
    BY <2>1, <1>1, <1>6
  <2>2. CASE k # todo.key
    <3>1. hkOs'[k] = hkOs[k] /\ k \in HkKeys \ hkTrouble.keys /\ (k \in HkAbout(hkOps'.left) <=> k \in HkAbout(hkOps.left))
      BY <2>2, <1>1, <1>6, <1>7
    <3> QED
      BY <3>1, <1>4
  <2> QED
    BY <2>1, <2>2
<1>8. HkUnderWay'
  <2>1. hkOps'.list = hkOps.list /\ hkOps'.left \subseteq HkPlan /\ hkCurrent' = hkCurrent
    BY <1>1, <1>4
  <2> QED
    BY <2>1, <1>2, <1>4, <1>7 DEF HkUnderWay
<1> QED
  BY <1>3, <1>8 DEF HkKept

\* An operation that fails ends the update: what it had not come to is as before.
LEMMA HkFailsKeeps ==
  ASSUME HkKept, hkOps.on, NEW todo \in hkOps.left, HkFails(todo),
         hkOs' \in [HkKeys -> HkFuncs \cup {NoFunc}], \A k \in HkKeys \ {todo.key} : hkOs'[k] = hkOs[k],
         UNCHANGED <<hkCurrent, hkUp>>, kvTable'[HkStorageKey] = kvTable[HkStorageKey]
  PROVE  HkKept'
<1> DEFINE done == {o.key : o \in HkPlan \ hkOps.left}
<1>1. /\ hkOps' = NoUpdate /\ hkUp.on
      /\ hkTrouble' = [keys |-> hkTrouble.keys \cup done \cup {todo.key}, unsaved |-> hkTrouble.unsaved]
  BY DEF HkFails, HkPlan, HkKept, HkShape
<1>2. HkShape' /\ HkSaved' /\ HkUnderWay'
  BY <1>1 DEF HkKept, HkShape, HkSaved, HkUnderWay, NoUpdate
<1>3. ASSUME NEW k \in HkKeys \ hkTrouble'.keys PROVE hkOs'[k] = HkWants(hkCurrent, k)
  <2>1. k # todo.key /\ k \notin done /\ k \in HkKeys \ hkTrouble.keys
    BY <1>1, <1>3
  <2>2. hkOs'[k] = HkWants(IF k \in HkAbout(hkOps.left) THEN hkCurrent ELSE hkOps.list, k)
    BY <2>1 DEF HkKept, HkUnderWay
  <2>3. k \notin HkAbout(hkOps.left) => k \notin HkAbout(HkPlan)
    BY <2>1 DEF HkAbout
  <2>4. k \notin HkAbout(HkPlan) => HkWants(hkCurrent, k) = HkWants(hkOps.list, k)
    BY HkOperations DEF HkPlan
  <2> QED
    BY <2>2, <2>3, <2>4
<1>4. HkInForce'
  BY <1>3 DEF HkInForce
<1> QED
  BY <1>2, <1>4 DEF HkKept

\* One operation of an update.
LEMMA HkOperateKeeps == ASSUME HkInv, HkOperate PROVE HkInv'
<1>1. hkOps.on /\ UNCHANGED <<kvVars, hkCurrent, hkTaken, hkUp>>
  BY DEF HkOperate
<1>2. KvKept' /\ kvTable'[HkStorageKey] = kvTable[HkStorageKey]
  BY <1>1, KvRests DEF HkInv, kvVars, KvKept, KvShape
<1>3. PICK todo \in hkOps.left : HkUnbind(todo) \/ HkChange(todo) \/ HkBind(todo)
  BY DEF HkOperate
<1>4. /\ hkOs \in [HkKeys -> HkFuncs \cup {NoFunc}] /\ todo \in HkPlan
      /\ todo.is # "unbind" => todo.key \in HkKeys
      /\ HkWants(hkOps.list, todo.key) = (IF todo.is = "unbind" THEN NoFunc ELSE todo.func)
  BY <1>1, <1>3, HkOperations DEF HkInv, HkKept, HkShape, HkUnderWay, HkPlan
<1>5. HkKept /\ UNCHANGED <<hkCurrent, hkUp>>
  BY <1>1 DEF HkInv
<1>6. CASE todo.key \in HkKeys /\ hkOs' = [hkOs EXCEPT ![todo.key] = HkWants(hkOps.list, todo.key)] /\ HkDone(todo)
           /\ HkWants(hkOps.list, todo.key) \in HkFuncs \cup {NoFunc}
  <2>1. hkOs' \in [HkKeys -> HkFuncs \cup {NoFunc}]
    BY <1>4, <1>6
  <2>2. HkKept'
    BY <2>1, <1>1, <1>2, <1>3, <1>5, <1>6, HkDoneKeeps
  <2> QED
    BY <2>2, <1>2 DEF HkInv
<1>7. CASE HkFails(todo) /\ (UNCHANGED hkOs \/ (todo.key \in HkKeys /\ hkOs' = Registered(hkOs, todo.key, todo.func)))
  <2>1. hkOs' \in [HkKeys -> HkFuncs \cup {NoFunc}] /\ \A k \in HkKeys \ {todo.key} : hkOs'[k] = hkOs[k]
    BY <1>4, <1>7 DEF Registered
  <2>2. HkKept'
    BY <2>1, <1>1, <1>2, <1>3, <1>5, <1>7, HkFailsKeeps
  <2> QED
    BY <2>2, <1>2 DEF HkInv
<1>8. ASSUME todo.is # "unbind", hkOs' = Registered(hkOs, todo.key, todo.func), RegisterOk(todo.key, todo.func)
      PROVE  todo.key \in HkKeys /\ hkOs' = [hkOs EXCEPT ![todo.key] = HkWants(hkOps.list, todo.key)]
             /\ HkWants(hkOps.list, todo.key) \in HkFuncs \cup {NoFunc}
  BY <1>4, <1>8 DEF Registered, RegisterOk
<1>9. CASE HkUnbind(todo)
  BY <1>4, <1>6, <1>7, <1>9 DEF HkUnbind
<1>10. CASE HkBind(todo)
  BY <1>4, <1>6, <1>7, <1>8, <1>10 DEF HkBind
<1>11. CASE HkChange(todo)
  BY <1>4, <1>6, <1>7, <1>8, <1>11 DEF HkChange
<1> QED
  BY <1>3, <1>9, <1>10, <1>11

\* A start registers the stored list, or the one of a verge that was not migrated.
LEMMA HkStartKeeps == ASSUME HkInv, HkStart PROVE HkInv'
<1>1. /\ ~hkUp.on /\ hkUp' = [starts |-> hkUp.starts + 1, on |-> TRUE] /\ KvOpen
      /\ UNCHANGED <<hkTaken, hkOps>>
      /\ ~hkOps.on /\ hkCurrent = <<>> /\ hkOs = [k \in HkKeys |-> NoFunc]
      /\ kvTable \in [KvKeys -> KvWebValues \cup HkLists \cup {NoValue}]
  BY DEF HkStart, HkInv, HkKept, HkShape, KvKept, KvShape
<1>2. KvKept'
  <2>1. /\ kvTable' \in [KvKeys -> KvWebValues \cup HkLists \cup {NoValue}]
        /\ UNCHANGED <<kvThreads, kvChannel, kvListener, kvShown, kvCommit, kvClear>>
    BY <1>1 DEF KvOpen
  <2> QED
    BY <2>1, KvRests DEF HkInv, KvKept, KvShape
<1>3. PICK readable \in BOOLEAN :
       LET stored == readable /\ kvTable'[HkStorageKey] # NoValue
           list == IF stored THEN kvTable'[HkStorageKey] ELSE HkLegacy
           map == GetMapFromVec(list)
       IN  IF list = NoValue THEN /\ hkTrouble' = [NoTrouble EXCEPT !.unsaved = TRUE]
                                  /\ UNCHANGED <<hkCurrent, hkOs>>
           ELSE /\ hkCurrent' = list /\ hkOs' = HkRegisterAll(list)
                /\ hkTrouble' = [keys |-> {k \in DOMAIN map : ~CheckKey(k) \/ ~RegisterOk(k, map[k])},
                                 unsaved |-> ~stored]
  BY DEF HkStart
<1> DEFINE stored == readable /\ kvTable'[HkStorageKey] # NoValue
           list == IF stored THEN kvTable'[HkStorageKey] ELSE HkLegacy
<1>4. CASE list = NoValue
  <2>1. hkTrouble' = [keys |-> {}, unsaved |-> TRUE] /\ hkCurrent' = <<>> /\ hkOs' = [k \in HkKeys |-> NoFunc]
    BY <1>1, <1>3, <1>4 DEF NoTrouble
  <2>2. \A k : HkWants(<<>>, k) = NoFunc
    BY DEF HkWants, GetMapFromVec
  <2>3. HkShape' /\ HkUnderWay' /\ HkInForce' /\ HkSaved'
    BY <2>1, <2>2, <1>1 DEF HkInv, HkKept, HkShape, HkUnderWay, HkInForce, HkSaved
  <2> QED
    BY <2>3, <1>2 DEF HkInv, HkKept
<1>5. CASE list # NoValue
  <2> DEFINE map == GetMapFromVec(list)
             bad == {k \in DOMAIN map : ~CheckKey(k) \/ ~RegisterOk(k, map[k])}
  <2>1. hkCurrent' = list /\ hkOs' = HkRegisterAll(list) /\ hkTrouble' = [keys |-> bad, unsaved |-> ~stored]
    BY <1>3, <1>5
  <2>2. stored \in BOOLEAN /\ (stored => list = kvTable'[HkStorageKey])
    OBVIOUS
  <2> HIDE DEF list, stored
  <2>3. /\ hkOs' \in [HkKeys -> HkFuncs \cup {NoFunc}]
        /\ \A k \in HkKeys \ bad : hkOs'[k] = HkWants(list, k)
    BY <2>1 DEF HkRegisterAll, RegisterOk, HkWants, CheckKey
  <2> HIDE DEF bad, map
  <2>4. HkShape'
    BY <2>1, <2>2, <2>3, <1>1 DEF HkInv, HkKept, HkShape
  <2>5. HkUnderWay' /\ HkInForce' /\ HkSaved'
    BY <2>1, <2>2, <2>3, <1>1 DEF HkUnderWay, HkInForce, HkSaved
  <2> QED
    BY <2>4, <2>5, <1>2 DEF HkInv, HkKept
<1> QED
  BY <1>4, <1>5

\* An end leaves nothing but what is stored.
LEMMA HkStopKeeps == ASSUME HkInv, HkStop PROVE HkInv'
<1>1. KvKept'
  BY KvEmpty DEF HkStop, KvClose, HkInv, KvKept, KvShape
<1>2. HkShape' /\ HkUnderWay' /\ HkInForce' /\ HkSaved'
  BY DEF HkStop, HkInv, HkKept, HkShape, HkUnderWay, HkInForce, HkSaved, NoUpdate, NoTrouble
<1> QED
  BY <1>1, <1>2 DEF HkInv, HkKept

\* An update begins when every key it is to bind was checked.
LEMMA SetHotkeysKeeps == ASSUME HkInv, SetHotkeys PROVE HkInv'
<1>1. /\ hkUp.on /\ ~hkOps.on /\ UNCHANGED <<kvVars, hkCurrent, hkOs, hkTaken, hkUp, hkTrouble>>
  BY DEF SetHotkeys
<1>2. PICK list \in HkLists :
        LET ops == GetOps(GetMapFromVec(hkCurrent), GetMapFromVec(list))
        IN  /\ \A o \in ops : o.is # "unbind" => CheckKey(o.key)
            /\ hkOps' = [list |-> list, left |-> ops, on |-> TRUE]
  BY DEF SetHotkeys
<1> DEFINE ops == GetOps(GetMapFromVec(hkCurrent), GetMapFromVec(list))
<1>3. /\ hkOps' = [list |-> list, left |-> ops, on |-> TRUE] /\ HkPlan' = ops
      /\ \A o \in ops : o.is # "unbind" => o.key \in HkKeys
  BY <1>1, <1>2 DEF HkPlan, CheckKey
<1>4. \A k : k \notin HkAbout(ops) => HkWants(hkCurrent, k) = HkWants(list, k)
  BY HkOperations
<1> HIDE DEF ops
<1>5. KvKept'
  BY <1>1, KvRests DEF HkInv, kvVars, KvKept, KvShape
<1>6. HkShape' /\ HkInForce' /\ HkSaved'
  <2>1. hkOps'.on /\ hkOps'.list \in HkLists /\ hkOps' = [list |-> hkOps'.list, left |-> hkOps'.left, on |-> hkOps'.on]
    BY <1>2, <1>3
  <2>2. HkShape'
    BY <2>1, <1>1, <1>3 DEF HkInv, HkKept, HkShape
  <2> QED
    BY <2>1, <2>2, <1>1 DEF HkInv, HkKept, HkInForce, HkSaved, kvVars
<1>7. \A k \in HkKeys \ hkTrouble.keys : hkOs[k] = HkWants(IF k \in HkAbout(ops) THEN hkCurrent ELSE list, k)
  BY <1>1, <1>4 DEF HkInv, HkKept, HkInForce
<1>8. HkUnderWay'
  BY <1>1, <1>3, <1>7 DEF HkUnderWay
<1> QED
  BY <1>5, <1>6, <1>8 DEF HkInv, HkKept

\* The new list is in force, then stored.
LEMMA HkStoreKeeps == ASSUME HkInv, HkStore PROVE HkInv'
<1>1. /\ hkOps.on /\ hkOps.left = {} /\ hkOps' = NoUpdate /\ hkCurrent' = hkOps.list
      /\ UNCHANGED <<hkOs, hkTaken, hkUp>> /\ hkOps.list \in HkLists /\ hkUp.on
      /\ HkStorageKey \in KvKeys
  BY HkAssumption DEF HkStore, HkInv, HkKept, HkShape, KvKeys
<1>2. /\ KvKept' /\ hkTrouble'.unsaved \in BOOLEAN
      /\ hkTrouble' = [keys |-> hkTrouble.keys, unsaved |-> hkTrouble'.unsaved]
      /\ hkTrouble'.unsaved \/ kvTable'[HkStorageKey] = hkOps.list
  <2>1. CASE SetItem(HkStorageKey, hkOps.list) /\ UNCHANGED kvClear /\ hkTrouble' = [hkTrouble EXCEPT !.unsaved = FALSE]
    <3>1. KvKept' /\ kvTable'[HkStorageKey] = hkOps.list
      BY <2>1, <1>1, KvCommits DEF SetItem, HkInv, KvKept, KvShape
    <3> QED
      BY <3>1, <2>1 DEF HkInv, HkKept, HkShape
  <2>2. CASE hkTrouble' = [hkTrouble EXCEPT !.unsaved = TRUE] /\ UNCHANGED kvVars
    <3>1. KvKept'
      BY <2>2, KvRests DEF HkInv, kvVars, KvKept, KvShape
    <3> QED
      BY <3>1, <2>2 DEF HkInv, HkKept, HkShape
  <2> QED
    BY <2>1, <2>2 DEF HkStore
<1>3. \A k \in HkKeys \ hkTrouble.keys : hkOs[k] = HkWants(hkOps.list, k)
  BY <1>1 DEF HkInv, HkKept, HkUnderWay, HkAbout
<1>4. HkShape'
  BY <1>1, <1>2 DEF HkInv, HkKept, HkShape, NoUpdate
<1>5. hkTrouble'.keys = hkTrouble.keys /\ ~hkOps'.on /\ hkOs' = hkOs /\ hkCurrent' = hkOps.list
  BY <1>1, <1>2 DEF NoUpdate
<1>6. HkUnderWay' /\ HkInForce' /\ HkSaved'
  BY <1>2, <1>3, <1>5 DEF HkUnderWay, HkInForce, HkSaved
<1> QED
  BY <1>2, <1>4, <1>6 DEF HkInv, HkKept

\* Steps that leave the hotkeys alone.
LEMMA HkRests ==
  ASSUME HkKept, UNCHANGED <<hkCurrent, hkOs, hkOps, hkUp, hkTrouble>>, kvTable'[HkStorageKey] = kvTable[HkStorageKey]
  PROVE  HkKept'
BY DEF HkKept, HkShape, HkUnderWay, HkInForce, HkSaved, HkPlan

\* Every step keeps the invariant, which begins with nothing registered or stored.
LEMMA HkInductive ==
  /\ HkInit => HkInv
  /\ HkInv /\ [HkNext]_hkAll => HkInv'
<1>1. HkInit => HkInv
  <2> SUFFICES ASSUME HkInit PROVE HkInv
    OBVIOUS
  <2>1. kvCommit.last = 0 /\ kvCommit.of = [k \in KvKeys |-> 0] /\ kvCommit.overtaken = {}
        /\ kvCommit \in [last : Nat, of : [KvKeys -> Nat], overtaken : SUBSET KvKeys]
    BY DEF HkInit, KvInit, NoCommits
  <2>2. KvKept
    BY <2>1 DEF HkInit, KvInit, KvKept, KvShape, KvNumbered, KvInTurn, KvTold
  <2>3. HkKept
    BY DEF HkInit, HkKept, HkShape, HkUnderWay, HkInForce, HkSaved, NoUpdate, NoTrouble
  <2> QED
    BY <2>2, <2>3 DEF HkInv
<1>2. ASSUME HkInv, [HkNext]_hkAll PROVE HkInv'
  <2>1. CASE HkOthers \/ UNCHANGED hkAll
    <3>1. UNCHANGED <<kvVars, hkCurrent, hkOs, hkOps, hkUp, hkTrouble>>
      BY <2>1 DEF HkOthers, hkAll, hkVars
    <3>2. KvKept'
      BY <3>1, <1>2, KvRests DEF HkInv, kvVars, KvKept, KvShape
    <3>3. HkKept'
      BY <3>1, <1>2, HkRests DEF HkInv, kvVars
    <3> QED
      BY <3>2, <3>3 DEF HkInv
  <2>2. CASE KvCommands /\ UNCHANGED hkVars
    BY <2>2, <1>2, KvCommandsKeep, HkRests DEF HkInv, hkVars
  <2>3. CASE KvEvents /\ UNCHANGED hkVars
    <3>1. KvKept' /\ UNCHANGED kvTable
      BY <2>3, <1>2, KvSendKeeps, KvForwardKeeps, KvRegisterKeeps DEF HkInv, KvEvents
    <3> QED
      BY <3>1, <2>3, <1>2, HkRests DEF HkInv, hkVars
  <2>4. CASE HkStart
    BY <2>4, <1>2, HkStartKeeps
  <2>5. CASE HkStop
    BY <2>5, <1>2, HkStopKeeps
  <2>6. CASE SetHotkeys
    BY <2>6, <1>2, SetHotkeysKeeps
  <2>7. CASE HkOperate
    BY <2>7, <1>2, HkOperateKeeps
  <2>8. CASE HkStore
    BY <2>8, <1>2, HkStoreKeeps
  <2> QED
    BY <2>1, <2>2, <2>3, <2>4, <2>5, <2>6, <2>7, <2>8, <1>2 DEF HkNext
<1> QED
  BY <1>1, <1>2

\* Whenever no update runs, every shortcut no failed update had reached does what the
\* list in force says, and that list is the stored one unless its write failed; once all
\* notifications of the storage have run, the windows saw the last commit of each key
\* that was not overtaken: Hotkey::update, Storage::notify_subscribers and the forwarding loop.
THEOREM HotkeysSettle == HkInit /\ [][HkNext]_hkAll => []HkSettled
<1>1. HkInv => HkSettled
  <2> SUFFICES ASSUME HkInv PROVE HkSettled
    OBVIOUS
  <2>1. HkAsListed
    BY DEF HkInv, HkKept, HkInForce, HkSaved, HkAsListed, HkWants
  <2>2. KvAnnounced
    BY DEF HkInv, KvKept, KvTold, KvOnItsWay, KvShows, KvAnnounced
  <2> QED
    BY <2>1, <2>2 DEF HkSettled
<1> QED
  BY <1>1, HkInductive, PTL

-------------------------------------------------------------------------------
(* The index of a log file (logging/indexer.rs, logging/manager.rs).           *)

\* The most lines of two prefixes, and the line of a number that counts from 0.
LiMost(n, m) == IF n < m THEN m ELSE n
LiOf(f, k) == f[k + 1]

\* An index of the first n lines of the file f, of which the first m were read again from
\* the start: a timestamp shows the last of those read again that has it, if one does.
LiMixed(x, f, n, m) ==
  /\ DOMAIN x.lines = 0..(LiMost(n, m) - 1) /\ (LiMost(n, m) = 0 => x.lines = <<>>)
  /\ \A k \in 0..(LiMost(n, m) - 1) : x.lines[k] = LiOf(f, k)
  /\ x.levels \in [LiLevels -> SUBSET Nat]
  /\ \A l \in LiLevels : x.levels[l] = {k \in 0..(LiMost(n, m) - 1) : LiOf(f, k).level = l}
  /\ x.targets \in [LiTargets -> SUBSET Nat]
  /\ \A t \in LiTargets : x.targets[t] = {k \in 0..(LiMost(n, m) - 1) : LiOf(f, k).target = t}
  /\ \A t \in DOMAIN x.stamps : x.stamps[t] \in 0..(LiMost(n, m) - 1) /\ LiOf(f, x.stamps[t]).stamp = t
  /\ \A k \in 0..(LiMost(n, m) - 1) : LiOf(f, k).stamp \in DOMAIN x.stamps
  /\ \A k \in 0..(m - 1) : k <= x.stamps[LiOf(f, k).stamp]
  /\ m > 0 => x.last = m - 1

\* The index of the first n lines.
LiKnows(x, f, n) == LiMixed(x, f, n, n)

\* Of some natural numbers there is a least.
LEMMA LiLeast ==
  ASSUME NEW S, S \subseteq Nat, S # {}
  PROVE  \E n \in S : \A k \in S : n <= k
<1> DEFINE R == {p \in Nat \X Nat : p[1] < p[2]}
<1>1. IsWellFoundedOn(R, Nat)
  BY NatLessThanWellFounded DEF OpToRel
<1> HIDE DEF R
<1>2. PICK n \in S : \A k \in S : ~(<<k, n>> \in R)
  BY <1>1, WFMin
<1>3. \A k \in S : ~(k < n)
  BY <1>2 DEF R
<1> QED
  BY <1>3

\* A line is added, or added again with all before it.
LEMMA LiAdds ==
  ASSUME NEW f \in Seq(Line), NEW n \in Nat, NEW m \in Nat \ {0}, m <= Len(f), n <= Len(f),
         NEW x, LiMixed(x, f, n, m - 1)
  PROVE  LiMixed(AddEntry(x, m - 1, f[m]), f, n, m)
<1> DEFINE y == AddEntry(x, m - 1, f[m])
           o == LiMost(n, m - 1)
           b == LiMost(n, m)
           line == f[m]
<1>1. /\ line \in Line /\ line.level \in LiLevels /\ line.target \in LiTargets /\ line.stamp \in LiStamps
      /\ LiOf(f, m - 1) = line /\ m \in 1..Len(f)
  <2>1. m \in 1..Len(f) /\ (m - 1) + 1 = m
    OBVIOUS
  <2>2. line \in Line
    BY <2>1
  <2> QED
    BY <2>1, <2>2 DEF Line, LiOf
<1>2. /\ o \in Nat /\ b \in Nat \ {0} /\ m - 1 \in 0..(b - 1)
      /\ 0..(b - 1) = (0..(o - 1)) \cup {m - 1}
      /\ 0..(m - 1) = (0..(m - 2)) \cup {m - 1}
  BY DEF LiMost
<1>3. /\ y.lines = Inserted(x.lines, m - 1, line) /\ y.stamps = Inserted(x.stamps, line.stamp, m - 1)
      /\ y.levels = [x.levels EXCEPT ![line.level] = @ \cup {m - 1}]
      /\ y.targets = [x.targets EXCEPT ![line.target] = @ \cup {m - 1}] /\ y.last = m - 1
  BY DEF AddEntry
<1>4. /\ DOMAIN x.lines = 0..(o - 1) /\ \A k \in 0..(o - 1) : x.lines[k] = LiOf(f, k)
      /\ x.levels \in [LiLevels -> SUBSET Nat] /\ x.targets \in [LiTargets -> SUBSET Nat]
      /\ \A l \in LiLevels : x.levels[l] = {k \in 0..(o - 1) : LiOf(f, k).level = l}
      /\ \A t \in LiTargets : x.targets[t] = {k \in 0..(o - 1) : LiOf(f, k).target = t}
  BY DEF LiMixed
<1>5. /\ \A t \in DOMAIN x.stamps : x.stamps[t] \in 0..(o - 1) /\ LiOf(f, x.stamps[t]).stamp = t
      /\ \A k \in 0..(o - 1) : LiOf(f, k).stamp \in DOMAIN x.stamps
      /\ \A k \in 0..(m - 2) : k <= x.stamps[LiOf(f, k).stamp]
  BY DEF LiMixed
<1> HIDE DEF y, o, b, line
<1>6. DOMAIN y.lines = 0..(b - 1) /\ \A k \in 0..(b - 1) : y.lines[k] = LiOf(f, k)
  <2>1. /\ DOMAIN y.lines = DOMAIN x.lines \cup {m - 1} /\ y.lines[m - 1] = line
        /\ \A k \in DOMAIN x.lines \ {m - 1} : y.lines[k] = x.lines[k]
    <3> DEFINE p == m - 1
               g == x.lines
    <3>1. y.lines = Inserted(g, p, line)
      BY <1>3
    <3> HIDE DEF p, g
    <3>2. DOMAIN y.lines = DOMAIN g \cup {p} /\ y.lines[p] = line /\ \A k \in DOMAIN g \ {p} : y.lines[k] = g[k]
      BY <3>1 DEF Inserted
    <3> QED
      BY <3>2 DEF p, g
  <2> QED
    BY <2>1, <1>1, <1>2, <1>4
<1>7. y.levels \in [LiLevels -> SUBSET Nat] /\ y.targets \in [LiTargets -> SUBSET Nat]
  BY <1>1, <1>2, <1>3, <1>4
<1>8. ASSUME NEW l \in LiLevels PROVE y.levels[l] = {k \in 0..(b - 1) : LiOf(f, k).level = l}
  <2>1. y.levels[l] = IF l = line.level THEN x.levels[l] \cup {m - 1} ELSE x.levels[l]
    BY <1>1, <1>3, <1>4
  <2> QED
    BY <2>1, <1>1, <1>2, <1>4
<1>9. ASSUME NEW t \in LiTargets PROVE y.targets[t] = {k \in 0..(b - 1) : LiOf(f, k).target = t}
  <2>1. y.targets[t] = IF t = line.target THEN x.targets[t] \cup {m - 1} ELSE x.targets[t]
    BY <1>1, <1>3, <1>4
  <2> QED
    BY <2>1, <1>1, <1>2, <1>4
<1>10. /\ DOMAIN y.stamps = DOMAIN x.stamps \cup {line.stamp} /\ y.stamps[line.stamp] = m - 1
       /\ \A t \in DOMAIN x.stamps \ {line.stamp} : y.stamps[t] = x.stamps[t]
  <2> DEFINE p == m - 1
             g == x.stamps
             s == line.stamp
  <2>1. y.stamps = Inserted(g, s, p)
    BY <1>3
  <2> HIDE DEF p, g, s
  <2>2. DOMAIN y.stamps = DOMAIN g \cup {s} /\ y.stamps[s] = p /\ \A k \in DOMAIN g \ {s} : y.stamps[k] = g[k]
    BY <2>1 DEF Inserted
  <2> QED
    BY <2>2 DEF p, g, s
<1>11. \A t \in DOMAIN y.stamps : y.stamps[t] \in 0..(b - 1) /\ LiOf(f, y.stamps[t]).stamp = t
  BY <1>1, <1>2, <1>5, <1>10
<1>12. \A k \in 0..(b - 1) : LiOf(f, k).stamp \in DOMAIN y.stamps
  BY <1>1, <1>2, <1>5, <1>10
<1>13. ASSUME NEW k \in 0..(m - 1) PROVE k <= y.stamps[LiOf(f, k).stamp]
  <2>1. CASE LiOf(f, k).stamp = line.stamp
    BY <2>1, <1>10
  <2>2. CASE LiOf(f, k).stamp # line.stamp
    <3>1. k \in 0..(m - 2) /\ k \in 0..(o - 1)
      BY <2>2, <1>1 DEF LiMost, o
    <3> QED
      BY <3>1, <2>2, <1>5, <1>10
  <2> QED
    BY <2>1, <2>2
<1>14. b = LiMost(n, m) /\ y = AddEntry(x, m - 1, f[m])
  BY DEF b, y, line
<1>15. LiMixed(y, f, n, m)
  BY <1>2, <1>3, <1>6, <1>7, <1>8, <1>9, <1>11, <1>12, <1>13, <1>14 DEF LiMixed
<1> QED
  BY <1>14, <1>15

\* The index after each line of a read.
LiAdded(index, f, c, added) ==
  added = [n \in c..Len(f) |-> IF n = c THEN index ELSE AddEntry(added[n - 1], n - 1, f[n])]

\* A read of lines one by one is well defined.
LEMMA LiReads ==
  ASSUME NEW f \in Seq(Line), NEW c \in 0..Len(f), NEW index
  PROVE  \E added : LiAdded(index, f, c, added) /\ HandleLines(index, f, c) = added[Len(f)]
<1> DEFINE Upto(j, g) == g = [n \in c..j |-> IF n = c THEN index ELSE AddEntry(g[n - 1], n - 1, f[n])]
           Missing == {j \in c..Len(f) : ~ \E g : Upto(j, g)}
<1>1. Missing = {}
  <2> SUFFICES ASSUME Missing # {} PROVE FALSE
    OBVIOUS
  <2>0. Missing \subseteq Nat
    OBVIOUS
  <2> HIDE DEF Missing
  <2>1. PICK j \in Missing : \A k \in Missing : j <= k
    BY <2>0, LiLeast
  <2> USE DEF Missing
  <2>2. j \in c..Len(f) /\ ~ \E g : Upto(j, g)
    OBVIOUS
  <2>3. CASE j = c
    <3> DEFINE g == [n \in c..j |-> index]
    <3>1. Upto(j, g)
      BY <2>3
    <3> QED
      BY <3>1, <2>2
  <2>4. CASE j # c
    <3>1. j - 1 \in c..Len(f) /\ ~(j <= j - 1)
      BY <2>2, <2>4
    <3>2. PICK g : Upto(j - 1, g)
      <4>1. j - 1 \notin Missing
        BY <2>1, <3>1
      <4> QED
        BY <4>1, <3>1
    <3> DEFINE h == [n \in c..j |-> IF n = j THEN AddEntry(g[j - 1], j - 1, f[j]) ELSE g[n]]
    <3>3. ASSUME NEW n \in c..j PROVE h[n] = IF n = c THEN index ELSE AddEntry(h[n - 1], n - 1, f[n])
      <4>1. CASE n = j
        <5>1. h[n] = AddEntry(g[j - 1], j - 1, f[j]) /\ h[j - 1] = g[j - 1]
          BY <2>2, <2>4, <4>1
        <5> QED
          BY <5>1, <4>1, <2>4
      <4>2. CASE n # j
        <5>1. n \in c..(j - 1) /\ h[n] = g[n] /\ (n # c => n - 1 \in c..j /\ h[n - 1] = g[n - 1])
          BY <2>2, <4>2
        <5>2. g[n] = IF n = c THEN index ELSE AddEntry(g[n - 1], n - 1, f[n])
          BY <3>2, <5>1
        <5> QED
          BY <5>1, <5>2
      <4> QED
        BY <4>1, <4>2
    <3>4. Upto(j, h)
      BY <3>3
    <3> QED
      BY <3>4, <2>2
  <2> QED
    BY <2>3, <2>4
<1>2. PICK g : Upto(Len(f), g)
  BY <1>1
<1> DEFINE a == CHOOSE added : LiAdded(index, f, c, added)
<1>3. LiAdded(index, f, c, g)
  BY <1>2 DEF LiAdded
<1>4. LiAdded(index, f, c, a)
  BY <1>3
<1>5. HandleLines(index, f, c) = a[Len(f)]
  BY DEF HandleLines, LiAdded
<1> QED
  BY <1>4, <1>5

\* Reading on, or again from the start, leaves the index of all lines.
LEMMA LiHandles ==
  ASSUME NEW f \in Seq(Line), NEW n \in 0..Len(f), NEW c \in {0, n}, NEW x, LiKnows(x, f, n)
  PROVE  LiKnows(HandleLines(x, f, c), f, Len(f))
<1>1. PICK added : LiAdded(x, f, c, added) /\ HandleLines(x, f, c) = added[Len(f)]
  BY LiReads
<1>2. /\ added[c] = x
      /\ \A j \in (c + 1)..Len(f) : added[j] = AddEntry(added[j - 1], j - 1, f[j])
  BY <1>1 DEF LiAdded
<1>3. LiMixed(x, f, n, c)
  <2>1. CASE c = n
    BY <2>1 DEF LiKnows
  <2>2. CASE c = 0
    <3>1. LiMost(n, 0) = n /\ LiMost(n, n) = n
      BY DEF LiMost
    <3>2. LiMixed(x, f, n, n)
      BY DEF LiKnows
    <3>3. (\A k \in 0..(0 - 1) : k <= x.stamps[LiOf(f, k).stamp]) /\ ~ (0 > 0)
      OBVIOUS
    <3>4. LiMixed(x, f, n, 0)
      BY <3>1, <3>2, <3>3, Zenon DEF LiMixed
    <3> QED
      BY <2>2, <3>4
  <2> QED
    BY <2>1, <2>2
<1> DEFINE Wrong == {j \in c..Len(f) : ~ LiMixed(added[j], f, n, j)}
<1>4. Wrong = {}
  <2> SUFFICES ASSUME Wrong # {} PROVE FALSE
    OBVIOUS
  <2>0. Wrong \subseteq Nat
    OBVIOUS
  <2> HIDE DEF Wrong
  <2>1. PICK j \in Wrong : \A k \in Wrong : j <= k
    BY <2>0, LiLeast
  <2> USE DEF Wrong
  <2>2. j \in c..Len(f) /\ ~ LiMixed(added[j], f, n, j)
    OBVIOUS
  <2>3. j # c
    BY <2>2, <1>2, <1>3
  <2>4. j - 1 \in c..Len(f) /\ j - 1 \notin Wrong /\ j \in Nat \ {0} /\ j \in (c + 1)..Len(f)
    BY <2>1, <2>2, <2>3
  <2>5. LiMixed(added[j - 1], f, n, j - 1)
    BY <2>4
  <2> HIDE DEF Wrong
  <2>6. LiMixed(AddEntry(added[j - 1], j - 1, f[j]), f, n, j)
    BY <2>4, <2>5, LiAdds
  <2> QED
    BY <2>2, <2>4, <2>6, <1>2
<1>5. LiMixed(added[Len(f)], f, n, Len(f))
  BY <1>4
<1>6. LiMost(n, Len(f)) = Len(f) /\ LiMost(Len(f), Len(f)) = Len(f)
  BY DEF LiMost
<1> QED
  BY <1>1, <1>5, <1>6 DEF LiKnows, LiMixed

\* The numbers of a query's lines before their page is cut out.
LiAsked(f, n, q) ==
  LET at(k) == f[k + 1]
      match == {k \in 0..(n - 1) : /\ q.stamps = {} \/ at(k).stamp \in q.stamps
                                   /\ q.levels = {} \/ at(k).level \in q.levels
                                   /\ q.targets = {} \/ at(k).target \in q.targets}
      within == {k \in 0..(n - 1) : at(k).stamp \in q.stamps}
      lost == {k \in within : /\ \A m \in within : at(k).stamp <= at(m).stamp
                              /\ \E m \in within : m > k /\ at(m).stamp = at(k).stamp}
  IN  match \ lost

\* Of finitely many line numbers there is a greatest.
LEMMA LiGreatest ==
  ASSUME NEW n \in Nat, NEW S, S \subseteq 0..(n - 1), S # {}
  PROVE  \E k \in S : \A m \in S : m <= k
<1> DEFINE T == {n - k : k \in S}
<1>1. T \subseteq Nat /\ T # {}
  OBVIOUS
<1> HIDE DEF T
<1>2. PICK x \in T : \A y \in T : x <= y
  BY <1>1, LiLeast
<1>3. PICK k \in S : x = n - k
  BY DEF T
<1>4. ASSUME NEW m \in S PROVE m <= k
  <2>1. n - m \in T
    BY DEF T
  <2>2. n - k <= n - m
    BY <2>1, <1>2, <1>3
  <2> QED
    BY <2>2
<1> QED
  BY <1>4

\* The timestamps of a range that some line has, and the first and the last of them.
LiHits(x, q) == DOMAIN x.stamps \cap q.stamps
LiFirst(x, q) == CHOOSE t \in LiHits(x, q) : \A u \in LiHits(x, q) : t <= u
LiLast(x, q) == CHOOSE t \in LiHits(x, q) : \A u \in LiHits(x, q) : u <= t

\* While the clock does not go back, a range begins and ends at a line.
LEMMA LiBounds ==
  ASSUME NEW f \in Seq(Line), NEW n \in 0..Len(f), NEW x, LiKnows(x, f, n),
         \A i, j \in 1..n : i < j => f[i].stamp <= f[j].stamp,
         NEW q \in LiQueries
  PROVE  /\ ByStamp(x, q.stamps) = IF LiHits(x, q) = {} THEN {} ELSE x.stamps[LiFirst(x, q)]..x.stamps[LiLast(x, q)]
         /\ \A i \in 0..(n - 1) : LiOf(f, i).stamp \in Nat /\ LiOf(f, i).stamp \in LiStamps
         /\ \A i \in 0..(n - 1) : LiOf(f, i).stamp \in q.stamps <=> LiOf(f, i).stamp \in LiHits(x, q)
         /\ \A i, j \in 0..(n - 1) : i < j => LiOf(f, i).stamp <= LiOf(f, j).stamp
         /\ \A t \in LiHits(x, q) : t \in q.stamps /\ t \in Nat
         /\ \A t \in LiHits(x, q) : x.stamps[t] \in 0..(n - 1) /\ LiOf(f, x.stamps[t]).stamp = t
         /\ LiHits(x, q) # {} => LiFirst(x, q) \in LiHits(x, q) /\ \A u \in LiHits(x, q) : LiFirst(x, q) <= u
         /\ LiHits(x, q) # {} => LiLast(x, q) \in LiHits(x, q) /\ \A u \in LiHits(x, q) : u <= LiLast(x, q)
<1> DEFINE S(i) == LiOf(f, i).stamp
           hits == LiHits(x, q)
<1>1. n \in Nat /\ \A i \in 0..(n - 1) : i \in Nat /\ i + 1 \in 1..n /\ S(i) \in Nat /\ S(i) \in LiStamps
  <2>0. \A i \in 1..Len(f) : f[i] \in Line
    OBVIOUS
  <2>1. \A i \in 1..Len(f) : f[i].stamp \in LiStamps
    BY <2>0 DEF Line
  <2> SUFFICES ASSUME NEW i \in 0..(n - 1) PROVE i \in Nat /\ i + 1 \in 1..n /\ S(i) \in Nat /\ S(i) \in LiStamps
    OBVIOUS
  <2>2. i + 1 \in 1..Len(f) /\ i + 1 \in 1..n /\ i \in Nat
    OBVIOUS
  <2>3. S(i) \in LiStamps
    BY <2>1, <2>2 DEF LiOf
  <2> QED
    BY <2>2, <2>3, LiAssumption
<1>2. \A i, j \in 0..(n - 1) : i < j => S(i) <= S(j)
  <2> SUFFICES ASSUME NEW i \in 0..(n - 1), NEW j \in 0..(n - 1), i < j PROVE S(i) <= S(j)
    OBVIOUS
  <2>1. i + 1 \in 1..n /\ j + 1 \in 1..n /\ i + 1 < j + 1
    BY <1>1
  <2> QED
    BY <2>1 DEF LiOf
<1>3. /\ \A t \in DOMAIN x.stamps : x.stamps[t] \in 0..(n - 1) /\ S(x.stamps[t]) = t
      /\ \A i \in 0..(n - 1) : S(i) \in DOMAIN x.stamps /\ i <= x.stamps[S(i)]
  BY DEF LiKnows, LiMixed, LiMost
<1>4. ByStamp(x, q.stamps) = IF hits = {} THEN {} ELSE x.stamps[LiFirst(x, q)]..x.stamps[LiLast(x, q)]
  BY DEF ByStamp, LiHits, LiFirst, LiLast
<1>5. \A i \in 0..(n - 1) : S(i) \in q.stamps <=> S(i) \in hits
  BY <1>3 DEF LiHits
<1>6. \A t \in hits : t \in Nat /\ t \in DOMAIN x.stamps /\ t \in q.stamps
  BY <1>1, <1>3 DEF LiHits
<1> HIDE DEF hits
<1>7. ASSUME hits # {} PROVE LiFirst(x, q) \in hits /\ \A u \in hits : LiFirst(x, q) <= u
  <2>1. \E t \in hits : \A u \in hits : t <= u
    <3>1. hits \subseteq Nat
      BY <1>6
    <3> QED
      BY <3>1, <1>7, LiLeast
  <2> QED
    BY <2>1 DEF LiFirst, hits
<1>8. ASSUME hits # {} PROVE LiLast(x, q) \in hits /\ \A u \in hits : u <= LiLast(x, q)
  <2> DEFINE T == {x.stamps[t] : t \in hits}
  <2>1. T \subseteq 0..(n - 1) /\ T # {}
    BY <1>3, <1>6, <1>8
  <2> HIDE DEF T
  <2>2. PICK m \in T : \A i \in T : i <= m
    BY <2>1, <1>1, LiGreatest
  <2>3. PICK t \in hits : m = x.stamps[t]
    BY DEF T
  <2>4. ASSUME NEW u \in hits PROVE u <= t
    <3>1. x.stamps[u] \in T /\ x.stamps[u] <= m
      BY <2>2 DEF T
    <3>2. x.stamps[u] \in 0..(n - 1) /\ m \in 0..(n - 1) /\ S(x.stamps[u]) = u /\ S(m) = t
      BY <1>3, <1>6, <2>3
    <3>3. x.stamps[u] < m \/ x.stamps[u] = m
      BY <3>1, <3>2
    <3> QED
      BY <3>2, <3>3, <1>1, <1>2
  <2>5. \E v \in hits : \A u \in hits : u <= v
    BY <2>4
  <2> QED
    BY <2>5 DEF LiLast, hits
<1> QED
  BY <1>1, <1>2, <1>3, <1>4, <1>5, <1>6, <1>7, <1>8 DEF hits

\* While the clock does not go back, a range of timestamps is the lines between two.
LEMMA LiRanges ==
  ASSUME NEW f \in Seq(Line), NEW n \in 0..Len(f), NEW x, LiKnows(x, f, n),
         \A i, j \in 1..n : i < j => f[i].stamp <= f[j].stamp,
         NEW q \in LiQueries, NEW k \in 0..(n - 1)
  PROVE  k \in ByStamp(x, q.stamps) <=>
           /\ LiOf(f, k).stamp \in q.stamps
           /\ ~ /\ \A m \in 0..(n - 1) : LiOf(f, m).stamp \in q.stamps => LiOf(f, k).stamp <= LiOf(f, m).stamp
                /\ \E m \in 0..(n - 1) : LiOf(f, m).stamp \in q.stamps /\ m > k /\ LiOf(f, m).stamp = LiOf(f, k).stamp
<1> DEFINE S(i) == LiOf(f, i).stamp
           hits == LiHits(x, q)
           first == LiFirst(x, q)
           last == LiLast(x, q)
<1>1. n \in Nat /\ \A i \in 0..(n - 1) : i \in Nat /\ S(i) \in Nat /\ S(i) \in LiStamps
  <2>1. n \in Nat /\ \A i \in 0..(n - 1) : i \in Nat
    OBVIOUS
  <2> QED
    BY <2>1, LiBounds
<1>2. \A i, j \in 0..(n - 1) : i < j => S(i) <= S(j)
  BY LiBounds
<1>3. \A i \in 0..(n - 1) : S(i) \in DOMAIN x.stamps /\ i <= x.stamps[S(i)]
  BY DEF LiKnows, LiMixed, LiMost
<1>4. \A s, u \in q.stamps, t \in LiStamps : s <= t /\ t <= u => t \in q.stamps
  BY LiAssumption
<1>5. ByStamp(x, q.stamps) = IF hits = {} THEN {} ELSE x.stamps[first]..x.stamps[last]
  BY LiBounds
<1>6. \A i \in 0..(n - 1) : S(i) \in q.stamps <=> S(i) \in hits
  BY LiBounds
<1>7. \A t \in hits : t \in Nat /\ t \in q.stamps /\ x.stamps[t] \in 0..(n - 1) /\ S(x.stamps[t]) = t
  BY LiBounds
<1>8. CASE hits = {}
  BY <1>5, <1>6, <1>8
<1>9. CASE hits # {}
  <2>1. first \in hits /\ \A u \in hits : first <= u
    BY <1>9, LiBounds
  <2>2. last \in hits /\ \A u \in hits : u <= last
    BY <1>9, LiBounds
  <2> HIDE DEF hits, first, last
  <2> DEFINE a == x.stamps[first]
             z == x.stamps[last]
  <2>3. /\ a \in 0..(n - 1) /\ z \in 0..(n - 1) /\ S(a) = first /\ S(z) = last
        /\ first \in q.stamps /\ last \in q.stamps /\ first \in Nat /\ last \in Nat
    BY <2>1, <2>2, <1>7
  <2>4. ByStamp(x, q.stamps) = a..z
    BY <1>5, <1>9
  <2> HIDE DEF a, z
  <2>5. ASSUME k \in a..z PROVE S(k) \in q.stamps /\ (S(k) = first => \A m \in 0..(n - 1) : m > k => S(m) # S(k) \/ k \in a..z)
    <3>1. first <= S(k) /\ S(k) <= last
      <4>1. (a = k \/ a < k) /\ (k = z \/ k < z)
        BY <2>3, <2>5, <1>1
      <4> QED
        BY <4>1, <2>3, <1>1, <1>2
    <3> QED
      BY <3>1, <2>3, <2>5, <1>1, <1>4
  <2> DEFINE Least == \A m \in 0..(n - 1) : S(m) \in q.stamps => S(k) <= S(m)
             Again == \E m \in 0..(n - 1) : S(m) \in q.stamps /\ m > k /\ S(m) = S(k)
  <2>6. ASSUME k \in a..z PROVE ~(Least /\ Again)
    <3> SUFFICES ASSUME Least, Again PROVE FALSE
      OBVIOUS
    <3>1. S(k) = first
      <4>1. S(k) <= first /\ S(k) \in hits
        BY <2>3, <2>5, <2>6, <1>6
      <4> QED
        BY <4>1, <2>1, <2>3, <1>1
    <3>2. PICK m \in 0..(n - 1) : m > k /\ S(m) = first
      BY <3>1
    <3>3. m <= a
      BY <3>2, <1>3, <2>3 DEF a
    <3> QED
      BY <3>2, <3>3, <2>3, <2>6, <1>1
  <2>7. ASSUME S(k) \in q.stamps, ~(Least /\ Again) PROVE k \in a..z
    <3>1. S(k) \in hits /\ first <= S(k) /\ S(k) <= last
      BY <2>7, <1>6, <2>1, <2>2
    <3>2. k <= z
      <4>1. CASE S(k) = last
        BY <4>1, <1>3, <2>3 DEF z
      <4>2. CASE S(k) # last
        <5>1. ~(z < k) /\ z # k
          BY <4>2, <3>1, <2>3, <1>1, <1>2
        <5> QED
          BY <5>1, <2>3, <1>1
      <4> QED
        BY <4>1, <4>2
    <3>3. a <= k
      <4>1. CASE S(k) = first
        <5>1. Least
          BY <4>1, <1>6, <2>1
        <5>2. ~(a > k)
          BY <5>1, <2>7, <4>1, <2>3
        <5> QED
          BY <5>2, <2>3, <1>1
      <4>2. CASE S(k) # first
        <5>1. ~(k < a) /\ k # a
          BY <4>2, <3>1, <2>3, <1>1, <1>2
        <5> QED
          BY <5>1, <2>3, <1>1
      <4> QED
        BY <4>1, <4>2
    <3> QED
      BY <3>2, <3>3, <2>3, <1>1
  <2>8. k \in ByStamp(x, q.stamps) <=> (S(k) \in q.stamps /\ ~(Least /\ Again))
    BY <2>4, <2>5, <2>6, <2>7
  <2> QED
    BY <2>8
<1> QED
  BY <1>8, <1>9

\* The index of the first n lines answers what reading them finds.
LEMMA LiAnswers ==
  ASSUME NEW f \in Seq(Line), NEW n \in 0..Len(f), NEW x, LiKnows(x, f, n), NEW q \in LiQueries,
         q.stamps = {} \/ \A i, j \in 1..n : i < j => f[i].stamp <= f[j].stamp
  PROVE  Matching(x, q) = LiAsked(f, n, q)
<1> DEFINE all == IF q.stamps # {} THEN ByStamp(x, q.stamps) ELSE IF x.lines = <<>> THEN {} ELSE 0..x.last
           Kept(k) == /\ q.levels = {} \/ LiOf(f, k).level \in q.levels
                      /\ q.targets = {} \/ LiOf(f, k).target \in q.targets
           Lost(k) == /\ \A m \in 0..(n - 1) : LiOf(f, m).stamp \in q.stamps => LiOf(f, k).stamp <= LiOf(f, m).stamp
                      /\ \E m \in 0..(n - 1) : LiOf(f, m).stamp \in q.stamps /\ m > k /\ LiOf(f, m).stamp = LiOf(f, k).stamp
           In(k) == q.stamps = {} \/ (LiOf(f, k).stamp \in q.stamps /\ ~Lost(k))
<1>1. /\ DOMAIN x.lines = 0..(n - 1) /\ (n = 0 => x.lines = <<>>) /\ (n > 0 => x.last = n - 1)
      /\ \A l \in LiLevels : x.levels[l] = {k \in 0..(n - 1) : LiOf(f, k).level = l}
      /\ \A t \in LiTargets : x.targets[t] = {k \in 0..(n - 1) : LiOf(f, k).target = t}
      /\ \A t \in DOMAIN x.stamps : x.stamps[t] \in 0..(n - 1)
  BY DEF LiKnows, LiMixed, LiMost
<1>2. q.levels \subseteq LiLevels /\ q.targets \subseteq LiTargets /\ n \in Nat
  BY LiAssumption
<1>3. all \subseteq 0..(n - 1)
  <2>1. CASE q.stamps # {}
    <3>1. /\ ByStamp(x, q.stamps) = IF LiHits(x, q) = {} THEN {} ELSE x.stamps[LiFirst(x, q)]..x.stamps[LiLast(x, q)]
          /\ LiHits(x, q) # {} => x.stamps[LiFirst(x, q)] \in 0..(n - 1) /\ x.stamps[LiLast(x, q)] \in 0..(n - 1)
      BY <2>1, LiBounds
    <3> QED
      BY <3>1, <2>1, <1>2
  <2>2. CASE q.stamps = {}
    <3>1. n > 0 => x.lines # <<>>
      BY <1>1, <1>2
    <3> QED
      BY <3>1, <2>2, <1>1, <1>2
  <2> QED
    BY <2>1, <2>2
<1>4. ASSUME NEW k \in 0..(n - 1) PROVE k \in all <=> In(k)
  <2>1. CASE q.stamps = {}
    <3>1. n > 0 /\ x.lines # <<>> /\ x.last = n - 1
      BY <1>1, <1>2, <1>4
    <3> QED
      BY <3>1, <2>1
  <2>2. CASE q.stamps # {}
    BY <2>2, LiRanges
  <2> QED
    BY <2>1, <2>2
<1>5. ASSUME NEW k \in 0..(n - 1)
      PROVE  Kept(k) <=> /\ q.levels = {} \/ \E l \in q.levels : k \in x.levels[l]
                         /\ q.targets = {} \/ \E t \in q.targets : k \in x.targets[t]
  BY <1>1, <1>2
<1>6. Matching(x, q) = {k \in 0..(n - 1) : In(k) /\ Kept(k)}
  <2>1. \A k : k \in Matching(x, q) <=>
          /\ k \in all
          /\ q.levels = {} \/ \E l \in q.levels : k \in x.levels[l]
          /\ q.targets = {} \/ \E t \in q.targets : k \in x.targets[t]
    BY DEF Matching
  <2> HIDE DEF all, In, Kept
  <2> QED
    BY <2>1, <1>3, <1>4, <1>5
<1>7. \A k \in 0..(n - 1) : k \in LiAsked(f, n, q) <=> In(k) /\ Kept(k)
  BY DEF LiAsked, LiOf
<1>8. LiAsked(f, n, q) \subseteq 0..(n - 1)
  BY DEF LiAsked
<1> HIDE DEF In, Kept
<1> QED
  BY <1>6, <1>7, <1>8

\* An indexer of some of the lines, which reads on after them or from the start.
LiRecord(r) ==
  /\ r = [on |-> r.on, index |-> r.index, current |-> r.current, ok |-> r.ok]
  /\ r.on \in BOOLEAN /\ r.ok \in BOOLEAN /\ r.current \in [line : Nat, mid : BOOLEAN]
LiPlaced(r, f) ==
  \E n \in 0..Len(f) : LiKnows(r.index, f, n) /\ r.current.line \in {0, n} /\ (r.current.mid => r.current.line = n)

\* The types the steps need.
LiShape ==
  /\ liFile \in [on : BOOLEAN, lines : Seq(Line), tail : {"none", "part", "whole"}]
  /\ liRunner \in {"scan", "watch", "on", "dead"} /\ liEvents \in Seq({"Create", "Modify", "Remove"})
  /\ liCmd \in {"none", "AddLogFile", "RemoveLogFile", "LogFileChanged"} /\ liMissed \in BOOLEAN
  /\ LiRecord(liIndex)

\* A file is created once and removed once; it has no indexer before the watcher told of it.
LiOnce ==
  /\ liRunner = "scan" => ~liIndex.on
  /\ liRunner \in {"scan", "watch"} => liEvents = <<>> /\ liCmd = "none"
  /\ ~liFile.on /\ liFile.lines = <<>> => ~liIndex.on /\ liEvents = <<>> /\ liCmd = "none"
  /\ liFile.on => liCmd # "RemoveLogFile" /\ \A i \in DOMAIN liEvents : liEvents[i] # "Remove"
  /\ \A i \in DOMAIN liEvents : liEvents[i] = "Create" => i = 1 /\ liCmd = "none" /\ ~liIndex.on
  /\ liCmd = "AddLogFile" => ~liIndex.on

\* The index is that of a prefix of the file, and of all of it unless a change is still to be read.
LiReadSoFar == liIndex.on => LiPlaced(liIndex, liFile.lines)
LiCaughtUp ==
  liRunner \in {"watch", "on"} /\ liIndex.on /\ liFile.on /\ liIndex.ok /\ ~liMissed =>
    LiKnows(liIndex.index, liFile.lines, Len(liFile.lines)) \/ liCmd = "LogFileChanged" \/ liEvents # <<>>

LiInv == LiShape /\ LiOnce /\ LiReadSoFar /\ LiCaughtUp

\* Nothing was read.
LEMMA LiNone ==
  ASSUME NEW f \in Seq(Line)
  PROVE  /\ LiRecord(NoIndexer) /\ ~NoIndexer.on
         /\ LiPlaced([NoIndexer EXCEPT !.on = TRUE], f) /\ LiRecord([NoIndexer EXCEPT !.on = TRUE])
<1> DEFINE x == LogIndexNew
           r == [NoIndexer EXCEPT !.on = TRUE]
<1>1. LiMost(0, 0) = 0
  BY DEF LiMost
<1>2. /\ x.lines = <<>> /\ x.stamps = <<>> /\ x.levels = [l \in LiLevels |-> {}] /\ x.targets = [t \in LiTargets |-> {}]
  BY DEF LogIndexNew
<1>3. LiKnows(x, f, 0)
  BY <1>1, <1>2 DEF LiKnows, LiMixed
<1>5. /\ StartPos.line = 0 /\ StartPos.mid = FALSE /\ 0 \in 0..Len(f) /\ StartPos \in [line : Nat, mid : BOOLEAN]
  BY DEF StartPos
<1>4. /\ r.index = x /\ r.current = StartPos /\ r.on = TRUE /\ r.ok = TRUE /\ LiRecord(r)
      /\ LiRecord(NoIndexer) /\ NoIndexer.on = FALSE
  <2>1. /\ NoIndexer.index = x /\ NoIndexer.current = StartPos /\ NoIndexer.on = FALSE /\ NoIndexer.ok = TRUE
        /\ NoIndexer = [on |-> NoIndexer.on, index |-> NoIndexer.index, current |-> NoIndexer.current, ok |-> NoIndexer.ok]
    <3> DEFINE y == LogIndexNew
               c == StartPos
    <3> HIDE DEF y, c
    <3> QED
      BY DEF NoIndexer, y, c
  <2>2. LiRecord(NoIndexer)
    BY <2>1, <1>5 DEF LiRecord
  <2>3. ASSUME NEW z, LiRecord(z), z.ok = TRUE, NEW u, u = [z EXCEPT !.on = TRUE]
        PROVE  u.index = z.index /\ u.current = z.current /\ u.on = TRUE /\ u.ok = TRUE /\ LiRecord(u)
    BY <2>3 DEF LiRecord
  <2> QED
    BY <2>1, <2>2, <2>3, Zenon
<1> HIDE DEF r
<1>6. LiPlaced(r, f)
  BY <1>3, <1>4, <1>5 DEF LiPlaced
<1> QED
  BY <1>4, <1>6 DEF r

\* A read that succeeds has every line; one that does not starts over.
LEMMA LiReadKeeps ==
  ASSUME LiShape, NEW r, LiRecord(r), LiPlaced(r, liFile.lines)
  PROVE  /\ LiRecord(Read(r)) /\ LiPlaced(Read(r), liFile.lines) /\ Read(r).on = r.on
         /\ Read(r).ok => LiKnows(Read(r).index, liFile.lines, Len(liFile.lines))
<1> DEFINE f == liFile.lines
<1>1. PICK n \in 0..Len(f) : LiKnows(r.index, f, n) /\ r.current.line \in {0, n} /\ (r.current.mid => r.current.line = n)
  BY DEF LiPlaced
<1>2. f \in Seq(Line) /\ Len(f) \in Nat /\ r.current.mid \in BOOLEAN
  BY DEF LiShape, LiRecord
<1>3. StartPos \in [line : Nat, mid : BOOLEAN] /\ StartPos.line = 0 /\ StartPos.mid = FALSE
  BY DEF StartPos
<1> HIDE DEF f
<1>4. CASE r.current.mid
  <2>1. CASE liFile.tail = "whole" /\ r.current.line = Len(f)
    <3>1. Read(r) = [r EXCEPT !.ok = TRUE]
      BY <1>4, <2>1 DEF Read, f
    <3>2. /\ Read(r).index = r.index /\ Read(r).current = r.current /\ Read(r).on = r.on /\ LiRecord(Read(r))
      BY <3>1 DEF LiRecord
    <3>3. n = Len(f)
      BY <1>1, <1>4, <2>1
    <3> QED
      BY <3>2, <3>3, <1>1 DEF LiPlaced, f
  <2>2. CASE ~(liFile.tail = "whole" /\ r.current.line = Len(f))
    <3>1. Read(r) = [r EXCEPT !.current = StartPos, !.ok = FALSE]
      BY <1>4, <2>2 DEF Read, f
    <3>2. /\ Read(r).index = r.index /\ Read(r).current = StartPos /\ Read(r).on = r.on /\ Read(r).ok = FALSE
          /\ LiRecord(Read(r))
      BY <3>1, <1>3 DEF LiRecord
    <3> QED
      BY <3>2, <1>1, <1>3 DEF LiPlaced, f
  <2> QED
    BY <2>1, <2>2
<1>5. CASE ~r.current.mid
  <2> DEFINE y == HandleLines(r.index, f, r.current.line)
             c == IF liFile.tail = "part" THEN StartPos ELSE [line |-> Len(f), mid |-> liFile.tail = "whole"]
             o == liFile.tail # "part"
  <2>1. LiKnows(y, f, Len(f))
    BY <1>1, <1>2, LiHandles
  <2>2. c \in [line : Nat, mid : BOOLEAN] /\ c.line \in {0, Len(f)} /\ (c.mid => c.line = Len(f)) /\ o \in BOOLEAN
    BY <1>2, <1>3
  <2>3. Read(r) = [r EXCEPT !.index = y, !.current = c, !.ok = o]
    BY <1>5 DEF Read, f
  <2> HIDE DEF y, c, o
  <2>4. /\ Read(r).index = y /\ Read(r).current = c /\ Read(r).on = r.on /\ LiRecord(Read(r))
    BY <2>2, <2>3 DEF LiRecord
  <2>5. Len(f) \in 0..Len(f)
    BY <1>2
  <2> QED
    BY <2>1, <2>2, <2>4, <2>5 DEF LiPlaced, f
<1> QED
  BY <1>2, <1>4, <1>5

\* The index of a file that is read from its start.
LEMMA LiBuilt ==
  ASSUME LiShape
  PROVE  /\ LiRecord(BuildIndex) /\ LiPlaced(BuildIndex, liFile.lines) /\ BuildIndex.on
         /\ BuildIndex.ok => LiKnows(BuildIndex.index, liFile.lines, Len(liFile.lines))
<1> DEFINE r == [NoIndexer EXCEPT !.on = TRUE]
<1>1. liFile.lines \in Seq(Line) /\ r.on = TRUE
  BY DEF LiShape, NoIndexer
<1>2. LiRecord(r) /\ LiPlaced(r, liFile.lines)
  BY <1>1, LiNone
<1> HIDE DEF r
<1>3. BuildIndex = Read(r)
  BY DEF BuildIndex, r
<1> QED
  BY <1>1, <1>2, <1>3, LiReadKeeps

\* A line more leaves the index that of a prefix.
LEMMA LiGrows ==
  ASSUME NEW f \in Seq(Line), NEW line \in Line, NEW r, LiPlaced(r, f)
  PROVE  LiPlaced(r, Append(f, line))
<1> DEFINE g == Append(f, line)
<1>1. PICK n \in 0..Len(f) : LiKnows(r.index, f, n) /\ r.current.line \in {0, n} /\ (r.current.mid => r.current.line = n)
  BY DEF LiPlaced
<1>2. n \in 0..Len(g) /\ \A k \in 0..(n - 1) : g[k + 1] = f[k + 1]
  OBVIOUS
<1> HIDE DEF g
<1>3. LiMost(n, n) = n /\ \A k \in 0..(n - 1) : LiOf(g, k) = LiOf(f, k)
  BY <1>2 DEF LiMost, LiOf
<1>4. \A t \in DOMAIN r.index.stamps : r.index.stamps[t] \in 0..(n - 1) /\ LiOf(g, r.index.stamps[t]).stamp = t
  BY <1>1, <1>3 DEF LiKnows, LiMixed
<1>5. /\ \A l \in LiLevels : r.index.levels[l] = {k \in 0..(n - 1) : LiOf(g, k).level = l}
      /\ \A t \in LiTargets : r.index.targets[t] = {k \in 0..(n - 1) : LiOf(g, k).target = t}
  <2>1. ASSUME NEW l \in LiLevels PROVE r.index.levels[l] = {k \in 0..(n - 1) : LiOf(g, k).level = l}
    <3>1. r.index.levels[l] = {k \in 0..(n - 1) : LiOf(f, k).level = l}
      BY <1>1, <1>3 DEF LiKnows, LiMixed
    <3> QED
      BY <3>1, <1>3
  <2>2. ASSUME NEW t \in LiTargets PROVE r.index.targets[t] = {k \in 0..(n - 1) : LiOf(g, k).target = t}
    <3>1. r.index.targets[t] = {k \in 0..(n - 1) : LiOf(f, k).target = t}
      BY <1>1, <1>3 DEF LiKnows, LiMixed
    <3> QED
      BY <3>1, <1>3
  <2> QED
    BY <2>1, <2>2
<1>6. /\ \A k \in 0..(n - 1) : r.index.lines[k] = LiOf(g, k)
      /\ \A k \in 0..(n - 1) : LiOf(g, k).stamp \in DOMAIN r.index.stamps
      /\ \A k \in 0..(n - 1) : k <= r.index.stamps[LiOf(g, k).stamp]
  BY <1>1, <1>3 DEF LiKnows, LiMixed
<1>7. LiKnows(r.index, g, n)
  BY <1>1, <1>3, <1>4, <1>5, <1>6 DEF LiKnows, LiMixed
<1>8. LiPlaced(r, g)
  BY <1>1, <1>2, <1>7 DEF LiPlaced
<1> QED
  BY <1>8 DEF g

\* Nothing is read before the watcher is asked for.
LEMMA LiInitInv == ASSUME LiInit PROVE LiInv
<1>1. liIndex = NoIndexer /\ liIndex.on = FALSE /\ LiRecord(liIndex)
  <2>1. <<>> \in Seq(Line)
    OBVIOUS
  <2>2. LiRecord(NoIndexer) /\ ~NoIndexer.on
    BY <2>1, LiNone
  <2> QED
    BY <2>2 DEF LiInit, LiRecord
<1>2. LiShape
  <2>1. PICK on \in BOOLEAN : liFile = [on |-> on, lines |-> <<>>, tail |-> "none"]
    BY DEF LiInit
  <2>2. liFile \in [on : BOOLEAN, lines : Seq(Line), tail : {"none", "part", "whole"}]
    <3>1. <<>> \in Seq(Line)
      OBVIOUS
    <3> QED
      BY <2>1, <3>1
  <2>3. liRunner = "scan" /\ liEvents = <<>> /\ liCmd = "none" /\ liMissed \in BOOLEAN
    BY Zenon DEF LiInit
  <2> QED
    BY <1>1, <2>2, <2>3 DEF LiShape
<1> QED
  BY <1>1, <1>2 DEF LiInit, LiInv, LiOnce, LiReadSoFar, LiCaughtUp

\* The runner scans for files, and dies of one it cannot index.
LEMMA LiScanKeeps == ASSUME LiInv, Scan PROVE LiInv'
<1>1. LiShape /\ LiOnce /\ LiRecord(liIndex)
  BY DEF LiInv, LiShape
<1>2. /\ LiRecord(BuildIndex) /\ LiPlaced(BuildIndex, liFile.lines) /\ BuildIndex.on
      /\ BuildIndex.ok => LiKnows(BuildIndex.index, liFile.lines, Len(liFile.lines))
  BY <1>1, LiBuilt
<1>3. /\ liFile' = liFile /\ liEvents' = liEvents /\ liCmd' = liCmd /\ liMissed' = liMissed
      /\ liRunner = "scan" /\ ~liIndex.on /\ liEvents = <<>> /\ liCmd = "none"
  BY <1>1 DEF Scan, LiOnce
<1>4. \/ liIndex' = liIndex /\ liRunner' \in {"watch", "dead"}
      \/ liIndex' = BuildIndex /\ BuildIndex.ok /\ liRunner' = "watch" /\ liFile.on
  BY DEF Scan
<1>5. LiRecord(liIndex')
  BY <1>1, <1>2, <1>4
<1>6. LiShape'
  BY <1>1, <1>3, <1>4, <1>5 DEF LiShape
<1>7. LiOnce'
  BY <1>1, <1>3, <1>4 DEF LiOnce
<1>8. LiReadSoFar'
  <2>1. liIndex'.on => LiPlaced(liIndex', liFile.lines)
    BY <1>2, <1>3, <1>4
  <2> QED
    BY <2>1, <1>3 DEF LiReadSoFar
<1>9. LiCaughtUp'
  <2>1. liIndex'.on => LiKnows(liIndex'.index, liFile.lines, Len(liFile.lines))
    BY <1>2, <1>3, <1>4
  <2> QED
    BY <2>1, <1>3 DEF LiCaughtUp
<1> QED
  BY <1>6, <1>7, <1>8, <1>9 DEF LiInv

\* The watcher is started.
LEMMA LiWatchKeeps == ASSUME LiInv, RecommendedWatcher PROVE LiInv'
<1>1. /\ LiShape /\ LiOnce /\ LiReadSoFar /\ LiCaughtUp
      /\ liRunner = "watch" /\ liRunner' = "on"
      /\ liFile' = liFile /\ liIndex' = liIndex /\ liEvents' = liEvents /\ liCmd' = liCmd /\ liMissed' = liMissed
  BY DEF LiInv, RecommendedWatcher
<1>2. LiShape'
  BY <1>1 DEF LiShape
<1>3. LiOnce'
  BY <1>1 DEF LiOnce
<1>4. LiReadSoFar' /\ LiCaughtUp'
  BY <1>1 DEF LiReadSoFar, LiCaughtUp
<1> QED
  BY <1>2, <1>3, <1>4 DEF LiInv

\* An event becomes a command.
LEMMA LiSpawnKeeps == ASSUME LiInv, SpawnWatcher PROVE LiInv'
<1> DEFINE K == {"Create", "Modify", "Remove"}
<1>1. /\ LiShape /\ LiOnce /\ LiReadSoFar /\ LiCaughtUp
      /\ liRunner = "on" /\ liCmd = "none" /\ liEvents # <<>> /\ liEvents' = Tail(liEvents)
      /\ liFile' = liFile /\ liIndex' = liIndex /\ liRunner' = liRunner /\ liMissed' = liMissed
  BY DEF LiInv, SpawnWatcher
<1>2. /\ liEvents \in Seq(K) /\ Head(liEvents) = liEvents[1] /\ liEvents[1] \in K /\ 1 \in DOMAIN liEvents
      /\ Tail(liEvents) \in Seq(K)
      /\ \A i \in DOMAIN Tail(liEvents) : i + 1 \in DOMAIN liEvents /\ i + 1 # 1 /\ Tail(liEvents)[i] = liEvents[i + 1]
  BY <1>1 DEF LiShape
<1>3. /\ liEvents[1] = "Remove" => liCmd' = "RemoveLogFile"
      /\ liEvents[1] # "Remove" /\ ~liFile.on => liCmd' = "none"
      /\ liEvents[1] = "Create" /\ liFile.on => liCmd' = "AddLogFile"
      /\ liEvents[1] = "Modify" /\ liFile.on => liCmd' = "LogFileChanged"
  BY <1>2 DEF SpawnWatcher
<1> HIDE DEF K
<1>4. liCmd' \in {"none", "AddLogFile", "RemoveLogFile", "LogFileChanged"}
  BY <1>2, <1>3 DEF K
<1>5. LiShape'
  BY <1>1, <1>2, <1>4 DEF LiShape, K
<1>6. LiOnce'
  <2>1. liFile.on => liEvents[1] # "Remove"
    BY <1>1, <1>2 DEF LiOnce
  <2>2. liEvents[1] = "Create" => ~liIndex.on
    BY <1>1, <1>2 DEF LiOnce
  <2>3. \A i \in DOMAIN liEvents' : liEvents'[i] # "Create" /\ (liFile.on => liEvents'[i] # "Remove")
    BY <1>1, <1>2 DEF LiOnce
  <2>4. liCmd' = "AddLogFile" => liEvents[1] = "Create"
    BY <1>2, <1>3 DEF K
  <2>5. ~(~liFile.on /\ liFile.lines = <<>>)
    BY <1>1 DEF LiOnce
  <2>6. liFile.on => liCmd' # "RemoveLogFile"
    BY <1>2, <1>3, <2>1 DEF K
  <2> QED
    BY <1>1, <2>2, <2>3, <2>4, <2>5, <2>6 DEF LiOnce
<1>7. LiReadSoFar'
  BY <1>1 DEF LiReadSoFar
<1>8. LiCaughtUp'
  <2>1. liIndex.on /\ liFile.on => liCmd' = "LogFileChanged"
    BY <1>1, <1>2, <1>3 DEF LiOnce, K
  <2> QED
    BY <1>1, <2>1 DEF LiCaughtUp
<1> QED
  BY <1>5, <1>6, <1>7, <1>8 DEF LiInv

\* A command is done: the file is read, for the first time or on, or its index is dropped.
LEMMA LiRunKeeps == ASSUME LiInv, RunCmd PROVE LiInv'
<1>1. /\ LiShape /\ LiOnce /\ LiReadSoFar /\ LiCaughtUp /\ LiRecord(liIndex)
      /\ liRunner = "on" /\ liCmd' = "none" /\ liFile' = liFile /\ liEvents' = liEvents /\ liMissed' = liMissed
  BY DEF LiInv, LiShape, RunCmd
<1>2. /\ LiRecord(BuildIndex) /\ LiPlaced(BuildIndex, liFile.lines) /\ BuildIndex.on
      /\ BuildIndex.ok => LiKnows(BuildIndex.index, liFile.lines, Len(liFile.lines))
  BY <1>1, LiBuilt
<1>3. LiRecord(NoIndexer) /\ ~NoIndexer.on
  BY <1>1, LiNone DEF LiShape
<1>4. liIndex.on =>
        /\ LiRecord(Read(liIndex)) /\ LiPlaced(Read(liIndex), liFile.lines)
        /\ Read(liIndex).ok => LiKnows(Read(liIndex).index, liFile.lines, Len(liFile.lines))
  BY <1>1, LiReadKeeps DEF LiReadSoFar
<1>5. \/ /\ liIndex' = liIndex /\ liRunner' \in {"on", "dead"}
         /\ ~liIndex.on \/ ~liFile.on
      \/ /\ liIndex' = BuildIndex /\ BuildIndex.ok /\ liRunner' = "on" /\ liFile.on /\ liCmd = "AddLogFile"
      \/ /\ liIndex' = NoIndexer /\ liRunner' = "on"
      \/ /\ liIndex' = Read(liIndex) /\ liRunner' = "on" /\ liIndex.on /\ liFile.on
  BY <1>1 DEF RunCmd, LiOnce
<1>6. LiRecord(liIndex')
  BY <1>1, <1>2, <1>3, <1>4, <1>5
<1>7. LiShape'
  BY <1>1, <1>5, <1>6 DEF LiShape
<1>8. LiOnce'
  <2>1. ~(~liFile.on /\ liFile.lines = <<>> /\ liIndex'.on)
    BY <1>1, <1>3, <1>5 DEF LiOnce
  <2>2. /\ ~liFile.on /\ liFile.lines = <<>> => liEvents = <<>>
        /\ liFile.on => \A i \in DOMAIN liEvents : liEvents[i] # "Remove"
        /\ \A i \in DOMAIN liEvents : liEvents[i] # "Create"
    <3>1. liCmd # "none"
      BY DEF RunCmd
    <3> QED
      BY <1>1, <3>1 DEF LiOnce
  <2> QED
    BY <1>1, <1>5, <2>1, <2>2 DEF LiOnce
<1>9. LiReadSoFar'
  <2>1. liIndex'.on => LiPlaced(liIndex', liFile.lines)
    BY <1>1, <1>2, <1>3, <1>4, <1>5 DEF LiReadSoFar
  <2> QED
    BY <1>1, <2>1 DEF LiReadSoFar
<1>10. LiCaughtUp'
  <2>1. liIndex'.on /\ liFile.on /\ liIndex'.ok => LiKnows(liIndex'.index, liFile.lines, Len(liFile.lines))
    BY <1>2, <1>3, <1>4, <1>5
  <2> QED
    BY <1>1, <2>1 DEF LiCaughtUp
<1> QED
  BY <1>7, <1>8, <1>9, <1>10 DEF LiInv

\* What the watcher tells of a change.
LEMMA LiTells ==
  ASSUME LiShape, NEW kind \in {"Create", "Modify", "Remove"}, Told(kind)
  PROVE  /\ liEvents' \in Seq({"Create", "Modify", "Remove"}) /\ liMissed' \in BOOLEAN
         /\ liRunner # "on" => liEvents' = liEvents
         /\ liRunner = "on" => liEvents' # <<>>
         /\ liRunner = "watch" => liMissed'
         /\ liEvents' = liEvents \/ liEvents' = Append(liEvents, kind)
<1>1. liEvents \in Seq({"Create", "Modify", "Remove"})
  BY DEF LiShape
<1>2. /\ liEvents' = IF liRunner # "on" \/ (kind = "Modify" /\ liEvents # <<>> /\ liEvents[Len(liEvents)] # "Remove")
                     THEN liEvents ELSE Append(liEvents, kind)
      /\ liMissed' = (liRunner = "watch")
  BY DEF Told
<1>3. liMissed' \in BOOLEAN /\ (liRunner = "watch" => liMissed')
  BY <1>2, Zenon
<1>4. Append(liEvents, kind) \in Seq({"Create", "Modify", "Remove"}) /\ Append(liEvents, kind) # <<>>
  BY <1>1
<1>5. /\ liRunner # "on" => liEvents' = liEvents
      /\ liEvents' = liEvents \/ liEvents' = Append(liEvents, kind)
      /\ liRunner = "on" => liEvents' # <<>>
  BY <1>2, <1>4
<1> QED
  BY <1>1, <1>3, <1>4, <1>5

\* The file appears, and has no indexer.
LEMMA LiCreatedKeeps == ASSUME LiInv, FileCreated PROVE LiInv'
<1>1. /\ LiShape /\ LiOnce /\ ~liIndex.on /\ liEvents = <<>> /\ liCmd = "none"
      /\ liRunner' = liRunner /\ liIndex' = liIndex /\ liCmd' = liCmd
      /\ liFile' = [liFile EXCEPT !.on = TRUE]
  BY DEF LiInv, LiOnce, FileCreated
<1>2. /\ liEvents' \in Seq({"Create", "Modify", "Remove"}) /\ liMissed' \in BOOLEAN
      /\ liRunner # "on" => liEvents' = liEvents
      /\ liEvents' = liEvents \/ liEvents' = Append(liEvents, "Create")
  BY <1>1, LiTells DEF FileCreated
<1>3. liFile'.on = TRUE /\ LiShape'
  BY <1>1, <1>2 DEF LiShape
<1>4. \A i \in DOMAIN liEvents' : i = 1 /\ liEvents'[i] = "Create"
  BY <1>1, <1>2
<1>5. LiOnce'
  BY <1>1, <1>2, <1>3, <1>4 DEF LiOnce
<1>6. LiReadSoFar' /\ LiCaughtUp'
  BY <1>1 DEF LiReadSoFar, LiCaughtUp
<1> QED
  BY <1>3, <1>5, <1>6 DEF LiInv

\* The file grows, and the watcher tells of it or was not yet there.
LEMMA LiWrittenKeeps == ASSUME LiInv, LineWritten PROVE LiInv'
<1>1. /\ LiShape /\ LiOnce /\ LiReadSoFar /\ liFile.on
      /\ liRunner' = liRunner /\ liIndex' = liIndex /\ liCmd' = liCmd
  BY DEF LiInv, LineWritten
<1>2. /\ liEvents' \in Seq({"Create", "Modify", "Remove"}) /\ liMissed' \in BOOLEAN
      /\ liRunner # "on" => liEvents' = liEvents
      /\ liRunner = "on" => liEvents' # <<>>
      /\ liRunner = "watch" => liMissed'
      /\ liEvents' = liEvents \/ liEvents' = Append(liEvents, "Modify")
  BY <1>1, LiTells DEF LineWritten
<1>3. /\ liFile' \in [on : BOOLEAN, lines : Seq(Line), tail : {"none", "part", "whole"}] /\ liFile'.on
      /\ \/ liFile'.lines = liFile.lines
         \/ \E line \in Line : liFile'.lines = Append(liFile.lines, line)
  <2>1. liFile \in [on : BOOLEAN, lines : Seq(Line), tail : {"none", "part", "whole"}]
    BY <1>1 DEF LiShape
  <2>2. CASE \E tail \in {"none", "part"} : liFile' = [liFile EXCEPT !.tail = tail]
    BY <1>1, <2>1, <2>2
  <2>3. CASE \E line \in Line, tail \in {"none", "whole"} : liFile' = [liFile EXCEPT !.lines = Append(@, line), !.tail = tail]
    <3>1. PICK line \in Line, tail \in {"none", "whole"} : liFile' = [liFile EXCEPT !.lines = Append(@, line), !.tail = tail]
      BY <2>3
    <3>2. liFile'.lines = Append(liFile.lines, line) /\ Append(liFile.lines, line) \in Seq(Line)
      BY <2>1, <3>1
    <3> QED
      BY <1>1, <2>1, <3>1, <3>2
  <2> QED
    BY <2>2, <2>3 DEF LineWritten
<1>4. LiShape'
  BY <1>1, <1>2, <1>3 DEF LiShape
<1>5. LiOnce'
  <2>1. \A i \in DOMAIN liEvents' : liEvents'[i] = "Modify" \/ (i \in DOMAIN liEvents /\ liEvents'[i] = liEvents[i])
    BY <1>1, <1>2 DEF LiShape
  <2> QED
    BY <1>1, <1>2, <1>3, <2>1 DEF LiOnce
<1>6. LiReadSoFar'
  <2>1. ASSUME liIndex.on PROVE LiPlaced(liIndex, liFile'.lines)
    <3>1. liFile.lines \in Seq(Line) /\ LiPlaced(liIndex, liFile.lines)
      BY <1>1, <2>1 DEF LiShape, LiReadSoFar
    <3> QED
      BY <1>3, <3>1, LiGrows
  <2> QED
    BY <1>1, <2>1 DEF LiReadSoFar
<1>7. LiCaughtUp'
  BY <1>1, <1>2 DEF LiCaughtUp
<1> QED
  BY <1>4, <1>5, <1>6, <1>7 DEF LiInv

\* The file is rotated away.
LEMMA LiRotatedKeeps == ASSUME LiInv, FileRotated PROVE LiInv'
<1>1. /\ LiShape /\ LiOnce /\ LiReadSoFar /\ liFile.on /\ liFile.lines # <<>>
      /\ liRunner' = liRunner /\ liIndex' = liIndex /\ liCmd' = liCmd
      /\ liFile' = [liFile EXCEPT !.on = FALSE]
  BY DEF LiInv, FileRotated
<1>2. /\ liEvents' \in Seq({"Create", "Modify", "Remove"}) /\ liMissed' \in BOOLEAN
      /\ liRunner # "on" => liEvents' = liEvents
      /\ liEvents' = liEvents \/ liEvents' = Append(liEvents, "Remove")
  BY <1>1, LiTells DEF FileRotated
<1>3. liFile'.on = FALSE /\ liFile'.lines = liFile.lines /\ LiShape'
  BY <1>1, <1>2 DEF LiShape
<1>4. \A i \in DOMAIN liEvents' : liEvents'[i] = "Remove" \/ (i \in DOMAIN liEvents /\ liEvents'[i] = liEvents[i])
  BY <1>1, <1>2 DEF LiShape
<1>5. LiOnce'
  BY <1>1, <1>2, <1>3, <1>4 DEF LiOnce
<1>6. LiReadSoFar' /\ LiCaughtUp'
  BY <1>1, <1>3 DEF LiReadSoFar, LiCaughtUp
<1> QED
  BY <1>3, <1>5, <1>6 DEF LiInv

\* The invariant says what the property does.
LEMMA LiSays == ASSUME LiInv PROVE LiQueryFaithful
<1> DEFINE f == liFile.lines
           x == liIndex.index
           n == Cardinality(DOMAIN x.lines)
<1>1. SUFFICES ASSUME liIndex.on
               PROVE  /\ n <= Len(f)
                      /\ \A k \in 0..(n - 1) : x.lines[k] = f[k + 1]
                      /\ \A q \in LiQueries : q.stamps = {} \/ Ordered(n) => Query(x, q) = Scanned(n, q)
                      /\ liFile.on /\ liRunner = "on" /\ liEvents = <<>> /\ liCmd = "none" /\ liIndex.ok /\ ~liMissed =>
                           n = Len(f)
  BY DEF LiQueryFaithful
<1>2. f \in Seq(Line) /\ Len(f) \in Nat
  BY DEF LiInv, LiShape
<1> HIDE DEF f
<1>3. ASSUME NEW m \in 0..Len(f), LiKnows(x, f, m) PROVE n = m
  <2>1. DOMAIN x.lines = 0..(m - 1)
    BY <1>2, <1>3 DEF LiKnows, LiMixed, LiMost
  <2>2. Cardinality(0..(m - 1)) = IF 0 > m - 1 THEN 0 ELSE (m - 1) - 0 + 1
    BY <1>2, FS_Interval
  <2> QED
    BY <1>2, <2>1, <2>2
<1>4. PICK m \in 0..Len(f) : LiKnows(x, f, m)
  BY <1>1 DEF LiInv, LiReadSoFar, LiPlaced, f
<1>5. n = m
  BY <1>3, <1>4
<1> HIDE DEF n, x
<1>6. n \in 0..Len(f) /\ LiKnows(x, f, n)
  BY <1>4, <1>5
<1>7. \A k \in 0..(n - 1) : x.lines[k] = f[k + 1]
  BY <1>2, <1>6 DEF LiKnows, LiMixed, LiMost, LiOf
<1>8. ASSUME NEW q \in LiQueries, q.stamps = {} \/ Ordered(n) PROVE Query(x, q) = Scanned(n, q)
  <2>1. q.stamps = {} \/ \A i, j \in 1..n : i < j => f[i].stamp <= f[j].stamp
    BY <1>8 DEF Ordered, f
  <2>2. Matching(x, q) = LiAsked(f, n, q)
    BY <1>2, <1>6, <2>1, LiAnswers
  <2>3. Scanned(n, q) = Page(LiAsked(f, n, q), q)
    BY DEF Scanned, LiAsked, LiOf, f
  <2> QED
    BY <2>2, <2>3 DEF Query
<1>9. ASSUME liFile.on, liRunner = "on", liEvents = <<>>, liCmd = "none", liIndex.ok, ~liMissed PROVE n = Len(f)
  <2>1. LiKnows(x, f, Len(f)) /\ Len(f) \in 0..Len(f)
    BY <1>1, <1>2, <1>9 DEF LiInv, LiCaughtUp, f, x
  <2> QED
    BY <2>1, <1>3 DEF n
<1> QED
  BY <1>2, <1>6, <1>7, <1>8, <1>9

\* The index of a log file is that of a prefix of it, whose lines and queries it answers
\* faithfully however often the file is read again, and of all of it once every event is
\* handled (logging/indexer.rs, logging/manager.rs).
THEOREM QueriesFaithful == LiInit /\ [][LiNext]_liVars => []LiQueryFaithful
<1>1. ASSUME LiInv, [LiNext]_liVars PROVE LiInv'
  <2>1. CASE UNCHANGED liVars
    <3>1. /\ liFile' = liFile /\ liRunner' = liRunner /\ liIndex' = liIndex
          /\ liEvents' = liEvents /\ liCmd' = liCmd /\ liMissed' = liMissed
      BY <2>1 DEF liVars
    <3> QED
      BY <1>1, <3>1 DEF LiInv, LiShape, LiOnce, LiReadSoFar, LiCaughtUp
  <2> QED
    BY <1>1, <2>1, LiScanKeeps, LiWatchKeeps, LiSpawnKeeps, LiRunKeeps, LiCreatedKeeps, LiWrittenKeeps, LiRotatedKeeps
       DEF LiNext
<1> QED
  BY <1>1, LiInitInv, LiSays, PTL

-------------------------------------------------------------------------------
(* The tray (core/tray/proxies.rs, core/tray/mod.rs).                          *)

\* The checked nodes of a tray, and a menu that shows its groups and them.
TpMarks(tray) == {m \in {<<n, tray[n].now>> : n \in DOMAIN tray} : MenuHas(TpTree(tray), m[1], m[2])}
TpShows(menu, tray) == menu.tree = TpTree(tray) /\ menu.marks = TpMarks(tray)
TpSame(tray, other) == TpTree(tray) = TpTree(other) /\ TpMarks(tray) = TpMarks(other)

\* The actions from one tray to another of the same groups and nodes.
TpActs(old, new) == {<<n, old[n].now, new[n].now>> : n \in {m \in DOMAIN new : new[m].now # old[m].now}}

\* The types the steps need.
TpShape ==
  /\ tpThread \in [TpThreads -> {"off", "idle", "lock", "ask"}]
  /\ tpLock \in [{"app", "menu"} -> TpThreads \cup {Free}]
  /\ tpRead \in [TpTasks -> TpModes] /\ tpMode \in TpModes
  /\ tpShown \in BOOLEAN /\ tpSignal \in BOOLEAN /\ tpRebuild \in BOOLEAN
  /\ tpMain = [pc |-> tpMain.pc, tray |-> tpMain.tray, mode |-> tpMain.mode]
  /\ tpMain.pc \in {"idle", "built", "part", "handle"}
  /\ tpRecv = [holder |-> tpRecv.holder, actions |-> tpRecv.actions]
  /\ tpMenu = [tree |-> tpMenu.tree, mode |-> tpMenu.mode, marks |-> tpMenu.marks]
  /\ tpFetch = [c \in TpCallers |-> tpFetch[c]]
  /\ \A c \in TpCallers : tpFetch[c].pending => tpFetch[c].picture # TpDefault

\* The handle is held by threads that have still to take the menu or ask the main
\* thread, the menu by one that asks and has the handle.
TpLocked ==
  \A t \in TpThreads :
    /\ tpLock["app"] = t => tpThread[t] \in {"lock", "ask"}
    /\ tpLock["menu"] = t => tpThread[t] = "ask"
    /\ tpThread[t] = "ask" => tpLock["app"] = t /\ tpLock["menu"] = t

\* A task will read the mode; or it has read the one in force and will show it.
TpReads(t) == tpThread[t] = "lock" /\ tpLock["app"] # t
TpWillShow(t) == tpLock["app"] = t /\ tpRead[t] = tpMode
\* The mode that is checked is the one in force, or somebody will check it.
TpModeComes ==
  /\ \/ \E t \in TpTasks : TpReads(t) \/ TpWillShow(t)
     \/ tpMain.pc = "part" /\ tpMain.mode = tpMode
     \/ tpMain.pc # "part" /\ tpMenu.mode = tpMode
  /\ \A t \in TpTasks : tpLock["app"] = t /\ ~TpWillShow(t) => \E u \in TpTasks : TpReads(u)

\* The receiver has the actions from some tray to the one it holds.
TpBusy == tpThread["receiver"] \in {"lock", "ask"}
TpOwed == TpBusy => \E old : TpTree(old) = TpTree(tpRecv.holder) /\ tpRecv.actions = TpActs(old, tpRecv.holder)

\* The menu to come, and what it is when the receiver has done its actions.
TpToCome == IF tpMain.pc = "built" THEN MenuOf(tpMain.tray, tpMenu.mode) ELSE tpMenu
TpDone(menu) == IF TpBusy THEN Selected(menu, tpRecv.actions) ELSE menu

\* While nothing excuses the menu and no rebuild is queued: it will show what the
\* receiver holds, which is the cache unless a signal tells of a newer one.
TpInForce ==
  tpWindow = {} /\ ~tpRebuild =>
    /\ ~tpShown => TpShows(TpToCome, NoTray)
    /\ tpShown /\ tpThread["receiver"] = "off" /\ tpCache = TpDefault => TpShows(TpToCome, ShownTray)
    /\ tpShown /\ tpThread["receiver"] # "off" =>
         /\ tpSignal \/ TpSame(tpRecv.holder, ShownTray)
         /\ TpShows(TpDone(TpToCome), tpRecv.holder)

TpKept == TpShape /\ TpLocked /\ TpModeComes /\ TpOwed /\ TpInForce

\* A menu built of a tray shows it.
LEMMA TpBuilds ==
  ASSUME NEW tray, NEW mode
  PROVE  TpShows(MenuOf(tray, mode), tray) /\ MenuOf(tray, mode).mode = mode
         /\ MenuOf(tray, mode) = [tree |-> MenuOf(tray, mode).tree, mode |-> MenuOf(tray, mode).mode, marks |-> MenuOf(tray, mode).marks]
<1>1. MenuOf(tray, mode) = [tree |-> TpTree(tray), mode |-> mode, marks |-> TpMarks(tray)]
  BY DEF MenuOf, TpMarks
<1> QED
  BY <1>1 DEF TpShows

\* The nodes that are checked after some actions.
TpAfter(menu, actions) ==
  {m \in menu.marks : \A a \in actions : m # <<a[1], a[2]>>}
    \cup {<<a[1], a[3]>> : a \in {x \in actions : MenuHas(menu.tree, x[1], x[3])}}
LEMMA TpSelects ==
  ASSUME NEW menu, menu = [tree |-> menu.tree, mode |-> menu.mode, marks |-> menu.marks], NEW actions
  PROVE  /\ Selected(menu, actions).tree = menu.tree /\ Selected(menu, actions).mode = menu.mode
         /\ Selected(menu, actions).marks = TpAfter(menu, actions)
         /\ Selected(menu, actions) = [tree |-> menu.tree, mode |-> menu.mode, marks |-> TpAfter(menu, actions)]
<1> DEFINE x == TpAfter(menu, actions)
<1>1. Selected(menu, actions) = [menu EXCEPT !.marks = x]
  BY DEF Selected, TpAfter
<1> HIDE DEF x
<1>2. Selected(menu, actions) = [tree |-> menu.tree, mode |-> menu.mode, marks |-> x]
  BY <1>1
<1> QED
  BY <1>2 DEF x

\* Trays of the same groups and nodes: the actions lead from the old one to the new
\* one, and change nothing of a menu that shows the new one.
LEMMA TpLeads ==
  ASSUME NEW old, NEW new, TpTree(old) = TpTree(new), NEW menu, menu.tree = TpTree(new),
         menu.marks = TpMarks(old) \/ menu.marks = TpMarks(new)
  PROVE  TpAfter(menu, TpActs(old, new)) = TpMarks(new)
<1> DEFINE D == DOMAIN new
           Has(n, x) == MenuHas(TpTree(new), n, x)
<1>1. DOMAIN old = D
  <2>1. DOMAIN TpTree(old) = DOMAIN old /\ DOMAIN TpTree(new) = DOMAIN new
    BY DEF TpTree
  <2> QED
    BY <2>1
<1>2. \A m : m \in TpMarks(old) <=> \E n \in D : m = <<n, old[n].now>> /\ Has(n, old[n].now)
  BY <1>1 DEF TpMarks
<1>3. \A m : m \in TpMarks(new) <=> \E n \in D : m = <<n, new[n].now>> /\ Has(n, new[n].now)
  BY DEF TpMarks
<1> DEFINE A == TpActs(old, new)
           Kept == {m \in menu.marks : \A a \in A : m # <<a[1], a[2]>>}
           Added == {<<a[1], a[3]>> : a \in {x \in A : MenuHas(menu.tree, x[1], x[3])}}
<1>4. /\ \A a \in A : \E n \in D : new[n].now # old[n].now /\ a[1] = n /\ a[2] = old[n].now /\ a[3] = new[n].now
      /\ \A n \in D : new[n].now # old[n].now =>
           \E a \in A : a[1] = n /\ a[2] = old[n].now /\ a[3] = new[n].now
  <2>1. ASSUME NEW a \in A PROVE \E n \in D : new[n].now # old[n].now /\ a[1] = n /\ a[2] = old[n].now /\ a[3] = new[n].now
    BY DEF TpActs
  <2>2. ASSUME NEW n \in D, new[n].now # old[n].now
        PROVE  \E a \in A : a[1] = n /\ a[2] = old[n].now /\ a[3] = new[n].now
    <3>1. <<n, old[n].now, new[n].now>> \in A
      BY <2>2 DEF TpActs
    <3> QED
      BY <3>1
  <2> QED
    BY <2>1, <2>2
<1> HIDE DEF Has, A
<1>5. ASSUME NEW m
      PROVE  m \in Kept <=> m \in menu.marks /\ \A n \in D : new[n].now # old[n].now => m # <<n, old[n].now>>
  <2>1. (\A a \in A : m # <<a[1], a[2]>>) <=> (\A n \in D : new[n].now # old[n].now => m # <<n, old[n].now>>)
    BY <1>4
  <2> QED
    BY <2>1
<1>6. ASSUME NEW m
      PROVE  m \in Added <=> \E n \in D : new[n].now # old[n].now /\ m = <<n, new[n].now>> /\ Has(n, new[n].now)
  <2>1. m \in Added <=> \E a \in A : MenuHas(TpTree(new), a[1], a[3]) /\ m = <<a[1], a[3]>>
    OBVIOUS
  <2> QED
    BY <2>1, <1>4 DEF Has
<1> HIDE DEF Kept, Added
<1>7. ASSUME NEW m PROVE m \in Kept \cup Added <=> m \in TpMarks(new)
  BY <1>2, <1>3, <1>5, <1>6
<1>8. Kept \cup Added = TpMarks(new)
  BY <1>7
<1> QED
  BY <1>8 DEF TpAfter, Kept, Added, A

\* No action leads from a tray to one that looks the same.
LEMMA TpNoAction ==
  ASSUME NEW old, NEW new, TpTree(old) = TpTree(new), TpActs(old, new) = {}
  PROVE  TpSame(old, new)
<1>1. DOMAIN old = DOMAIN new
  <2>1. DOMAIN TpTree(old) = DOMAIN old /\ DOMAIN TpTree(new) = DOMAIN new
    BY DEF TpTree
  <2> QED
    BY <2>1
<1>2. ASSUME NEW n \in DOMAIN new PROVE new[n].now = old[n].now
  <2>1. new[n].now # old[n].now => <<n, old[n].now, new[n].now>> \in TpActs(old, new)
    BY DEF TpActs
  <2> QED
    BY <2>1
<1>3. {<<n, old[n].now>> : n \in DOMAIN old} = {<<n, new[n].now>> : n \in DOMAIN new}
  BY <1>1, <1>2
<1> QED
  BY <1>3 DEF TpSame, TpMarks

\* What the core does, and what is on its way from it, changes nothing of the tray.
LEMMA TpElsewhere ==
  ASSUME TpKept, UNCHANGED <<tpMode, tpShown, tpCache, tpSignal, tpRecv, tpThread, tpRead, tpMain, tpRebuild, tpLock,
                             tpMenu, tpWindow>>,
         tpFetch' = [c \in TpCallers |-> tpFetch'[c]],
         \A c \in TpCallers : tpFetch'[c].pending => tpFetch'[c].picture # TpDefault
  PROVE  TpKept'
<1>1. TpShape'
  BY DEF TpKept, TpShape
<1>2. TpLocked'
  BY DEF TpKept, TpLocked
<1>3. TpModeComes'
  BY DEF TpKept, TpModeComes, TpReads, TpWillShow
<1>4. TpOwed'
  BY DEF TpKept, TpOwed, TpBusy
<1>5. TpInForce'
  BY DEF TpKept, TpInForce, TpToCome, TpDone, TpBusy, ShownTray
<1> QED
  BY <1>1, <1>2, <1>3, <1>4, <1>5 DEF TpKept

\* A fetched picture is not the one of before the first.
LEMMA TpFetchedOnce == ASSUME NEW core PROVE TpFetched(core) # TpDefault
<1>1. TpFetched(core).fetched = TRUE
  BY DEF TpFetched
<1>2. TpDefault.fetched = FALSE
  BY DEF TpDefault
<1> QED
  BY <1>1, <1>2

\* A request is answered at once, and its answer is to come.
LEMMA TpAsked ==
  ASSUME TpShape, NEW c \in TpCallers, NEW core,
         tpFetch' = [tpFetch EXCEPT ![c] = [pending |-> TRUE, picture |-> TpFetched(core)]]
  PROVE  /\ tpFetch' = [x \in TpCallers |-> tpFetch'[x]]
         /\ \A x \in TpCallers : tpFetch'[x].pending => tpFetch'[x].picture # TpDefault
<1> DEFINE p == TpFetched(core)
           d == TpDefault
<1>1. p # d
  BY TpFetchedOnce
<1>2. tpFetch = [x \in TpCallers |-> tpFetch[x]] /\ \A x \in TpCallers : tpFetch[x].pending => tpFetch[x].picture # d
  BY DEF TpShape
<1>3. tpFetch' = [tpFetch EXCEPT ![c] = [pending |-> TRUE, picture |-> p]]
  OBVIOUS
<1> HIDE DEF p, d
<1>4. tpFetch'[c].picture = p /\ \A x \in TpCallers \ {c} : tpFetch'[x] = tpFetch[x]
  BY <1>2, <1>3
<1>5. tpFetch' = [x \in TpCallers |-> tpFetch'[x]]
  BY <1>2, <1>3
<1>6. \A x \in TpCallers : tpFetch'[x].pending => tpFetch'[x].picture # d
  BY <1>1, <1>2, <1>4
<1> QED
  BY <1>5, <1>6 DEF d

LEMMA TpCoreKeeps == ASSUME TpKept, TpCoreChanges \/ TpFetches \/ SelectProxy PROVE TpKept'
<1>1. TpShape
  BY DEF TpKept
<1>2. CASE TpCoreChanges
  <2>1. /\ tpFetch' = tpFetch
        /\ UNCHANGED <<tpMode, tpShown, tpCache, tpSignal, tpRecv, tpThread, tpRead, tpMain, tpRebuild, tpLock, tpMenu, tpWindow>>
    BY <1>2 DEF TpCoreChanges
  <2>2. /\ tpFetch' = [c \in TpCallers |-> tpFetch'[c]]
        /\ \A c \in TpCallers : tpFetch'[c].pending => tpFetch'[c].picture # TpDefault
    BY <1>1, <2>1 DEF TpShape
  <2> QED
    BY <2>1, <2>2, TpElsewhere
<1>3. CASE TpFetches
  <2>1. UNCHANGED <<tpMode, tpShown, tpCache, tpSignal, tpRecv, tpThread, tpRead, tpMain, tpRebuild, tpLock, tpMenu, tpWindow>>
    BY <1>3 DEF TpFetches
  <2>2. PICK c \in TpCallers : tpFetch' = [tpFetch EXCEPT ![c] = [pending |-> TRUE, picture |-> TpFetched(tpCore)]]
    BY <1>3 DEF TpFetches
  <2> QED
    BY <1>1, <2>1, <2>2, TpAsked, TpElsewhere
<1>4. CASE SelectProxy
  <2>1. UNCHANGED <<tpMode, tpShown, tpCache, tpSignal, tpRecv, tpThread, tpRead, tpMain, tpRebuild, tpLock, tpMenu, tpWindow>>
    BY <1>4 DEF SelectProxy
  <2>2. PICK c \in TpCallers : tpFetch' = [tpFetch EXCEPT ![c] = [pending |-> TRUE, picture |-> TpFetched(tpCore')]]
    BY <1>4 DEF SelectProxy
  <2> QED
    BY <1>1, <2>1, <2>2, TpAsked, TpElsewhere
<1> QED
  BY <1>2, <1>3, <1>4

\* An answer that is another picture gives the receiver a signal.
LEMMA TpAnswerKeeps == ASSUME TpKept, TpAnswer PROVE TpKept'
<1>1. PICK c \in TpCallers :
        /\ tpFetch[c].pending /\ tpFetch' = [tpFetch EXCEPT ![c] = NoAnswer]
        /\ \/ UNCHANGED <<tpCache, tpSignal>>
           \/ /\ tpCache' = tpFetch[c].picture
              /\ tpSignal' = (tpThread["receiver"] # "off")
  BY DEF TpAnswer
<1>2. /\ UNCHANGED <<tpMode, tpShown, tpRecv, tpThread, tpRead, tpMain, tpRebuild, tpLock, tpMenu, tpWindow>>
      /\ TpShape /\ TpLocked /\ TpModeComes /\ TpOwed /\ TpInForce
  BY DEF TpAnswer, TpKept
<1>3. /\ tpFetch' = [x \in TpCallers |-> tpFetch'[x]]
      /\ \A x \in TpCallers : tpFetch'[x].pending => tpFetch'[x].picture # TpDefault
  <2> DEFINE n == NoAnswer
             d == TpDefault
  <2>1. n.pending = FALSE
    BY DEF NoAnswer
  <2>2. tpFetch' = [tpFetch EXCEPT ![c] = n]
    BY <1>1
  <2>3. tpFetch = [x \in TpCallers |-> tpFetch[x]] /\ \A x \in TpCallers : tpFetch[x].pending => tpFetch[x].picture # d
    BY <1>2 DEF TpShape
  <2> HIDE DEF n, d
  <2>4. tpFetch'[c] = n /\ \A x \in TpCallers \ {c} : tpFetch'[x] = tpFetch[x]
    BY <2>2, <2>3
  <2>5. \A x \in TpCallers : tpFetch'[x].pending => tpFetch'[x].picture # d
    BY <2>1, <2>3, <2>4
  <2>6. tpFetch' = [x \in TpCallers |-> tpFetch'[x]]
    BY <2>2, <2>3
  <2> QED
    BY <2>5, <2>6 DEF d
<1>4. /\ tpSignal' \in BOOLEAN
      /\ (tpCache' = tpCache /\ tpSignal' = tpSignal) \/ (tpCache' # TpDefault /\ (tpThread["receiver"] # "off" => tpSignal'))
  <2>1. tpFetch[c].picture # TpDefault /\ tpSignal \in BOOLEAN
    BY <1>1, <1>2 DEF TpShape
  <2>2. CASE UNCHANGED <<tpCache, tpSignal>>
    BY <2>1, <2>2
  <2>3. CASE tpCache' = tpFetch[c].picture /\ tpSignal' = (tpThread["receiver"] # "off")
    BY <2>1, <2>3, Zenon
  <2> QED
    BY <1>1, <2>2, <2>3
<1>5. TpShape'
  BY <1>2, <1>3, <1>4 DEF TpShape
<1>6. TpLocked' /\ TpModeComes' /\ TpOwed'
  BY <1>2 DEF TpLocked, TpModeComes, TpReads, TpWillShow, TpOwed, TpBusy
<1>7. TpInForce'
  <2>1. TpToCome' = TpToCome /\ TpDone(TpToCome)' = TpDone(TpToCome)
    BY <1>2 DEF TpToCome, TpDone, TpBusy
  <2>2. tpCache' = tpCache => ShownTray' = ShownTray
    BY <1>2 DEF ShownTray
  <2> QED
    BY <1>2, <1>4, <2>1, <2>2 DEF TpInForce
<1> QED
  BY <1>5, <1>6, <1>7 DEF TpKept

\* The receiver starts with what the menu was built of, or is late.
LEMMA TpStartKeeps == ASSUME TpKept, TpReceiverStarts PROVE TpKept'
<1> DEFINE h == ToTrayProxies(tpMode, tpCache)
<1>1. /\ UNCHANGED <<tpMode, tpShown, tpCache, tpFetch, tpSignal, tpRead, tpMain, tpRebuild, tpLock, tpMenu>>
      /\ tpThread["receiver"] = "off" /\ tpThread' = [tpThread EXCEPT !["receiver"] = "idle"]
      /\ TpShape /\ TpLocked /\ TpModeComes /\ TpOwed /\ TpInForce
  BY DEF TpReceiverStarts, TpKept
<1>2. tpRecv' = [holder |-> h, actions |-> tpRecv.actions] /\ tpRecv'.holder = h
  <2> HIDE DEF h
  <2> QED
    BY <1>1 DEF TpReceiverStarts, TpShape, h
<1>3. tpWindow' = {} => tpCache = TpDefault /\ tpWindow = {}
  BY DEF TpReceiverStarts
<1> HIDE DEF h
<1>4. /\ "receiver" \in TpThreads /\ "receiver" \notin TpTasks /\ tpThread' \in [TpThreads -> {"off", "idle", "lock", "ask"}]
      /\ tpThread'["receiver"] = "idle" /\ \A t \in TpThreads \ {"receiver"} : tpThread'[t] = tpThread[t]
      /\ TpTasks \subseteq TpThreads
  BY <1>1, TpAssumption DEF TpShape, TpThreads
<1>5. TpShape'
  BY <1>1, <1>2, <1>4 DEF TpShape
<1>6. TpLocked' /\ TpModeComes' /\ TpOwed'
  <2>1. TpLocked'
    BY <1>1, <1>4 DEF TpLocked
  <2>2. \A t \in TpTasks : (TpReads(t)' <=> TpReads(t)) /\ (TpWillShow(t)' <=> TpWillShow(t))
    BY <1>1, <1>4 DEF TpReads, TpWillShow
  <2>3. TpModeComes'
    BY <1>1, <2>2 DEF TpModeComes
  <2> QED
    BY <1>4, <2>1, <2>3 DEF TpOwed, TpBusy
<1>7. TpInForce'
  <2>1. TpToCome' = TpToCome /\ TpDone(TpToCome)' = TpToCome' /\ ShownTray' = ShownTray /\ (tpShown => h = ShownTray)
    BY <1>1, <1>4 DEF TpToCome, TpDone, TpBusy, ShownTray, h
  <2> QED
    BY <1>1, <1>2, <1>3, <1>4, <2>1 DEF TpInForce, TpSame
<1> QED
  BY <1>5, <1>6, <1>7 DEF TpKept

\* A signal: nothing to do, a rebuild, or actions from what is held to what the cache has.
LEMMA TpReceiveKeeps == ASSUME TpKept, TpReceive PROVE TpKept'
<1> DEFINE tray == ToTrayProxies(tpMode, tpCache)
           held == tpRecv.holder
           diff == DiffProxies(held, tray)
           full == TpTree(held) # TpTree(tray)
<1>1. /\ UNCHANGED <<tpMode, tpShown, tpCache, tpFetch, tpRead, tpMain, tpLock, tpMenu, tpWindow>>
      /\ tpThread["receiver"] = "idle" /\ tpSignal' = FALSE /\ tpLock["app"] = Free
      /\ TpShape /\ TpLocked /\ TpModeComes /\ TpOwed /\ TpInForce
  BY DEF TpReceive, TpKept
<1>2. /\ full => diff.is = "full"
      /\ ~full => diff.is = "part" /\ diff.actions = TpActs(held, tray)
  BY DEF DiffProxies, TpActs
<1>3. \/ /\ UNCHANGED <<tpRecv, tpThread, tpRebuild>>
         /\ ~tpShown \/ (~full /\ TpActs(held, tray) = {})
      \/ /\ tpShown /\ full /\ tpRebuild' = TRUE /\ tpThread' = tpThread
         /\ tpRecv' = [holder |-> tray, actions |-> diff.actions]
      \/ /\ tpShown /\ ~full /\ tpRebuild' = tpRebuild /\ tpThread' = [tpThread EXCEPT !["receiver"] = "lock"]
         /\ tpRecv' = [holder |-> tray, actions |-> TpActs(held, tray)]
  <2> HIDE DEF full, tray, held
  <2>1. CASE ~tpShown \/ (diff.is = "part" /\ diff.actions = {})
    <3>1. UNCHANGED <<tpRecv, tpThread, tpRebuild>>
      BY <2>1 DEF TpReceive, tray, held
    <3> HIDE DEF diff
    <3> QED
      BY <3>1, <2>1, <1>2
  <2>2. CASE ~(~tpShown \/ (diff.is = "part" /\ diff.actions = {}))
    <3>1. /\ tpRecv' = [holder |-> tray, actions |-> diff.actions]
          /\ tpThread' = [tpThread EXCEPT !["receiver"] = IF diff.is = "part" THEN "lock" ELSE @]
          /\ tpRebuild' = (tpRebuild \/ diff.is = "full")
      BY <2>2 DEF TpReceive, tray, held
    <3> HIDE DEF diff
    <3>2. tpRebuild \in BOOLEAN /\ tpThread \in [TpThreads -> {"off", "idle", "lock", "ask"}]
      BY <1>1 DEF TpShape
    <3>3. CASE full
      <4>1. tpRebuild' = TRUE
        BY <3>1, <3>3, <1>2
      <4>2. tpThread' = tpThread
        BY <3>1, <3>2, <3>3, <1>2
      <4> QED
        BY <3>1, <3>3, <2>2, <4>1, <4>2
    <3>4. CASE ~full
      <4>1. tpRebuild' = tpRebuild
        BY <3>1, <3>2, <3>4, <1>2
      <4>2. tpThread' = [tpThread EXCEPT !["receiver"] = "lock"]
        BY <3>1, <3>4, <1>2
      <4> QED
        BY <3>1, <3>4, <2>2, <1>2, <4>1, <4>2
    <3> QED
      BY <3>3, <3>4
  <2> QED
    BY <2>1, <2>2
<1> HIDE DEF tray, held, diff, full
<1>4. tpShown => ShownTray = tray /\ ShownTray' = tray
  BY <1>1 DEF ShownTray, tray
<1>5. "receiver" \in TpThreads /\ "receiver" \notin TpTasks /\ TpTasks \subseteq TpThreads /\ Free \notin TpThreads
  BY TpAssumption DEF TpThreads, Free
<1>6. CASE UNCHANGED <<tpRecv, tpThread, tpRebuild>>
  <2>1. TpShape'
    BY <1>1, <1>6 DEF TpShape
  <2>2. TpLocked' /\ TpModeComes' /\ TpOwed'
    BY <1>1, <1>6 DEF TpLocked, TpModeComes, TpReads, TpWillShow, TpOwed, TpBusy
  <2>3. TpInForce'
    <3>1. TpToCome' = TpToCome /\ TpDone(TpToCome)' = TpDone(TpToCome)
      BY <1>1, <1>6 DEF TpToCome, TpDone, TpBusy
    <3>2. CASE ~tpShown
      BY <1>1, <1>6, <3>1, <3>2 DEF TpInForce
    <3>3. CASE tpShown /\ tpRebuild
      BY <1>1, <1>6, <3>3 DEF TpInForce
    <3>4. CASE tpShown /\ ~tpRebuild
      <4>1. ~full /\ TpActs(held, tray) = {}
        <5>1. tpThread # [tpThread EXCEPT !["receiver"] = "lock"]
          BY <1>1, <1>5 DEF TpShape
        <5> QED
          BY <1>3, <1>6, <3>4, <5>1
      <4>2. TpSame(held, tray)
        BY <4>1, TpNoAction DEF full
      <4> QED
        BY <1>1, <1>4, <1>6, <3>1, <3>4, <4>2 DEF TpInForce, held
    <3> QED
      BY <3>2, <3>3, <3>4
  <2> QED
    BY <2>1, <2>2, <2>3 DEF TpKept
<1>7. CASE tpShown /\ full /\ tpRebuild' = TRUE /\ tpThread' = tpThread /\ tpRecv' = [holder |-> tray, actions |-> diff.actions]
  <2>1. TpShape'
    BY <1>1, <1>7 DEF TpShape
  <2>2. TpLocked' /\ TpModeComes' /\ TpOwed'
    BY <1>1, <1>7 DEF TpLocked, TpModeComes, TpReads, TpWillShow, TpOwed, TpBusy
  <2>3. TpInForce'
    BY <1>7 DEF TpInForce
  <2> QED
    BY <2>1, <2>2, <2>3 DEF TpKept
<1>8. CASE /\ tpShown /\ ~full /\ tpRebuild' = tpRebuild /\ tpThread' = [tpThread EXCEPT !["receiver"] = "lock"]
           /\ tpRecv' = [holder |-> tray, actions |-> TpActs(held, tray)]
  <2>1. /\ tpThread' \in [TpThreads -> {"off", "idle", "lock", "ask"}]
        /\ tpThread'["receiver"] = "lock" /\ \A t \in TpThreads \ {"receiver"} : tpThread'[t] = tpThread[t]
    BY <1>1, <1>5, <1>8 DEF TpShape
  <2>2. tpRecv'.holder = tray /\ tpRecv'.actions = TpActs(held, tray) /\ TpTree(held) = TpTree(tray)
    BY <1>8 DEF full
  <2>3. TpShape'
    BY <1>1, <1>8, <2>1, <2>2 DEF TpShape
  <2>4. TpLocked'
    BY <1>1, <1>5, <2>1 DEF TpLocked
  <2>5. TpModeComes'
    <3>1. \A t \in TpTasks : (TpReads(t)' <=> TpReads(t)) /\ (TpWillShow(t)' <=> TpWillShow(t))
      BY <1>1, <1>5, <2>1 DEF TpReads, TpWillShow
    <3> QED
      BY <1>1, <3>1 DEF TpModeComes
  <2>6. TpOwed'
    BY <2>2 DEF TpOwed
  <2>7. TpInForce'
    <3> DEFINE m == TpToCome
    <3>1. m' = m /\ m = [tree |-> m.tree, mode |-> m.mode, marks |-> m.marks]
      <4>1. CASE tpMain.pc = "built"
        BY <1>1, <4>1, TpBuilds DEF TpToCome
      <4>2. CASE tpMain.pc # "built"
        BY <1>1, <4>2 DEF TpToCome, TpShape
      <4> QED
        BY <4>1, <4>2
    <3> HIDE DEF m
    <3>2. ASSUME tpWindow = {}, ~tpRebuild PROVE TpShows(Selected(m, TpActs(held, tray)), tray)
      <4>1. TpDone(m) = m
        BY <1>1 DEF TpDone, TpBusy
      <4>2. TpShows(m, held)
        BY <1>1, <1>8, <3>2, <4>1 DEF TpInForce, m, held
      <4>3. TpAfter(m, TpActs(held, tray)) = TpMarks(tray)
        BY <2>2, <4>2, TpLeads DEF TpShows
      <4> QED
        BY <3>1, <2>2, <4>2, <4>3, TpSelects DEF TpShows
    <3>3. TpDone(TpToCome)' = Selected(m, TpActs(held, tray))
      BY <2>1, <2>2, <3>1 DEF TpDone, TpBusy, m
    <3>4. TpSame(tray, tray)
      BY DEF TpSame
    <3> QED
      BY <1>1, <1>4, <1>8, <2>1, <2>2, <3>2, <3>3, <3>4 DEF TpInForce
  <2> QED
    BY <2>3, <2>4, <2>5, <2>6, <2>7 DEF TpKept
<1> QED
  BY <1>3, <1>6, <1>7, <1>8

\* The threads, and what of them the conditions tell apart.
LEMMA TpNames == "receiver" \in TpThreads /\ "receiver" \notin TpTasks /\ TpTasks \subseteq TpThreads /\ Free \notin TpThreads
  BY TpAssumption DEF TpThreads, Free

\* Of a new mode a task will tell the menu.
LEMMA TpModeKeeps == ASSUME TpKept, ChangeClashMode PROVE TpKept'
<1>1. PICK t \in TpTasks, m \in TpModes :
        tpThread[t] = "idle" /\ tpThread' = [tpThread EXCEPT ![t] = "lock"] /\ tpMode' = m
  BY DEF ChangeClashMode
<1>2. /\ UNCHANGED <<tpShown, tpCache, tpFetch, tpSignal, tpRecv, tpRead, tpMain, tpRebuild, tpLock, tpMenu>>
      /\ tpWindow' # {} /\ TpShape /\ TpLocked /\ TpModeComes /\ TpOwed
  BY DEF ChangeClashMode, TpKept
<1>3. /\ tpThread' \in [TpThreads -> {"off", "idle", "lock", "ask"}] /\ t \in TpThreads /\ t # "receiver"
      /\ tpThread'[t] = "lock" /\ \A u \in TpThreads \ {t} : tpThread'[u] = tpThread[u]
  BY <1>1, <1>2, TpNames DEF TpShape
<1>4. tpLock["app"] # t /\ tpLock["menu"] # t
  BY <1>1, <1>2, <1>3 DEF TpLocked
<1>5. TpShape'
  BY <1>1, <1>2, <1>3 DEF TpShape
<1>6. TpLocked'
  BY <1>1, <1>2, <1>3, <1>4 DEF TpLocked
<1>7. TpModeComes'
  BY <1>1, <1>2, <1>3, <1>4 DEF TpModeComes, TpReads
<1>8. TpOwed'
  BY <1>2, <1>3, TpNames DEF TpOwed, TpBusy
<1>9. TpInForce'
  BY <1>2 DEF TpInForce
<1> QED
  BY <1>5, <1>6, <1>7, <1>8, <1>9 DEF TpKept

\* The menu is built anew when the selector is shown or hidden.
LEMMA TpSelectorKeeps == ASSUME TpKept, ChangeSelector PROVE TpKept'
<1>1. /\ UNCHANGED <<tpMode, tpCache, tpFetch, tpSignal, tpRecv, tpThread, tpRead, tpMain, tpLock, tpMenu, tpWindow>>
      /\ tpShown' = ~tpShown /\ tpRebuild' = TRUE /\ TpShape /\ TpLocked /\ TpModeComes /\ TpOwed
  BY DEF ChangeSelector, TpKept
<1>2. TpShape'
  BY <1>1 DEF TpShape
<1>3. TpLocked' /\ TpModeComes' /\ TpOwed'
  BY <1>1 DEF TpLocked, TpModeComes, TpReads, TpWillShow, TpOwed, TpBusy
<1>4. TpInForce'
  BY <1>1 DEF TpInForce
<1> QED
  BY <1>2, <1>3, <1>4 DEF TpKept

\* A thread takes the handle, and with it reads the mode; or the menu.
LEMMA TpTakeKeeps == ASSUME TpKept, TpTakeLock PROVE TpKept'
<1>1. PICK t \in TpThreads :
        /\ tpThread[t] = "lock" /\ tpLock[TpNextLock(t)] = Free
        /\ tpLock' = [tpLock EXCEPT ![TpNextLock(t)] = t]
        /\ tpThread' = [tpThread EXCEPT ![t] = IF t \in {tpLock.app, tpLock.menu} THEN "ask" ELSE @]
        /\ tpRead' = IF t \in TpTasks /\ TpNextLock(t) = "app" THEN [tpRead EXCEPT ![t] = tpMode] ELSE tpRead
  BY DEF TpTakeLock
<1>2. /\ UNCHANGED <<tpMode, tpShown, tpCache, tpFetch, tpSignal, tpRecv, tpMain, tpRebuild, tpMenu, tpWindow>>
      /\ TpShape /\ TpLocked /\ TpModeComes /\ TpOwed /\ TpInForce
  BY DEF TpTakeLock, TpKept
<1>3. /\ tpThread \in [TpThreads -> {"off", "idle", "lock", "ask"}] /\ tpLock \in [{"app", "menu"} -> TpThreads \cup {Free}]
      /\ tpRead \in [TpTasks -> TpModes] /\ tpMode \in TpModes
      /\ tpLock.app = tpLock["app"] /\ tpLock.menu = tpLock["menu"] /\ tpLock["menu"] # t
  BY <1>1, <1>2 DEF TpShape, TpLocked
<1>4. \/ /\ tpLock["app"] = Free /\ tpLock'["app"] = t /\ tpLock'["menu"] = tpLock["menu"] /\ tpThread' = tpThread
         /\ tpRead' = IF t \in TpTasks THEN [tpRead EXCEPT ![t] = tpMode] ELSE tpRead
      \/ /\ tpLock["app"] = t /\ tpLock["menu"] = Free /\ tpLock'["app"] = t /\ tpLock'["menu"] = t
         /\ tpThread' = [tpThread EXCEPT ![t] = "ask"] /\ tpRead' = tpRead
  <2>1. CASE tpLock["app"] = t
    <3>1. TpNextLock(t) = "menu"
      BY <2>1, <1>3 DEF TpNextLock
    <3> QED
      BY <1>1, <1>3, <2>1, <3>1
  <2>2. CASE tpLock["app"] # t
    <3>1. TpNextLock(t) = "app"
      BY <2>2, <1>3 DEF TpNextLock
    <3> QED
      BY <1>1, <1>3, <2>2, <3>1
  <2> QED
    BY <2>1, <2>2
<1>5. /\ tpThread' \in [TpThreads -> {"off", "idle", "lock", "ask"}] /\ tpLock' \in [{"app", "menu"} -> TpThreads \cup {Free}]
      /\ tpRead' \in [TpTasks -> TpModes] /\ tpThread'[t] \in {"lock", "ask"}
      /\ \A u \in TpThreads \ {t} : tpThread'[u] = tpThread[u]
      /\ \A u \in TpTasks \ {t} : tpRead'[u] = tpRead[u]
  <2>1. tpThread' \in [TpThreads -> {"off", "idle", "lock", "ask"}] /\ tpThread'[t] \in {"lock", "ask"}
        /\ \A u \in TpThreads \ {t} : tpThread'[u] = tpThread[u]
    BY <1>1, <1>3, <1>4
  <2>2. tpRead' \in [TpTasks -> TpModes] /\ \A u \in TpTasks \ {t} : tpRead'[u] = tpRead[u]
    BY <1>3, <1>4
  <2>3. tpLock' \in [{"app", "menu"} -> TpThreads \cup {Free}]
    <3>1. TpNextLock(t) \in {"app", "menu"}
      BY DEF TpNextLock
    <3> QED
      BY <1>1, <1>3, <3>1
  <2> QED
    BY <2>1, <2>2, <2>3
<1>6. TpShape'
  BY <1>2, <1>5 DEF TpShape
<1>7. TpLocked'
  <2>1. CASE tpLock["app"] = Free /\ tpLock'["app"] = t /\ tpLock'["menu"] = tpLock["menu"] /\ tpThread' = tpThread
    BY <1>1, <1>2, <2>1, TpNames DEF TpLocked
  <2>2. CASE /\ tpLock["app"] = t /\ tpLock["menu"] = Free /\ tpLock'["app"] = t /\ tpLock'["menu"] = t
             /\ tpThread' = [tpThread EXCEPT ![t] = "ask"]
    <3>1. tpThread'[t] = "ask" /\ \A u \in TpThreads \ {t} : tpThread[u] # "ask"
      BY <1>2, <1>3, <2>2, TpNames DEF TpLocked
    <3> QED
      BY <1>2, <1>5, <2>2, <3>1 DEF TpLocked
  <2> QED
    BY <1>4, <2>1, <2>2
<1>8. TpModeComes'
  <2>1. CASE /\ tpLock["app"] = Free /\ tpLock'["app"] = t /\ tpLock'["menu"] = tpLock["menu"] /\ tpThread' = tpThread
             /\ tpRead' = IF t \in TpTasks THEN [tpRead EXCEPT ![t] = tpMode] ELSE tpRead
    <3>1. t \in TpTasks => tpRead'[t] = tpMode
      BY <1>3, <2>1
    <3>2. \A u \in TpTasks \ {t} : (TpReads(u)' <=> TpReads(u)) /\ ~TpWillShow(u) /\ ~TpWillShow(u)'
      BY <1>2, <2>1, TpNames DEF TpReads, TpWillShow
    <3>3. t \in TpTasks => TpWillShow(t)'
      BY <1>2, <2>1, <3>1 DEF TpWillShow
    <3>4. \A u \in TpTasks : tpLock'["app"] = u => u = t
      BY <2>1
    <3>5. CASE t \in TpTasks
      BY <1>2, <3>3, <3>4, <3>5 DEF TpModeComes
    <3>6. CASE t \notin TpTasks
      BY <1>2, <3>2, <3>4, <3>6 DEF TpModeComes
    <3> QED
      BY <3>5, <3>6
  <2>2. CASE /\ tpLock["app"] = t /\ tpLock'["app"] = t /\ tpThread' = [tpThread EXCEPT ![t] = "ask"] /\ tpRead' = tpRead
    <3>1. \A u \in TpTasks : (TpReads(u)' <=> TpReads(u)) /\ (TpWillShow(u)' <=> TpWillShow(u))
      BY <1>2, <1>5, <2>2, TpNames DEF TpReads, TpWillShow
    <3> QED
      BY <1>2, <2>2, <3>1 DEF TpModeComes
  <2> QED
    BY <1>4, <2>1, <2>2
<1>9. TpBusy' <=> TpBusy
  BY <1>1, <1>5, TpNames DEF TpBusy
<1>10. TpOwed'
  BY <1>2, <1>9 DEF TpOwed
<1>11. TpInForce'
  <2>1. TpToCome' = TpToCome /\ TpDone(TpToCome)' = TpDone(TpToCome) /\ ShownTray' = ShownTray
    BY <1>2, <1>9 DEF TpToCome, TpDone, ShownTray
  <2>2. tpThread'["receiver"] = "off" <=> tpThread["receiver"] = "off"
    BY <1>1, <1>5, TpNames
  <2> QED
    BY <1>2, <2>1, <2>2 DEF TpInForce
<1> QED
  BY <1>6, <1>7, <1>8, <1>10, <1>11 DEF TpKept

\* Of a menu without groups nothing is checked, whatever is done to it.
LEMMA TpEmpty ==
  ASSUME NEW menu, menu = [tree |-> menu.tree, mode |-> menu.mode, marks |-> menu.marks], TpShows(menu, NoTray), NEW actions
  PROVE  TpShows(Selected(menu, actions), NoTray)
<1>1. DOMAIN NoTray = {}
  BY DEF NoTray, IndexMapOf
<1>2. DOMAIN TpTree(NoTray) = {} /\ TpMarks(NoTray) = {}
  BY <1>1 DEF TpTree, TpMarks
<1>3. \A a : ~MenuHas(menu.tree, a[1], a[3])
  BY <1>2 DEF TpShows, MenuHas
<1>4. TpAfter(menu, actions) = {}
  BY <1>2, <1>3 DEF TpShows, TpAfter
<1> QED
  BY <1>2, <1>4, TpSelects DEF TpShows

\* Menus that differ in the mode alone show the same, also after some actions.
LEMMA TpAlike ==
  ASSUME NEW m, NEW w, m = [tree |-> m.tree, mode |-> m.mode, marks |-> m.marks],
         w = [tree |-> w.tree, mode |-> w.mode, marks |-> w.marks], m.tree = w.tree, m.marks = w.marks, NEW tray
  PROVE  (TpShows(m, tray) <=> TpShows(w, tray)) /\ (TpShows(TpDone(m), tray) <=> TpShows(TpDone(w), tray))
<1> DEFINE a == tpRecv.actions
<1>1. TpShows(m, tray) <=> TpShows(w, tray)
  BY DEF TpShows
<1> HIDE DEF a
<1>2. TpAfter(m, a) = TpAfter(w, a)
  BY DEF TpAfter
<1>3. TpShows(Selected(m, a), tray) <=> TpShows(Selected(w, a), tray)
  BY <1>2, TpSelects DEF TpShows
<1> QED
  BY <1>1, <1>3 DEF TpDone, a

\* The main thread does what a thread waits for.
LEMMA TpServesKeeps == ASSUME TpKept, TpMainServes PROVE TpKept'
<1>1. PICK t \in TpThreads :
        /\ tpThread[t] = "ask" /\ tpThread' = [tpThread EXCEPT ![t] = "idle"]
        /\ tpMenu' = IF t = "receiver" THEN Selected(tpMenu, tpRecv.actions) ELSE [tpMenu EXCEPT !.mode = tpRead[t]]
        /\ tpLock' = [l \in DOMAIN tpLock |-> IF tpLock[l] = t THEN Free ELSE tpLock[l]]
  BY DEF TpMainServes
<1>2. /\ UNCHANGED <<tpMode, tpShown, tpCache, tpFetch, tpSignal, tpRecv, tpRead, tpMain, tpRebuild, tpWindow>>
      /\ tpMain.pc = "idle" /\ TpShape /\ TpLocked /\ TpModeComes /\ TpOwed /\ TpInForce
  BY DEF TpMainServes, TpKept
<1>3. /\ tpThread \in [TpThreads -> {"off", "idle", "lock", "ask"}] /\ tpLock \in [{"app", "menu"} -> TpThreads \cup {Free}]
      /\ tpMenu = [tree |-> tpMenu.tree, mode |-> tpMenu.mode, marks |-> tpMenu.marks]
      /\ tpLock["app"] = t /\ tpLock["menu"] = t
  BY <1>1, <1>2 DEF TpShape, TpLocked
<1>4. /\ tpThread' \in [TpThreads -> {"off", "idle", "lock", "ask"}] /\ tpLock' \in [{"app", "menu"} -> TpThreads \cup {Free}]
      /\ tpThread'[t] = "idle" /\ \A u \in TpThreads \ {t} : tpThread'[u] = tpThread[u]
      /\ tpLock'["app"] = Free /\ tpLock'["menu"] = Free
  BY <1>1, <1>3
<1>5. \A u \in TpThreads \ {t} : tpThread[u] # "ask"
  BY <1>2, <1>3 DEF TpLocked
<1>6. /\ t = "receiver" => tpMenu'.mode = tpMenu.mode /\ tpMenu' = Selected(tpMenu, tpRecv.actions)
      /\ t # "receiver" => tpMenu'.mode = tpRead[t] /\ tpMenu'.tree = tpMenu.tree /\ tpMenu'.marks = tpMenu.marks
      /\ tpMenu' = [tree |-> tpMenu'.tree, mode |-> tpMenu'.mode, marks |-> tpMenu'.marks]
  <2>1. CASE t = "receiver"
    <3>1. tpMenu' = Selected(tpMenu, tpRecv.actions)
      BY <1>1, <2>1
    <3>2. /\ Selected(tpMenu, tpRecv.actions).mode = tpMenu.mode
          /\ Selected(tpMenu, tpRecv.actions) =
               [tree |-> tpMenu.tree, mode |-> tpMenu.mode, marks |-> TpAfter(tpMenu, tpRecv.actions)]
      BY <1>3, TpSelects
    <3>3. tpMenu' = [tree |-> tpMenu'.tree, mode |-> tpMenu'.mode, marks |-> tpMenu'.marks]
      BY <3>1, <3>2
    <3> QED
      BY <2>1, <3>1, <3>2, <3>3
  <2>2. CASE t # "receiver"
    BY <1>1, <1>3, <2>2
  <2> QED
    BY <2>1, <2>2
<1>7. TpShape'
  BY <1>2, <1>4, <1>6 DEF TpShape
<1>8. TpLocked'
  BY <1>4, <1>5, TpNames DEF TpLocked
<1>9. TpModeComes'
  <2>1. \A u \in TpTasks : TpReads(u) => TpReads(u)' /\ u # t
    BY <1>1, <1>4, TpNames DEF TpReads
  <2>2. \A u \in TpTasks : tpLock'["app"] # u
    BY <1>4, TpNames
  <2>3. CASE t = "receiver"
    <3>1. \A u \in TpTasks : ~TpWillShow(u)
      BY <1>3, <2>3, TpNames DEF TpWillShow
    <3> QED
      BY <1>2, <1>6, <2>1, <2>2, <2>3, <3>1 DEF TpModeComes
  <2>4. CASE t # "receiver"
    <3>1. t \in TpTasks /\ (TpWillShow(t) => tpMenu'.mode = tpMode')
      BY <1>2, <1>6, <2>4 DEF TpWillShow, TpThreads
    <3>2. ~TpWillShow(t) => \E u \in TpTasks : TpReads(u)
      BY <1>2, <1>3, <3>1 DEF TpModeComes
    <3> QED
      BY <1>2, <2>1, <2>2, <3>1, <3>2 DEF TpModeComes
  <2> QED
    BY <2>3, <2>4
<1>10. t = "receiver" => TpBusy /\ ~TpBusy'
  BY <1>1, <1>4 DEF TpBusy
<1>11. t # "receiver" => (TpBusy' <=> TpBusy) /\ tpThread'["receiver"] = tpThread["receiver"]
  BY <1>4, TpNames DEF TpBusy
<1>12. TpOwed'
  BY <1>2, <1>10, <1>11 DEF TpOwed
<1>13. TpInForce'
  <2>1. TpToCome = tpMenu /\ TpToCome' = tpMenu' /\ ShownTray' = ShownTray
    BY <1>2 DEF TpToCome, ShownTray
  <2>2. CASE t = "receiver"
    <3>1. TpDone(TpToCome) = tpMenu' /\ TpDone(TpToCome)' = tpMenu'
      BY <1>6, <1>10, <2>1, <2>2 DEF TpDone
    <3>2. TpShows(tpMenu, NoTray) => TpShows(tpMenu', NoTray)
      BY <1>3, <1>6, <2>2, TpEmpty
    <3>3. tpThread["receiver"] # "off" /\ tpThread'["receiver"] # "off"
      BY <1>1, <1>4, <2>2
    <3> QED
      BY <1>2, <2>1, <3>1, <3>2, <3>3 DEF TpInForce
  <2>3. CASE t # "receiver"
    <3>1. \A tray : /\ TpShows(tpMenu, tray) <=> TpShows(tpMenu', tray)
                    /\ TpShows(TpDone(tpMenu), tray) <=> TpShows(TpDone(tpMenu'), tray)
      BY <1>3, <1>6, <2>3, TpAlike
    <3>2. TpDone(TpToCome)' = TpDone(tpMenu')
      BY <1>2, <1>11, <2>1, <2>3 DEF TpDone
    <3> QED
      BY <1>2, <1>11, <2>1, <2>3, <3>1, <3>2 DEF TpInForce
  <2> QED
    BY <2>2, <2>3
<1> QED
  BY <1>7, <1>8, <1>9, <1>12, <1>13 DEF TpKept

\* A menu of what the receiver holds stays one of it when its actions are done.
LEMMA TpDoneShows == ASSUME TpOwed, NEW mode PROVE TpShows(TpDone(MenuOf(tpRecv.holder, mode)), tpRecv.holder)
<1> DEFINE h == tpRecv.holder
           m == MenuOf(h, mode)
           a == tpRecv.actions
<1>1. TpShows(m, h) /\ m = [tree |-> m.tree, mode |-> m.mode, marks |-> m.marks]
  BY TpBuilds
<1>2. CASE ~TpBusy
  BY <1>1, <1>2 DEF TpDone
<1>3. CASE TpBusy
  <2>1. PICK old : TpTree(old) = TpTree(h) /\ a = TpActs(old, h)
    BY <1>3 DEF TpOwed
  <2>2. TpDone(m) = Selected(m, a)
    BY <1>3 DEF TpDone
  <2> HIDE DEF m, h, a
  <2>3. TpAfter(m, a) = TpMarks(h)
    BY <1>1, <2>1, TpLeads DEF TpShows
  <2>4. TpShows(Selected(m, a), h)
    BY <1>1, <2>3, TpSelects DEF TpShows
  <2> QED
    BY <2>2, <2>4 DEF m, h
<1> QED
  BY <1>2, <1>3

\* A rebuild starts from the cache; what the receiver holds otherwise is an excuse.
LEMMA TpBuildsKeeps == ASSUME TpKept, TpMainBuilds PROVE TpKept'
<1>1. /\ UNCHANGED <<tpMode, tpShown, tpCache, tpFetch, tpSignal, tpRecv, tpThread, tpRead, tpLock, tpMenu>>
      /\ tpMain.pc = "idle" /\ tpRebuild' = FALSE /\ tpMain' = [pc |-> "built", tray |-> ShownTray, mode |-> tpMode]
      /\ TpShape /\ TpLocked /\ TpModeComes /\ TpOwed
  BY DEF TpMainBuilds, TpKept
<1>2. tpWindow' = {} => ~tpShown \/ tpThread["receiver"] = "off" \/ ShownTray = tpRecv.holder
  BY DEF TpMainBuilds
<1> DEFINE s == ShownTray
<1>3. s' = s /\ (~tpShown => s = NoTray)
  BY <1>1 DEF ShownTray
<1>4. tpMain' = [pc |-> "built", tray |-> s, mode |-> tpMode]
  BY <1>1
<1> HIDE DEF s
<1>5. tpMain'.pc = "built" /\ tpMain'.tray = s /\ tpMain' = [pc |-> tpMain'.pc, tray |-> tpMain'.tray, mode |-> tpMain'.mode]
  BY <1>4
<1>6. TpShape'
  BY <1>1, <1>5 DEF TpShape
<1>7. TpLocked' /\ TpModeComes' /\ TpOwed'
  BY <1>1, <1>5 DEF TpLocked, TpModeComes, TpReads, TpWillShow, TpOwed, TpBusy
<1>8. TpInForce'
  <2>1. TpToCome' = MenuOf(s, tpMenu.mode) /\ TpDone(TpToCome)' = TpDone(MenuOf(s, tpMenu.mode))
    BY <1>1, <1>5 DEF TpToCome, TpDone, TpBusy
  <2>2. TpShows(MenuOf(s, tpMenu.mode), s)
    BY TpBuilds
  <2>3. TpShows(TpDone(MenuOf(tpRecv.holder, tpMenu.mode)), tpRecv.holder)
    BY <1>1, TpDoneShows
  <2>4. TpSame(s, s)
    BY DEF TpSame
  <2> QED
    BY <1>1, <1>2, <1>3, <2>1, <2>2, <2>3, <2>4 DEF TpInForce, s
<1> QED
  BY <1>6, <1>7, <1>8 DEF TpKept

\* The menu that was built is set; when it is what all others have, no excuse is left.
LEMMA TpSetsKeeps == ASSUME TpKept, TpMainSets PROVE TpKept'
<1>1. /\ UNCHANGED <<tpMode, tpShown, tpCache, tpFetch, tpSignal, tpRecv, tpThread, tpRead, tpRebuild, tpLock>>
      /\ tpMain.pc = "built" /\ tpMain' = [tpMain EXCEPT !.pc = "part", !.mode = tpMode]
      /\ tpMenu' = MenuOf(tpMain.tray, tpMenu.mode)
      /\ TpShape /\ TpLocked /\ TpModeComes /\ TpOwed /\ TpInForce
  BY DEF TpMainSets, TpKept
<1>2. tpWindow' = {} => tpWindow = {} \/ (tpMain.tray = ShownTray /\ (tpShown => ShownTray = tpRecv.holder))
  BY DEF TpMainSets
<1>3. /\ tpMenu'.mode = tpMenu.mode /\ tpMenu' = [tree |-> tpMenu'.tree, mode |-> tpMenu'.mode, marks |-> tpMenu'.marks]
      /\ tpMain'.pc = "part" /\ tpMain'.mode = tpMode /\ tpMain' = [pc |-> tpMain'.pc, tray |-> tpMain'.tray, mode |-> tpMain'.mode]
  <2>1. /\ tpMain'.pc = "part" /\ tpMain'.mode = tpMode
        /\ tpMain' = [pc |-> tpMain'.pc, tray |-> tpMain'.tray, mode |-> tpMain'.mode]
    BY <1>1 DEF TpShape
  <2> QED
    BY <1>1, <2>1, TpBuilds
<1>4. TpShape'
  BY <1>1, <1>3 DEF TpShape
<1>5. TpLocked' /\ TpOwed'
  BY <1>1 DEF TpLocked, TpOwed, TpBusy
<1>6. TpModeComes'
  BY <1>1, <1>3 DEF TpModeComes, TpReads, TpWillShow
<1>7. TpInForce'
  <2>1. TpToCome' = TpToCome /\ TpDone(TpToCome)' = TpDone(TpToCome) /\ ShownTray' = ShownTray
        /\ TpToCome = MenuOf(tpMain.tray, tpMenu.mode)
    BY <1>1, <1>3 DEF TpToCome, TpDone, TpBusy, ShownTray
  <2>2. CASE tpWindow = {}
    BY <1>1, <2>1, <2>2 DEF TpInForce
  <2>3. CASE tpMain.tray = ShownTray /\ (tpShown => ShownTray = tpRecv.holder)
    <3>1. TpShows(TpToCome, ShownTray) /\ (~tpShown => ShownTray = NoTray)
      BY <2>1, <2>3, TpBuilds DEF ShownTray
    <3>2. tpShown => TpShows(TpDone(TpToCome), tpRecv.holder) /\ TpSame(tpRecv.holder, ShownTray)
      BY <1>1, <2>1, <2>3, TpDoneShows DEF TpSame
    <3> QED
      BY <1>1, <2>1, <3>1, <3>2 DEF TpInForce
  <2> QED
    BY <1>2, <2>2, <2>3 DEF TpInForce
<1> QED
  BY <1>4, <1>5, <1>6, <1>7 DEF TpKept

\* Then the mode that was read is checked.
LEMMA TpPartKeeps == ASSUME TpKept, TpMainUpdatesPart PROVE TpKept'
<1>1. /\ UNCHANGED <<tpMode, tpShown, tpCache, tpFetch, tpSignal, tpRecv, tpThread, tpRead, tpRebuild, tpLock, tpWindow>>
      /\ tpMain.pc = "part" /\ tpMain' = [tpMain EXCEPT !.pc = "idle", !.tray = NoTray]
      /\ tpMenu' = [tpMenu EXCEPT !.mode = tpMain.mode]
      /\ TpShape /\ TpLocked /\ TpModeComes /\ TpOwed /\ TpInForce
  BY DEF TpMainUpdatesPart, TpKept
<1>2. /\ tpMenu = [tree |-> tpMenu.tree, mode |-> tpMenu.mode, marks |-> tpMenu.marks]
      /\ tpMain = [pc |-> tpMain.pc, tray |-> tpMain.tray, mode |-> tpMain.mode]
  BY <1>1 DEF TpShape
<1>3. /\ tpMenu'.mode = tpMain.mode /\ tpMenu'.tree = tpMenu.tree /\ tpMenu'.marks = tpMenu.marks
      /\ tpMenu' = [tree |-> tpMenu'.tree, mode |-> tpMenu'.mode, marks |-> tpMenu'.marks]
      /\ tpMain'.pc = "idle" /\ tpMain' = [pc |-> tpMain'.pc, tray |-> tpMain'.tray, mode |-> tpMain'.mode]
  BY <1>1, <1>2
<1>4. TpShape'
  BY <1>1, <1>3 DEF TpShape
<1>5. TpLocked' /\ TpOwed'
  BY <1>1 DEF TpLocked, TpOwed, TpBusy
<1>6. TpModeComes'
  BY <1>1, <1>3 DEF TpModeComes, TpReads, TpWillShow
<1>7. TpInForce'
  <2>1. TpToCome = tpMenu /\ TpToCome' = tpMenu' /\ TpDone(TpToCome)' = TpDone(tpMenu') /\ ShownTray' = ShownTray
    BY <1>1, <1>3 DEF TpToCome, TpDone, TpBusy, ShownTray
  <2>2. \A tray : /\ TpShows(tpMenu, tray) <=> TpShows(tpMenu', tray)
                  /\ TpShows(TpDone(tpMenu), tray) <=> TpShows(TpDone(tpMenu'), tray)
    BY <1>2, <1>3, TpAlike
  <2> QED
    BY <1>1, <2>1, <2>2 DEF TpInForce
<1> QED
  BY <1>4, <1>5, <1>6, <1>7 DEF TpKept

\* The main thread wants the handle for something else.
LEMMA TpHandleKeeps == ASSUME TpKept, TpMainUsesHandle PROVE TpKept'
<1>1. /\ UNCHANGED <<tpMode, tpShown, tpCache, tpFetch, tpSignal, tpRecv, tpThread, tpRead, tpRebuild, tpLock, tpMenu, tpWindow>>
      /\ tpMain.pc \in {"idle", "handle"}
      /\ TpShape /\ TpLocked /\ TpModeComes /\ TpOwed /\ TpInForce
  BY DEF TpMainUsesHandle, TpKept
<1>2. /\ tpMain'.pc \in {"idle", "handle"} /\ tpMain'.tray = tpMain.tray /\ tpMain'.mode = tpMain.mode
      /\ tpMain' = [pc |-> tpMain'.pc, tray |-> tpMain'.tray, mode |-> tpMain'.mode]
  BY <1>1 DEF TpMainUsesHandle, TpShape
<1>3. TpShape'
  BY <1>1, <1>2 DEF TpShape
<1>4. TpLocked' /\ TpOwed'
  BY <1>1 DEF TpLocked, TpOwed, TpBusy
<1>5. TpModeComes'
  BY <1>1, <1>2 DEF TpModeComes, TpReads, TpWillShow
<1>6. TpInForce'
  <2>1. TpToCome' = TpToCome /\ TpDone(TpToCome)' = TpDone(TpToCome) /\ ShownTray' = ShownTray
    BY <1>1, <1>2 DEF TpToCome, TpDone, TpBusy, ShownTray
  <2> QED
    BY <1>1, <2>1 DEF TpInForce
<1> QED
  BY <1>3, <1>4, <1>5, <1>6 DEF TpKept

\* The menu is built before the tasks start.
LEMMA TpInitKept == ASSUME TpInit PROVE TpKept
<1> DEFINE m == MenuOf(ToTrayProxies(tpMode, TpDefault), tpMode)
<1>1. /\ tpMode \in TpModes /\ tpShown = TRUE /\ tpCache = TpDefault /\ tpSignal = FALSE /\ tpRebuild = FALSE
      /\ tpFetch = [c \in TpCallers |-> NoAnswer] /\ tpRecv = [holder |-> NoTray, actions |-> {}]
      /\ tpThread = [t \in TpThreads |-> IF t = "receiver" THEN "off" ELSE "idle"]
      /\ tpRead = [t \in TpTasks |-> tpMode] /\ tpMain = [pc |-> "idle", tray |-> NoTray, mode |-> tpMode]
      /\ tpLock = [app |-> Free, menu |-> Free] /\ tpMenu = m
  BY DEF TpInit
<1>2. TpShows(m, ToTrayProxies(tpMode, TpDefault)) /\ m.mode = tpMode /\ m = [tree |-> m.tree, mode |-> m.mode, marks |-> m.marks]
  BY TpBuilds
<1> HIDE DEF m
<1>3. ToTrayProxies(tpMode, TpDefault) = ShownTray
  BY <1>1 DEF ShownTray
<1>4. /\ tpFetch = [c \in TpCallers |-> tpFetch[c]]
      /\ \A c \in TpCallers : ~tpFetch[c].pending
  <2> DEFINE n == NoAnswer
  <2>1. ~n.pending
    BY DEF NoAnswer
  <2> HIDE DEF n
  <2>2. tpFetch = [c \in TpCallers |-> n]
    BY <1>1 DEF n
  <2> QED
    BY <2>1, <2>2
<1>5. tpLock \in [{"app", "menu"} -> TpThreads \cup {Free}] /\ tpLock["app"] = Free /\ tpLock["menu"] = Free
  <2> DEFINE f == Free
  <2>1. tpLock = [app |-> f, menu |-> f]
    BY <1>1
  <2> HIDE DEF f
  <2>2. tpLock \in [{"app", "menu"} -> TpThreads \cup {f}] /\ tpLock["app"] = f /\ tpLock["menu"] = f
    BY <2>1
  <2> QED
    BY <2>2 DEF f
<1>6. /\ tpThread \in [TpThreads -> {"off", "idle", "lock", "ask"}] /\ tpThread["receiver"] = "off"
      /\ \A t \in TpThreads : tpThread[t] \in {"off", "idle"}
  BY <1>1, TpNames
<1>7. /\ tpMain.pc = "idle" /\ tpMain = [pc |-> tpMain.pc, tray |-> tpMain.tray, mode |-> tpMain.mode]
      /\ tpRecv = [holder |-> tpRecv.holder, actions |-> tpRecv.actions]
  BY <1>1
<1>8. TpShape
  BY <1>1, <1>2, <1>4, <1>5, <1>6, <1>7 DEF TpShape
<1>9. TpLocked
  BY <1>5, <1>6, TpNames DEF TpLocked
<1>10. TpModeComes
  BY <1>1, <1>2, <1>5, <1>7, TpNames DEF TpModeComes
<1>11. TpOwed /\ TpInForce
  BY <1>1, <1>2, <1>3, <1>6, <1>7 DEF TpOwed, TpBusy, TpInForce, TpToCome
<1> QED
  BY <1>8, <1>9, <1>10, <1>11 DEF TpKept

\* Locks that are taken in one order leave nothing but the standoff to wait in.
LEMMA TpSays == ASSUME TpKept PROVE TpTraySound
<1>1. TpShape /\ TpLocked /\ TpModeComes /\ TpInForce
  BY DEF TpKept
<1>2. TpOnlyStandoff
  <2>1. ASSUME NEW t \in TpThreads, tpThread[t] = "ask" PROVE TpOnlyStandoff
    <3>1. tpLock.app = t /\ tpLock.menu = t /\ tpMain.pc \in {"idle", "built", "part", "handle"}
      BY <1>1, <2>1 DEF TpShape, TpLocked
    <3> QED
      BY <2>1, <3>1 DEF TpOnlyStandoff, TpStandoff
  <2>2. ASSUME NEW t \in TpThreads, tpThread[t] = "lock", \A u \in TpThreads : tpThread[u] # "ask" PROVE TpOnlyStandoff
    <3>1. tpLock \in [{"app", "menu"} -> TpThreads \cup {Free}] /\ tpLock.app = tpLock["app"]
      BY <1>1 DEF TpShape
    <3>2. tpLock["menu"] = Free
      BY <1>1, <2>2, <3>1 DEF TpLocked
    <3>3. CASE tpLock["app"] = Free
      <4>1. TpNextLock(t) = "app"
        BY <3>1, <3>3, TpNames DEF TpNextLock
      <4> QED
        BY <2>2, <3>3, <4>1 DEF TpOnlyStandoff
    <3>4. CASE tpLock["app"] # Free
      <4>1. PICK u \in TpThreads : tpLock["app"] = u
        BY <3>1, <3>4
      <4>2. tpThread[u] = "lock" /\ TpNextLock(u) = "menu"
        BY <1>1, <2>2, <3>1, <4>1 DEF TpLocked, TpNextLock
      <4> QED
        BY <3>2, <4>2 DEF TpOnlyStandoff
    <3> QED
      BY <3>3, <3>4
  <2>3. tpThread \in [TpThreads -> {"off", "idle", "lock", "ask"}]
    BY <1>1 DEF TpShape
  <2>4. CASE \A t \in TpThreads : tpThread[t] \in {"off", "idle"}
    BY <2>4 DEF TpOnlyStandoff
  <2>5. CASE \E t \in TpThreads : tpThread[t] \in {"lock", "ask"}
    BY <2>1, <2>2, <2>5
  <2> QED
    BY <2>3, <2>4, <2>5
<1>3. ASSUME TpQuiet PROVE tpMenu.mode = tpMode /\ (tpWindow = {} => tpMenu = MenuOf(ShownTray, tpMode))
  <2>1. /\ tpThread["receiver"] = "idle" /\ \A t \in TpTasks : tpThread[t] = "idle"
        /\ tpMain.pc = "idle" /\ ~tpRebuild /\ ~tpSignal
    BY <1>3, TpNames DEF TpQuiet
  <2>2. tpMenu.mode = tpMode
    <3>1. \A t \in TpTasks : ~TpReads(t) /\ ~TpWillShow(t)
      BY <1>1, <2>1, TpNames DEF TpReads, TpWillShow, TpLocked
    <3> QED
      BY <1>1, <2>1, <3>1 DEF TpModeComes
  <2>3. ASSUME tpWindow = {} PROVE tpMenu = MenuOf(ShownTray, tpMode)
    <3>1. TpToCome = tpMenu /\ TpDone(TpToCome) = tpMenu
      BY <2>1 DEF TpToCome, TpDone, TpBusy
    <3>2. TpShows(tpMenu, ShownTray)
      <4>1. CASE tpShown
        BY <1>1, <2>1, <2>3, <3>1, <4>1 DEF TpInForce, TpShows, TpSame
      <4>2. CASE ~tpShown
        BY <1>1, <2>1, <2>3, <3>1, <4>2 DEF TpInForce, ShownTray
      <4> QED
        BY <4>1, <4>2
    <3>3. tpMenu = [tree |-> tpMenu.tree, mode |-> tpMenu.mode, marks |-> tpMenu.marks]
      BY <1>1 DEF TpShape
    <3>4. MenuOf(ShownTray, tpMode) = [tree |-> TpTree(ShownTray), mode |-> tpMode, marks |-> TpMarks(ShownTray)]
      BY DEF MenuOf, TpMarks
    <3> QED
      BY <2>2, <3>2, <3>3, <3>4 DEF TpShows
  <2> QED
    BY <2>2, <2>3
<1> QED
  BY <1>2, <1>3 DEF TpTraySound, TpMenuShows

\* Whenever nothing is left to be done the menu of the tray checks the mode in force and,
\* but for the three overlaps the receiver cannot see, shows the groups of the cache with
\* their selections; and whatever keeps its threads waiting is the standoff of a thread
\* with locks the main thread wants (core/tray/proxies.rs, core/tray/mod.rs).
THEOREM TrayIsSound == TpInit /\ [][TpNext]_tpVars => []TpTraySound
<1>1. ASSUME TpKept, [TpNext]_tpVars PROVE TpKept'
  <2>1. CASE UNCHANGED tpVars
    <3>1. /\ UNCHANGED <<tpMode, tpShown, tpCache, tpSignal, tpRecv, tpThread, tpRead, tpMain, tpRebuild, tpLock, tpMenu, tpWindow>>
          /\ tpFetch' = tpFetch
      BY <2>1 DEF tpVars
    <3>2. /\ tpFetch' = [c \in TpCallers |-> tpFetch'[c]]
          /\ \A c \in TpCallers : tpFetch'[c].pending => tpFetch'[c].picture # TpDefault
      BY <1>1, <3>1 DEF TpKept, TpShape
    <3> QED
      BY <1>1, <3>1, <3>2, TpElsewhere
  <2> QED
    BY <1>1, <2>1, TpCoreKeeps, TpAnswerKeeps, TpStartKeeps, TpReceiveKeeps, TpModeKeeps, TpSelectorKeeps, TpTakeKeeps,
       TpServesKeeps, TpBuildsKeeps, TpSetsKeeps, TpPartKeeps, TpHandleKeeps DEF TpNext
<1> QED
  BY <1>1, TpInitKept, TpSays, PTL
===============================================================================
