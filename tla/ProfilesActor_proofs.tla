------------------------ MODULE ProfilesActor_proofs ------------------------
(***************************************************************************)
(* Proofs about ProfilesActor for any set of profile ids, addresses,       *)
(* intervals, definitions and stored documents, and all bounds.            *)
(***************************************************************************)
EXTENDS ProfilesActor, FiniteSetTheorems, TLAPS

-----------------------------------------------------------------------------
(* Documents and what the edits make of them.                              *)

\* e differs from d only in what no check, timer, watcher or file depends on.
SameProfiles(d, e) ==
  /\ IsDocument(e)
  /\ e.items = d.items /\ e.current = d.current /\ e.global = d.global
  /\ e.revision = d.revision

\* e has the profile i under u, and is d otherwise.
SetItem(d, e, u, i) ==
  /\ IsDocument(e)
  /\ e.items = [d.items EXCEPT ![u] = i]
  /\ e.current = d.current /\ e.global = d.global /\ e.valid = d.valid
  /\ e.revision = d.revision

\* The missing item is no definition.
LEMMA NoItemIsNone == NoItem \notin Definitions
<1>1. ASSUME NEW i \in Definitions PROVE i # NoItem
    <2>1. i.kind \in {"file", "composition", "overlay", "script"}
        BY DEF Definitions
    <2> QED
        BY <2>1 DEF NoItem
<1> QED
    BY <1>1

\* What replacing an item leaves.
LEMMA ReplaceItemIs ==
  ASSUME NEW d, IsDocument(d), NEW u \in Uids, NEW i \in Definitions \union {NoItem}
  PROVE  SetItem(d, ReplaceItem(d, u, i), u, i)
<1> DEFINE e == ReplaceItem(d, u, i)
           f == [d.items EXCEPT ![u] = i]
<1>1. f \in [Uids -> Definitions \union {NoItem}]
    BY DEF IsDocument
<1> HIDE DEF f
<1>2. e = [current |-> d.current, global |-> d.global, valid |-> d.valid,
           items |-> f, order |-> d.order, revision |-> d.revision]
    <2>1. e = [d EXCEPT !.items = f]
        BY DEF ReplaceItem, IsDocument, f
    <2> QED
        BY <2>1 DEF IsDocument
<1> HIDE DEF e
<1> QED
    BY <1>1, <1>2 DEF SetItem, IsDocument, e, f

\* What a new order of the items leaves.
LEMMA OrderIs ==
  ASSUME NEW d, IsDocument(d), NEW o
  PROVE  LET e == [d EXCEPT !.order = o] IN SameProfiles(d, e) /\ e.valid = d.valid
<1> DEFINE e == [d EXCEPT !.order = o]
<1>1. e = [current |-> d.current, global |-> d.global, valid |-> d.valid,
           items |-> d.items, order |-> o, revision |-> d.revision]
    BY DEF IsDocument
<1> HIDE DEF e
<1> QED
    BY <1>1 DEF SameProfiles, IsDocument, e

\* What appending an item leaves.
LEMMA AppendItemIs ==
  ASSUME NEW d, IsDocument(d), NEW u \in Uids, NEW i \in Definitions
  PROVE  SetItem(d, AppendItem(d, u, i), u, i)
<1> DEFINE e == ReplaceItem(d, u, i)
<1>1. SetItem(d, e, u, i)
    BY ReplaceItemIs
<1> HIDE DEF e
<1> DEFINE o == Append(e.order, u)
<1>2. AppendItem(d, u, i) = [e EXCEPT !.order = o]
    BY DEF AppendItem, e
<1> HIDE DEF o
<1>3. LET x == [e EXCEPT !.order = o] IN SameProfiles(e, x) /\ x.valid = e.valid
    BY <1>1, OrderIs DEF SetItem
<1> QED
    BY <1>1, <1>2, <1>3 DEF SetItem, SameProfiles

\* What removing an item leaves.
LEMMA RemoveItemIs ==
  ASSUME NEW d, IsDocument(d), NEW u \in Uids
  PROVE  SetItem(d, RemoveItem(d, u), u, NoItem)
<1> DEFINE e == ReplaceItem(d, u, NoItem)
<1>1. SetItem(d, e, u, NoItem)
    BY ReplaceItemIs
<1> HIDE DEF e
<1> DEFINE o == SelectSeq(e.order, LAMBDA v : v # u)
<1>2. RemoveItem(d, u) = [e EXCEPT !.order = o]
    BY DEF RemoveItem, e
<1> HIDE DEF o
<1>3. LET x == [e EXCEPT !.order = o] IN SameProfiles(e, x) /\ x.valid = e.valid
    BY <1>1, OrderIs DEF SetItem
<1> QED
    BY <1>1, <1>2, <1>3 DEF SetItem, SameProfiles

\* What a new selection leaves.
LEMMA CurrentIs ==
  ASSUME NEW d, IsDocument(d), NEW c \in Uids \union {NoUid}
  PROVE  LET e == [d EXCEPT !.current = c]
         IN  /\ IsDocument(e) /\ e.items = d.items /\ e.revision = d.revision
             /\ e.current = c /\ e.global = d.global /\ e.valid = d.valid
<1> DEFINE e == [d EXCEPT !.current = c]
<1>1. e = [current |-> c, global |-> d.global, valid |-> d.valid,
           items |-> d.items, order |-> d.order, revision |-> d.revision]
    BY DEF IsDocument
<1> HIDE DEF e
<1> QED
    BY <1>1 DEF IsDocument, e

\* What a new global chain leaves.
LEMMA GlobalIs ==
  ASSUME NEW d, IsDocument(d), NEW S \in SUBSET Uids
  PROVE  LET e == [d EXCEPT !.global = S]
         IN  /\ IsDocument(e) /\ e.items = d.items /\ e.revision = d.revision
             /\ e.current = d.current /\ e.global = S /\ e.valid = d.valid
<1> DEFINE e == [d EXCEPT !.global = S]
<1>1. e = [current |-> d.current, global |-> S, valid |-> d.valid,
           items |-> d.items, order |-> d.order, revision |-> d.revision]
    BY DEF IsDocument
<1> HIDE DEF e
<1> QED
    BY <1>1 DEF IsDocument, e

\* Validity, part by part.
LEMMA ValidIs ==
  ASSUME NEW d, IsDocument(d), NEW x PROVE SameProfiles(d, [d EXCEPT !.valid = x])
<1> DEFINE e == [d EXCEPT !.valid = x]
<1>1. e = [current |-> d.current, global |-> d.global, valid |-> x,
           items |-> d.items, order |-> d.order, revision |-> d.revision]
    BY DEF IsDocument
<1> HIDE DEF e
<1> QED
    BY <1>1 DEF SameProfiles, IsDocument, e

\* The revision a commit adds.
LEMMA RevisionIs ==
  ASSUME NEW d, IsDocument(d)
  PROVE  LET e == [d EXCEPT !.revision = @ + 1]
         IN  /\ IsDocument(e) /\ e.items = d.items /\ e.current = d.current
             /\ e.global = d.global /\ e.valid = d.valid
             /\ e.revision = d.revision + 1
<1> DEFINE e == [d EXCEPT !.revision = @ + 1]
<1>1. e = [current |-> d.current, global |-> d.global, valid |-> d.valid,
           items |-> d.items, order |-> d.order, revision |-> d.revision + 1]
    BY DEF IsDocument
<1>2. d.revision + 1 \in Nat
    BY DEF IsDocument
<1> HIDE DEF e
<1> QED
    BY <1>1, <1>2 DEF IsDocument, e

\* Validation reads the profiles, the selection and the global transforms.
LEMMA ValidateReads ==
  ASSUME NEW d, NEW e, e.items = d.items, e.current = d.current, e.global = d.global,
         Validate(d)
  PROVE  Validate(e)
BY DEF Validate, ValidTransforms, ValidComposition, ValidMember, HasItem

-----------------------------------------------------------------------------
(* Profiles and their files.                                               *)

Extensions == {"yaml", "js"}

\* Paths are pairs of an id and an extension.
LEMMA PathFacts ==
  /\ \A u \in Uids, x \in Extensions : <<u, x>> \in Paths
  /\ \A p \in Paths : p[1] \in Uids /\ p[2] \in Extensions /\ p = <<p[1], p[2]>>
BY DEF Paths, Extensions

\* The extension of a kind of profile.
LEMMA ExtensionIs == ASSUME NEW i PROVE CanonicalExtension(i) \in Extensions
BY DEF CanonicalExtension, Extensions

\* What the file with extension x of the profile i should hold.
Belongs(u, i, x, content) ==
  IF i # NoItem /\ HasSource(i) /\ CanonicalExtension(i) = x
  THEN FileOf(u, i, content) ELSE content = "absent"

AllBelong(d, f, l) ==
  \A u \in Uids, x \in Extensions :
    <<u, x>> \notin l => Belongs(u, d.items[u], x, f[<<u, x>>])

\* FilesBelong profile by profile.
LEMMA BelongForm ==
  ASSUME NEW d, NEW f, NEW l
  PROVE  (\A p \in Paths \ l :
            LET i == d.items[p[1]] IN
            IF HasItem(d, p[1]) /\ HasSource(i) /\ PathOf(p[1], i) = p
            THEN FileOf(p[1], i, f[p]) ELSE f[p] = "absent")
         <=> AllBelong(d, f, l)
<1> DEFINE Good(p) == LET i == d.items[p[1]] IN
                      IF HasItem(d, p[1]) /\ HasSource(i) /\ PathOf(p[1], i) = p
                      THEN FileOf(p[1], i, f[p]) ELSE f[p] = "absent"
<1>1. ASSUME NEW u \in Uids, NEW x \in Extensions
      PROVE  Good(<<u, x>>) <=> Belongs(u, d.items[u], x, f[<<u, x>>])
    BY <1>1 DEF Belongs, HasItem, PathOf
<1> HIDE DEF Good
<1>2. (\A p \in Paths \ l : Good(p))
      <=> \A u \in Uids, x \in Extensions : <<u, x>> \notin l => Good(<<u, x>>)
    BY PathFacts
<1>3. (\A p \in Paths \ l : Good(p)) <=> AllBelong(d, f, l)
    BY <1>1, <1>2 DEF AllBelong
<1> QED
    BY <1>3 DEF Good

\* FilesBelong, before and after a step, as a statement of document and files.
LEMMA FilesForm ==
  /\ FilesBelong <=> AllBelong(doc, files, late)
  /\ FilesBelong' <=> AllBelong(doc', files', late')
<1>1. FilesBelong <=> AllBelong(doc, files, late)
    BY BelongForm DEF FilesBelong
<1>2. FilesBelong' <=> AllBelong(doc', files', late')
    BY BelongForm DEF FilesBelong
<1> QED
    BY <1>1, <1>2

\* The same kind of profile with its content from the same source.
SameShape(i, j) ==
  \/ i = NoItem /\ j = NoItem
  \/ /\ i # NoItem /\ j # NoItem
     /\ j.kind = i.kind /\ j.source = i.source /\ j.url = i.url

\* Definitions of the same shape call for the same files.
LEMMA ShapeBelongs ==
  ASSUME NEW i, NEW j, SameShape(i, j), NEW u, NEW x, NEW content, Belongs(u, i, x, content)
  PROVE  Belongs(u, j, x, content)
BY DEF Belongs, SameShape, HasSource, CanonicalExtension, FileOf

\* The fields of a profile.
LEMMA Fields ==
  ASSUME NEW i \in Definitions
  PROVE  /\ i.kind \in {"file", "composition", "overlay", "script"}
         /\ i.source \in {"managed", "symlink", "mirror", "remote", "none"}
         /\ i.url \in Urls \union {"none"} /\ i.every \in {0} \union Intervals
         /\ i.base \in Uids \union {NoUid}
         /\ i.extend \in SUBSET Uids /\ i.transforms \in SUBSET Uids
         /\ i.stamp \in Nat /\ i.name \in {"derived", "server", "user"}
         /\ i.kind = "composition" <=> i.source = "none"
         /\ i.source = "remote" => i.url \in Urls
         /\ i.kind # "composition" => i.base = NoUid /\ i.extend = {}
         /\ i.kind \in {"overlay", "script"} => i.transforms = {}
         /\ i # NoItem
BY NoItemIsNone DEF Definitions

\* Edits of a profile's metadata.
LEMMA Edited ==
  ASSUME NEW i \in Definitions, NEW s \in Nat, NEW every \in {0} \union Intervals,
         NEW n \in {"derived", "server", "user"},
         NEW j, \/ j = [i EXCEPT !.name = n]
                \/ j = [i EXCEPT !.every = every]
                \/ j = [i EXCEPT !.stamp = s]
                \/ j = [i EXCEPT !.stamp = s, !.name = n]
  PROVE  /\ j \in Definitions /\ SameShape(i, j)
         /\ j.base = i.base /\ j.extend = i.extend /\ j.transforms = i.transforms
<1>1. PICK x \in {0} \union Intervals, y \in Nat, z \in {"derived", "server", "user"} :
        j = [kind |-> i.kind, source |-> i.source, url |-> i.url, every |-> x,
             base |-> i.base, extend |-> i.extend, transforms |-> i.transforms,
             stamp |-> y, name |-> z]
  <2>1. i = [kind |-> i.kind, source |-> i.source, url |-> i.url, every |-> i.every,
             base |-> i.base, extend |-> i.extend, transforms |-> i.transforms,
             stamp |-> i.stamp, name |-> i.name]
      BY DEF Definitions
  <2>2. CASE j = [i EXCEPT !.name = n]
      <3>1. j = [kind |-> i.kind, source |-> i.source, url |-> i.url, every |-> i.every,
                 base |-> i.base, extend |-> i.extend, transforms |-> i.transforms,
                 stamp |-> i.stamp, name |-> n]
          BY <2>1, <2>2
      <3> QED
          BY <3>1, Fields
  <2>3. CASE j = [i EXCEPT !.every = every]
      <3>1. j = [kind |-> i.kind, source |-> i.source, url |-> i.url, every |-> every,
                 base |-> i.base, extend |-> i.extend, transforms |-> i.transforms,
                 stamp |-> i.stamp, name |-> i.name]
          BY <2>1, <2>3
      <3> QED
          BY <3>1, Fields
  <2>4. CASE j = [i EXCEPT !.stamp = s]
      <3>1. j = [kind |-> i.kind, source |-> i.source, url |-> i.url, every |-> i.every,
                 base |-> i.base, extend |-> i.extend, transforms |-> i.transforms,
                 stamp |-> s, name |-> i.name]
          BY <2>1, <2>4
      <3> QED
          BY <3>1, Fields
  <2>5. CASE j = [i EXCEPT !.stamp = s, !.name = n]
      <3>1. j = [kind |-> i.kind, source |-> i.source, url |-> i.url, every |-> i.every,
                 base |-> i.base, extend |-> i.extend, transforms |-> i.transforms,
                 stamp |-> s, name |-> n]
          BY <2>1, <2>5
      <3> QED
          BY <3>1, Fields
  <2> QED
      BY <2>2, <2>3, <2>4, <2>5
<1>2. j \in Definitions
    BY <1>1, Fields DEF Definitions
<1> QED
    BY <1>1, <1>2, NoItemIsNone DEF SameShape

\* A profile keeps its shape.
LEMMA ShapeIsReflexive == ASSUME NEW i PROVE SameShape(i, i)
BY DEF SameShape

\* Definitions of the same shape are external alike.
LEMMA ShapeSchedules ==
  ASSUME NEW i, NEW j, SameShape(i, j) PROVE IsExternal(j) <=> IsExternal(i)
BY DEF SameShape, IsExternal

-----------------------------------------------------------------------------
(* Commits.                                                                *)

Handling ==
  \/ busy = Idle
  \/ /\ busy.op \in {"bind", "mirror"}
     /\ busy.uid \in Uids
     /\ busy.item \in Definitions /\ busy.item.source = "mirror"

Typed ==
  /\ IsDocument(doc)
  /\ files \in [Paths -> Contents]
  /\ Handling
  /\ saving \in Paths \union {NoPath}

Sound == Typed /\ DocumentValid /\ SchedulesMatch /\ FilesBelong

\* What every commit gives, whatever it stores.
LEMMA Commits ==
  ASSUME IsDocument(doc), NEW next, IsDocument(next), NEW a, NEW w, Persist(next, a, w)
  PROVE  /\ IsDocument(doc') /\ doc'.items = next.items
         /\ doc'.current = next.current /\ doc'.global = next.global
         /\ doc'.valid = next.valid /\ doc'.revision = next.revision + 1
         /\ DocumentValid' /\ SchedulesMatch'
         /\ WatchPaths(doc') = WatchPaths(next)
<1>1. doc' = [next EXCEPT !.revision = @ + 1] /\ Validate(next) /\ ReconcileCommitted(next)
    BY DEF Persist, PrepareCandidate
<1>2. /\ IsDocument(doc') /\ doc'.items = next.items
      /\ doc'.current = next.current /\ doc'.global = next.global
      /\ doc'.valid = next.valid /\ doc'.revision = next.revision + 1
    <2> DEFINE e == [next EXCEPT !.revision = @ + 1]
    <2>1. /\ IsDocument(e) /\ e.items = next.items /\ e.current = next.current
          /\ e.global = next.global /\ e.valid = next.valid
          /\ e.revision = next.revision + 1
        BY RevisionIs
    <2>2. doc' = e
        BY <1>1
    <2> HIDE DEF e
    <2> QED
        BY <2>1, <2>2
<1>3. DocumentValid'
    BY <1>1, <1>2, ValidateReads DEF DocumentValid
<1>4. WatchPaths(doc') = WatchPaths(next)
    BY <1>2 DEF WatchPaths
<1>5. SchedulesMatch'
    <2>1. timers' = [u \in Uids |-> DesiredTimer(next, u)]
        BY <1>1 DEF ReconcileCommitted, ReconcileTimers
    <2>2. \A u \in Uids : DesiredTimer(next, u) = DesiredTimer(doc', u)
        BY <1>2 DEF DesiredTimer
    <2>3. watchers' \subseteq WatchPaths(next)
        BY <1>1 DEF ReconcileCommitted, ReconcileWatchers
    <2> QED
        BY <1>4, <2>1, <2>2, <2>3 DEF SchedulesMatch
<1> QED
    BY <1>2, <1>3, <1>4, <1>5

\* Nothing was committed.
LEMMA Refused ==
  ASSUME IsDocument(doc), DocumentValid, SchedulesMatch,
         UNCHANGED <<doc, timers, watchers>>
  PROVE  IsDocument(doc') /\ DocumentValid' /\ SchedulesMatch'
BY DEF DocumentValid, SchedulesMatch

\* A commit of the profile i under u, together with its file.
LEMMA OneProfile ==
  ASSUME Sound, NEW next, NEW u \in Uids, NEW i, SetItem(doc, next, u, i),
         NEW a, NEW w, Persist(next, a, w),
         UNCHANGED late, files' \in [Paths -> Contents],
         \A p \in Paths : p[1] # u => files'[p] = files[p],
         \A x \in Extensions : <<u, x>> \notin late => Belongs(u, i, x, files'[<<u, x>>])
  PROVE  IsDocument(doc') /\ DocumentValid' /\ SchedulesMatch' /\ FilesBelong'
<1>1. IsDocument(doc) /\ IsDocument(next) /\ next.items = [doc.items EXCEPT ![u] = i]
    BY DEF Sound, Typed, SetItem
<1>2. /\ IsDocument(doc') /\ DocumentValid' /\ SchedulesMatch' /\ doc'.items = next.items
    BY <1>1, Commits
<1>3. AllBelong(doc, files, late)
    BY FilesForm DEF Sound
<1>4. doc'.items[u] = i /\ \A v \in Uids \ {u} : doc'.items[v] = doc.items[v]
    BY <1>1, <1>2 DEF IsDocument
<1>5. AllBelong(doc', files', late')
    <2> SUFFICES ASSUME NEW v \in Uids, NEW x \in Extensions, <<v, x>> \notin late
                 PROVE  Belongs(v, doc'.items[v], x, files'[<<v, x>>])
        BY DEF AllBelong
    <2>1. CASE v = u
        BY <1>4, <2>1
    <2>2. CASE v # u
        <3>1. files'[<<v, x>>] = files[<<v, x>>]
            BY <2>2, PathFacts
        <3> QED
            BY <1>3, <1>4, <2>2, <3>1 DEF AllBelong
    <2> QED
        BY <2>1, <2>2
<1> QED
    BY <1>2, <1>5, FilesForm

\* A commit that moves no content.
LEMMA SameFiles ==
  ASSUME Sound, NEW next, IsDocument(next), NEW a, NEW w, Persist(next, a, w),
         UNCHANGED <<files, late>>,
         \A u \in Uids : SameShape(doc.items[u], next.items[u])
  PROVE  IsDocument(doc') /\ DocumentValid' /\ SchedulesMatch' /\ FilesBelong'
<1>1. /\ IsDocument(doc') /\ DocumentValid' /\ SchedulesMatch' /\ doc'.items = next.items
    BY Commits DEF Sound, Typed
<1>2. AllBelong(doc, files, late)
    BY FilesForm DEF Sound
<1>3. AllBelong(doc', files', late')
    BY <1>1, <1>2, ShapeBelongs DEF AllBelong
<1> QED
    BY <1>1, <1>3, FilesForm

\* In particular an edit of one profile that keeps its shape.
LEMMA OneEdit ==
  ASSUME Sound, NEW u \in Uids, NEW i \in Definitions, SameShape(doc.items[u], i),
         NEW a, NEW w, Persist(ReplaceItem(doc, u, i), a, w), UNCHANGED <<files, late>>
  PROVE  IsDocument(doc') /\ DocumentValid' /\ SchedulesMatch' /\ FilesBelong'
<1> DEFINE next == ReplaceItem(doc, u, i)
<1>1. SetItem(doc, next, u, i) /\ IsDocument(doc)
    BY ReplaceItemIs DEF Sound, Typed
<1>2. Persist(next, a, w)
    OBVIOUS
<1> HIDE DEF next
<1>3. \A v \in Uids : SameShape(doc.items[v], next.items[v])
    BY <1>1, ShapeIsReflexive DEF SetItem, IsDocument
<1> QED
    BY <1>1, <1>2, <1>3, SameFiles DEF SetItem

\* A start with nothing stored is sound.
LEMMA NothingStored ==
  ASSUME Sound, UNCHANGED <<doc, timers, watchers, files, late>>
  PROVE  IsDocument(doc') /\ DocumentValid' /\ SchedulesMatch' /\ FilesBelong'
BY Refused DEF Sound, Typed, FilesBelong

-----------------------------------------------------------------------------
(* Every handler keeps the document valid, the schedules its own, and the   *)
(* bytes of every profile beside it.                                        *)

Quiet == UNCHANGED <<files, busy, saving, late>>

\* A selection, an order or a global chain keeps soundness.
LEMMA SoundSelection ==
  ASSUME Sound, UNCHANGED editor,
         \/ \E c \in ConfigUids \union {NoUid} : SetCurrent(c)
         \/ \E u \in Uids : TryAutoActivateIfNone(u)
         \/ \E S \in SUBSET TransformUids : SetGlobalTransforms(S)
         \/ SetValidFields
         \/ \E order \in SetToSeqs(Range(doc.order)) : Reorder(order)
  PROVE  Sound'
<1> USE DEF editor
<1>0. IsDocument(doc)
    BY DEF Sound, Typed
<1>1. ASSUME NEW next, IsDocument(next), next.items = doc.items,
             NEW a, NEW w, Persist(next, a, w), UNCHANGED <<files, busy>>
      PROVE  Sound'
    <2>1. \A u \in Uids : SameShape(doc.items[u], next.items[u])
        BY <1>1, ShapeIsReflexive
    <2> QED
        BY <1>1, <2>1, SameFiles DEF Sound, Typed, Handling
<1>2. ASSUME NEW c \in ConfigUids \union {NoUid}, SetCurrent(c) PROVE Sound'
    <2> DEFINE next == [doc EXCEPT !.current = c]
    <2>1. IsDocument(next) /\ next.items = doc.items
        BY <1>0, CurrentIs DEF Uids
    <2>2. Persist(next, Rule("current"), "reply") /\ UNCHANGED <<files, busy>>
        BY <1>2 DEF SetCurrent, RunStateWrite
    <2> HIDE DEF next
    <2> QED
        BY <1>1, <2>1, <2>2
<1>3. ASSUME NEW u \in Uids, TryAutoActivateIfNone(u) PROVE Sound'
    <2> DEFINE next == [doc EXCEPT !.current = u]
    <2>1. IsDocument(next) /\ next.items = doc.items
        BY <1>0, CurrentIs
    <2>2. /\ \/ Persist(next, Rule("current"), "reply")
             \/ UNCHANGED <<doc, timers, watchers>>
          /\ UNCHANGED <<files, busy>>
        BY <1>3 DEF TryAutoActivateIfNone, SetCurrentIfNone
    <2> HIDE DEF next
    <2>3. CASE Persist(next, Rule("current"), "reply")
        BY <1>1, <2>1, <2>2, <2>3
    <2>4. CASE UNCHANGED <<doc, timers, watchers>>
        BY <2>2, <2>4, NothingStored DEF Sound, Typed, Handling
    <2> QED
        BY <2>2, <2>3, <2>4
<1>4. ASSUME NEW S \in SUBSET TransformUids, SetGlobalTransforms(S) PROVE Sound'
    <2> DEFINE next == [doc EXCEPT !.global = S]
    <2>1. IsDocument(next) /\ next.items = doc.items
        BY <1>0, GlobalIs DEF Uids
    <2>2. Persist(next, Rule("global"), "reply") /\ UNCHANGED <<files, busy>>
        BY <1>4 DEF SetGlobalTransforms, RunStateWrite
    <2> HIDE DEF next
    <2> QED
        BY <1>1, <2>1, <2>2
<1>5. CASE SetValidFields
    <2> DEFINE next == [doc EXCEPT !.valid = ~ @]
    <2>1. IsDocument(next) /\ next.items = doc.items
        BY <1>0, ValidIs DEF SameProfiles
    <2>2. Persist(next, Rule("always"), "reply") /\ UNCHANGED <<files, busy>>
        BY <1>5 DEF SetValidFields, RunStateWrite
    <2> HIDE DEF next
    <2> QED
        BY <1>1, <2>1, <2>2
<1>6. ASSUME NEW order, Reorder(order) PROVE Sound'
    <2> DEFINE next == [doc EXCEPT !.order = order]
    <2>1. IsDocument(next) /\ next.items = doc.items
        BY <1>0, OrderIs DEF SameProfiles
    <2>2. Persist(next, Rule("never"), "reply") /\ UNCHANGED <<files, busy>>
        BY <1>6 DEF Reorder, RunStateWrite
    <2> HIDE DEF next
    <2> QED
        BY <1>1, <2>1, <2>2
<1> QED
    BY <1>2, <1>3, <1>4, <1>5, <1>6

\* A profile of the document.
LEMMA ItemIs ==
  ASSUME IsDocument(doc), NEW u, HasItem(doc, u)
  PROVE  u \in Uids /\ doc.items[u] \in Definitions /\ doc.revision + 1 \in Nat
BY DEF HasItem, IsDocument

\* An edit of one profile, committed by a handler that writes no file.
LEMMA SoundEdit ==
  ASSUME Sound, NEW u, HasItem(doc, u), NEW i \in Definitions, SameShape(doc.items[u], i),
         NEW a, NEW w, Persist(ReplaceItem(doc, u, i), a, w), Quiet
  PROVE  Sound'
<1>1. u \in Uids
    BY DEF HasItem
<1> QED
    BY <1>1, OneEdit DEF Sound, Typed, Handling, Quiet

\* A patch of a profile keeps soundness.
LEMMA SoundPatch ==
  ASSUME Sound, UNCHANGED editor, NEW u \in Uids,
         PatchMetadata(u) \/ \E every \in Intervals : PatchRemoteOptions(u, every)
  PROVE  Sound'
<1> USE DEF editor
<1>0. IsDocument(doc)
    BY DEF Sound, Typed
<1>1. CASE PatchMetadata(u)
    <2> DEFINE i == [doc.items[u] EXCEPT !.name = "user"]
    <2>1. HasItem(doc, u) /\ Persist(ReplaceItem(doc, u, i), Rule("never"), "reply") /\ Quiet
        BY <1>1 DEF PatchMetadata, RunStateWrite, Quiet
    <2>2. doc.items[u] \in Definitions
        BY <1>0, <2>1, ItemIs
    <2>3. i \in Definitions /\ SameShape(doc.items[u], i)
        BY <2>2, Edited
    <2> HIDE DEF i
    <2> QED
        BY <2>1, <2>3, SoundEdit
<1>2. ASSUME NEW every \in Intervals, PatchRemoteOptions(u, every) PROVE Sound'
    <2> DEFINE i == [doc.items[u] EXCEPT !.every = every]
    <2>1. HasItem(doc, u) /\ Persist(ReplaceItem(doc, u, i), Rule("never"), "reply") /\ Quiet
        BY <1>2 DEF PatchRemoteOptions, RunStateWrite, Quiet
    <2>2. doc.items[u] \in Definitions /\ every \in {0} \union Intervals
        BY <1>0, <2>1, ItemIs
    <2>3. i \in Definitions /\ SameShape(doc.items[u], i)
        BY <2>2, Edited
    <2> HIDE DEF i
    <2> QED
        BY <2>1, <2>3, SoundEdit
<1> QED
    BY <1>1, <1>2

\* The file of one profile is written or removed.
LEMMA FileSteps ==
  ASSUME NEW f, f \in [Paths -> Contents], NEW u \in Uids, NEW i,
         NEW content, HasSource(i) => content \in Contents, NEW g,
         g = WithFile(f, u, i, content) \/ (g = WithoutFile(f, u, i) /\ content = "absent")
  PROVE  /\ g \in [Paths -> Contents]
         /\ \A p \in Paths : p[1] # u => g[p] = f[p]
         /\ HasSource(i) => g[PathOf(u, i)] = content
         /\ \A p \in Paths : ~ HasSource(i) \/ p # PathOf(u, i) => g[p] = f[p]
<1>1. "absent" \in Contents /\ PathOf(u, i) \in Paths /\ PathOf(u, i)[1] = u
    BY ExtensionIs, PathFacts DEF Contents, PathOf
<1>2. g = f \/ (HasSource(i) /\ g = [f EXCEPT ![PathOf(u, i)] = content])
    BY DEF WithFile, WithoutFile
<1>3. HasSource(i) => g = [f EXCEPT ![PathOf(u, i)] = content]
    BY DEF WithFile, WithoutFile
<1> QED
    BY <1>1, <1>2, <1>3

\* A new profile with its file.
LEMMA NewBelongs ==
  ASSUME Sound, NEW u \in Uids, doc.items[u] = NoItem, NEW i \in Definitions,
         NEW content, HasSource(i) => content \in Contents /\ FileOf(u, i, content),
         NEW g, g = WithFile(files, u, i, content)
  PROVE  /\ g \in [Paths -> Contents]
         /\ \A p \in Paths : p[1] # u => g[p] = files[p]
         /\ \A x \in Extensions : <<u, x>> \notin late => Belongs(u, i, x, g[<<u, x>>])
<1>1. AllBelong(doc, files, late) /\ files \in [Paths -> Contents]
    BY FilesForm DEF Sound, Typed
<1>2. /\ g \in [Paths -> Contents]
      /\ \A p \in Paths : p[1] # u => g[p] = files[p]
      /\ HasSource(i) => g[PathOf(u, i)] = content
      /\ \A p \in Paths : ~ HasSource(i) \/ p # PathOf(u, i) => g[p] = files[p]
    BY <1>1, FileSteps
<1>3. ASSUME NEW x \in Extensions, <<u, x>> \notin late
      PROVE  Belongs(u, i, x, g[<<u, x>>])
    <2>1. files[<<u, x>>] = "absent"
        BY <1>1, <1>3 DEF AllBelong, Belongs
    <2>2. CASE HasSource(i) /\ CanonicalExtension(i) = x
        <3>1. PathOf(u, i) = <<u, x>>
            BY <2>2 DEF PathOf
        <3> QED
            BY <1>2, <2>2, <3>1, Fields DEF Belongs
    <2>3. CASE ~ (HasSource(i) /\ CanonicalExtension(i) = x)
        <3>1. <<u, x>> \in Paths /\ (~ HasSource(i) \/ <<u, x>> # PathOf(u, i))
            BY <2>3, PathFacts DEF PathOf
        <3> QED
            BY <1>2, <2>1, <2>3, <3>1 DEF Belongs
    <2> QED
        BY <2>2, <2>3
<1> QED
    BY <1>2, <1>3

\* What resource_for_definition writes is what the definition calls for.
LEMMA ResourceIs ==
  ASSUME NEW i \in Definitions, HasSource(i), NEW u
  PROVE  Resource(i) \in Contents /\ FileOf(u, i, Resource(i))
<1>1. i.source \in {"managed", "symlink", "mirror", "remote"}
    BY Fields DEF HasSource
<1> QED
    BY <1>1 DEF Resource, FileOf, Contents

\* A new profile is sound.
LEMMA SoundNew ==
  ASSUME Sound, NEW u \in Uids, ~ HasItem(doc, u), NEW i \in Definitions,
         NEW content, HasSource(i) => content \in Contents /\ FileOf(u, i, content),
         NEW a, NEW w, Persist(AppendItem(doc, u, i), a, w),
         files' = WithFile(files, u, i, content), UNCHANGED <<saving, late>>, Handling'
  PROVE  Sound'
<1> DEFINE next == AppendItem(doc, u, i)
<1>1. SetItem(doc, next, u, i) /\ doc.items[u] = NoItem
    BY AppendItemIs DEF Sound, Typed, HasItem
<1>2. Persist(next, a, w)
    OBVIOUS
<1>3. /\ files' \in [Paths -> Contents]
      /\ \A p \in Paths : p[1] # u => files'[p] = files[p]
      /\ \A x \in Extensions : <<u, x>> \notin late => Belongs(u, i, x, files'[<<u, x>>])
    BY <1>1, NewBelongs
<1> HIDE DEF next
<1> QED
    BY <1>1, <1>2, <1>3, OneProfile DEF Sound, Typed

\* An added profile keeps soundness.
LEMMA SoundAdd ==
  ASSUME Sound, UNCHANGED editor, NEW i \in AddDefinitions, CreateProfile(i)
  PROVE  Sound'
<1> USE DEF editor
<1>1. i \in Definitions /\ Free
    BY DefinitionsAssumption DEF CreateProfile, Add
<1>2. PICK u \in GenerateUid(i) :
        CommitStateFirst(AppendItem(doc, u, i), Rule("never"),
                         WithFile(files, u, i, Resource(i)), u)
    BY DEF CreateProfile, Add
<1>3. u \in Uids /\ ~ HasItem(doc, u)
    BY DEF GenerateUid, Uids
<1>4. /\ Persist(AppendItem(doc, u, i), Rule("never"), "reply")
      /\ files' = WithFile(files, u, i, Resource(i))
    BY <1>2 DEF CommitStateFirst
<1>5. Handling'
    BY <1>1 DEF CreateProfile, Add, Free, Handling
<1> QED
    BY <1>1, <1>3, <1>4, <1>5, ResourceIs, SoundNew

\* A deletion keeps soundness.
LEMMA SoundDelete ==
  ASSUME Sound, UNCHANGED editor, NEW u \in Uids, Delete(u) PROVE Sound'
<1> USE DEF editor
<1> DEFINE next == RemoveItem(doc, u)
           i    == doc.items[u]
<1>0. IsDocument(doc) /\ files \in [Paths -> Contents] /\ AllBelong(doc, files, late)
    BY FilesForm DEF Sound, Typed
<1>1. /\ Persist(next, Rule("never"), "reply") /\ files' = WithoutFile(files, u, i)
      /\ HasItem(doc, u) /\ UNCHANGED busy
    BY DEF Delete, CommitStateFirst
<1>2. SetItem(doc, next, u, NoItem)
    BY <1>0, RemoveItemIs
<1>3. i \in Definitions /\ "absent" \in Contents
    BY <1>0, <1>1, ItemIs DEF Contents
<1>4. /\ files' \in [Paths -> Contents]
      /\ \A p \in Paths : p[1] # u => files'[p] = files[p]
      /\ HasSource(i) => files'[PathOf(u, i)] = "absent"
      /\ \A p \in Paths : ~ HasSource(i) \/ p # PathOf(u, i) => files'[p] = files[p]
    <2> HIDE DEF i
    <2> QED
        BY <1>0, <1>1, <1>3, FileSteps
<1>5. ASSUME NEW x \in Extensions, <<u, x>> \notin late
      PROVE  Belongs(u, NoItem, x, files'[<<u, x>>])
    <2>1. <<u, x>> \in Paths /\ Belongs(u, i, x, files[<<u, x>>])
        BY <1>0, <1>5, PathFacts DEF AllBelong
    <2>2. CASE HasSource(i) /\ PathOf(u, i) = <<u, x>>
        BY <1>4, <2>2 DEF Belongs
    <2>3. CASE ~ (HasSource(i) /\ PathOf(u, i) = <<u, x>>)
        BY <1>4, <2>1, <2>3 DEF Belongs, PathOf
    <2> QED
        BY <2>2, <2>3
<1> HIDE DEF next
<1> QED
    BY <1>1, <1>2, <1>4, <1>5, OneProfile DEF Sound, Typed, Handling

\* The definition a replacement stores.
LEMMA ReplacementIs ==
  ASSUME NEW old \in Definitions, NEW i \in Definitions
  PROVE  /\ Replacement(old, i) \in Definitions
         /\ SameShape(i, Replacement(old, i))
<1> DEFINE s == IF RetainsMaterialization(old, i) THEN old.stamp ELSE 0
           n == old.name
<1>1. Replacement(old, i) = [i EXCEPT !.stamp = s, !.name = n]
    BY DEF Replacement
<1>2. s \in Nat /\ n \in {"derived", "server", "user"}
    BY Fields
<1> HIDE DEF s, n
<1>3. i.every \in {0} \union Intervals
    BY Fields
<1> QED
    BY <1>1, <1>2, <1>3, Edited

\* The files after a replacement are those of the new definition.
LEMMA ReplacedBelongs ==
  ASSUME Sound, NEW u \in Uids, NEW old \in Definitions, old = doc.items[u],
         NEW i \in Definitions, NEW g, g = ReplacedFiles(u, old, i)
  PROVE  /\ g \in [Paths -> Contents]
         /\ \A p \in Paths : p[1] # u => g[p] = files[p]
         /\ \A x \in Extensions : <<u, x>> \notin late => Belongs(u, i, x, g[<<u, x>>])
<1>0. files \in [Paths -> Contents] /\ AllBelong(doc, files, late) /\ old # NoItem
    BY FilesForm, Fields DEF Sound, Typed
<1>1. \A x \in Extensions : <<u, x>> \notin late => Belongs(u, old, x, files[<<u, x>>])
    BY <1>0 DEF AllBelong
<1>2. CASE RetainsMaterialization(old, i)
    <2>1. g = files
        BY <1>2 DEF ReplacedFiles
    <2>2. /\ HasSource(old) /\ HasSource(i) /\ i # NoItem
          /\ CanonicalExtension(old) = CanonicalExtension(i)
          /\ old.source = i.source /\ (old.source = "remote" => old.url = i.url)
        BY <1>2, Fields DEF RetainsMaterialization
    <2>3. i.source \in {"managed", "symlink", "mirror", "remote"}
        BY <2>2, Fields DEF HasSource
    <2>4. \A content : FileOf(u, old, content) => FileOf(u, i, content)
        BY <2>2, <2>3 DEF FileOf
    <2>5. \A x \in Extensions : <<u, x>> \notin late => Belongs(u, i, x, files[<<u, x>>])
        BY <1>0, <1>1, <2>2, <2>4 DEF Belongs
    <2> QED
        BY <1>0, <2>1, <2>5
<1>3. CASE ~ RetainsMaterialization(old, i)
    <2> DEFINE moved == HasSource(old) /\ (~ HasSource(i) \/ PathOf(u, old) # PathOf(u, i))
               cleaned == IF moved THEN WithoutFile(files, u, old) ELSE files
    <2>1. g = WithFile(cleaned, u, i, Resource(i))
        BY <1>3 DEF ReplacedFiles
    <2>2. /\ cleaned \in [Paths -> Contents]
          /\ \A p \in Paths : p[1] # u => cleaned[p] = files[p]
          /\ moved => cleaned[PathOf(u, old)] = "absent"
          /\ \A p \in Paths : ~ moved \/ p # PathOf(u, old) => cleaned[p] = files[p]
        <3>1. CASE moved
            <4>1. cleaned = WithoutFile(files, u, old) /\ "absent" \in Contents
                BY <3>1 DEF Contents
            <4> HIDE DEF cleaned
            <4>2. /\ cleaned \in [Paths -> Contents]
                  /\ \A p \in Paths : p[1] # u => cleaned[p] = files[p]
                  /\ HasSource(old) => cleaned[PathOf(u, old)] = "absent"
                  /\ \A p \in Paths :
                       ~ HasSource(old) \/ p # PathOf(u, old) => cleaned[p] = files[p]
                BY <1>0, <4>1, FileSteps
            <4> QED
                BY <3>1, <4>2
        <3>2. CASE ~ moved
            BY <1>0, <3>2
        <3> QED
            BY <3>1, <3>2
    <2> HIDE DEF cleaned
    <2>3. /\ g \in [Paths -> Contents]
          /\ \A p \in Paths : p[1] # u => g[p] = cleaned[p]
          /\ HasSource(i) => g[PathOf(u, i)] = Resource(i)
          /\ \A p \in Paths : ~ HasSource(i) \/ p # PathOf(u, i) => g[p] = cleaned[p]
        BY <2>1, <2>2, ResourceIs, FileSteps
    <2>4. ASSUME NEW x \in Extensions, <<u, x>> \notin late
          PROVE  Belongs(u, i, x, g[<<u, x>>])
        <3>1. <<u, x>> \in Paths
            BY PathFacts
        <3>2. CASE HasSource(i) /\ CanonicalExtension(i) = x
            <4>1. g[<<u, x>>] = Resource(i)
                BY <2>3, <3>2 DEF PathOf
            <4> QED
                BY <3>2, <4>1, ResourceIs, Fields DEF Belongs
        <3>3. CASE ~ (HasSource(i) /\ CanonicalExtension(i) = x)
            <4>1. g[<<u, x>>] = cleaned[<<u, x>>]
                BY <2>3, <3>1, <3>3 DEF PathOf
            <4>2. cleaned[<<u, x>>] = "absent"
                <5>1. CASE HasSource(old) /\ CanonicalExtension(old) = x
                    BY <2>2, <3>3, <5>1 DEF PathOf
                <5>2. CASE ~ (HasSource(old) /\ CanonicalExtension(old) = x)
                    BY <1>1, <2>2, <2>4, <3>1, <5>2 DEF Belongs, PathOf
                <5> QED
                    BY <5>1, <5>2
            <4> QED
                BY <3>3, <4>1, <4>2 DEF Belongs
        <3> QED
            BY <3>2, <3>3
    <2> QED
        BY <2>2, <2>3, <2>4
<1> QED
    BY <1>2, <1>3

\* A replacement, committed by whichever handler has read what it needs.
LEMMA SoundReplaced ==
  ASSUME Sound, NEW u \in Uids, HasItem(doc, u), NEW i \in Definitions,
         NEW new, new = Replacement(doc.items[u], i),
         NEW a, NEW w, Persist(ReplaceItem(doc, u, new), a, w),
         files' = ReplacedFiles(u, doc.items[u], new), UNCHANGED <<saving, late>>, Handling'
  PROVE  Sound'
<1> DEFINE next == ReplaceItem(doc, u, new)
           old  == doc.items[u]
<1>1. old \in Definitions
    BY ItemIs DEF Sound, Typed
<1>2. new \in Definitions
    BY <1>1, ReplacementIs
<1>3. SetItem(doc, next, u, new)
    BY <1>2, ReplaceItemIs DEF Sound, Typed
<1>4. Persist(next, a, w)
    OBVIOUS
<1>5. /\ files' \in [Paths -> Contents]
      /\ \A p \in Paths : p[1] # u => files'[p] = files[p]
      /\ \A x \in Extensions : <<u, x>> \notin late => Belongs(u, new, x, files'[<<u, x>>])
    BY <1>1, <1>2, ReplacedBelongs
<1> HIDE DEF next
<1> QED
    BY <1>3, <1>4, <1>5, OneProfile DEF Sound, Typed

\* A replaced definition keeps soundness.
LEMMA SoundReplace ==
  ASSUME Sound, UNCHANGED editor, NEW u \in Uids, NEW i \in AddDefinitions,
         ReplaceDefinition(u, i) \/ ReadMirror(u, i)
  PROVE  Sound'
<1> USE DEF editor
<1>0. i \in Definitions
    BY DefinitionsAssumption
<1>1. CASE ReplaceDefinition(u, i)
    <2> DEFINE new == Replacement(doc.items[u], i)
    <2>1. /\ HasItem(doc, u) /\ Persist(ReplaceItem(doc, u, new), Touched(u), "reply")
          /\ files' = ReplacedFiles(u, doc.items[u], new) /\ UNCHANGED busy
        BY <1>1 DEF ReplaceDefinition
    <2>2. Handling'
        BY <2>1 DEF Sound, Typed, Handling
    <2> HIDE DEF new
    <2> QED
        BY <1>0, <2>1, <2>2, SoundReplaced DEF new
<1>2. CASE ReadMirror(u, i)
    <2>1. Handling'
        BY <1>0, <1>2 DEF ReadMirror, NeedsRead, Handling
    <2> QED
        BY <1>2, <2>1, NothingStored DEF ReadMirror, Sound, Typed
<1> QED
    BY <1>1, <1>2

\* Binding the mirror of a profile keeps soundness.
LEMMA SoundBind == ASSUME Sound, UNCHANGED editor, BindMirror PROVE Sound'
<1> USE DEF editor
<1> DEFINE u   == busy.uid
           i   == busy.item
           old == doc.items[u]
<1>1. u \in Uids /\ i \in Definitions /\ i.source = "mirror" /\ Handling'
    BY DEF BindMirror, Sound, Typed, Handling, Idle
<1>2. CASE UNCHANGED <<doc, files, timers, watchers>>
    BY <1>1, <1>2, NothingStored DEF Sound, Typed
<1>3. CASE ~ UNCHANGED <<doc, files, timers, watchers>>
    <2>1. CASE old = NoItem
        <3>1. /\ Persist(AppendItem(doc, u, i), Rule("never"), "reply")
              /\ files' = WithFile(files, u, i, "mirror")
            BY <1>3, <2>1 DEF BindMirror
        <3>2. "mirror" \in Contents /\ FileOf(u, i, "mirror") /\ ~ HasItem(doc, u)
            BY <1>1, <2>1 DEF Contents, FileOf, HasItem
        <3> HIDE DEF u, i
        <3> QED
            BY <1>1, <3>1, <3>2, SoundNew
    <2>2. CASE old # NoItem
        <3> DEFINE new == Replacement(old, i)
        <3>1. /\ Persist(ReplaceItem(doc, u, new), Touched(u), "reply")
              /\ files' = ReplacedFiles(u, old, new) /\ HasItem(doc, u)
            BY <1>1, <1>3, <2>2 DEF BindMirror, HasItem
        <3> HIDE DEF u, i, new
        <3> QED
            BY <1>1, <3>1, SoundReplaced DEF new
    <2> QED
        BY <2>1, <2>2
<1> QED
    BY <1>2, <1>3

\* The start of a refresh keeps soundness.
LEMMA SoundStart ==
  ASSUME Sound, UNCHANGED editor, NEW u \in Uids,
         (\E every \in Intervals : RefreshRemote(u, every)) \/ ScheduledRefresh(u)
         \/ CallerLeaves(u)
  PROVE  Sound'
<1> USE DEF editor
<1>0. IsDocument(doc)
    BY DEF Sound, Typed
<1>1. CASE UNCHANGED <<doc, files, timers, watchers, busy>>
    BY <1>1, NothingStored DEF Sound, Typed, Handling
<1>2. ASSUME NEW every \in Intervals, RefreshRemote(u, every),
             ~ UNCHANGED <<doc, files, timers, watchers, busy>>
      PROVE  Sound'
    <2> DEFINE i == [doc.items[u] EXCEPT !.every = every]
    <2>1. HasItem(doc, u) /\ Persist(ReplaceItem(doc, u, i), Rule("never"), "reply") /\ Quiet
        BY <1>2 DEF RefreshRemote, Refresh, Quiet
    <2>2. doc.items[u] \in Definitions /\ every \in {0} \union Intervals
        BY <1>0, <2>1, ItemIs
    <2>3. i \in Definitions /\ SameShape(doc.items[u], i)
        BY <2>2, Edited
    <2> HIDE DEF i
    <2> QED
        BY <2>1, <2>3, SoundEdit
<1>3. CASE ScheduledRefresh(u) \/ CallerLeaves(u)
    BY <1>1, <1>3 DEF ScheduledRefresh, Refresh, CallerLeaves
<1> QED
    BY <1>1, <1>2, <1>3

\* The stored profile after a download, and the one the download was for.
LEMMA RefreshedIs ==
  ASSUME IsDocument(doc), NEW u, HasItem(doc, u), NEW server
  PROVE  \E i \in Definitions :
           /\ Refreshed(u, server) = ReplaceItem(doc, u, i)
           /\ SameShape(doc.items[u], i)
<1> DEFINE old == doc.items[u]
           mid == Now(old)
           n   == SyncedName(mid.name, server)
           new == [mid EXCEPT !.name = n]
           s   == doc.revision + 1
<1>1. old \in Definitions /\ s \in Nat
    BY ItemIs
<1>2. mid \in Definitions /\ SameShape(old, mid)
    <2>1. mid = [old EXCEPT !.stamp = s]
        BY DEF Now
    <2> HIDE DEF old, mid, s
    <2>2. 0 \in {0} \union Intervals /\ "user" \in {"derived", "server", "user"}
        OBVIOUS
    <2> QED
        BY <1>1, <2>1, <2>2, Edited
<1>3. Refreshed(u, server) = ReplaceItem(doc, u, new)
    BY DEF Refreshed
<1> HIDE DEF mid
<1>4. n \in {"derived", "server", "user"}
    BY <1>2, Fields DEF SyncedName
<1>5. new \in Definitions /\ SameShape(mid, new)
    <2> HIDE DEF n
    <2>2. 0 \in {0} \union Intervals /\ 0 \in Nat
        OBVIOUS
    <2> QED
        BY <1>2, <1>4, <2>2, Edited
<1> HIDE DEF new
<1>6. SameShape(old, new)
    BY <1>2, <1>5 DEF SameShape
<1> QED
    BY <1>3, <1>5, <1>6

\* What a fingerprint tells apart.
LEMMA FingerprintIs ==
  ASSUME NEW i \in Definitions
  PROVE  LET j == Fingerprint(i) IN
         j.kind = i.kind /\ j.source = i.source /\ j.url = i.url
BY DEF Fingerprint, Definitions

\* A file is rewritten with bytes its profile calls for.
LEMMA SoundRewritten ==
  ASSUME Sound, NEW u, HasItem(doc, u), NEW i \in Definitions, SameShape(doc.items[u], i),
         NEW a, NEW w, Persist(ReplaceItem(doc, u, i), a, w),
         NEW content \in Contents, HasSource(i), FileOf(u, i, content),
         files' = [files EXCEPT ![PathOf(u, i)] = content],
         UNCHANGED <<saving, late>>, Handling'
  PROVE  Sound'
<1> DEFINE next == ReplaceItem(doc, u, i)
<1>0. /\ u \in Uids /\ files \in [Paths -> Contents] /\ AllBelong(doc, files, late)
      /\ IsDocument(doc)
    BY FilesForm DEF HasItem, Sound, Typed
<1>1. SetItem(doc, next, u, i)
    BY <1>0, ReplaceItemIs
<1>2. Persist(next, a, w)
    OBVIOUS
<1>3. /\ files' \in [Paths -> Contents]
      /\ \A p \in Paths : p[1] # u => files'[p] = files[p]
      /\ files'[PathOf(u, i)] = content
      /\ \A p \in Paths : p # PathOf(u, i) => files'[p] = files[p]
    BY <1>0, PathFacts, ExtensionIs DEF PathOf
<1>4. ASSUME NEW x \in Extensions, <<u, x>> \notin late
      PROVE  Belongs(u, i, x, files'[<<u, x>>])
    <2>1. <<u, x>> \in Paths /\ Belongs(u, i, x, files[<<u, x>>])
        BY <1>0, <1>4, PathFacts, ShapeBelongs DEF AllBelong
    <2>2. CASE CanonicalExtension(i) = x
        <3>1. PathOf(u, i) = <<u, x>>
            BY <2>2 DEF PathOf
        <3> QED
            BY <1>3, <2>2, <3>1, Fields DEF Belongs
    <2>3. CASE CanonicalExtension(i) # x
        <3>1. files'[<<u, x>>] = files[<<u, x>>]
            BY <1>3, <2>1, <2>3 DEF PathOf
        <3> QED
            BY <2>1, <3>1
    <2> QED
        BY <2>2, <2>3
<1> HIDE DEF next
<1> QED
    BY <1>0, <1>1, <1>2, <1>3, <1>4, OneProfile DEF Sound, Typed

\* A download that is taken over keeps soundness.
LEMMA SoundFetched ==
  ASSUME Sound, UNCHANGED editor, NEW t,
         CommitRefreshed(t) \/ FetchPanics(t)
  PROVE  Sound'
<1> USE DEF editor
<1>0. IsDocument(doc) /\ UNCHANGED <<busy, saving, late>>
    BY DEF Sound, Typed, CommitRefreshed, FetchPanics
<1>1. CASE UNCHANGED <<doc, files, timers, watchers>>
    BY <1>0, <1>1, NothingStored DEF Sound, Typed, Handling
<1>2. CASE CommitRefreshedOk(t)
    <2> DEFINE u   == t.uid
               old == doc.items[u]
    <2>1. HasItem(doc, u) /\ Fingerprint(old) = t.for /\ IsRemote(old)
        BY <1>2 DEF CommitRefreshedOk, Fence
    <2>2. old \in Definitions
        BY <1>0, <2>1, ItemIs
    <2>3. t.for.kind = old.kind /\ t.for.source = old.source /\ t.for.url = old.url
        BY <2>1, <2>2, FingerprintIs
    <2>4. PICK answer \in Fetch(t.for.url) :
            /\ ValidFetchedContent(t.for, answer.content)
            /\ Persist(Refreshed(u, answer.named), Touched(u), pending[u])
            /\ files' = [files EXCEPT ![PathOf(u, t.for)] = answer.content]
        BY <1>2 DEF CommitRefreshedOk
    <2>5. PICK i \in Definitions : /\ Refreshed(u, answer.named) = ReplaceItem(doc, u, i)
                                   /\ SameShape(old, i)
        BY <1>0, <2>1, RefreshedIs
    <2>6. i.source = "remote" /\ i.kind = old.kind /\ i.url = old.url
        BY <2>1, <2>2, <2>5, Fields DEF IsRemote, SameShape
    <2>7. answer.content = t.for.url
        BY <2>4 DEF ValidFetchedContent, Fetch
    <2>8. /\ PathOf(u, t.for) = PathOf(u, i) /\ FileOf(u, i, answer.content)
          /\ HasSource(i)
        BY <2>3, <2>6, <2>7, Fields DEF PathOf, CanonicalExtension, FileOf, HasSource
    <2>9. answer.content \in Contents
        BY <2>3, <2>6, <2>7, Fields DEF Contents
    <2> HIDE DEF u, old
    <2> QED
        BY <1>0, <2>1, <2>4, <2>5, <2>8, <2>9, SoundRewritten DEF old, Sound, Typed, Handling
<1> QED
    BY <1>1, <1>2 DEF CommitRefreshed, FetchPanics

\* The profile an import creates.
LEMMA ImportedIs ==
  ASSUME IsDocument(doc), NEW url \in Urls, NEW every \in Intervals, NEW explicit \in BOOLEAN,
         NEW suggested \in SuggestedIntervals, NEW name \in {"derived", "user"}, NEW server,
         NEW i, i = Now(RemoteImportDefinition(url, ImportInterval(every, explicit, suggested),
                                               SyncedName(name, server)))
  PROVE  i \in Definitions /\ i.source = "remote" /\ i.url = url /\ i.kind = "file"
<1> DEFINE e == ImportInterval(every, explicit, suggested)
           n == SyncedName(name, server)
           s == doc.revision + 1
<1>1. e \in {0} \union Intervals /\ n \in {"derived", "server", "user"} /\ s \in Nat
    BY DEF ImportInterval, SuggestedIntervals, SyncedName, IsDocument
<1>2. i = [kind |-> "file", source |-> "remote", url |-> url, every |-> e, base |-> NoUid,
           extend |-> {}, transforms |-> {}, stamp |-> s, name |-> n]
    BY DEF Now, RemoteImportDefinition
<1> HIDE DEF e, n, s
<1> QED
    BY <1>1, <1>2 DEF Definitions

\* An import keeps soundness.
LEMMA SoundImport ==
  ASSUME Sound, UNCHANGED editor,
         ImportRemote \/ \E p \in imports : ImporterLeaves(p) \/ CommitImported(p)
  PROVE  Sound'
<1> USE DEF editor
<1>0. UNCHANGED <<busy, saving, late>>
    BY DEF ImportRemote, ImporterLeaves, CommitImported
<1>1. CASE UNCHANGED <<doc, files, timers, watchers>>
    BY <1>0, <1>1, NothingStored DEF Sound, Typed, Handling
<1>2. CASE \E p \in imports : CommitImportedOk(p)
    <2>0. PICK url \in Urls, every \in Intervals, explicit \in BOOLEAN,
               name \in {"derived", "user"} :
            \E answer \in Fetch(url), u \in GenerateUid([kind |-> "file"]) :
              LET i == Now(RemoteImportDefinition(
                             url, ImportInterval(every, explicit, answer.suggested),
                             SyncedName(name, answer.named))) IN
              /\ ValidFetchedContent(i, answer.content)
              /\ CommitStateFirst(AppendItem(doc, u, i), Rule("never"),
                                  WithFile(files, u, i, answer.content), u)
        BY <1>2 DEF CommitImportedOk
    <2>1. PICK answer \in Fetch(url), u \in GenerateUid([kind |-> "file"]) :
            LET i == Now(RemoteImportDefinition(
                           url, ImportInterval(every, explicit, answer.suggested),
                           SyncedName(name, answer.named))) IN
            /\ ValidFetchedContent(i, answer.content)
            /\ CommitStateFirst(AppendItem(doc, u, i), Rule("never"),
                                WithFile(files, u, i, answer.content), u)
        BY <2>0
    <2> DEFINE i == Now(RemoteImportDefinition(
                          url, ImportInterval(every, explicit, answer.suggested),
                          SyncedName(name, answer.named)))
    <2>2. i \in Definitions /\ i.source = "remote" /\ i.url = url
        <3>1. answer.suggested \in SuggestedIntervals
            BY DEF Fetch
        <3> QED
            BY <3>1, ImportedIs DEF Sound, Typed
    <2>3. /\ ValidFetchedContent(i, answer.content)
          /\ Persist(AppendItem(doc, u, i), Rule("never"), "reply")
          /\ files' = WithFile(files, u, i, answer.content)
        BY <2>1 DEF CommitStateFirst
    <2> HIDE DEF i
    <2>4. answer.content = url
        BY <2>3 DEF ValidFetchedContent, Fetch
    <2>5. answer.content \in Contents /\ FileOf(u, i, answer.content)
        BY <2>2, <2>4 DEF Contents, FileOf
    <2>6. u \in Uids /\ ~ HasItem(doc, u)
        BY DEF GenerateUid, Uids
    <2>7. Handling'
        BY <1>0 DEF Sound, Typed, Handling
    <2> QED
        BY <1>0, <2>2, <2>3, <2>5, <2>6, <2>7, SoundNew
<1> QED
    BY <1>1, <1>2 DEF ImportRemote, ImporterLeaves, CommitImported

\* The time of an update.
LEMMA NowIs ==
  ASSUME IsDocument(doc), NEW i \in Definitions
  PROVE  Now(i) \in Definitions /\ SameShape(i, Now(i))
<1> DEFINE s == doc.revision + 1
           j == Now(i)
<1>1. j = [i EXCEPT !.stamp = s]
    BY DEF Now
<1>2. s \in Nat /\ i.every \in {0} \union Intervals /\ i.name \in {"derived", "server", "user"}
    BY Fields DEF IsDocument
<1> HIDE DEF s, j
<1>3. j \in Definitions /\ SameShape(i, j)
    BY <1>1, <1>2, Edited
<1> QED
    BY <1>3 DEF j

\* A followed file event keeps soundness.
LEMMA SoundFollow == ASSUME Sound, UNCHANGED editor, Follow PROVE Sound'
<1> USE DEF editor
<1>0. IsDocument(doc) /\ Handling
    BY DEF Sound, Typed
<1>1. CASE TargetChanges
    BY <1>1, NothingStored DEF TargetChanges, Sound, Typed, Handling
<1>2. ASSUME NEW u \in Uids, ExternalFileChanged(u) PROVE Sound'
    <2> DEFINE i == Now(doc.items[u])
    <2>1. Handling'
        <3>1. CASE UNCHANGED busy
            BY <1>0, <3>1 DEF Handling
        <3>2. CASE ~ UNCHANGED busy
            <4>1. /\ IsExternal(doc.items[u]) /\ doc.items[u].source = "mirror"
                  /\ busy' = [op |-> "mirror", uid |-> u, item |-> doc.items[u],
                              version |-> target]
                BY <1>2, <3>2 DEF ExternalFileChanged, SymlinkChanged, MirrorChanged
            <4>2. doc.items[u] \in Definitions
                BY <1>0, <4>1 DEF IsExternal, IsDocument
            <4> QED
                BY <4>1, <4>2 DEF Handling
        <3> QED
            BY <3>1, <3>2
    <2>2. CASE UNCHANGED <<doc, timers, watchers>>
        BY <1>2, <2>1, <2>2, NothingStored DEF ExternalFileChanged, Sound, Typed
    <2>3. CASE ~ UNCHANGED <<doc, timers, watchers>>
        <3>1. /\ IsExternal(doc.items[u]) /\ UNCHANGED <<files, busy>>
              /\ Persist(ReplaceItem(doc, u, i), Touched(u), "reply")
            BY <1>2, <2>3 DEF ExternalFileChanged, SymlinkChanged, MirrorChanged
        <3>2. HasItem(doc, u) /\ doc.items[u] \in Definitions
            BY <1>0, <3>1 DEF IsExternal, HasItem, IsDocument
        <3>3. i \in Definitions /\ SameShape(doc.items[u], i)
            BY <1>0, <3>2, NowIs
        <3> HIDE DEF i
        <3> QED
            BY <3>1, <3>2, <3>3, SoundEdit DEF Quiet
    <2> QED
        BY <2>2, <2>3
<1>3. CASE CommitMirror
    <2>1. /\ busy.uid \in Uids /\ busy.item \in Definitions /\ busy.item.source = "mirror"
          /\ Handling'
        BY <1>0, <1>3 DEF CommitMirror, Handling, Idle
    <2>2. CASE UNCHANGED <<doc, files, timers, watchers>>
        BY <2>1, <2>2, NothingStored DEF Sound, Typed
    <2>3. CASE ~ UNCHANGED <<doc, files, timers, watchers>>
        <3> DEFINE u == busy.uid
                   i == Now(busy.item)
        <3>1. /\ doc.items[u] = busy.item
              /\ Persist(ReplaceItem(doc, u, i), Touched(u), "reply")
              /\ files' = [files EXCEPT ![PathOf(u, busy.item)] = "mirror"]
            BY <1>3, <2>3 DEF CommitMirror
        <3>2. i \in Definitions /\ SameShape(busy.item, i) /\ busy.item # NoItem
            BY <1>0, <2>1, NowIs, Fields
        <3>3. i.source = "mirror" /\ i.kind = busy.item.kind /\ HasItem(doc, u)
            BY <2>1, <3>1, <3>2 DEF SameShape, HasItem
        <3>4. /\ PathOf(u, busy.item) = PathOf(u, i) /\ FileOf(u, i, "mirror")
              /\ HasSource(i) /\ "mirror" \in Contents
            BY <3>2, <3>3, Fields DEF PathOf, CanonicalExtension, FileOf, HasSource, Contents
        <3> HIDE DEF u, i
        <3> QED
            BY <2>1, <3>1, <3>2, <3>3, <3>4, SoundRewritten
    <2> QED
        BY <2>2, <2>3
<1> QED
    BY <1>1, <1>2, <1>3 DEF Follow

\* The editor writes a managed file, or one that has changed hands.
LEMMA SoundSave == ASSUME Sound, SaveProfileFile PROVE Sound'
<1>0. /\ UNCHANGED <<doc, timers, watchers, busy>>
      /\ IsDocument(doc') /\ DocumentValid' /\ SchedulesMatch' /\ Handling'
    BY Refused DEF SaveProfileFile, Sound, Typed, Handling
<1>1. ASSUME NEW u \in Uids, ChooseFile(u) PROVE Sound'
    <2>1. saving' \in Paths /\ UNCHANGED <<files, late>>
        BY <1>1, PathFacts, ExtensionIs DEF ChooseFile, PathOf
    <2>2. FilesBelong'
        BY <1>0, <2>1 DEF FilesBelong, Sound
    <2> QED
        BY <1>0, <2>1, <2>2 DEF Sound, Typed
<1>2. CASE WriteFile
    <2> DEFINE u == saving[1]
               i == doc.items[u]
    <2>0. AllBelong(doc, files, late) /\ files \in [Paths -> Contents]
        BY FilesForm DEF Sound, Typed
    <2>1. saving \in Paths /\ u \in Uids /\ saving = <<u, saving[2]>>
        BY <1>2, PathFacts DEF WriteFile, Sound, Typed
    <2>2. /\ files' \in [Paths -> Contents] /\ files'[saving] = "local"
          /\ \A p \in Paths : p # saving => files'[p] = files[p]
        BY <1>2, <2>0, <2>1 DEF WriteFile, Contents
    <2>3. /\ late \subseteq late'
          /\ saving \notin late' =>
               i # NoItem /\ i.source = "managed" /\ PathOf(u, i) = saving
        BY <1>2 DEF WriteFile
    <2>4. ASSUME NEW v \in Uids, NEW x \in Extensions, <<v, x>> \notin late'
          PROVE  Belongs(v, doc.items[v], x, files'[<<v, x>>])
        <3>1. <<v, x>> \in Paths /\ Belongs(v, doc.items[v], x, files[<<v, x>>])
            BY <2>0, <2>3, <2>4, PathFacts DEF AllBelong
        <3>2. CASE <<v, x>> = saving
            <4>1. v = u /\ i # NoItem /\ i.source = "managed" /\ PathOf(u, i) = <<u, x>>
                BY <2>1, <2>3, <2>4, <3>2
            <4>2. i \in Definitions
                BY <2>1, <4>1, ItemIs DEF HasItem, Sound, Typed
            <4>3. HasSource(i) /\ CanonicalExtension(i) = x
                BY <4>1, <4>2, Fields DEF HasSource, PathOf
            <4> QED
                BY <2>2, <3>2, <4>1, <4>3 DEF Belongs, FileOf
        <3>3. CASE <<v, x>> # saving
            BY <2>2, <3>1, <3>3
        <3> QED
            BY <3>2, <3>3
    <2>5. FilesBelong'
        BY <1>0, <2>4, FilesForm DEF AllBelong
    <2>6. saving' = NoPath
        BY <1>2 DEF WriteFile
    <2> QED
        BY <1>0, <2>2, <2>5, <2>6 DEF Sound, Typed
<1> QED
    BY <1>1, <1>2 DEF SaveProfileFile

\* A restart of the application keeps soundness.
LEMMA SoundRestart == ASSUME Sound, Restart PROVE Sound'
<1>1. UNCHANGED <<doc, files, late>> /\ busy' = Idle /\ saving' = NoPath
    BY DEF Restart
<1>2. timers' = ReconcileTimers(doc) /\ watchers' \subseteq WatchPaths(doc)
    BY DEF Restart
<1>3. SchedulesMatch'
    BY <1>1, <1>2 DEF SchedulesMatch, ReconcileTimers
<1> QED
    BY <1>1, <1>3 DEF Sound, Typed, DocumentValid, FilesBelong, Handling

\* Every step keeps soundness.
LEMMA SoundNext == Sound /\ [Next]_vars => Sound'
<1> SUFFICES ASSUME Sound, [Next]_vars PROVE Sound'
    OBVIOUS
<1>1. CASE UNCHANGED vars
    BY <1>1, NothingStored DEF vars, Sound, Typed, Handling
<1>2. CASE EditDocument /\ UNCHANGED editor
    BY <1>2, SoundSelection, SoundPatch, SoundAdd, SoundDelete, SoundReplace, SoundBind
    DEF EditDocument
<1>3. CASE Download /\ UNCHANGED editor
    BY <1>3, SoundStart, SoundFetched, SoundImport DEF Download
<1> QED
    BY <1>1, <1>2, <1>3, SoundFollow, SoundSave, SoundRestart DEF Next

\* The initial states are sound.
LEMMA SoundInit == Init => Sound
<1> SUFFICES ASSUME Init PROVE Sound
    OBVIOUS
<1>1. IsDocument(doc) /\ DocumentValid
    BY DocumentsAssumption DEF Init, DocumentValid
<1>2. SchedulesMatch
    BY DEF Init, SchedulesMatch
<1> DEFINE FirstFile(p) == LET i == doc.items[p[1]] IN
                           IF HasItem(doc, p[1]) /\ HasSource(i) /\ PathOf(p[1], i) = p
                           THEN StartFile(doc, p[1], i) ELSE "absent"
<1>3. files = [p \in Paths |-> FirstFile(p)] /\ busy = Idle /\ saving = NoPath /\ late = {}
    BY DEF Init
<1>4. ASSUME NEW u \in Uids, NEW i \in Definitions, HasSource(i)
      PROVE  StartFile(doc, u, i) \in Contents /\ FileOf(u, i, StartFile(doc, u, i))
    <2>1. i.source \in {"managed", "symlink", "mirror", "remote"}
        BY <1>4, Fields DEF HasSource
    <2>2. CASE i.source = "remote"
        BY <2>2, Fields DEF StartFile, Contents, FileOf
    <2>3. CASE i.source # "remote"
        BY <1>4, <2>1, <2>3, ResourceIs DEF StartFile
    <2> QED
        BY <2>2, <2>3
<1>5. ASSUME NEW p \in Paths
      PROVE  /\ FirstFile(p) \in Contents
             /\ LET i == doc.items[p[1]] IN
                IF HasItem(doc, p[1]) /\ HasSource(i) /\ PathOf(p[1], i) = p
                THEN FileOf(p[1], i, FirstFile(p)) ELSE FirstFile(p) = "absent"
    <2>1. p[1] \in Uids /\ (HasItem(doc, p[1]) => doc.items[p[1]] \in Definitions)
        BY <1>1, PathFacts, ItemIs
    <2> QED
        BY <1>4, <2>1 DEF Contents
<1> HIDE DEF FirstFile
<1>6. files \in [Paths -> Contents] /\ FilesBelong
    BY <1>3, <1>5 DEF FilesBelong
<1> QED
    BY <1>1, <1>2, <1>3, <1>6 DEF Sound, Typed, Handling

\* Whatever order messages, downloads and file events arrive in, the committed
\* document passes its own validation.
THEOREM CommittedIsValid == Spec => []DocumentValid
<1>1. Sound => DocumentValid
    BY DEF Sound
<1> QED
    BY <1>1, SoundInit, SoundNext, PTL DEF Spec

\* The refresh timers are those of the committed document, and only external
\* profiles are watched, after every message and every start.
THEOREM SchedulesFollow == Spec => []SchedulesMatch
<1>1. Sound => SchedulesMatch
    BY DEF Sound
<1> QED
    BY <1>1, SoundInit, SoundNext, PTL DEF Spec

\* The bytes beside each committed profile are those its definition calls for,
\* except where a save of the editor landed after the profile changed hands.
THEOREM FilesAreOwned == Spec => []FilesBelong
<1>1. Sound => FilesBelong
    BY DEF Sound
<1> QED
    BY <1>1, SoundInit, SoundNext, PTL DEF Spec

-----------------------------------------------------------------------------
(* Watched files are followed.                                             *)

\* Beside ExternalFresh: while a handler waits for the content of a mirror, a
\* version it has not read has left its event, or is known to be missed.
Following ==
  /\ ExternalFresh
  /\ seen \in [Uids -> Nat] /\ target \in Nat
  /\ busy # Idle => busy.version \in Nat
  /\ busy.op = "mirror" /\ busy.uid \in WatchPaths(doc) /\ busy.version # target
       => busy.uid \in changed \union lag

\* A step that binds no profile to an external file and takes none up to date.
LEMMA FollowKept ==
  ASSUME Following, WatchPaths(doc') \subseteq WatchPaths(doc),
         UNCHANGED <<busy, target, seen>>,
         \A u \in WatchPaths(doc') : u \in changed \union lag => u \in changed' \union lag'
  PROVE  Following'
BY DEF Following, ExternalFresh

\* A step that brings u up to date, as the only one.
LEMMA FollowOne ==
  ASSUME Following, NEW u \in Uids, WatchPaths(doc') \subseteq WatchPaths(doc) \union {u},
         UNCHANGED target, NEW v \in Nat, seen' = [seen EXCEPT ![u] = v], busy' = Idle,
         \A w \in WatchPaths(doc') \ {u} :
           w \in changed \union lag \/ busy.uid = w => w \in changed' \union lag',
         u \in WatchPaths(doc') => v = target \/ u \in changed' \union lag'
  PROVE  Following'
<1>1. seen' \in [Uids -> Nat] /\ seen'[u] = v /\ \A w \in Uids \ {u} : seen'[w] = seen[w]
    BY DEF Following
<1>2. \A w \in WatchPaths(doc') : w \in Uids /\ (w # u => w \in WatchPaths(doc))
    BY DEF WatchPaths
<1>3. ExternalFresh'
    <2> SUFFICES ASSUME NEW w \in WatchPaths(doc'), w \notin changed' \union lag'
                 PROVE  seen'[w] = target'
        BY DEF ExternalFresh
    <2> QED
        BY <1>1, <1>2 DEF Following, ExternalFresh
<1> QED
    BY <1>1, <1>3 DEF Following, Idle

\* Documents of the same shape are watched alike.
LEMMA WatchShape ==
  ASSUME NEW d, NEW e, \A u \in Uids : SameShape(d.items[u], e.items[u])
  PROVE  WatchPaths(e) = WatchPaths(d)
BY ShapeSchedules DEF WatchPaths

\* The watch of one item.
LEMMA WatchItem ==
  ASSUME NEW d, IsDocument(d), NEW e, NEW u \in Uids, NEW i, SetItem(d, e, u, i)
  PROVE  WatchPaths(e) = IF IsExternal(i) THEN WatchPaths(d) \union {u}
                                          ELSE WatchPaths(d) \ {u}
<1>1. e.items[u] = i /\ \A v \in Uids \ {u} : e.items[v] = d.items[v]
    BY DEF SetItem, IsDocument
<1> QED
    BY <1>1 DEF WatchPaths

\* A commit that keeps the shape of every profile.
LEMMA FollowEdit ==
  ASSUME Sound, Following, NEW next, IsDocument(next), NEW a, NEW w, Persist(next, a, w),
         \A u \in Uids : SameShape(doc.items[u], next.items[u]),
         UNCHANGED <<busy, target, seen, changed>>, lag \subseteq lag'
  PROVE  Following'
<1>1. WatchPaths(doc') = WatchPaths(doc)
    BY Commits, WatchShape DEF Sound, Typed
<1> QED
    BY <1>1, FollowKept

\* An edit of one item keeps the external files followed.
LEMMA FollowOneEdit ==
  ASSUME Sound, Following, NEW u \in Uids, NEW i \in Definitions, SameShape(doc.items[u], i),
         NEW a, NEW w, Persist(ReplaceItem(doc, u, i), a, w)
  PROVE  WatchPaths(doc') = WatchPaths(doc)
<1> DEFINE next == ReplaceItem(doc, u, i)
<1>1. SetItem(doc, next, u, i) /\ IsDocument(doc)
    BY ReplaceItemIs DEF Sound, Typed
<1>2. Persist(next, a, w)
    OBVIOUS
<1> HIDE DEF next
<1>3. \A v \in Uids : SameShape(doc.items[v], next.items[v])
    BY <1>1, ShapeIsReflexive DEF SetItem, IsDocument
<1> QED
    BY <1>1, <1>2, <1>3, Commits, WatchShape DEF SetItem

\* A selection keeps them followed.
LEMMA FollowSelection ==
  ASSUME Sound, Following,
         \/ \E c \in ConfigUids \union {NoUid} : SetCurrent(c)
         \/ \E u \in Uids : TryAutoActivateIfNone(u)
         \/ \E S \in SUBSET TransformUids : SetGlobalTransforms(S)
         \/ SetValidFields
         \/ \E order \in SetToSeqs(Range(doc.order)) : Reorder(order)
  PROVE  Following'
<1>0. IsDocument(doc)
    BY DEF Sound, Typed
<1>1. ASSUME NEW next, IsDocument(next), next.items = doc.items,
             NEW a, NEW w, Persist(next, a, w),
             UNCHANGED <<busy, target, seen, changed>>, lag \subseteq lag'
      PROVE  Following'
    BY <1>1, ShapeIsReflexive, FollowEdit
<1>2. ASSUME NEW c \in ConfigUids \union {NoUid}, SetCurrent(c) PROVE Following'
    <2> DEFINE next == [doc EXCEPT !.current = c]
    <2>1. IsDocument(next) /\ next.items = doc.items
        BY <1>0, CurrentIs DEF Uids
    <2>2. /\ Persist(next, Rule("current"), "reply") /\ lag \subseteq lag'
          /\ UNCHANGED <<busy, target, seen, changed>>
        BY <1>2 DEF SetCurrent, RunStateWrite
    <2> HIDE DEF next
    <2> QED
        BY <1>1, <2>1, <2>2
<1>3. ASSUME NEW u \in Uids, TryAutoActivateIfNone(u) PROVE Following'
    <2> DEFINE next == [doc EXCEPT !.current = u]
    <2>1. IsDocument(next) /\ next.items = doc.items
        BY <1>0, CurrentIs
    <2>2. /\ \/ Persist(next, Rule("current"), "reply") \/ UNCHANGED doc
          /\ UNCHANGED <<busy, target, seen, changed>> /\ lag \subseteq lag'
        BY <1>3 DEF TryAutoActivateIfNone, SetCurrentIfNone
    <2> HIDE DEF next
    <2> QED
        BY <1>1, <2>1, <2>2, FollowKept
<1>4. ASSUME NEW S \in SUBSET TransformUids, SetGlobalTransforms(S) PROVE Following'
    <2> DEFINE next == [doc EXCEPT !.global = S]
    <2>1. IsDocument(next) /\ next.items = doc.items
        BY <1>0, GlobalIs DEF Uids
    <2>2. /\ Persist(next, Rule("global"), "reply") /\ lag \subseteq lag'
          /\ UNCHANGED <<busy, target, seen, changed>>
        BY <1>4 DEF SetGlobalTransforms, RunStateWrite
    <2> HIDE DEF next
    <2> QED
        BY <1>1, <2>1, <2>2
<1>5. CASE SetValidFields
    <2> DEFINE next == [doc EXCEPT !.valid = ~ @]
    <2>1. IsDocument(next) /\ next.items = doc.items
        BY <1>0, ValidIs DEF SameProfiles
    <2>2. /\ Persist(next, Rule("always"), "reply") /\ lag \subseteq lag'
          /\ UNCHANGED <<busy, target, seen, changed>>
        BY <1>5 DEF SetValidFields, RunStateWrite
    <2> HIDE DEF next
    <2> QED
        BY <1>1, <2>1, <2>2
<1>6. ASSUME NEW order, Reorder(order) PROVE Following'
    <2> DEFINE next == [doc EXCEPT !.order = order]
    <2>1. IsDocument(next) /\ next.items = doc.items
        BY <1>0, OrderIs DEF SameProfiles
    <2>2. /\ Persist(next, Rule("never"), "reply") /\ lag \subseteq lag'
          /\ UNCHANGED <<busy, target, seen, changed>>
        BY <1>6 DEF Reorder, RunStateWrite
    <2> HIDE DEF next
    <2> QED
        BY <1>1, <2>1, <2>2
<1> QED
    BY <1>2, <1>3, <1>4, <1>5, <1>6

\* A patch keeps them followed.
LEMMA FollowPatch ==
  ASSUME Sound, Following, NEW u \in Uids,
         PatchMetadata(u) \/ \E every \in Intervals : PatchRemoteOptions(u, every)
  PROVE  Following'
<1>0. IsDocument(doc)
    BY DEF Sound, Typed
<1>1. CASE PatchMetadata(u)
    <2> DEFINE i == [doc.items[u] EXCEPT !.name = "user"]
    <2>1. /\ HasItem(doc, u) /\ Persist(ReplaceItem(doc, u, i), Rule("never"), "reply")
          /\ UNCHANGED <<busy, target, seen, changed>> /\ lag \subseteq lag'
        BY <1>1 DEF PatchMetadata, RunStateWrite
    <2>2. doc.items[u] \in Definitions
        BY <1>0, <2>1, ItemIs
    <2>3. i \in Definitions /\ SameShape(doc.items[u], i)
        BY <2>2, Edited
    <2> HIDE DEF i
    <2> QED
        BY <2>1, <2>3, FollowOneEdit, FollowKept
<1>2. ASSUME NEW every \in Intervals, PatchRemoteOptions(u, every) PROVE Following'
    <2> DEFINE i == [doc.items[u] EXCEPT !.every = every]
    <2>1. /\ HasItem(doc, u) /\ Persist(ReplaceItem(doc, u, i), Rule("never"), "reply")
          /\ UNCHANGED <<busy, target, seen, changed>> /\ lag \subseteq lag'
        BY <1>2 DEF PatchRemoteOptions, RunStateWrite
    <2>2. doc.items[u] \in Definitions /\ every \in {0} \union Intervals
        BY <1>0, <2>1, ItemIs
    <2>3. i \in Definitions /\ SameShape(doc.items[u], i)
        BY <2>2, Edited
    <2> HIDE DEF i
    <2> QED
        BY <2>1, <2>3, FollowOneEdit, FollowKept
<1> QED
    BY <1>1, <1>2

\* A profile is created or replaced, and is up to date with version v of the
\* external file if it is bound to it.
LEMMA FollowBound ==
  ASSUME Sound, Following, NEW u \in Uids, NEW next, NEW i, SetItem(doc, next, u, i),
         NEW a, NEW w, Persist(next, a, w), busy = Idle \/ busy.uid = u, busy' = Idle,
         NEW v \in Nat, seen' = [seen EXCEPT ![u] = v], UNCHANGED <<target, changed>>,
         lag \ {u} \subseteq lag',
         v = target \/ u \in changed' \union lag'
  PROVE  Following'
<1>1. IsDocument(doc) /\ IsDocument(next)
    BY DEF Sound, Typed, SetItem
<1>2. WatchPaths(next) \subseteq WatchPaths(doc) \union {u} /\ WatchPaths(doc') = WatchPaths(next)
    BY <1>1, Commits, WatchItem
<1>3. \A x \in WatchPaths(doc') : x # NoUid
    BY NoUidAssumption DEF WatchPaths, Uids
<1>4. \A x \in WatchPaths(doc') \ {u} :
        x \in changed \union lag \/ busy.uid = x => x \in changed' \union lag'
    BY <1>3 DEF Idle
<1>5. WatchPaths(doc') \subseteq WatchPaths(doc) \union {u} /\ UNCHANGED target
    BY <1>2
<1>6. u \in WatchPaths(doc') => v = target \/ u \in changed' \union lag'
    OBVIOUS
<1> QED
    BY <1>4, <1>5, <1>6, FollowOne

\* A profile is created or removed that is not external.
LEMMA FollowLocal ==
  ASSUME Sound, Following, NEW u \in Uids, NEW next, NEW i, SetItem(doc, next, u, i),
         ~ IsExternal(i), NEW a, NEW w, Persist(next, a, w),
         UNCHANGED <<busy, target, seen, changed>>, lag \ {u} \subseteq lag'
  PROVE  Following'
<1>1. IsDocument(doc) /\ IsDocument(next)
    BY DEF Sound, Typed, SetItem
<1>2. WatchPaths(next) = WatchPaths(doc) \ {u} /\ WatchPaths(doc') = WatchPaths(next)
    BY <1>1, Commits, WatchItem
<1> QED
    BY <1>2, FollowKept

\* Whoever waited for a file gives up.
LEMMA FollowIdle ==
  ASSUME Following, WatchPaths(doc') = WatchPaths(doc), UNCHANGED <<target, seen>>,
         busy' = Idle,
         \A w \in WatchPaths(doc) :
           w \in changed \union lag \/ w = busy.uid => w \in changed' \union lag'
  PROVE  Following'
BY DEF Following, ExternalFresh, Idle

\* An addition or a deletion keeps them followed.
LEMMA FollowAddDelete ==
  ASSUME Sound, Following,
         (\E i \in AddDefinitions : CreateProfile(i)) \/ \E u \in Uids : Delete(u)
  PROVE  Following'
<1>0. IsDocument(doc) /\ target \in Nat
    BY DEF Sound, Typed, Following
<1>1. ASSUME NEW i \in AddDefinitions, CreateProfile(i) PROVE Following'
    <2>1. PICK u \in GenerateUid(i) :
            /\ CommitStateFirst(AppendItem(doc, u, i), Rule("never"),
                                WithFile(files, u, i, Resource(i)), u)
            /\ seen' = [seen EXCEPT ![u] = target]
        BY <1>1 DEF CreateProfile, Add
    <2>2. u \in Uids /\ i \in Definitions /\ busy = Idle
        BY <1>1, DefinitionsAssumption DEF GenerateUid, Uids, CreateProfile, Add, Free
    <2> DEFINE next == AppendItem(doc, u, i)
    <2>3. SetItem(doc, next, u, i)
        BY <1>0, <2>2, AppendItemIs
    <2>4. /\ Persist(next, Rule("never"), "reply") /\ lag \ {u} \subseteq lag'
          /\ UNCHANGED <<target, changed, busy>>
        BY <1>1, <2>1 DEF CommitStateFirst, CreateProfile, Add
    <2> HIDE DEF next
    <2> QED
        BY <1>0, <2>1, <2>2, <2>3, <2>4, FollowBound
<1>2. ASSUME NEW u \in Uids, Delete(u) PROVE Following'
    <2> DEFINE next == RemoveItem(doc, u)
    <2>1. /\ Persist(next, Rule("never"), "reply") /\ lag \ {u} \subseteq lag'
          /\ UNCHANGED <<busy, target, seen, changed>>
        BY <1>2 DEF Delete, CommitStateFirst
    <2>2. SetItem(doc, next, u, NoItem) /\ ~ IsExternal(NoItem)
        BY <1>0, RemoveItemIs DEF IsExternal
    <2> HIDE DEF next
    <2> QED
        BY <2>1, <2>2, FollowLocal
<1> QED
    BY <1>1, <1>2

\* A replaced definition keeps them followed.
LEMMA FollowReplace ==
  ASSUME Sound, Following, NEW u \in Uids, NEW i \in AddDefinitions, ReplaceDefinition(u, i)
  PROVE  Following'
<1> DEFINE old  == doc.items[u]
           new  == Replacement(old, i)
           next == ReplaceItem(doc, u, new)
           kept == RetainsMaterialization(old, i)
<1>0. IsDocument(doc) /\ target \in Nat /\ seen \in [Uids -> Nat] /\ i \in Definitions
    BY DefinitionsAssumption DEF Sound, Typed, Following
<1>1. /\ HasItem(doc, u) /\ Persist(next, Touched(u), "reply") /\ busy = Idle
      /\ seen' = [seen EXCEPT ![u] = IF kept THEN @ ELSE target]
      /\ lag' = (IF kept THEN lag ELSE lag \ {u}) \union (WatchPaths(doc') \ watchers')
      /\ UNCHANGED <<changed, busy, target>>
    BY DEF ReplaceDefinition, Free
<1>2. old \in Definitions /\ new \in Definitions /\ SameShape(i, new)
    BY <1>0, <1>1, ItemIs, ReplacementIs
<1>3. SetItem(doc, next, u, new)
    BY <1>0, <1>2, ReplaceItemIs
<1>4. kept => (IsExternal(new) <=> u \in WatchPaths(doc))
    BY <1>2, Fields DEF RetainsMaterialization, SameShape, IsExternal, WatchPaths
<1> HIDE DEF old, new, next, kept
<1>5. CASE kept
    <2>1. seen' = seen /\ lag \subseteq lag'
        BY <1>0, <1>1, <1>5
    <2>2. WatchPaths(doc') \subseteq WatchPaths(doc)
        <3>1. IsDocument(next)
            BY <1>3 DEF SetItem
        <3> QED
            BY <1>0, <1>1, <1>3, <1>4, <1>5, <3>1, Commits, WatchItem
    <2> QED
        BY <1>1, <2>1, <2>2, FollowKept
<1>6. CASE ~ kept
    <2>1. seen' = [seen EXCEPT ![u] = target] /\ lag \ {u} \subseteq lag'
        BY <1>1, <1>6
    <2> QED
        BY <1>0, <1>1, <1>3, <2>1, FollowBound
<1> QED
    BY <1>5, <1>6

\* Reading the file of a mirror keeps them followed.
LEMMA FollowRead ==
  ASSUME Sound, Following, NEW u \in Uids, NEW i, ReadMirror(u, i) PROVE Following'
<1>1. /\ busy = Idle /\ lag' = lag \ {u} /\ UNCHANGED <<doc, target, seen, changed>>
      /\ busy' = [op |-> "bind", uid |-> u, item |-> i, version |-> target]
    BY DEF ReadMirror, Free
<1>2. \A w \in WatchPaths(doc) : w # busy.uid
    BY <1>1, NoUidAssumption DEF WatchPaths, Uids, Idle
<1> QED
    BY <1>1, <1>2 DEF Following, ExternalFresh

\* Binding a mirror keeps them followed.
LEMMA FollowBind == ASSUME Sound, Following, BindMirror PROVE Following'
<1> DEFINE u    == busy.uid
           i    == busy.item
           old  == doc.items[u]
           new  == IF old = NoItem THEN i ELSE Replacement(old, i)
           next == IF old = NoItem THEN AppendItem(doc, u, new) ELSE ReplaceItem(doc, u, new)
           v    == busy.version
<1>1. /\ u \in Uids /\ i \in Definitions /\ IsDocument(doc) /\ busy' = Idle
      /\ v \in Nat /\ UNCHANGED <<changed, target>>
    BY DEF BindMirror, Sound, Typed, Handling, Following, Idle
<1>2. SetItem(doc, next, u, new)
    <2>1. CASE old = NoItem
        BY <1>1, <2>1, AppendItemIs
    <2>2. CASE old # NoItem
        BY <1>1, <2>2, ItemIs, ReplacementIs, ReplaceItemIs DEF HasItem
    <2> QED
        BY <2>1, <2>2
<1>3. CASE /\ Persist(next, IF old = NoItem THEN Rule("never") ELSE Touched(u), "reply")
           /\ seen' = [seen EXCEPT ![u] = v]
           /\ lag' = lag \union (WatchPaths(next) \ watchers')
                         \union (IF target # v THEN {u} ELSE {})
    <2>1. lag \ {u} \subseteq lag' /\ (v = target \/ u \in changed' \union lag')
        BY <1>3
    <2>2. busy.uid = u
        OBVIOUS
    <2> HIDE DEF u, next, new, v
    <2> QED
        BY <1>1, <1>2, <1>3, <2>1, <2>2, FollowBound
<1>4. CASE lag' = lag \union ({u} \intersect WatchPaths(doc)) /\ UNCHANGED <<doc, seen>>
    BY <1>1, <1>4, FollowIdle
<1> QED
    BY <1>3, <1>4 DEF BindMirror

\* A download keeps them followed.
LEMMA FollowDownload == ASSUME Sound, Following, Download PROVE Following'
<1>0. IsDocument(doc) /\ UNCHANGED <<changed, busy, target, seen>>
    BY DEF Sound, Typed, Download, RefreshRemote, ScheduledRefresh, CallerLeaves,
           CommitRefreshed, FetchPanics, ImportRemote, ImporterLeaves, CommitImported
<1>1. CASE UNCHANGED <<doc, lag>>
    BY <1>0, <1>1, FollowKept
<1>2. ASSUME NEW u \in Uids, NEW every \in Intervals, RefreshRemote(u, every),
             ~ UNCHANGED <<doc, lag>>
      PROVE  Following'
    <2> DEFINE i == [doc.items[u] EXCEPT !.every = every]
    <2>1. /\ HasItem(doc, u) /\ Persist(ReplaceItem(doc, u, i), Rule("never"), "reply")
          /\ lag \subseteq lag'
        BY <1>2 DEF RefreshRemote, Refresh
    <2>2. doc.items[u] \in Definitions /\ every \in {0} \union Intervals
        BY <1>0, <2>1, ItemIs
    <2>3. i \in Definitions /\ SameShape(doc.items[u], i)
        BY <2>2, Edited
    <2> HIDE DEF i
    <2> QED
        BY <1>0, <2>1, <2>3, FollowOneEdit, FollowKept
<1>3. ASSUME NEW t \in fetches, CommitRefreshedOk(t) PROVE Following'
    <2>1. HasItem(doc, t.uid)
        BY <1>3 DEF CommitRefreshedOk, Fence
    <2>2. PICK answer \in Fetch(t.for.url) :
            /\ Persist(Refreshed(t.uid, answer.named), Touched(t.uid), pending[t.uid])
            /\ lag' = lag \union (WatchPaths(Refreshed(t.uid, answer.named)) \ watchers')
        BY <1>3 DEF CommitRefreshedOk
    <2>3. PICK i \in Definitions : /\ Refreshed(t.uid, answer.named) = ReplaceItem(doc, t.uid, i)
                                   /\ SameShape(doc.items[t.uid], i)
        BY <1>0, <2>1, RefreshedIs
    <2>4. t.uid \in Uids /\ lag \subseteq lag'
        BY <2>1, <2>2 DEF HasItem
    <2> QED
        BY <1>0, <2>2, <2>3, <2>4, FollowOneEdit, FollowKept
<1>4. CASE \E p \in imports : CommitImportedOk(p)
    <2>0. PICK url \in Urls, every \in Intervals, explicit \in BOOLEAN,
               name \in {"derived", "user"} :
            \E answer \in Fetch(url), u \in GenerateUid([kind |-> "file"]) :
              LET i == Now(RemoteImportDefinition(
                             url, ImportInterval(every, explicit, answer.suggested),
                             SyncedName(name, answer.named))) IN
              CommitStateFirst(AppendItem(doc, u, i), Rule("never"),
                               WithFile(files, u, i, answer.content), u)
        BY <1>4 DEF CommitImportedOk
    <2>1. PICK answer \in Fetch(url), u \in GenerateUid([kind |-> "file"]) :
            LET i == Now(RemoteImportDefinition(
                           url, ImportInterval(every, explicit, answer.suggested),
                           SyncedName(name, answer.named))) IN
            CommitStateFirst(AppendItem(doc, u, i), Rule("never"),
                             WithFile(files, u, i, answer.content), u)
        BY <2>0
    <2> DEFINE i == Now(RemoteImportDefinition(
                          url, ImportInterval(every, explicit, answer.suggested),
                          SyncedName(name, answer.named)))
               next == AppendItem(doc, u, i)
    <2>2. i \in Definitions /\ i.source = "remote"
        <3>1. answer.suggested \in SuggestedIntervals
            BY DEF Fetch
        <3> QED
            BY <1>0, <3>1, ImportedIs
    <2>3. Persist(next, Rule("never"), "reply") /\ lag \ {u} \subseteq lag'
        BY <2>1 DEF CommitStateFirst
    <2> HIDE DEF i
    <2>4. u \in Uids
        BY DEF GenerateUid, Uids
    <2>5. SetItem(doc, next, u, i) /\ ~ IsExternal(i)
        BY <1>0, <2>2, <2>4, AppendItemIs DEF IsExternal
    <2> HIDE DEF next
    <2> QED
        BY <1>0, <2>3, <2>4, <2>5, FollowLocal
<1> QED
    BY <1>1, <1>2, <1>3, <1>4
    DEF Download, ScheduledRefresh, Refresh, CallerLeaves, CommitRefreshed,
        FetchPanics, ImportRemote, ImporterLeaves, CommitImported

\* The file events keep them followed.
LEMMA FollowEvents == ASSUME Sound, Following, Follow PROVE Following'
<1>0. IsDocument(doc) /\ Handling /\ target \in Nat
    BY DEF Sound, Typed, Following
<1>1. CASE TargetChanges
    <2>1. /\ target' = target + 1 /\ changed' = changed \union watchers
          /\ lag' = lag \union (WatchPaths(doc) \ watchers) /\ UNCHANGED <<doc, busy, seen>>
        BY <1>1 DEF TargetChanges
    <2>2. WatchPaths(doc') = WatchPaths(doc) /\ WatchPaths(doc) \subseteq changed' \union lag'
        BY <2>1
    <2> QED
        BY <1>0, <2>1, <2>2 DEF Following, ExternalFresh
<1>2. ASSUME NEW u \in Uids, ExternalFileChanged(u) PROVE Following'
    <2> DEFINE i == Now(doc.items[u])
    <2>0. busy = Idle /\ changed' = changed \ {u} /\ UNCHANGED target
        BY <1>2 DEF ExternalFileChanged, Free
    <2>1. CASE UNCHANGED <<doc, busy, seen>> /\ (u \notin WatchPaths(doc) \/ lag' = lag \union {u})
                 /\ lag \subseteq lag'
        BY <2>0, <2>1, FollowKept
    <2>2. CASE /\ Persist(ReplaceItem(doc, u, i), Touched(u), "reply")
               /\ IsExternal(doc.items[u])
               /\ seen' = [seen EXCEPT ![u] = target] /\ lag \ {u} \subseteq lag'
               /\ UNCHANGED busy
        <3>1. doc.items[u] \in Definitions
            BY <1>0, <2>2 DEF IsExternal, IsDocument
        <3>2. i \in Definitions /\ SameShape(doc.items[u], i)
            BY <1>0, <3>1, NowIs
        <3> HIDE DEF i
        <3>3. WatchPaths(doc') = WatchPaths(doc)
            BY <2>2, <3>2, FollowOneEdit
        <3>4. \A x \in WatchPaths(doc') \ {u} :
                x \in changed \union lag \/ busy.uid = x => x \in changed' \union lag'
            BY <2>0, <2>2, NoUidAssumption DEF WatchPaths, Uids, Idle
        <3> QED
            BY <1>0, <2>0, <2>2, <3>3, <3>4, FollowOne
    <2>3. CASE /\ busy' = [op |-> "mirror", uid |-> u, item |-> doc.items[u],
                           version |-> target]
               /\ UNCHANGED <<lag, doc, seen>>
        <3>1. \A w \in WatchPaths(doc) : w # busy.uid
            BY <2>0, NoUidAssumption DEF WatchPaths, Uids, Idle
        <3> QED
            BY <1>0, <2>0, <2>3, <3>1 DEF Following, ExternalFresh
    <2>4. u \in WatchPaths(doc) <=> IsExternal(doc.items[u])
        BY DEF WatchPaths
    <2>5. SymlinkChanged(u) =>
            \/ /\ Persist(ReplaceItem(doc, u, i), Touched(u), "reply")
               /\ seen' = [seen EXCEPT ![u] = target] /\ lag \ {u} \subseteq lag'
               /\ UNCHANGED busy
            \/ lag' = lag \union {u} /\ UNCHANGED <<doc, seen, busy>>
        BY DEF SymlinkChanged
    <2>6. MirrorChanged(u) =>
            \/ /\ busy' = [op |-> "mirror", uid |-> u, item |-> doc.items[u],
                           version |-> target]
               /\ UNCHANGED <<lag, doc, seen>>
            \/ lag' = lag \union {u} /\ UNCHANGED <<doc, seen, busy>>
        BY DEF MirrorChanged
    <2>7. \/ u \notin WatchPaths(doc) /\ UNCHANGED <<doc, seen, lag, busy>>
          \/ IsExternal(doc.items[u]) /\ (SymlinkChanged(u) \/ MirrorChanged(u))
        BY <1>2, <2>4 DEF ExternalFileChanged
    <2> HIDE DEF i
    <2> QED
        BY <2>1, <2>2, <2>3, <2>5, <2>6, <2>7
<1>3. CASE CommitMirror
    <2> DEFINE u == busy.uid
               i == Now(busy.item)
               v == busy.version
    <2>1. /\ u \in Uids /\ busy.item \in Definitions /\ v \in Nat
          /\ busy' = Idle /\ UNCHANGED <<target, changed>>
        BY <1>0, <1>3 DEF CommitMirror, Handling, Idle, Following
    <2>2. CASE /\ doc.items[u] = busy.item
               /\ Persist(ReplaceItem(doc, u, i), Touched(u), "reply")
               /\ seen' = [seen EXCEPT ![u] = v]
               /\ lag \ CaughtUp \subseteq lag'
        <3>1. i \in Definitions /\ SameShape(doc.items[u], i)
            BY <1>0, <2>1, <2>2, NowIs
        <3>2. u \in WatchPaths(doc) => v = target \/ u \in changed' \union lag'
            BY <1>3, <2>1, <2>2 DEF Following, CommitMirror, CaughtUp
        <3>3. lag \ {u} \subseteq lag'
            BY <2>2 DEF CaughtUp
        <3> HIDE DEF i
        <3>4. WatchPaths(doc') = WatchPaths(doc)
            BY <2>1, <2>2, <3>1, FollowOneEdit
        <3>5. \A x \in WatchPaths(doc') \ {u} :
                x \in changed \union lag \/ busy.uid = x => x \in changed' \union lag'
            BY <2>1, <3>3
        <3> HIDE DEF u, v
        <3> QED
            BY <2>1, <2>2, <3>2, <3>4, <3>5, FollowOne
    <2>3. CASE lag' = lag \union {u} /\ UNCHANGED <<doc, seen>>
        BY <2>1, <2>3, FollowIdle
    <2> QED
        BY <1>3, <2>2, <2>3 DEF CommitMirror
<1> QED
    BY <1>1, <1>2, <1>3 DEF Follow

\* Every step keeps the external files followed.
LEMMA FollowNext == Sound /\ Following /\ [Next]_vars => Following'
<1> SUFFICES ASSUME Sound, Following, [Next]_vars PROVE Following'
    OBVIOUS
<1>1. CASE UNCHANGED vars \/ SaveProfileFile
    BY <1>1, FollowKept DEF vars, SaveProfileFile
<1>2. CASE EditDocument
    BY <1>2, FollowSelection, FollowPatch, FollowAddDelete, FollowReplace, FollowRead,
       FollowBind
    DEF EditDocument
<1>3. CASE Restart
    <2>1. /\ lag' = lag \union (WatchPaths(doc) \ watchers')
                        \union ((changed \union {busy.uid}) \intersect WatchPaths(doc))
          /\ busy' = Idle /\ UNCHANGED <<doc, target, seen>>
        BY <1>3 DEF Restart
    <2> QED
        BY <2>1, FollowIdle
<1> QED
    BY <1>1, <1>2, <1>3, FollowDownload, FollowEvents DEF Next

\* A watched external file is followed unless its last event was lost.
THEOREM ExternalIsFollowed == Spec => []ExternalFresh
<1>1. Init => Following
    <2> SUFFICES ASSUME Init PROVE Following
        OBVIOUS
    <2> QED
        BY DEF Init, Following, ExternalFresh, WatchPaths, Idle
<1>2. Following => ExternalFresh
    BY DEF Following
<1> QED
    BY <1>1, <1>2, SoundInit, SoundNext, FollowNext, PTL DEF Spec

-----------------------------------------------------------------------------
(* Refreshes.                                                              *)

Waiting == {"reply", "gone", "silent"}

\* The tasks of u.
TasksOf(u) == {t \in fetches : t.uid = u}

\* RefreshOwned without counting.
Owned ==
  /\ pending \in [Uids -> Waiting \union {"none", "stuck"}]
  /\ \A u \in Uids : IF pending[u] \in Waiting THEN \E t \in fetches : TasksOf(u) = {t}
                                               ELSE TasksOf(u) = {}

\* Owned entries have exactly one task.
LEMMA OwnedCounts == Owned => RefreshOwned
<1> SUFFICES ASSUME Owned, NEW u \in Uids
             PROVE  Cardinality(TasksOf(u)) =
                      IF pending[u] \in {"none", "stuck"} THEN 0 ELSE 1
    BY DEF RefreshOwned, TasksOf
<1>1. pending[u] \in Waiting \union {"none", "stuck"}
    BY DEF Owned
<1>2. CASE pending[u] \in Waiting
    <2>1. pending[u] \notin {"none", "stuck"}
        BY <1>2 DEF Waiting
    <2>2. PICK t \in fetches : TasksOf(u) = {t}
        BY <1>2 DEF Owned
    <2> QED
        BY <2>1, <2>2, FS_Singleton
<1>3. CASE pending[u] \notin Waiting
    BY <1>1, <1>3, FS_EmptySet DEF Owned
<1> QED
    BY <1>2, <1>3

\* A profile without a task gets one.
LEMMA OwnedStart ==
  ASSUME Owned, NEW u \in Uids, pending[u] = "none", NEW i, NEW who \in {"reply", "silent"},
         StartFetch(u, i, who)
  PROVE  Owned'
<1> DEFINE t == [uid |-> u, for |-> Fingerprint(i)]
<1>1. /\ fetches' = fetches \union {t} /\ t.uid = u
      /\ pending' = [pending EXCEPT ![u] = who]
    BY DEF StartFetch
<1> HIDE DEF t
<1>2. /\ pending' \in [Uids -> Waiting \union {"none", "stuck"}] /\ pending'[u] \in Waiting
      /\ \A v \in Uids \ {u} : pending'[v] = pending[v]
    BY <1>1 DEF Owned, Waiting
<1>3. TasksOf(u)' = {t} /\ \A v \in Uids \ {u} : TasksOf(v)' = TasksOf(v)
    <2>1. TasksOf(u) = {}
        BY DEF Owned, Waiting
    <2> QED
        BY <1>1, <2>1 DEF TasksOf
<1>4. t \in fetches'
    BY <1>1
<1>5. ASSUME NEW v \in Uids
      PROVE  IF pending'[v] \in Waiting THEN \E s \in fetches' : TasksOf(v)' = {s}
                                        ELSE TasksOf(v)' = {}
    <2>1. CASE v = u
        BY <1>2, <1>3, <1>4, <2>1
    <2>2. CASE v # u
        BY <1>1, <1>2, <1>3, <2>2 DEF Owned
    <2> QED
        BY <2>1, <2>2
<1> QED
    BY <1>2, <1>5 DEF Owned

\* A task ends, and with it the entry it was for.
LEMMA OwnedEnd ==
  ASSUME Owned, NEW t \in fetches, NEW w \in {"none", "stuck"}, fetches' = fetches \ {t},
         pending' = [pending EXCEPT ![t.uid] = w]
  PROVE  Owned'
<1>1. pending' \in [Uids -> Waiting \union {"none", "stuck"}]
    BY DEF Owned
<1>2. ASSUME NEW v \in Uids
      PROVE  IF pending'[v] \in Waiting THEN \E s \in fetches' : TasksOf(v)' = {s}
                                        ELSE TasksOf(v)' = {}
    <2>1. CASE v = t.uid
        <3>1. t \in TasksOf(v)
            BY <2>1 DEF TasksOf
        <3>2. TasksOf(v) = {t}
            BY <3>1 DEF Owned
        <3>3. TasksOf(v)' = {}
            BY <3>2 DEF TasksOf
        <3>4. pending'[v] \notin Waiting
            BY <2>1 DEF Owned, Waiting
        <3> QED
            BY <3>3, <3>4
    <2>2. CASE v # t.uid
        <3>1. pending'[v] = pending[v] /\ TasksOf(v)' = TasksOf(v)
            BY <2>2 DEF Owned, TasksOf
        <3>2. \A s : TasksOf(v) = {s} => s \in fetches'
            BY <2>2 DEF TasksOf
        <3> QED
            BY <3>1, <3>2 DEF Owned
    <2> QED
        BY <2>1, <2>2
<1> QED
    BY <1>1, <1>2 DEF Owned

\* Every step keeps each pending refresh with its task.
LEMMA OwnedNext == Owned /\ [Next]_vars => Owned'
<1> SUFFICES ASSUME Owned, [Next]_vars PROVE Owned'
    OBVIOUS
<1>1. CASE UNCHANGED <<pending, fetches>>
    BY <1>1 DEF Owned, TasksOf
<1>2. CASE EditDocument
    BY <1>1, <1>2
    DEF EditDocument, SetCurrent, RunStateWrite, TryAutoActivateIfNone, SetCurrentIfNone,
        SetGlobalTransforms, SetValidFields, Reorder, PatchMetadata, PatchRemoteOptions,
        CreateProfile, Add, Delete, ReplaceDefinition, ReadMirror, BindMirror
<1>3. CASE Follow
    BY <1>1, <1>3 DEF Follow, TargetChanges, ExternalFileChanged, CommitMirror
<1>4. CASE SaveProfileFile
    BY <1>1, <1>4 DEF SaveProfileFile
<1>5. CASE Restart
    BY <1>5 DEF Restart, Owned, TasksOf, Waiting
<1>6. ASSUME NEW u \in Uids, NEW every \in Intervals, RefreshRemote(u, every) PROVE Owned'
    <2>1. pending[u] = "none" /\ \E i : StartFetch(u, i, "reply")
        BY <1>6 DEF RefreshRemote, Refresh
    <2> QED
        BY <2>1, OwnedStart
<1>7. ASSUME NEW u \in Uids, ScheduledRefresh(u) PROVE Owned'
    BY <1>7, OwnedStart DEF ScheduledRefresh, Refresh
<1>8. ASSUME NEW u \in Uids, CallerLeaves(u) PROVE Owned'
    <2>1. pending[u] = "reply" /\ pending' = [pending EXCEPT ![u] = "gone"] /\ UNCHANGED fetches
        BY <1>8 DEF CallerLeaves
    <2>2. /\ pending' \in [Uids -> Waiting \union {"none", "stuck"}]
          /\ \A v \in Uids : pending'[v] \in Waiting <=> pending[v] \in Waiting
        BY <2>1 DEF Owned, Waiting
    <2> QED
        BY <2>1, <2>2 DEF Owned, TasksOf
<1>9. ASSUME NEW t \in fetches, CommitRefreshed(t) \/ FetchPanics(t) PROVE Owned'
    BY <1>9, OwnedEnd DEF CommitRefreshed, FetchPanics
<1>10. CASE ImportRemote \/ \E p \in imports : ImporterLeaves(p) \/ CommitImported(p)
    BY <1>1, <1>10 DEF ImportRemote, ImporterLeaves, CommitImported
<1> QED
    BY <1>1, <1>2, <1>3, <1>4, <1>5, <1>6, <1>7, <1>8, <1>9, <1>10
    DEF Next, Download, vars

\* Every entry of pending_refresh has exactly one task that will remove it,
\* except after a task has panicked.
THEOREM RefreshHasItsTask == Spec => []RefreshOwned
<1>1. Init => Owned
    BY DEF Init, Owned, TasksOf, Waiting
<1> QED
    BY <1>1, OwnedNext, OwnedCounts, PTL DEF Spec

-----------------------------------------------------------------------------
(* What the running configuration is built from.                           *)

\* What the definition of u names.
NamedBy(d, u) ==
  ({d.items[u].base} \ {NoUid}) \union d.items[u].extend \union d.items[u].transforms

\* One step of the closure of names.
LEMMA NamesAre == ASSUME NEW d, NEW S PROVE Names(d, S) = S \union UNION {NamedBy(d, u) : u \in S}
BY DEF Names, NamedBy

\* Whatever a build reads exists, is named by somebody, and is in the closure
\* by which commits decide whether they affect the running configuration.
LEMMA ReadsInside ==
  ASSUME NEW d, IsDocument(d), Validate(d), NEW x \in Reads(d)
  PROVE  HasItem(d, x) /\ x \in CurrentClosure(d) /\ Referenced(d, x)
<1> DEFINE c == d.current
           i == d.items[c]
           members == ({i.base} \ {NoUid}) \union i.extend
           configs == {c} \union (IF i.kind = "composition" THEN members ELSE {})
           first == {c} \ {NoUid}
<1>1. \A u : HasItem(d, u) => u \in Uids /\ d.items[u] \in Definitions
    BY DEF HasItem, IsDocument
<1>2. CASE x \in d.global
    BY <1>2 DEF Validate, ValidTransforms, CurrentClosure, Referenced
<1>3. CASE x \notin d.global
    <2>1. x \in Names(d, Names(d, first))
        BY <1>3 DEF Reads
    <2>2. c # NoUid
        BY <2>1, NamesAre
    <2>3. /\ HasItem(d, c) /\ IsConfig(i) /\ i \in Definitions
          /\ ValidTransforms(d, i.transforms)
          /\ i.kind = "composition" => ValidComposition(d, c)
        BY <1>1, <2>2 DEF Validate
    <2>4. c \in CurrentClosure(d) /\ Referenced(d, c)
        BY <2>2 DEF CurrentClosure, Referenced
    <2>5. ASSUME NEW m \in members
          PROVE  /\ HasItem(d, m) /\ d.items[m].kind = "file" /\ m \in configs
                 /\ m \in CurrentClosure(d) /\ Referenced(d, m)
        <3>1. i.kind = "composition"
            BY <2>3, <2>5, Fields
        <3>2. HasItem(d, m) /\ d.items[m].kind = "file"
            BY <2>3, <2>5, <3>1 DEF ValidComposition, ValidMember
        <3>3. c \in Dependents(d, m)
            BY <1>1, <2>3, <2>5, <3>1 DEF Dependents
        <3> QED
            BY <2>2, <2>5, <3>1, <3>2, <3>3 DEF CurrentClosure, Referenced
    <2>6. ASSUME NEW v \in configs, HasItem(d, v), IsConfig(d.items[v]),
                 NEW t \in d.items[v].transforms
          PROVE  /\ HasItem(d, t) /\ IsTransform(d.items[t])
                 /\ t \in CurrentClosure(d) /\ Referenced(d, t)
        <3>1. HasItem(d, t) /\ IsTransform(d.items[t])
            BY <1>1, <2>6 DEF Validate, ValidTransforms
        <3>2. v \in Dependents(d, t)
            BY <1>1, <2>6 DEF Dependents
        <3>3. t \in CurrentClosure(d)
            BY <2>2, <2>6 DEF CurrentClosure
        <3> QED
            BY <3>1, <3>2, <3>3 DEF Referenced
    <2>7. ASSUME NEW y \in Names(d, first)
          PROVE  \/ y = c \/ y \in members \/ y \in i.transforms
        <3>1. first = {c}
            BY <2>2
        <3> QED
            BY <3>1, NamesAre DEF NamedBy
    <2>8. PICK y \in Names(d, first) : x = y \/ x \in NamedBy(d, y)
        BY <2>1, NamesAre
    <2>9. CASE x \in Names(d, first)
        BY <2>3, <2>4, <2>5, <2>6, <2>7, <2>9
    <2>10. CASE x \notin Names(d, first)
        <3>1. x \in NamedBy(d, y) /\ y # c
            <4>1. c \in Names(d, first) /\ NamedBy(d, c) \subseteq Names(d, first)
                BY <2>2, NamesAre
            <4> QED
                BY <2>8, <2>10, <4>1
        <3>2. CASE y \in members
            <4>1. HasItem(d, y) /\ d.items[y].kind = "file" /\ y \in configs
                BY <2>5, <3>2
            <4>2. d.items[y] \in Definitions
                BY <1>1, <4>1
            <4>3. x \in d.items[y].transforms
                BY <3>1, <4>1, <4>2, Fields DEF NamedBy
            <4> QED
                BY <2>6, <4>1, <4>3 DEF IsConfig
        <3>3. CASE y \in i.transforms
            <4>1. HasItem(d, y) /\ IsTransform(d.items[y])
                BY <2>3, <2>6, <3>3
            <4>2. d.items[y] \in Definitions
                BY <1>1, <4>1
            <4>3. NamedBy(d, y) = {}
                BY <4>1, <4>2, Fields DEF NamedBy, IsTransform
            <4> QED
                BY <3>1, <4>3
        <3> QED
            BY <2>7, <3>1, <3>2, <3>3
    <2> QED
        BY <2>9, <2>10
<1> QED
    BY <1>2, <1>3

\* What a build takes from u.
PartOf(d, f, u) ==
  LET i == d.items[u] IN
  <<i.kind, i.base, i.extend, i.transforms,
    IF HasSource(i) THEN f[PathOf(u, i)] ELSE "absent">>

\* A build takes the same from two documents that agree on what it reads.
LEMMA EffectiveKept ==
  ASSUME NEW d, NEW f, NEW e, NEW g,
         e.current = d.current, e.global = d.global, e.valid = d.valid,
         \A u \in Reads(d) : /\ NamedBy(e, u) = NamedBy(d, u)
                             /\ PartOf(e, g, u) = PartOf(d, f, u)
  PROVE  Effective(e, g) = Effective(d, f)
<1> DEFINE first == {d.current} \ {NoUid}
<1>1. \A S : S \subseteq Reads(d) => Names(e, S) = Names(d, S)
    BY NamesAre
<1>2. Names(d, Names(d, first)) \subseteq Reads(d)
    BY DEF Reads
<1>3. Names(d, first) \subseteq Reads(d) /\ first \subseteq Reads(d)
    <2>1. \A S : S \subseteq Names(d, S)
        BY NamesAre
    <2> QED
        BY <1>2, <2>1
<1>4. Names(e, Names(e, first)) = Names(d, Names(d, first))
    BY <1>1, <1>3
<1>5. Reads(e) = Reads(d)
    BY <1>4 DEF Reads
<1>6. [u \in Reads(e) |-> PartOf(e, g, u)] = [u \in Reads(d) |-> PartOf(d, f, u)]
    BY <1>5
<1> QED
    BY <1>6 DEF Effective, PartOf

Announced == notice' \in {"asked", "gone"}

\* A commit that asks when the closure changes announces every change a build sees.
LEMMA Announces ==
  ASSUME NEW next, NEW a, NEW w, Persist(next, a, w), EvaluateAffects(a, doc, next)
  PROVE  Announced
BY DEF Persist, Announced

\* A commit of a profile the build does not read, or one that is announced if
\* it does.
LEMMA RebuildOne ==
  ASSUME Sound, NEW u \in Uids, NEW next, NEW i, SetItem(doc, next, u, i),
         NEW a, NEW w, Persist(next, a, w), a = Touched(u) \/ u \notin Reads(doc),
         \A p \in Paths : p[1] # u => files'[p] = files[p],
         ~ Announced
  PROVE  Effective(doc', files') = Effective(doc, files)
<1>0. IsDocument(doc) /\ Validate(doc) /\ IsDocument(next)
    BY DEF Sound, Typed, DocumentValid, SetItem
<1>1. u \notin Reads(doc)
    <2>1. CASE a = Touched(u)
        <3>1. ~ EvaluateAffects(a, doc, next)
            BY Announces
        <3>2. u \notin CurrentClosure(doc)
            BY <2>1, <3>1 DEF EvaluateAffects, Touched
        <3> QED
            BY <1>0, <3>2, ReadsInside
    <2> QED
        BY <2>1
<1>2. /\ doc'.items = next.items /\ doc'.current = doc.current /\ doc'.global = doc.global
      /\ doc'.valid = doc.valid
    BY <1>0, Commits DEF SetItem
<1>3. ASSUME NEW v \in Reads(doc)
      PROVE  NamedBy(doc', v) = NamedBy(doc, v) /\ PartOf(doc', files', v) = PartOf(doc, files, v)
    <2>1. v # u /\ v \in Uids
        BY <1>0, <1>1, ReadsInside DEF HasItem
    <2>2. doc'.items[v] = doc.items[v]
        BY <1>0, <1>2, <2>1 DEF SetItem, IsDocument
    <2>3. files'[PathOf(v, doc.items[v])] = files[PathOf(v, doc.items[v])]
        BY <2>1, PathFacts, ExtensionIs DEF PathOf
    <2> QED
        BY <2>2, <2>3 DEF NamedBy, PartOf
<1> QED
    BY <1>2, <1>3, EffectiveKept

\* A commit that changes no content and nothing a build reads of a profile.
LEMMA RebuildSame ==
  ASSUME Sound, NEW next, IsDocument(next), NEW a, NEW w, Persist(next, a, w),
         UNCHANGED files,
         next.current = doc.current, next.global = doc.global, next.valid = doc.valid,
         \A u \in Uids : /\ SameShape(doc.items[u], next.items[u])
                         /\ NamedBy(next, u) = NamedBy(doc, u)
                         /\ doc.items[u] # NoItem =>
                              /\ next.items[u].base = doc.items[u].base
                              /\ next.items[u].extend = doc.items[u].extend
                              /\ next.items[u].transforms = doc.items[u].transforms
  PROVE  Effective(doc', files') = Effective(doc, files)
<1>0. IsDocument(doc) /\ Validate(doc)
    BY DEF Sound, Typed, DocumentValid
<1>1. /\ doc'.items = next.items /\ doc'.current = doc.current /\ doc'.global = doc.global
      /\ doc'.valid = doc.valid
    BY <1>0, Commits
<1>2. ASSUME NEW v \in Reads(doc)
      PROVE  NamedBy(doc', v) = NamedBy(doc, v) /\ PartOf(doc', files', v) = PartOf(doc, files, v)
    <2>1. v \in Uids /\ doc.items[v] # NoItem
        BY <1>0, ReadsInside DEF HasItem
    <2>2. NamedBy(doc', v) = NamedBy(doc, v)
        BY <1>1, <2>1 DEF NamedBy
    <2>3. doc'.items[v].kind = doc.items[v].kind
        BY <1>1, <2>1 DEF SameShape
    <2>4. /\ HasSource(doc'.items[v]) <=> HasSource(doc.items[v])
          /\ PathOf(v, doc'.items[v]) = PathOf(v, doc.items[v])
        BY <2>3 DEF HasSource, PathOf, CanonicalExtension
    <2> QED
        BY <1>1, <2>1, <2>2, <2>3, <2>4 DEF PartOf
<1> QED
    BY <1>1, <1>2, EffectiveKept

\* An edit of one profile's options.
LEMMA RebuildEdit ==
  ASSUME Sound, NEW u, HasItem(doc, u), NEW i \in Definitions, SameShape(doc.items[u], i),
         i.base = doc.items[u].base, i.extend = doc.items[u].extend,
         i.transforms = doc.items[u].transforms,
         NEW a, NEW w, Persist(ReplaceItem(doc, u, i), a, w), UNCHANGED files
  PROVE  Effective(doc', files') = Effective(doc, files)
<1> DEFINE next == ReplaceItem(doc, u, i)
<1>0. u \in Uids /\ IsDocument(doc)
    BY DEF HasItem, Sound, Typed
<1>1. SetItem(doc, next, u, i)
    BY <1>0, ReplaceItemIs
<1>2. Persist(next, a, w)
    OBVIOUS
<1> HIDE DEF next
<1>3. next.items[u] = i /\ \A v \in Uids \ {u} : next.items[v] = doc.items[v]
    BY <1>0, <1>1 DEF SetItem, IsDocument
<1>4. \A v \in Uids : /\ SameShape(doc.items[v], next.items[v])
                      /\ NamedBy(next, v) = NamedBy(doc, v)
                      /\ doc.items[v] # NoItem =>
                           /\ next.items[v].base = doc.items[v].base
                           /\ next.items[v].extend = doc.items[v].extend
                           /\ next.items[v].transforms = doc.items[v].transforms
    BY <1>3, ShapeIsReflexive DEF NamedBy
<1> QED
    BY <1>1, <1>2, <1>4, RebuildSame DEF SetItem

\* The selection, the global transforms, the fields and the order.
LEMMA RebuildSelection ==
  ASSUME Sound, ~ Announced,
         \/ \E c \in ConfigUids \union {NoUid} : SetCurrent(c)
         \/ \E u \in Uids : TryAutoActivateIfNone(u)
         \/ \E S \in SUBSET TransformUids : SetGlobalTransforms(S)
         \/ SetValidFields
         \/ \E order \in SetToSeqs(Range(doc.order)) : Reorder(order)
  PROVE  Effective(doc', files') = Effective(doc, files)
<1>0. IsDocument(doc)
    BY DEF Sound, Typed
<1>1. ASSUME NEW next, IsDocument(next), next.items = doc.items, NEW a, NEW w,
             Persist(next, a, w), UNCHANGED files,
             ~ EvaluateAffects(a, doc, next) =>
               /\ next.current = doc.current /\ next.global = doc.global
               /\ next.valid = doc.valid
      PROVE  Effective(doc', files') = Effective(doc, files)
    BY <1>1, Announces, ShapeIsReflexive, RebuildSame DEF NamedBy
<1>2. ASSUME NEW c \in ConfigUids \union {NoUid}, SetCurrent(c)
      PROVE  Effective(doc', files') = Effective(doc, files)
    <2> DEFINE next == [doc EXCEPT !.current = c]
    <2>1. /\ IsDocument(next) /\ next.items = doc.items
          /\ next.global = doc.global /\ next.valid = doc.valid
        BY <1>0, CurrentIs DEF Uids
    <2>2. Persist(next, Rule("current"), "reply") /\ UNCHANGED files
        BY <1>2 DEF SetCurrent, RunStateWrite
    <2> HIDE DEF next
    <2> QED
        BY <1>1, <2>1, <2>2 DEF EvaluateAffects, Rule
<1>3. ASSUME NEW u \in Uids, TryAutoActivateIfNone(u)
      PROVE  Effective(doc', files') = Effective(doc, files)
    <2> DEFINE next == [doc EXCEPT !.current = u]
    <2>1. /\ IsDocument(next) /\ next.items = doc.items
          /\ next.global = doc.global /\ next.valid = doc.valid
        BY <1>0, CurrentIs
    <2>2. /\ \/ Persist(next, Rule("current"), "reply") \/ UNCHANGED doc
          /\ UNCHANGED files
        BY <1>3 DEF TryAutoActivateIfNone, SetCurrentIfNone
    <2> HIDE DEF next
    <2>3. CASE Persist(next, Rule("current"), "reply")
        BY <1>1, <2>1, <2>2, <2>3 DEF EvaluateAffects, Rule
    <2> QED
        BY <2>2, <2>3
<1>4. ASSUME NEW S \in SUBSET TransformUids, SetGlobalTransforms(S)
      PROVE  Effective(doc', files') = Effective(doc, files)
    <2> DEFINE next == [doc EXCEPT !.global = S]
    <2>1. /\ IsDocument(next) /\ next.items = doc.items
          /\ next.current = doc.current /\ next.valid = doc.valid
        BY <1>0, GlobalIs DEF Uids
    <2>2. Persist(next, Rule("global"), "reply") /\ UNCHANGED files
        BY <1>4 DEF SetGlobalTransforms, RunStateWrite
    <2> HIDE DEF next
    <2> QED
        BY <1>1, <2>1, <2>2 DEF EvaluateAffects, Rule
<1>5. CASE SetValidFields
    <2> DEFINE next == [doc EXCEPT !.valid = ~ @]
    <2>1. IsDocument(next) /\ next.items = doc.items
        BY <1>0, ValidIs DEF SameProfiles
    <2>2. Persist(next, Rule("always"), "reply") /\ UNCHANGED files
        BY <1>5 DEF SetValidFields, RunStateWrite
    <2> HIDE DEF next
    <2> QED
        BY <1>1, <2>1, <2>2 DEF EvaluateAffects, Rule
<1>6. ASSUME NEW order, Reorder(order)
      PROVE  Effective(doc', files') = Effective(doc, files)
    <2> DEFINE next == [doc EXCEPT !.order = order]
    <2>1. SameProfiles(doc, next) /\ next.valid = doc.valid
        BY <1>0, OrderIs
    <2>2. Persist(next, Rule("never"), "reply") /\ UNCHANGED files
        BY <1>6 DEF Reorder, RunStateWrite
    <2> HIDE DEF next
    <2> QED
        BY <1>1, <2>1, <2>2 DEF SameProfiles
<1> QED
    BY <1>2, <1>3, <1>4, <1>5, <1>6

\* A patch asks for the rebuild it needs.
LEMMA RebuildPatch ==
  ASSUME Sound, NEW u \in Uids,
         \/ PatchMetadata(u)
         \/ \E every \in Intervals : PatchRemoteOptions(u, every) \/ RefreshRemote(u, every)
  PROVE  Effective(doc', files') = Effective(doc, files)
<1>0. IsDocument(doc)
    BY DEF Sound, Typed
<1>1. CASE PatchMetadata(u)
    <2> DEFINE i == [doc.items[u] EXCEPT !.name = "user"]
    <2>1. /\ HasItem(doc, u) /\ Persist(ReplaceItem(doc, u, i), Rule("never"), "reply")
          /\ UNCHANGED files
        BY <1>1 DEF PatchMetadata, RunStateWrite
    <2>2. doc.items[u] \in Definitions
        BY <1>0, <2>1, ItemIs
    <2>3. /\ i \in Definitions /\ SameShape(doc.items[u], i) /\ i.base = doc.items[u].base
          /\ i.extend = doc.items[u].extend /\ i.transforms = doc.items[u].transforms
        BY <2>2, Edited
    <2> HIDE DEF i
    <2> QED
        BY <2>1, <2>3, RebuildEdit
<1>2. ASSUME NEW every \in Intervals, PatchRemoteOptions(u, every) \/ RefreshRemote(u, every)
      PROVE  Effective(doc', files') = Effective(doc, files)
    <2> DEFINE i == [doc.items[u] EXCEPT !.every = every]
    <2>1. CASE /\ HasItem(doc, u) /\ Persist(ReplaceItem(doc, u, i), Rule("never"), "reply")
               /\ UNCHANGED files
        <3>1. doc.items[u] \in Definitions /\ every \in {0} \union Intervals
            BY <1>0, <2>1, ItemIs
        <3>2. /\ i \in Definitions /\ SameShape(doc.items[u], i) /\ i.base = doc.items[u].base
              /\ i.extend = doc.items[u].extend /\ i.transforms = doc.items[u].transforms
            <4> DEFINE old == doc.items[u]
                       j   == [old EXCEPT !.every = every]
            <4>1. i = j
                OBVIOUS
            <4>2. old \in Definitions /\ j = [old EXCEPT !.every = every]
                BY <3>1
            <4> HIDE DEF old, j
            <4>3. j \in Definitions /\ SameShape(old, j)
                BY <3>1, <4>2, Edited
            <4>4. j.base = old.base /\ j.extend = old.extend /\ j.transforms = old.transforms
                BY <4>2 DEF Definitions, j
            <4> QED
                BY <4>1, <4>3, <4>4 DEF old
        <3> HIDE DEF i
        <3> QED
            BY <2>1, <3>2, RebuildEdit
    <2>2. CASE UNCHANGED <<doc, files>>
        BY <2>2
    <2> QED
        BY <1>2, <2>1, <2>2 DEF PatchRemoteOptions, RunStateWrite, RefreshRemote, Refresh
<1> QED
    BY <1>1, <1>2

\* An addition or a deletion asks for the rebuild it needs.
LEMMA RebuildAddDelete ==
  ASSUME Sound, ~ Announced,
         (\E i \in AddDefinitions : CreateProfile(i)) \/ \E u \in Uids : Delete(u)
  PROVE  Effective(doc', files') = Effective(doc, files)
<1>0. IsDocument(doc) /\ Validate(doc) /\ files \in [Paths -> Contents]
    BY DEF Sound, Typed, DocumentValid
<1>1. ASSUME NEW i \in AddDefinitions, CreateProfile(i)
      PROVE  Effective(doc', files') = Effective(doc, files)
    <2>1. PICK u \in GenerateUid(i) :
            CommitStateFirst(AppendItem(doc, u, i), Rule("never"),
                             WithFile(files, u, i, Resource(i)), u)
        BY <1>1 DEF CreateProfile, Add
    <2>2. u \in Uids /\ ~ HasItem(doc, u) /\ i \in Definitions
        BY DefinitionsAssumption DEF GenerateUid, Uids
    <2> DEFINE next == AppendItem(doc, u, i)
    <2>3. SetItem(doc, next, u, i)
        BY <1>0, <2>2, AppendItemIs
    <2>4. /\ Persist(next, Rule("never"), "reply")
          /\ files' = WithFile(files, u, i, Resource(i))
        BY <2>1 DEF CommitStateFirst
    <2> HIDE DEF next
    <2>5. \A p \in Paths : p[1] # u => files'[p] = files[p]
        BY <1>0, <2>2, <2>4, ResourceIs, FileSteps
    <2>6. u \notin Reads(doc)
        BY <1>0, <2>2, ReadsInside
    <2> QED
        BY <2>2, <2>3, <2>4, <2>5, <2>6, RebuildOne
<1>2. ASSUME NEW u \in Uids, Delete(u)
      PROVE  Effective(doc', files') = Effective(doc, files)
    <2> DEFINE next == RemoveItem(doc, u)
               i == doc.items[u]
    <2>1. /\ Persist(next, Rule("never"), "reply") /\ ~ Referenced(doc, u)
          /\ files' = WithoutFile(files, u, i)
        BY <1>2 DEF Delete, CommitStateFirst
    <2>2. SetItem(doc, next, u, NoItem) /\ "absent" \in Contents
        BY <1>0, RemoveItemIs DEF Contents
    <2> HIDE DEF next, i
    <2>3. \A p \in Paths : p[1] # u => files'[p] = files[p]
        <3>1. \A p \in Paths : p[1] # u => p # PathOf(u, i)
            BY DEF PathOf
        <3> QED
            BY <1>0, <2>1, <3>1 DEF WithoutFile
    <2>4. u \notin Reads(doc)
        BY <1>0, <2>1, ReadsInside
    <2> QED
        BY <2>1, <2>2, <2>3, <2>4, RebuildOne
<1> QED
    BY <1>1, <1>2

\* A profile takes a new definition.
LEMMA RebuildReplace ==
  ASSUME Sound, ~ Announced,
         \/ \E u \in Uids, i \in AddDefinitions : ReplaceDefinition(u, i) \/ ReadMirror(u, i)
         \/ BindMirror
  PROVE  Effective(doc', files') = Effective(doc, files)
<1>0. IsDocument(doc) /\ Validate(doc) /\ files \in [Paths -> Contents]
    BY DEF Sound, Typed, DocumentValid
<1>1. ASSUME NEW u \in Uids, HasItem(doc, u), NEW i \in Definitions,
             NEW new, new = Replacement(doc.items[u], i),
             Persist(ReplaceItem(doc, u, new), Touched(u), "reply"),
             files' = ReplacedFiles(u, doc.items[u], new)
      PROVE  Effective(doc', files') = Effective(doc, files)
    <2> DEFINE next == ReplaceItem(doc, u, new)
               old  == doc.items[u]
    <2>1. old \in Definitions /\ new \in Definitions
        BY <1>0, <1>1, ItemIs, ReplacementIs
    <2>2. SetItem(doc, next, u, new)
        BY <1>0, <2>1, ReplaceItemIs
    <2>3. Persist(next, Touched(u), "reply")
        BY <1>1
    <2>4. \A p \in Paths : p[1] # u => files'[p] = files[p]
        BY <1>1, <2>1, ReplacedBelongs
    <2> HIDE DEF next
    <2> QED
        BY <2>2, <2>3, <2>4, RebuildOne
<1>2. ASSUME NEW u \in Uids, NEW i \in AddDefinitions, ReplaceDefinition(u, i)
      PROVE  Effective(doc', files') = Effective(doc, files)
    <2> DEFINE new == Replacement(doc.items[u], i)
    <2>1. /\ HasItem(doc, u) /\ Persist(ReplaceItem(doc, u, new), Touched(u), "reply")
          /\ files' = ReplacedFiles(u, doc.items[u], new) /\ i \in Definitions
        BY <1>2, DefinitionsAssumption DEF ReplaceDefinition
    <2> HIDE DEF new
    <2> QED
        BY <1>1, <2>1 DEF new
<1>3. CASE BindMirror
    <2> DEFINE u   == busy.uid
               i   == busy.item
               old == doc.items[u]
    <2>1. u \in Uids /\ i \in Definitions /\ i.source = "mirror"
        BY <1>3 DEF BindMirror, Sound, Typed, Handling, Idle
    <2>2. CASE UNCHANGED <<doc, files>>
        BY <2>2
    <2>3. CASE old = NoItem /\ ~ UNCHANGED <<doc, files>>
        <3> DEFINE next == AppendItem(doc, u, i)
        <3>1. /\ Persist(next, Rule("never"), "reply")
              /\ files' = WithFile(files, u, i, "mirror")
            BY <1>3, <2>3 DEF BindMirror
        <3>2. SetItem(doc, next, u, i)
            BY <1>0, <2>1, AppendItemIs
        <3>3. u \notin Reads(doc)
            BY <1>0, <2>3, ReadsInside DEF HasItem
        <3> HIDE DEF u, i, next
        <3>4. \A p \in Paths : p[1] # u => files'[p] = files[p]
            <4>1. \A p \in Paths : p[1] # u => p # PathOf(u, i)
                BY DEF PathOf
            <4> QED
                BY <1>0, <3>1, <4>1 DEF WithFile
        <3> QED
            BY <2>1, <3>1, <3>2, <3>3, <3>4, RebuildOne
    <2>4. CASE old # NoItem /\ ~ UNCHANGED <<doc, files>>
        <3> DEFINE new == Replacement(old, i)
        <3>1. /\ Persist(ReplaceItem(doc, u, new), Touched(u), "reply")
              /\ files' = ReplacedFiles(u, old, new) /\ HasItem(doc, u)
            BY <1>3, <2>1, <2>4 DEF BindMirror, HasItem
        <3> HIDE DEF u, i, new
        <3> QED
            BY <1>1, <2>1, <3>1 DEF new
    <2> QED
        BY <2>2, <2>3, <2>4
<1> QED
    BY <1>2, <1>3 DEF ReadMirror

\* New bytes for a profile, or only the time at which they were looked at.
LEMMA RebuildTouched ==
  ASSUME Sound, ~ Announced, NEW u, HasItem(doc, u), NEW i \in Definitions,
         NEW w, Persist(ReplaceItem(doc, u, i), Touched(u), w),
         UNCHANGED files \/ \E x, c : files' = [files EXCEPT ![PathOf(u, x)] = c]
  PROVE  Effective(doc', files') = Effective(doc, files)
<1> DEFINE next == ReplaceItem(doc, u, i)
<1>0. u \in Uids /\ IsDocument(doc) /\ files \in [Paths -> Contents]
    BY DEF HasItem, Sound, Typed
<1>1. SetItem(doc, next, u, i)
    BY <1>0, ReplaceItemIs
<1>2. Persist(next, Touched(u), w)
    OBVIOUS
<1>3. \A p \in Paths : p[1] # u => files'[p] = files[p]
    <2>1. \A x : \A p \in Paths : p[1] # u => p # PathOf(u, x)
        BY DEF PathOf
    <2> QED
        BY <1>0, <2>1
<1> HIDE DEF next
<1> QED
    BY <1>0, <1>1, <1>2, <1>3, RebuildOne

\* Downloads: what is stored was downloaded for a profile, or for a new one.
LEMMA RebuildDownload ==
  ASSUME Sound, ~ Announced, Download
  PROVE  Effective(doc', files') = Effective(doc, files)
<1>0. IsDocument(doc) /\ Validate(doc) /\ files \in [Paths -> Contents]
    BY DEF Sound, Typed, DocumentValid
<1>1. CASE UNCHANGED <<doc, files>>
    BY <1>1
<1>2. ASSUME NEW t \in fetches, CommitRefreshedOk(t)
      PROVE  Effective(doc', files') = Effective(doc, files)
    <2>1. HasItem(doc, t.uid)
        BY <1>2 DEF CommitRefreshedOk, Fence
    <2>2. PICK answer \in Fetch(t.for.url) :
            /\ Persist(Refreshed(t.uid, answer.named), Touched(t.uid), pending[t.uid])
            /\ files' = [files EXCEPT ![PathOf(t.uid, t.for)] = answer.content]
        BY <1>2 DEF CommitRefreshedOk
    <2>3. PICK i \in Definitions :
            Refreshed(t.uid, answer.named) = ReplaceItem(doc, t.uid, i)
        BY <1>0, <2>1, RefreshedIs
    <2> QED
        BY <2>1, <2>2, <2>3, RebuildTouched
<1>3. CASE \E p \in imports : CommitImportedOk(p)
    <2>0. PICK url \in Urls, every \in Intervals, explicit \in BOOLEAN,
               name \in {"derived", "user"} :
            \E answer \in Fetch(url), u \in GenerateUid([kind |-> "file"]) :
              LET i == Now(RemoteImportDefinition(
                             url, ImportInterval(every, explicit, answer.suggested),
                             SyncedName(name, answer.named))) IN
              CommitStateFirst(AppendItem(doc, u, i), Rule("never"),
                               WithFile(files, u, i, answer.content), u)
        BY <1>3 DEF CommitImportedOk
    <2>1. PICK answer \in Fetch(url), u \in GenerateUid([kind |-> "file"]) :
            LET i == Now(RemoteImportDefinition(
                           url, ImportInterval(every, explicit, answer.suggested),
                           SyncedName(name, answer.named))) IN
            CommitStateFirst(AppendItem(doc, u, i), Rule("never"),
                             WithFile(files, u, i, answer.content), u)
        BY <2>0
    <2> DEFINE i == Now(RemoteImportDefinition(
                          url, ImportInterval(every, explicit, answer.suggested),
                          SyncedName(name, answer.named)))
               next == AppendItem(doc, u, i)
    <2>2. i \in Definitions
        <3>1. answer.suggested \in SuggestedIntervals
            BY DEF Fetch
        <3> QED
            BY <1>0, <3>1, ImportedIs
    <2>3. /\ Persist(next, Rule("never"), "reply")
          /\ files' = WithFile(files, u, i, answer.content)
        BY <2>1 DEF CommitStateFirst
    <2> HIDE DEF i
    <2>4. u \in Uids /\ ~ HasItem(doc, u)
        BY DEF GenerateUid, Uids
    <2>5. SetItem(doc, next, u, i) /\ u \notin Reads(doc)
        BY <1>0, <2>2, <2>4, AppendItemIs, ReadsInside
    <2> HIDE DEF next
    <2>6. \A p \in Paths : p[1] # u => files'[p] = files[p]
        <3>1. \A p \in Paths : p[1] # u => p # PathOf(u, i)
            BY DEF PathOf
        <3> QED
            BY <1>0, <2>3, <3>1 DEF WithFile
    <2> QED
        BY <2>3, <2>4, <2>5, <2>6, RebuildOne
<1>4. CASE \E u \in Uids, every \in Intervals : RefreshRemote(u, every)
    BY <1>4, RebuildPatch
<1> QED
    BY <1>1, <1>2, <1>3, <1>4
    DEF Download, ScheduledRefresh, Refresh, CallerLeaves, CommitRefreshed,
        FetchPanics, ImportRemote, ImporterLeaves, CommitImported

\* A followed file asks for the rebuild it needs.
LEMMA RebuildFollow ==
  ASSUME Sound, ~ Announced, Follow
  PROVE  Effective(doc', files') = Effective(doc, files)
<1>0. IsDocument(doc) /\ Handling
    BY DEF Sound, Typed
<1>1. CASE UNCHANGED <<doc, files>>
    BY <1>1
<1>2. ASSUME NEW u \in Uids, ExternalFileChanged(u), ~ UNCHANGED <<doc, files>>
      PROVE  Effective(doc', files') = Effective(doc, files)
    <2> DEFINE i == Now(doc.items[u])
    <2>1. /\ IsExternal(doc.items[u]) /\ UNCHANGED files
          /\ Persist(ReplaceItem(doc, u, i), Touched(u), "reply")
        BY <1>2 DEF ExternalFileChanged, SymlinkChanged, MirrorChanged
    <2>2. HasItem(doc, u) /\ doc.items[u] \in Definitions
        BY <1>0, <2>1 DEF IsExternal, HasItem, IsDocument
    <2>3. i \in Definitions
        BY <1>0, <2>2, NowIs
    <2> HIDE DEF i
    <2> QED
        BY <2>1, <2>2, <2>3, RebuildTouched
<1>3. CASE CommitMirror /\ ~ UNCHANGED <<doc, files>>
    <2> DEFINE u == busy.uid
               i == Now(busy.item)
    <2>1. u \in Uids /\ busy.item \in Definitions
        BY <1>0, <1>3 DEF CommitMirror, Handling, Idle
    <2>2. /\ doc.items[u] = busy.item
          /\ Persist(ReplaceItem(doc, u, i), Touched(u), "reply")
          /\ files' = [files EXCEPT ![PathOf(u, busy.item)] = "mirror"]
        BY <1>3 DEF CommitMirror
    <2>3. HasItem(doc, u) /\ i \in Definitions
        BY <1>0, <2>1, <2>2, NowIs, Fields DEF HasItem
    <2> HIDE DEF u, i
    <2> QED
        BY <2>2, <2>3, RebuildTouched
<1> QED
    BY <1>1, <1>2, <1>3 DEF Follow, TargetChanges

\* No commit changes what the running configuration is built from without
\* telling its caller or asking for a rebuild.
THEOREM RebuildIsAsked == Spec => RebuildAsked
<1>1. Sound /\ [Next]_vars =>
        [UNCHANGED editor /\ Effective(doc', files') # Effective(doc, files)
           => notice' \in {"asked", "gone"}]_vars
    <2> SUFFICES ASSUME Sound, Next, UNCHANGED editor, ~ Announced
                 PROVE  Effective(doc', files') = Effective(doc, files)
        BY DEF Announced
    <2>1. CASE EditDocument
        BY <2>1, RebuildSelection, RebuildPatch, RebuildAddDelete, RebuildReplace
        DEF EditDocument
    <2>2. CASE SaveProfileFile
        BY <2>2 DEF SaveProfileFile, ChooseFile, WriteFile, editor, Sound, Typed
    <2>3. CASE Restart
        BY <2>3 DEF Restart
    <2> QED
        BY <2>1, <2>2, <2>3, RebuildDownload, RebuildFollow DEF Next
<1> QED
    BY <1>1, SoundInit, SoundNext, PTL DEF Spec, RebuildAsked
=============================================================================
