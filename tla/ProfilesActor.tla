--------------------------- MODULE ProfilesActor ---------------------------
(***************************************************************************)
(* The actor that owns the profiles document: its message handlers, the    *)
(* fetch tasks of refreshes and imports, the refresh timers, the watchers  *)
(* of external files and the facade's activation of a new profile.         *)
(*                                                                         *)
(* A handler runs to its end before the next message is taken, so it is    *)
(* one action; where it waits for the content of an external file, which   *)
(* can change meanwhile, it is two (busy).  A commit with its file is one  *)
(* step that succeeds or changes nothing: what happens inside, and after a *)
(* failed compensation, is the subject of ProfileMaterialization.          *)
(*                                                                         *)
(* Replace (actor.rs:1164-1179) has no caller outside the tests and is     *)
(* left out.                                                               *)
(***************************************************************************)
EXTENDS Integers, Sequences, FiniteSets, SequencesExt

CONSTANTS
  ConfigUids,     \* ids generate_uid can draw for a config ("c...")
  TransformUids,  \* ids it can draw for a transform ("t...")
  NoUid,          \* no profile selected
  Urls,           \* subscription addresses
  Intervals,      \* update intervals in use, in minutes
  AddDefinitions, \* definitions requests carry
  StartDocuments, \* documents a start may load
  MaxRevision,    \* bound on the revision of the document
  MaxTarget,      \* bound on the versions of the external file
  MaxImports      \* bound on concurrent imports

ASSUME NoUidAssumption == NoUid \notin ConfigUids \union TransformUids
ASSUME IntervalsAssumption == Intervals \subseteq Nat \ {0}
ASSUME RevisionAssumption == MaxRevision \in Nat /\ MaxTarget \in Nat

VARIABLES
  doc,        \* the committed Profiles document
  files,      \* content of the materialized file of each path
  pending,    \* pending_refresh: who waits for the refresh of each profile
  fetches,    \* running fetch tasks of refreshes
  imports,    \* pending_imports, each with its supervised fetch task
  timers,     \* RemoteUpdateScheduler: interval of each entry, 0 without one
  watchers,   \* ExternalWatchers: profiles with an entry
  changed,    \* ExternalFileChanged messages in the mailbox
  activating, \* profiles the facade will try to activate
  busy,       \* the handler waiting for the content of an external file
  saving,     \* path a save of the editor is about to write, or NoPath
  target,     \* version of the external file
  notice,     \* what the last commit did about the running configuration
  seen,       \* history: version of the external file last taken over
  lag,        \* history: external profiles for which an event was lost
  late        \* history: paths a save wrote after they had changed hands

vars == <<doc, files, pending, fetches, imports, timers, watchers,
          changed, activating, busy, saving, target, notice, seen, lag, late>>

Uids == ConfigUids \union TransformUids
NoItem == [kind |-> "none"]
Idle == [op |-> "idle", uid |-> NoUid]
Paths == Uids \X {"yaml", "js"}
NoPath == <<NoUid, "none">>
editor == <<saving, late>>
Contents == {"absent", "empty", "local", "link", "mirror"} \union Urls

-----------------------------------------------------------------------------
(* The document *)

\* A profile: what it is, where its content comes from, what it names.
Definitions ==
  {i \in [kind : {"file", "composition", "overlay", "script"},
          source : {"managed", "symlink", "mirror", "remote", "none"},
          url : Urls \union {"none"}, every : {0} \union Intervals,
          base : Uids \union {NoUid}, extend : SUBSET Uids, transforms : SUBSET Uids,
          stamp : Nat, name : {"derived", "server", "user"}] :
     /\ i.kind = "composition" <=> i.source = "none"
     /\ i.source = "remote" => i.url \in Urls
     /\ i.kind # "composition" => i.base = NoUid /\ i.extend = {}
     /\ i.kind \in {"overlay", "script"} => i.transforms = {}}

IsDocument(d) ==
  /\ d = [current |-> d.current, global |-> d.global, valid |-> d.valid,
          items |-> d.items, order |-> d.order, revision |-> d.revision]
  /\ d.current \in Uids \union {NoUid}
  /\ d.global \in SUBSET Uids
  /\ d.items \in [Uids -> Definitions \union {NoItem}]
  /\ d.revision \in Nat

ASSUME DefinitionsAssumption == AddDefinitions \subseteq Definitions
ASSUME DocumentsAssumption ==
  \A d \in StartDocuments : IsDocument(d) /\ d.revision <= MaxRevision

HasItem(d, u) == u \in Uids /\ d.items[u] # NoItem
IsConfig(i) == i.kind \in {"file", "composition"}
IsTransform(i) == i.kind \in {"overlay", "script"}
IsRemote(i) == i # NoItem /\ i.source = "remote"
IsExternal(i) == i # NoItem /\ i.source \in {"symlink", "mirror"}
HasSource(i) == i.kind # "composition"

ValidTransforms(d, ids) ==
  \A t \in ids : HasItem(d, t) /\ IsTransform(d.items[t])

ValidMember(d, u, m) == m # u /\ HasItem(d, m) /\ d.items[m].kind = "file"

ValidComposition(d, u) ==
  LET i == d.items[u] IN
  /\ i.base # NoUid \/ i.extend # {} \/ i.transforms # {}
  /\ i.base # NoUid => ValidMember(d, u, i.base)
  /\ i.base \notin i.extend
  /\ \A m \in i.extend : ValidMember(d, u, m)

ValidSource(i) == i.source = "remote" => i.every > 0

Validate(d) ==
  /\ d.current # NoUid => HasItem(d, d.current) /\ IsConfig(d.items[d.current])
  /\ ValidTransforms(d, d.global)
  /\ \A u \in Uids : HasItem(d, u) =>
       /\ IsConfig(d.items[u]) => ValidTransforms(d, d.items[u].transforms)
       /\ d.items[u].kind = "composition" => ValidComposition(d, u)
       /\ ValidSource(d.items[u])

CanonicalExtension(i) == IF i.kind = "script" THEN "js" ELSE "yaml"
PathOf(u, i) == <<u, CanonicalExtension(i)>>

CurrentClosureNoBaseTransforms(d) ==
  LET i == d.items[d.current] IN
  IF d.current = NoUid THEN d.global
  ELSE d.global \union {d.current} \union i.transforms
         \union (({i.base} \ {NoUid}) \union i.extend)

\* What the selected configuration is made of: the profile itself, the base
\* and the contributors of a composition, and the transforms of them all.
CurrentClosure(d) ==
  LET i == d.items[d.current]
      configs == {d.current} \union
                 (IF i.kind = "composition"
                  THEN ({i.base} \ {NoUid}) \union i.extend ELSE {})
  IN IF d.current = NoUid THEN d.global
     ELSE d.global \union configs
            \union UNION {d.items[c].transforms :
                          c \in {c \in configs : HasItem(d, c) /\ IsConfig(d.items[c])}}

Touched(u) == [rule |-> "touched", uid |-> u]
Rule(r) == [rule |-> r, uid |-> NoUid]

EvaluateAffects(a, before, after) ==
  \/ a.rule = "always"
  \/ a.rule = "current" /\ before.current # after.current
  \/ a.rule = "global" /\ before.global # after.global
  \/ /\ a.rule = "touched"
     /\ \/ CurrentClosure(before) # CurrentClosure(after)
        \/ a.uid \in CurrentClosure(before) \union CurrentClosure(after)

\* ProfileDependencyIndex::build, as referrers_of reads it: the profiles whose
\* definition names u.
Dependents(d, u) ==
  {v \in Uids : /\ HasItem(d, v)
                /\ IsConfig(d.items[v])
                /\ \/ u \in d.items[v].transforms
                   \/ d.items[v].kind = "composition"
                      /\ u \in {d.items[v].base} \union d.items[v].extend}

Referenced(d, u) == Dependents(d, u) # {} \/ d.current = u \/ u \in d.global

ReplaceItem(d, u, i) == [d EXCEPT !.items = [@ EXCEPT ![u] = i]]

AppendItem(d, u, i) ==
  [ReplaceItem(d, u, i) EXCEPT !.order = Append(@, u)]

RemoveItem(d, u) ==
  [ReplaceItem(d, u, NoItem) EXCEPT !.order = SelectSeq(@, LAMBDA v : v # u)]

-----------------------------------------------------------------------------
(* Timers and watchers *)

DesiredTimer(d, u) == IF IsRemote(d.items[u]) THEN d.items[u].every ELSE 0

\* reconcile of RemoteUpdateScheduler: entries of another interval are aborted,
\* missing ones started.
ReconcileTimers(d) == [u \in Uids |-> DesiredTimer(d, u)]

ReconcileTimersAddOnly(d) ==
  [u \in Uids |-> IF timers[u] # 0 THEN timers[u] ELSE DesiredTimer(d, u)]

WatchPaths(d) == {u \in Uids : IsExternal(d.items[u])}

\* reconcile of ExternalWatchers: a new watch may fail, and is tried again at
\* the next commit.
ReconcileWatchers(d, failed) ==
  (watchers \intersect WatchPaths(d)) \union (WatchPaths(d) \ failed)

NewWatches(d) == WatchPaths(d) \ watchers

ReconcileCommittedAddOnly(d) ==
  /\ timers' = ReconcileTimersAddOnly(d)
  /\ \E failed \in SUBSET NewWatches(d) :
       watchers' = ReconcileWatchers(d, failed)

ReconcileCommitted(d) ==
  /\ timers' = ReconcileTimers(d)
  /\ \E failed \in SUBSET NewWatches(d) :
       watchers' = ReconcileWatchers(d, failed)

-----------------------------------------------------------------------------
(* Commits *)

PrepareCandidateUnchecked(next) == doc.revision < MaxRevision

\* prepare_candidate: validation, then the next revision.
PrepareCandidate(next) == Validate(next) /\ doc.revision < MaxRevision

\* The document a commit stores, the derived state and the report.  A refused
\* or failed commit leaves everything as it was.  The mailbox keeps what
\* aborted timers and dropped watchers had already sent.
Persist(next, affects, who) ==
  /\ PrepareCandidate(next)
  /\ doc' = [next EXCEPT !.revision = @ + 1]
  /\ ReconcileCommitted(next)
  /\ notice' = IF ~EvaluateAffects(affects, doc, next) THEN "none"
               ELSE IF who = "gone" THEN "gone" ELSE "asked"

\* run_state_write
RunStateWrite(next, affects) ==
  /\ Persist(next, affects, "reply")
  /\ lag' = lag \union (WatchPaths(next) \ watchers')
  /\ UNCHANGED <<files, pending, fetches, imports, changed, activating,
                 busy, target, seen>>

\* The handlers take a message only when none is being handled.
Free == busy = Idle

Now(i) == [i EXCEPT !.stamp = doc.revision + 1]

SetCurrent(c) ==
  Free /\ RunStateWrite([doc EXCEPT !.current = c], Rule("current"))

SetCurrentIfNone(u) ==
  /\ LET next == [doc EXCEPT !.current = u] IN
     \/ /\ doc.current = NoUid
        /\ Persist(next, Rule("current"), "reply")
        /\ lag' = lag \union (WatchPaths(next) \ watchers')
     \/ /\ doc.current # NoUid \/ ~Validate(next)
        /\ UNCHANGED <<doc, timers, watchers, notice, lag>>
  /\ UNCHANGED <<files, pending, fetches, imports, changed, busy,
                 target, seen>>

\* The facade's activation of a profile it has just added or imported, in a
\* message of its own.
TryAutoActivateIfNone(u) ==
  /\ Free
  /\ u \in activating
  /\ activating' = activating \ {u}
  /\ SetCurrentIfNone(u)

SetGlobalTransforms(ids) ==
  Free /\ RunStateWrite([doc EXCEPT !.global = ids], Rule("global"))

SetValidFields ==
  Free /\ RunStateWrite([doc EXCEPT !.valid = ~@], Rule("always"))

Reorder(order) ==
  /\ Free
  /\ order \in SetToSeqs(Range(doc.order))
  /\ order # doc.order
  /\ RunStateWrite([doc EXCEPT !.order = order], Rule("never"))

\* A rename by the user pins the name.
PatchMetadata(u) ==
  /\ Free
  /\ HasItem(doc, u)
  /\ RunStateWrite(ReplaceItem(doc, u, [doc.items[u] EXCEPT !.name = "user"]),
                   Rule("never"))

PatchRemoteOptions(u, every) ==
  /\ Free
  /\ HasItem(doc, u)
  /\ IsRemote(doc.items[u])
  /\ RunStateWrite(ReplaceItem(doc, u, [doc.items[u] EXCEPT !.every = every]),
                   Rule("never"))

-----------------------------------------------------------------------------
(* Profiles come and go *)

\* resource_for_definition, without the mirror, whose content is read first.
Resource(i) == CASE i.source = "managed" -> "local"
                 [] i.source = "symlink" -> "link"
                 [] i.source = "mirror"  -> "mirror"
                 [] i.source = "remote"  -> "empty"

\* generate_uid: any unused id with the prefix of the definition.
GenerateUid(i) ==
  {u \in IF IsConfig(i) THEN ConfigUids ELSE TransformUids : ~HasItem(doc, u)}

WithFile(f, u, i, content) ==
  IF HasSource(i) THEN [f EXCEPT ![PathOf(u, i)] = content] ELSE f

\* finish_cleanup: the file at the path the profile had before.
WithoutFile(f, u, i) ==
  IF HasSource(i) THEN [f EXCEPT ![PathOf(u, i)] = "absent"] ELSE f

CommitStateFirst(next, affects, newFiles, u) ==
  /\ Persist(next, affects, "reply")
  /\ files' = newFiles
  /\ lag' = (lag \ {u}) \union (WatchPaths(next) \ watchers')

Add(i) ==
  /\ Free
  /\ i.source # "mirror"
  /\ \E u \in GenerateUid(i) :
       /\ CommitStateFirst(AppendItem(doc, u, i), Rule("never"),
                           WithFile(files, u, i, Resource(i)), u)
       /\ activating' = IF IsConfig(i) THEN activating \union {u} ELSE activating
       /\ seen' = [seen EXCEPT ![u] = target]
  /\ UNCHANGED <<pending, fetches, imports, changed, busy, target>>

\* add_profile of the facade refuses remote definitions, so the empty shell a
\* direct add would leave is never reached; create_profile then activates.
CreateProfile(i) == i.source # "remote" /\ Add(i)

Delete(u) ==
  /\ Free
  /\ HasItem(doc, u)
  /\ ~Referenced(doc, u)
  /\ CommitStateFirst(RemoveItem(doc, u), Rule("never"),
                      WithoutFile(files, u, doc.items[u]), u)
  /\ UNCHANGED <<pending, fetches, imports, changed, activating, busy,
                 target, seen>>

\* retains_materialization: the file may stay only when it holds the bytes of
\* the same source.
RetainsMaterialization(previous, next) ==
  /\ HasSource(previous) /\ HasSource(next)
  /\ CanonicalExtension(previous) = CanonicalExtension(next)
  /\ previous.source = next.source
  /\ previous.source = "remote" => previous.url = next.url

\* The definition stored by ReplaceDefinition: the time of the last update
\* survives only with the file.
Replacement(previous, i) ==
  [i EXCEPT !.stamp = IF RetainsMaterialization(previous, i)
                      THEN previous.stamp ELSE 0,
            !.name = previous.name]

\* The files after the replacement: nothing to write in the same slot, and the
\* old path is cleaned up when it is no longer used.
ReplacedFiles(u, previous, i) ==
  LET cleaned == IF HasSource(previous)
                    /\ (~HasSource(i) \/ PathOf(u, previous) # PathOf(u, i))
                 THEN WithoutFile(files, u, previous) ELSE files
  IN IF RetainsMaterialization(previous, i) THEN files
     ELSE WithFile(cleaned, u, i, Resource(i))

\* The mirror's content must be read before a profile is bound to it anew.
NeedsRead(u, i) ==
  /\ i.source = "mirror"
  /\ ~(HasItem(doc, u) /\ RetainsMaterialization(doc.items[u], i))

ReplaceDefinition(u, i) ==
  /\ Free
  /\ HasItem(doc, u)
  /\ ~NeedsRead(u, i)
  /\ LET new == Replacement(doc.items[u], i)
         kept == RetainsMaterialization(doc.items[u], i)
     IN
     /\ Persist(ReplaceItem(doc, u, new), Touched(u), "reply")
     /\ files' = ReplacedFiles(u, doc.items[u], new)
     /\ seen' = [seen EXCEPT ![u] = IF kept THEN @ ELSE target]
     /\ lag' = (IF kept THEN lag ELSE lag \ {u})
                 \union (WatchPaths(doc') \ watchers')
  /\ UNCHANGED <<pending, fetches, imports, changed, activating, busy,
                 target>>

\* Add and ReplaceDefinition of a mirror: the handler reads the external file
\* on a blocking thread and waits.
ReadMirror(u, i) ==
  /\ Free
  /\ NeedsRead(u, i)
  /\ \/ HasItem(doc, u)
     \/ u \in GenerateUid(i)
  /\ busy' = [op |-> "bind", uid |-> u, item |-> i, version |-> target]
  /\ lag' = lag \ {u}
  /\ UNCHANGED <<doc, files, pending, fetches, imports, timers, watchers,
                 changed, activating, target, notice, seen>>

\* ... and commits the profile with the bytes it read, or nothing.
BindMirror ==
  /\ busy.op = "bind"
  /\ busy' = Idle
  /\ LET u == busy.uid
         old == doc.items[u]
         new == IF old = NoItem THEN busy.item ELSE Replacement(old, busy.item)
         next == IF old = NoItem THEN AppendItem(doc, u, new)
                 ELSE ReplaceItem(doc, u, new)
     IN
     \/ /\ Persist(next, IF old = NoItem THEN Rule("never") ELSE Touched(u), "reply")
        /\ files' = IF old = NoItem THEN WithFile(files, u, new, "mirror")
                    ELSE ReplacedFiles(u, old, new)
        /\ activating' = IF old = NoItem /\ IsConfig(new)
                         THEN activating \union {u} ELSE activating
        /\ seen' = [seen EXCEPT ![u] = busy.version]
        /\ lag' = lag \union (WatchPaths(next) \ watchers')
                      \union (IF target # busy.version THEN {u} ELSE {})
     \/ /\ lag' = lag \union ({u} \intersect WatchPaths(doc))
        /\ UNCHANGED <<doc, files, timers, watchers, activating, notice, seen>>
  /\ UNCHANGED <<pending, fetches, imports, changed, target>>

-----------------------------------------------------------------------------
(* Refresh and import *)

\* The profile-update-interval header: 0 when absent, not positive or too large.
SuggestedIntervals == {0} \union Intervals

\* Whether the answer carries a profile-title or a file name.
ProfileTitles == BOOLEAN

\* A download that ends in an answer; retries, and the end in an error, show as
\* an answer that is not used.
Fetch(url) ==
  {[content |-> c, named |-> n, suggested |-> m] :
     c \in {url, "malformed"}, n \in ProfileTitles, m \in SuggestedIntervals}

\* validate_fetched_content: a mapping with proxies, or a script.
ValidFetchedContent(i, content) == content # "malformed"

\* What the download was started for: serialized definition and url.
Fingerprint(i) == [i EXCEPT !.name = "any"]

StartFetch(u, i, who) ==
  /\ pending' = [pending EXCEPT ![u] = who]
  /\ fetches' = fetches \union {[uid |-> u, for |-> Fingerprint(i)]}

RefreshTwice(u, who) ==
  /\ HasItem(doc, u)
  /\ IsRemote(doc.items[u])
  /\ StartFetch(u, doc.items[u], who)
  /\ UNCHANGED <<doc, files, timers, watchers, notice, lag>>

\* RefreshRemote without a patch; everything else is refused and changes
\* nothing.
Refresh(u, who) ==
  /\ pending[u] = "none"
  /\ HasItem(doc, u)
  /\ IsRemote(doc.items[u])
  /\ StartFetch(u, doc.items[u], who)
  /\ UNCHANGED <<doc, files, timers, watchers, notice, lag>>

\* A caller's refresh, with a patch of the options that is committed first.
RefreshRemote(u, every) ==
  /\ Free
  /\ \/ Refresh(u, "reply")
     \/ /\ pending[u] = "none"
        /\ HasItem(doc, u)
        /\ IsRemote(doc.items[u])
        /\ LET next == ReplaceItem(doc, u, [doc.items[u] EXCEPT !.every = every]) IN
           /\ Persist(next, Rule("never"), "reply")
           /\ lag' = lag \union (WatchPaths(next) \ watchers')
           /\ StartFetch(u, next.items[u], "reply")
        /\ UNCHANGED files
  /\ UNCHANGED <<imports, changed, activating, busy, target, seen>>

\* A timer's message, or at start that of an overdue subscription: nobody waits
\* for the answer.  A timer of the scheduler has a remote profile, and a message
\* that outlives its timer is refused or taken for a later one, so the message
\* is taken as soon as it is sent.
ScheduledRefresh(u) ==
  /\ Free
  /\ timers[u] # 0
  /\ Refresh(u, "silent")
  /\ UNCHANGED <<imports, changed, activating, busy, target, seen>>

FenceUrlOnly(t) ==
  HasItem(doc, t.uid) /\ IsRemote(doc.items[t.uid])

\* The stale-download fence of CommitRefreshed.
Fence(t) ==
  /\ HasItem(doc, t.uid)
  /\ Fingerprint(doc.items[t.uid]) = t.for
  /\ IsRemote(doc.items[t.uid])
  /\ doc.items[t.uid].url = t.for.url

\* synced_name: only a name the user has not chosen follows the server's.
SyncedName(name, server) == IF name = "user" \/ ~server THEN name ELSE "server"

\* The document after a refresh, from the document at the time of the commit.
Refreshed(u, server) ==
  ReplaceItem(doc, u, [Now(doc.items[u]) EXCEPT !.name = SyncedName(@, server)])

\* A finished download is committed, file first, if nothing fenced it.
CommitRefreshedOk(t) ==
  /\ Fence(t)
  /\ \E answer \in Fetch(t.for.url) :
       LET next == Refreshed(t.uid, answer.named) IN
       /\ ValidFetchedContent(t.for, answer.content)
       /\ Persist(next, Touched(t.uid), pending[t.uid])
       /\ lag' = lag \union (WatchPaths(next) \ watchers')
       /\ files' = [files EXCEPT ![PathOf(t.uid, t.for)] = answer.content]

\* CommitRefreshed: the entry is removed whatever the outcome is.
CommitRefreshed(t) ==
  /\ Free
  /\ t \in fetches
  /\ fetches' = fetches \ {t}
  /\ pending' = [pending EXCEPT ![t.uid] = "none"]
  /\ \/ CommitRefreshedOk(t)
     \/ UNCHANGED <<doc, files, timers, watchers, notice, lag>>
  /\ UNCHANGED <<imports, changed, activating, busy, target, seen>>

\* The task is not supervised: a panic sends no message and the entry stays
\* ("stuck" to a reader of this model, like any other to the code).
FetchPanics(t) ==
  /\ t \in fetches
  /\ fetches' = fetches \ {t}
  /\ pending' = [pending EXCEPT ![t.uid] = "stuck"]
  /\ UNCHANGED <<doc, files, imports, timers, watchers, changed,
                 activating, busy, target, notice, seen, lag>>

\* The facade's future is dropped while it waits.
CallerLeaves(u) ==
  /\ pending[u] = "reply"
  /\ pending' = [pending EXCEPT ![u] = "gone"]
  /\ UNCHANGED <<doc, files, fetches, imports, timers, watchers, changed,
                 activating, busy, target, notice, seen, lag>>

RemoteImportDefinition(url, every, name) ==
  [kind |-> "file", source |-> "remote", url |-> url, every |-> every,
   base |-> NoUid, extend |-> {}, transforms |-> {}, stamp |-> 0, name |-> name]

\* validate_import_request: the document with the new profile, not stored.
ValidateImportRequest(url, every) ==
  \E u \in GenerateUid([kind |-> "file"]) :
    Validate(AppendItem(doc, u, RemoteImportDefinition(url, every, "derived")))

\* ImportRemote under a fresh token.  Address, options and metadata of the
\* request do not change while it is pending: they are drawn when they are used.
ImportRemote ==
  /\ Free
  /\ \E url \in Urls, every \in Intervals : ValidateImportRequest(url, every)
  /\ \E tok \in 1..MaxImports :
       /\ \A p \in imports : p.token # tok
       /\ imports' = imports \union {[token |-> tok, gone |-> FALSE]}
  /\ UNCHANGED <<doc, files, pending, fetches, timers, watchers, changed,
                 activating, busy, target, notice, seen, lag>>

ImporterLeaves(p) ==
  /\ p \in imports
  /\ ~p.gone
  /\ imports' = (imports \ {p}) \union {[p EXCEPT !.gone = TRUE]}
  /\ UNCHANGED <<doc, files, pending, fetches, timers, watchers, changed,
                 activating, busy, target, notice, seen, lag>>

\* A suggestion counts unless the caller gave an interval.
ImportInterval(every, explicit, suggested) ==
  IF explicit \/ suggested = 0 THEN every ELSE suggested

\* The profile is created with its bytes, state first; the suggested interval
\* and the server's name apply where the caller chose none.
CommitImportedOk(p) ==
  /\ ~p.gone
  /\ \E url \in Urls, every \in Intervals, explicit \in BOOLEAN, name \in {"derived", "user"} :
     \E answer \in Fetch(url), u \in GenerateUid([kind |-> "file"]) :
       LET i == Now(RemoteImportDefinition(
                      url, ImportInterval(every, explicit, answer.suggested),
                      SyncedName(name, answer.named))) IN
       /\ ValidFetchedContent(i, answer.content)
       /\ CommitStateFirst(AppendItem(doc, u, i), Rule("never"),
                           WithFile(files, u, i, answer.content), u)
       /\ activating' = activating \union {u}

\* CommitImported: the entry is removed; a closed reply, a failed or panicked
\* fetch and a failed commit leave nothing behind.
CommitImported(p) ==
  /\ Free
  /\ p \in imports
  /\ imports' = imports \ {p}
  /\ \/ CommitImportedOk(p)
     \/ UNCHANGED <<doc, files, timers, watchers, activating, notice, lag>>
  /\ UNCHANGED <<pending, fetches, changed, busy, target, seen>>

-----------------------------------------------------------------------------
(* External files *)

\* Another program rewrites the external file; every watcher sends an event.
TargetChanges ==
  /\ target < MaxTarget
  /\ target' = target + 1
  /\ changed' = changed \union watchers
  /\ lag' = lag \union (WatchPaths(doc) \ watchers)
  /\ UNCHANGED <<doc, files, pending, fetches, imports, timers, watchers,
                 activating, busy, notice, seen>>

\* ExternalFileChanged of a symlink: the bytes are the target's own, so only
\* the time of the update is committed.
SymlinkChanged(u) ==
  \/ /\ Persist(ReplaceItem(doc, u, Now(doc.items[u])), Touched(u), "reply")
     /\ seen' = [seen EXCEPT ![u] = target]
     /\ lag' = (lag \ {u}) \union (WatchPaths(doc) \ watchers')
     /\ UNCHANGED busy
  \/ /\ lag' = lag \union {u}
     /\ UNCHANGED <<doc, timers, watchers, notice, seen, busy>>

\* ... of a mirror: the handler reads the file and waits; a failed read or
\* content that does not parse is only logged.
MirrorChanged(u) ==
  /\ \/ /\ busy' = [op |-> "mirror", uid |-> u, item |-> doc.items[u],
                    version |-> target]
        /\ UNCHANGED lag
     \/ lag' = lag \union {u} /\ UNCHANGED busy
  /\ UNCHANGED <<doc, timers, watchers, notice, seen>>

ExternalFileChanged(u) ==
  /\ Free
  /\ u \in changed
  /\ changed' = changed \ {u}
  /\ \/ ~IsExternal(doc.items[u])
        /\ UNCHANGED <<doc, timers, watchers, notice, seen, lag, busy>>
     \/ IsExternal(doc.items[u]) /\ doc.items[u].source = "symlink" /\ SymlinkChanged(u)
     \/ IsExternal(doc.items[u]) /\ doc.items[u].source = "mirror" /\ MirrorChanged(u)
  /\ UNCHANGED <<files, pending, fetches, imports, activating, target>>

\* What was lost is made up for by reading the version the file still has.
CaughtUp == IF busy.version = target THEN {busy.uid} ELSE {}

CommitMirrorDropsEvents ==
  /\ busy.op = "mirror"
  /\ busy' = Idle
  /\ changed' = changed \ {busy.uid}
  /\ LET u == busy.uid IN
     \/ /\ doc.items[u] = busy.item
        /\ Persist(ReplaceItem(doc, u, Now(busy.item)), Touched(u), "reply")
        /\ files' = [files EXCEPT ![PathOf(u, busy.item)] = "mirror"]
        /\ seen' = [seen EXCEPT ![u] = busy.version]
        /\ lag' = (lag \ CaughtUp) \union (WatchPaths(doc) \ watchers')
     \/ lag' = lag \union {u} /\ UNCHANGED <<doc, files, timers, watchers, notice, seen>>
  /\ UNCHANGED <<pending, fetches, imports, activating, target>>

\* ... and commits the bytes it read, file first; the definition is compared
\* with the one the read was for.
CommitMirror ==
  /\ busy.op = "mirror"
  /\ busy' = Idle
  /\ LET u == busy.uid IN
     \/ /\ doc.items[u] = busy.item
        /\ Persist(ReplaceItem(doc, u, Now(busy.item)), Touched(u), "reply")
        /\ files' = [files EXCEPT ![PathOf(u, busy.item)] = "mirror"]
        /\ seen' = [seen EXCEPT ![u] = busy.version]
        /\ lag' = (lag \ CaughtUp) \union (WatchPaths(doc) \ watchers')
     \/ lag' = lag \union {u} /\ UNCHANGED <<doc, files, timers, watchers, notice, seen>>
  /\ UNCHANGED <<pending, fetches, imports, changed, activating, target>>

-----------------------------------------------------------------------------
(* The editor *)

\* save_profile_file asks the actor for the document and, for a managed file,
\* goes on to write it without the actor.
ChooseFile(u) ==
  /\ Free
  /\ saving = NoPath
  /\ HasItem(doc, u)
  /\ doc.items[u].source = "managed"
  /\ saving' = PathOf(u, doc.items[u])
  /\ UNCHANGED <<files, late>>

\* The write lands whatever has become of the profile since.
WriteFile ==
  /\ saving # NoPath
  /\ files' = [files EXCEPT ![saving] = "local"]
  /\ saving' = NoPath
  /\ late' = LET i == doc.items[saving[1]] IN
             IF i # NoItem /\ i.source = "managed" /\ PathOf(saving[1], i) = saving
             THEN late ELSE late \union {saving}

SaveProfileFile ==
  /\ WriteFile \/ \E u \in Uids : ChooseFile(u)
  /\ UNCHANGED <<doc, pending, fetches, imports, timers, watchers, changed,
                 activating, busy, target, notice, seen, lag>>

-----------------------------------------------------------------------------
(* Start and stop *)

\* post_stop or the end of the process, and the next pre_start and post_start:
\* tasks, messages and timers go, document and files stay.  Events of the
\* external file that were under way are lost.
Restart ==
  /\ \E failed \in SUBSET WatchPaths(doc) : watchers' = WatchPaths(doc) \ failed
  /\ lag' = lag \union (WatchPaths(doc) \ watchers')
                 \union ((changed \union {busy.uid}) \intersect WatchPaths(doc))
  /\ timers' = ReconcileTimers(doc)
  /\ pending' = [u \in Uids |-> "none"]
  /\ fetches' = {}
  /\ imports' = {}
  /\ changed' = {}
  /\ activating' = {}
  /\ busy' = Idle
  /\ saving' = NoPath
  /\ UNCHANGED <<doc, files, target, notice, seen, late>>

StartFile(d, u, i) ==
  CASE i.source = "remote" -> IF i.stamp = 0 THEN "empty" ELSE i.url
    [] OTHER -> Resource(i)

\* ProfilesClient::new: the document is loaded and validated.
Init ==
  /\ doc \in {d \in StartDocuments : Validate(d)}
  /\ files = [p \in Paths |->
                LET i == doc.items[p[1]] IN
                IF HasItem(doc, p[1]) /\ HasSource(i) /\ PathOf(p[1], i) = p
                THEN StartFile(doc, p[1], i) ELSE "absent"]
  /\ pending = [u \in Uids |-> "none"]
  /\ fetches = {}
  /\ imports = {}
  /\ timers = [u \in Uids |-> DesiredTimer(doc, u)]
  /\ watchers = WatchPaths(doc)
  /\ changed = {}
  /\ activating = {}
  /\ busy = Idle
  /\ saving = NoPath
  /\ late = {}
  /\ target = 0
  /\ notice = "none"
  /\ seen = [u \in Uids |-> 0]
  /\ lag = {}

EditDocument ==
  \/ \E c \in ConfigUids \union {NoUid} : c # doc.current /\ SetCurrent(c)
  \/ \E u \in Uids : TryAutoActivateIfNone(u)
  \/ \E ids \in SUBSET TransformUids : ids # doc.global /\ SetGlobalTransforms(ids)
  \/ SetValidFields
  \/ \E order \in SetToSeqs(Range(doc.order)) : Reorder(order)
  \/ \E u \in Uids : PatchMetadata(u)
  \/ \E u \in Uids, every \in Intervals : PatchRemoteOptions(u, every)
  \/ \E i \in AddDefinitions : CreateProfile(i)
  \/ \E u \in Uids : Delete(u)
  \/ \E u \in Uids, i \in AddDefinitions : ReplaceDefinition(u, i) \/ ReadMirror(u, i)
  \/ BindMirror

Download ==
  \/ \E u \in Uids, every \in Intervals : RefreshRemote(u, every)
  \/ \E u \in Uids : ScheduledRefresh(u) \/ CallerLeaves(u)
  \/ \E t \in fetches : CommitRefreshed(t) \/ FetchPanics(t)
  \/ ImportRemote
  \/ \E p \in imports : ImporterLeaves(p) \/ CommitImported(p)

Follow ==
  \/ TargetChanges
  \/ \E u \in Uids : ExternalFileChanged(u)
  \/ CommitMirror

Next ==
  \/ (EditDocument \/ Download \/ Follow) /\ UNCHANGED editor
  \/ SaveProfileFile
  \/ Restart

Spec == Init /\ [][Next]_vars

-----------------------------------------------------------------------------
(* Properties *)

\* The document, the mailbox and the actor's tables have their types.
TypeOK ==
  /\ IsDocument(doc) /\ doc.revision <= MaxRevision
  /\ Range(doc.order) = {u \in Uids : HasItem(doc, u)}
  /\ Len(doc.order) = Cardinality(Range(doc.order))
  /\ files \in [Paths -> Contents]
  /\ pending \in [Uids -> {"none", "reply", "gone", "silent", "stuck"}]
  /\ timers \in [Uids -> {0} \union Intervals]
  /\ watchers \union changed \union activating \union lag \subseteq Uids
  /\ notice \in {"none", "asked", "gone"}
  /\ target \in 0..MaxTarget /\ seen \in [Uids -> 0..MaxTarget]

\* Whatever order messages, downloads and file events arrive in, the committed
\* document passes its own validation: the selected profile, the transforms and
\* the members of compositions exist and are of the right kind, although they
\* can be replaced and deleted while other messages name them.
DocumentValid == Validate(doc)

\* The bytes beside each committed profile are those its definition calls for: a
\* subscription has what was downloaded from its own url, or the empty
\* placeholder, never the late answer for a definition that was replaced
\* meanwhile; and no file outlives its profile.  Only a save of the editor that
\* lands after the profile changed hands (late) breaks this.
FileOf(u, i, content) ==
  CASE i.source = "managed" -> content = "local"
    [] i.source = "symlink" -> content = "link"
    [] i.source = "mirror"  -> content = "mirror"
    [] i.source = "remote"  -> content \in {"empty", i.url}

FilesBelong ==
  \A p \in Paths \ late :
    LET i == doc.items[p[1]] IN
    IF HasItem(doc, p[1]) /\ HasSource(i) /\ PathOf(p[1], i) = p
    THEN FileOf(p[1], i, files[p]) ELSE files[p] = "absent"

\* "remote profiles are updater-owned": a file of a subscription never holds
\* what was saved in the editor.
UpdaterOwned ==
  \A u \in Uids :
    IsRemote(doc.items[u]) => files[PathOf(u, doc.items[u])] # "local"

\* After every message the refresh timers are those of the committed document,
\* with its intervals, and only external profiles are watched, whichever
\* handler committed and whatever was replaced.
SchedulesMatch ==
  /\ \A u \in Uids : timers[u] = DesiredTimer(doc, u)
  /\ watchers \subseteq WatchPaths(doc)

\* A watched external file is followed: when no event for it is queued or being
\* handled and none was lost to a failed read, commit or watch, the profile was
\* last brought up to date from the file's present version.  In particular a
\* change during the handling of an event is not swallowed.
ExternalFresh ==
  \A u \in WatchPaths(doc) :
    u \notin changed \union lag /\ busy.uid # u => seen[u] = target

\* The profiles a build of the selected configuration reads: whatever can be
\* reached from the selection through definitions.
Names(d, S) == S \union UNION {({d.items[u].base} \ {NoUid}) \union d.items[u].extend
                                 \union d.items[u].transforms : u \in S}
Reads(d) == d.global \union Names(d, Names(d, {d.current} \ {NoUid}))

\* What the running configuration is built from.
Effective(d, f) ==
  [current |-> d.current, global |-> d.global, valid |-> d.valid,
   parts |-> [u \in Reads(d) |->
                LET i == d.items[u] IN
                <<i.kind, i.base, i.extend, i.transforms,
                  IF HasSource(i) THEN f[PathOf(u, i)] ELSE "absent">>]]

\* No commit changes what the running configuration is built from without either
\* telling the caller that the current configuration is affected or requesting a
\* rebuild itself; the only exception is a caller that no longer listens.  (What
\* the editor saves is no commit.)
RebuildAsked ==
  [][UNCHANGED editor /\ Effective(doc', files') # Effective(doc, files)
       => notice' \in {"asked", "gone"}]_vars

\* Every entry of pending_refresh has exactly one task that will remove it, so
\* neither its caller nor the next refresh of the profile is locked out; the one
\* exception is a task that panicked.
RefreshOwned ==
  \A u \in Uids :
    Cardinality({t \in fetches : t.uid = u}) =
      IF pending[u] \in {"none", "stuck"} THEN 0 ELSE 1

=============================================================================
