---------------------------- MODULE LegacyVerge ----------------------------
(***************************************************************************)
(* The three typed configuration domains and the legacy IVerge bridge on   *)
(* top of them, in backend/tauri/src: state/{application,session_state,    *)
(* clash_config}.rs (one actor per domain), bridge/{mod,verge,window,      *)
(* clash}.rs (projections and LegacyVergeBridge) and the saga of           *)
(* client/mod.rs that commits a legacy change to up to three domains.      *)
(*                                                                         *)
(* Every actor handles one message at a time: it swaps (and persists) its  *)
(* typed state and then applies the prepared mirror to the process-wide    *)
(* legacy image. Direct typed writers run concurrently with the one bridge *)
(* operation that verge_update_lock admits. The bridge reads the domains   *)
(* one by one, commits them one by one under a version fence and, when a   *)
(* step fails, compensates those it has committed, last one first.         *)
(*                                                                         *)
(* Abstractions. A typed state is a function of a few fields; a value is   *)
(* the number of the write that produced it, so two writes never look      *)
(* alike. The conversions between IVerge and the typed records keep every  *)
(* field, except that a legacy field may belong to a larger typed field    *)
(* (Coupled): a patch of one then carries the others along. An actor call  *)
(* that fails without changing anything (mirror preparation, persistence)  *)
(* matters only to the bridge, which then aborts.                          *)
(***************************************************************************)
EXTENDS Integers, Sequences, FiniteSets, SequencesExt

CONSTANTS
    Order,       \* the domains in the order the saga commits them
    Fields,      \* fields of a domain
    Coupled,     \* domains whose fields form one typed field
    Routes,      \* bridge operations: "pure", "effects", "replace"
    MaxWrites,   \* bound on writes, direct or by the bridge
    MaxOps,      \* bound on bridge operations
    MaxFailures, \* bound on failing calls
    MaxCrashes   \* bound on process crashes

Domains == Range(Order)

ASSUME OrderAssumption ==
    Order \in Seq(Domains) /\ Order # <<>> /\ IsInjective(Order)
ASSUME RouteAssumption ==
    Routes \subseteq {"pure", "effects", "replace"} /\ Coupled \subseteq Domains
ASSUME BoundsAssumption ==
    MaxWrites \in Nat /\ MaxOps \in Nat /\ MaxFailures \in Nat /\ MaxCrashes \in Nat

VARIABLES
    typed,      \* typed[d]: committed state of domain d, [ver, val]
    mirror,     \* mirror[d]: the mirror its actor has still to apply
    legacy,     \* committed Config::verge(): [own, dom]
    draft,      \* its draft, or NoImage
    file,       \* the legacy file on disk
    phase,      \* where the bridge operation is
    route,      \* which operation it is
    payload,    \* the <<domain, field>> pairs the caller changes
    token,      \* the value the caller writes
    todo,       \* domains the current pass has still to visit
    prev,       \* legacy image before a legacy mutation
    base,       \* typed states the plan is computed from
    snap,       \* typed states (with versions) the saga works on
    plan,       \* plan[d]: fields the saga sets, and their values
    committed,  \* domains the saga has committed, with their new versions
    failed,     \* what PartialCommit reports as not compensated
    result,     \* outcome of the last bridge operation
    uncertain,  \* the last legacy mutation ended without a reprojection
    writes, ops, failures, crashes

actorVars  == <<typed, mirror>>
legacyVars == <<legacy, draft, file>>
opVars     == <<route, payload, token>>
sagaVars   == <<prev, base, snap, plan, committed, failed>>
boundVars  == <<writes, ops, failures, crashes>>
vars == <<actorVars, legacyVars, phase, opVars, todo, sagaVars, result,
          uncertain, boundVars>>

Value     == 0 .. writes          \* the writes made so far
State     == [Fields -> Value]
Versioned == [ver : Nat, val : State]
Plan      == [set : SUBSET Fields, val : State]
Mirror    == [by : {"none", "direct", "saga"}, val : State]
Image     == [own : Value, dom : [Domains -> State]]
Nobody    == [by |-> "none", val |-> [f \in Fields |-> 0]]
NoImage   == [own |-> -1, dom |-> [d \in Domains |-> [f \in Fields |-> 0]]]
NoPlan    == [d \in Domains |-> [set |-> {}, val |-> [f \in Fields |-> 0]]]
Phases    == {"idle", "base", "mutate", "mutated", "desired", "restore", "before",
              "project", "after", "snap", "commit", "compensate"}

\* Every variable has its type, no value comes from a write still to be made,
\* and the draft is pending exactly while feat::patch_verge runs.
TypeOK ==
    /\ typed \in [Domains -> Versioned]
    /\ mirror \in [Domains -> Mirror]
    /\ legacy \in Image /\ file \in Image /\ prev \in Image
    /\ draft \in (IF phase = "mutated" THEN Image ELSE {NoImage})
    /\ phase \in Phases
    /\ route \in Routes \cup {"none"}
    /\ payload \subseteq (Domains \X Fields)
    /\ token \in Value
    /\ todo \in Seq(Domains)
    /\ base \in [Domains -> Versioned] /\ snap \in [Domains -> Versioned]
    /\ plan \in [Domains -> Plan]
    /\ committed \in Seq(Domains \X Nat)
    /\ failed \subseteq (Domains \cup {"legacy"})
    /\ result \in {"none", "ok", "error", "partial"}
    /\ uncertain \in BOOLEAN
    /\ writes \in 0 .. MaxWrites /\ ops \in 0 .. MaxOps
    /\ failures \in 0 .. MaxFailures /\ crashes \in 0 .. MaxCrashes

-----------------------------------------------------------------------------
Zero == [f \in Fields |-> 0]
Start == [d \in Domains |-> [ver |-> 0, val |-> Zero]]

\* Right after setup: sync_legacy_mirrors has projected the loaded states.
Init ==
    /\ typed = Start
    /\ mirror = [d \in Domains |-> Nobody]
    /\ legacy = [own |-> 0, dom |-> [d \in Domains |-> Zero]]
    /\ file = legacy /\ prev = legacy
    /\ draft = NoImage
    /\ phase = "idle" /\ route = "none"
    /\ payload = {} /\ token = 0
    /\ todo = <<>>
    /\ base = Start /\ snap = Start
    /\ plan = NoPlan
    /\ committed = <<>> /\ failed = {}
    /\ result = "none" /\ uncertain = FALSE
    /\ writes = 0 /\ ops = 0 /\ failures = 0 /\ crashes = 0

-----------------------------------------------------------------------------
(* The domain actors.                                                      *)

Busy(d) == mirror[d].by # "none"

\* (Mutant) the next version is not fenced by the previous one.
ReplaceUnfenced(d, ver, val, by) ==
    /\ ~ Busy(d)
    /\ typed' = [typed EXCEPT ![d] = [ver |-> @.ver + 1, val |-> val]]
    /\ mirror' = [mirror EXCEPT ![d] = [by |-> by, val |-> val]]

\* commit and replace_prepared_if_version, up to the swap: the handler now
\* owns the actor until it has applied the mirror prepared for this state.
Replace(d, ver, val, by) ==
    /\ ~ Busy(d)
    /\ typed[d].ver = ver
    /\ typed' = [typed EXCEPT ![d] = [ver |-> ver + 1, val |-> val]]
    /\ mirror' = [mirror EXCEPT ![d] = [by |-> by, val |-> val]]

\* Patch / Replace messages of a direct typed writer.
DirectWrite(d, changed) ==
    /\ writes < MaxWrites
    /\ writes' = writes + 1
    /\ Replace(d, typed[d].ver,
               [f \in Fields |-> IF f \in changed THEN writes + 1
                                 ELSE typed[d].val[f]], "direct")
    /\ UNCHANGED <<legacyVars, phase, opVars, todo, sagaVars, result, uncertain,
                   ops, failures, crashes>>

\* PreparedLegacyMirror::apply: only the domain's own fields, in the committed
\* image and in a pending draft (Draft::apply_update).
Projected(image, d, val) ==
    IF image = NoImage THEN NoImage ELSE [image EXCEPT !.dom[d] = val]

ApplyMirror(d) ==
    /\ Busy(d)
    /\ legacy' = Projected(legacy, d, mirror[d].val)
    /\ draft' = Projected(draft, d, mirror[d].val)
    /\ mirror' = [mirror EXCEPT ![d] = Nobody]
    /\ UNCHANGED <<typed, file, phase, opVars, todo, sagaVars, result,
                   uncertain, boundVars>>

-----------------------------------------------------------------------------
(* LegacyVergeBridge, under verge_update_lock.                             *)

Fail == failures < MaxFailures /\ failures' = failures + 1

\* The operation returns. run_legacy_verge_mutation reports every error of
\* its own as a partial commit.
Return(res) ==
    /\ phase' = "idle"
    /\ result' = IF res = "error" /\ route = "effects" THEN "partial" ELSE res
    /\ todo' = <<>>

\* patch_verge_config (PureConfig), replace_verge_config and
\* patch_verge_config (LegacySideEffects) take the lock.
Begin(r, changed) ==
    /\ phase = "idle"
    /\ ops < MaxOps /\ writes < MaxWrites
    /\ ops' = ops + 1
    /\ writes' = writes + 1
    /\ route' = r
    /\ payload' = IF r = "replace" THEN Domains \X Fields ELSE changed
    /\ token' = writes + 1
    /\ phase' = IF r = "effects" THEN "mutate" ELSE "base"
    /\ todo' = CASE r = "effects" -> <<>>
                 [] r = "replace" -> <<Last(Order)>>  \* only its overrides
                 [] OTHER -> Order
    /\ prev' = legacy
    /\ committed' = <<>> /\ failed' = {} /\ plan' = NoPlan
    /\ result' = "none"
    /\ UNCHANGED <<actorVars, legacyVars, base, snap, uncertain, failures, crashes>>

\* A Get of the next domain, answered between two messages of its actor.
Get ==
    /\ todo # <<>>
    /\ ~ Busy(Head(todo))
    /\ todo' = Tail(todo)

WithAnswer(states) == [states EXCEPT ![Head(todo)] = typed[Head(todo)]]

\* get_verge_config_unlocked.
ReadBase ==
    /\ phase = "base"
    /\ Get
    /\ base' = WithAnswer(base)
    /\ UNCHANGED <<actorVars, legacyVars, phase, opVars, prev, snap, plan,
                   committed, failed, result, uncertain, boundVars>>

\* typed_patches_from_legacy_patch: the fields the legacy patch names, and the
\* rest of a coupled typed field from the base image.
PlanFor(d, image) ==
    LET named == {f \in Fields : image[d][f] # base[d].val[f]}
    IN  [set |-> IF named # {} /\ d \in Coupled THEN Fields ELSE named,
         val |-> image[d]]

PatchedBase ==
    [d \in Domains |-> [f \in Fields |->
        IF <<d, f>> \in payload THEN token ELSE base[d].val[f]]]

MakePlan ==
    /\ phase = "base"
    /\ todo = <<>>
    /\ plan' = [d \in Domains |-> PlanFor(d, PatchedBase)]
    /\ phase' = "snap"
    /\ todo' = Order
    /\ UNCHANGED <<actorVars, legacyVars, opVars, prev, base, snap, committed,
                   failed, result, uncertain, boundVars>>

\* A read of the bridge fails (the actor does not answer in time).
ReadFail ==
    /\ phase \in {"base", "snap", "before", "after"}
    /\ Fail
    /\ Return("error")
    /\ uncertain' = (uncertain \/ phase \in {"before", "after"})
    /\ UNCHANGED <<actorVars, legacyVars, opVars, sagaVars, writes, ops, crashes>>

-----------------------------------------------------------------------------
(* run_legacy_verge_mutation: the legacy writer first, typed states after. *)

\* feat::patch_verge writes its patch to the draft, then runs OS effects.
MutateDraft ==
    /\ phase = "mutate"
    /\ draft' = [own |-> token,
                 dom |-> [d \in Domains |-> [f \in Fields |->
                            IF <<d, f>> \in payload THEN token ELSE legacy.dom[d][f]]]]
    /\ phase' = "mutated"
    /\ UNCHANGED <<actorVars, legacy, file, opVars, todo, sagaVars, result,
                   uncertain, boundVars>>

\* An effect failed: the draft is discarded.
MutateDiscard ==
    /\ phase = "mutated"
    /\ Fail
    /\ draft' = NoImage
    /\ Return("partial")
    /\ UNCHANGED <<actorVars, legacy, file, opVars, sagaVars, uncertain, writes,
                   ops, crashes>>

\* The draft is applied and saved; saving may fail.
MutateApply ==
    /\ phase = "mutated"
    /\ legacy' = draft
    /\ draft' = NoImage
    /\ \/ /\ file' = draft
          /\ phase' = "desired"
          /\ UNCHANGED <<todo, result, uncertain, failures>>
       \/ /\ Fail
          /\ Return("partial")
          /\ uncertain' = TRUE
          /\ UNCHANGED file
    /\ UNCHANGED <<actorVars, opVars, sagaVars, writes, ops, crashes>>

\* The desired image is read, and the patch taken as its difference to the
\* previous one; `plan` holds it until the base is known.
TakeDesired ==
    /\ phase = "desired"
    /\ phase' = "restore"
    /\ plan' = [d \in Domains |->
                   [set |-> {f \in Fields : legacy.dom[d][f] # prev.dom[d][f]},
                    val |-> legacy.dom[d]]]
    /\ UNCHANGED <<actorVars, legacyVars, opVars, todo, prev, base, snap,
                   committed, failed, result, uncertain, boundVars>>

\* (Mutant) only the memory image is restored.
RestorePreviousMemoryOnly ==
    /\ phase = "restore"
    /\ legacy' = prev /\ draft' = NoImage
    /\ phase' = "before"
    /\ todo' = Order
    /\ UNCHANGED <<actorVars, file, opVars, sagaVars, result, uncertain, boundVars>>

\* prepare_restore(previous).commit().
RestorePrevious ==
    /\ phase = "restore"
    /\ \/ /\ legacy' = prev /\ file' = prev /\ draft' = NoImage
          /\ phase' = "before"
          /\ todo' = Order
          /\ UNCHANGED <<result, uncertain, failures>>
       \/ /\ Fail
          /\ Return("partial")
          /\ uncertain' = TRUE
          /\ UNCHANGED legacyVars
    /\ UNCHANGED <<actorVars, opVars, sagaVars, writes, ops, crashes>>

\* refresh_legacy_projection: read the typed states ...
RefreshBefore ==
    /\ phase = "before"
    /\ Get
    /\ base' = WithAnswer(base)
    /\ phase' = IF Len(todo) = 1 THEN "project" ELSE "before"
    /\ UNCHANGED <<actorVars, legacyVars, opVars, prev, snap, plan, committed,
                   failed, result, uncertain, boundVars>>

\* ... project them ...
RefreshProject ==
    /\ phase = "project"
    /\ legacy' = [legacy EXCEPT !.dom = [d \in Domains |-> base[d].val]]
    /\ draft' = IF draft = NoImage THEN NoImage ELSE legacy'
    /\ phase' = "after"
    /\ todo' = Order
    /\ UNCHANGED <<actorVars, file, opVars, sagaVars, result, uncertain, boundVars>>

\* (Mutant) the projection is trusted without looking again.
RefreshAfterTrusting ==
    /\ phase = "after"
    /\ phase' = "snap"
    /\ todo' = Order
    /\ uncertain' = FALSE
    /\ UNCHANGED <<actorVars, legacyVars, opVars, sagaVars, result, boundVars>>

\* ... and start over unless no version has moved. The patch then becomes a
\* plan against the fresh base.
RefreshAfter ==
    /\ phase = "after"
    /\ ~ Busy(Head(todo))
    /\ IF typed[Head(todo)].ver # base[Head(todo)].ver
       THEN /\ phase' = "before"
            /\ todo' = Order
            /\ UNCHANGED <<plan, uncertain>>
       ELSE IF Len(todo) > 1
       THEN /\ todo' = Tail(todo)
            /\ UNCHANGED <<phase, plan, uncertain>>
       ELSE /\ phase' = "snap"
            /\ todo' = Order
            /\ plan' = [d \in Domains |->
                  IF plan[d].set # {} /\ d \in Coupled
                  THEN [set |-> Fields,
                        val |-> [f \in Fields |-> IF f \in plan[d].set
                                    THEN plan[d].val[f] ELSE base[d].val[f]]]
                  ELSE plan[d]]
            /\ uncertain' = FALSE
    /\ UNCHANGED <<actorVars, legacyVars, opVars, prev, base, snap, committed,
                   failed, result, boundVars>>

-----------------------------------------------------------------------------
(* apply_legacy_verge_states_saga.                                         *)

\* typed_config_snapshots.
ReadSnapshot ==
    /\ phase = "snap"
    /\ Get
    /\ snap' = WithAnswer(snap)
    /\ UNCHANGED <<actorVars, legacyVars, phase, opVars, prev, base, plan,
                   committed, failed, result, uncertain, boundVars>>

\* Every mirror, forward and rollback, is prepared before the first commit.
PrepareAll ==
    /\ phase = "snap"
    /\ todo = <<>>
    /\ \/ /\ phase' = "commit"
          /\ todo' = Order
          /\ UNCHANGED <<result, failures>>
       \/ Fail /\ Return("error")
    /\ UNCHANGED <<actorVars, legacyVars, opVars, sagaVars, uncertain, writes,
                   ops, crashes>>

Forward(d) ==
    [f \in Fields |-> IF f \in plan[d].set THEN plan[d].val[f] ELSE snap[d].val[f]]

\* The bridge goes on when the actor has replied.
Replied == \A d \in Domains : mirror[d].by # "saga"

\* The plan holds no state for the next domain.
SkipDomain ==
    /\ phase = "commit"
    /\ Replied
    /\ todo # <<>>
    /\ plan[Head(todo)].set = {}
    /\ todo' = Tail(todo)
    /\ UNCHANGED <<actorVars, legacyVars, phase, opVars, sagaVars, result,
                   uncertain, boundVars>>

CommitDomain ==
    /\ phase = "commit"
    /\ Replied
    /\ todo # <<>>
    /\ plan[Head(todo)].set # {}
    /\ Replace(Head(todo), snap[Head(todo)].ver, Forward(Head(todo)), "saga")
    /\ committed' = Append(committed, <<Head(todo), snap[Head(todo)].ver + 1>>)
    /\ todo' = Tail(todo)
    /\ UNCHANGED <<legacyVars, phase, opVars, prev, base, snap, plan, failed,
                   result, uncertain, boundVars>>

\* The version moved on, or the state could not be persisted.
CommitRefused ==
    /\ phase = "commit"
    /\ Replied
    /\ todo # <<>>
    /\ plan[Head(todo)].set # {}
    /\ ~ Busy(Head(todo))
    /\ \/ typed[Head(todo)].ver # snap[Head(todo)].ver /\ UNCHANGED failures
       \/ Fail
    /\ phase' = "compensate"
    /\ UNCHANGED <<actorVars, legacyVars, opVars, todo, sagaVars, result,
                   uncertain, writes, ops, crashes>>

\* ConfigPreparedLegacyVergeCommit::commit with preserve_typed_projection: the
\* typed fields are taken from the image of this moment.
FinalImage == [own |-> token, dom |-> legacy.dom]

Finalize ==
    /\ phase = "commit"
    /\ Replied
    /\ todo = <<>>
    /\ legacy' = FinalImage
    /\ file' = FinalImage
    /\ draft' = NoImage
    /\ Return("ok")
    /\ UNCHANGED <<actorVars, opVars, sagaVars, uncertain, boundVars>>

FinalizeFail ==
    /\ phase = "commit"
    /\ Replied
    /\ todo = <<>>
    /\ Fail
    /\ failed' = {"legacy"}
    /\ phase' = "compensate"
    /\ UNCHANGED <<actorVars, legacyVars, opVars, todo, prev, base, snap, plan,
                   committed, result, uncertain, writes, ops, crashes>>

\* compensate_legacy_verge_saga: last committed domain first, each under the
\* fence of the version the saga itself installed.
Compensate ==
    /\ phase = "compensate"
    /\ Replied
    /\ committed # <<>>
    /\ Replace(Last(committed)[1], Last(committed)[2],
               snap[Last(committed)[1]].val, "saga")
    /\ committed' = Front(committed)
    /\ UNCHANGED <<legacyVars, phase, opVars, todo, prev, base, snap, plan,
                   failed, result, uncertain, boundVars>>

\* (Mutant) the loop ends at the first compensation that fails.
CompensateRefusedStops ==
    /\ phase = "compensate"
    /\ Replied
    /\ committed # <<>>
    /\ ~ Busy(Last(committed)[1])
    /\ \/ typed[Last(committed)[1]].ver # Last(committed)[2] /\ UNCHANGED failures
       \/ Fail
    /\ failed' = failed \cup {Last(committed)[1]}
    /\ committed' = <<>>
    /\ UNCHANGED <<actorVars, legacyVars, phase, opVars, todo, prev, base, snap,
                   plan, result, uncertain, writes, ops, crashes>>

\* A conflict or an error is recorded and the loop goes on.
CompensateRefused ==
    /\ phase = "compensate"
    /\ Replied
    /\ committed # <<>>
    /\ ~ Busy(Last(committed)[1])
    /\ \/ typed[Last(committed)[1]].ver # Last(committed)[2] /\ UNCHANGED failures
       \/ Fail
    /\ failed' = failed \cup {Last(committed)[1]}
    /\ committed' = Front(committed)
    /\ UNCHANGED <<actorVars, legacyVars, phase, opVars, todo, prev, base, snap,
                   plan, result, uncertain, writes, ops, crashes>>

CompensateDone ==
    /\ phase = "compensate"
    /\ Replied
    /\ committed = <<>>
    /\ Return(IF failed = {} THEN "error" ELSE "partial")
    /\ UNCHANGED <<actorVars, legacyVars, opVars, sagaVars, uncertain, boundVars>>

-----------------------------------------------------------------------------
\* The process dies and starts again: typed states come from their own files,
\* the legacy image from the legacy file, overlaid by sync_legacy_mirrors.
Crash ==
    /\ crashes < MaxCrashes
    /\ crashes' = crashes + 1
    /\ typed' = [d \in Domains |-> [ver |-> 0, val |-> typed[d].val]]
    /\ mirror' = [d \in Domains |-> Nobody]
    /\ legacy' = [own |-> file.own, dom |-> [d \in Domains |-> typed[d].val]]
    /\ draft' = NoImage
    /\ phase' = "idle" /\ result' = "none" /\ todo' = <<>>
    /\ uncertain' = FALSE
    /\ UNCHANGED <<file, opVars, sagaVars, writes, ops, failures>>

Bridge ==
    \/ \E r \in Routes : \E changed \in SUBSET (Domains \X Fields) :
           changed # {} /\ Begin(r, changed)
    \/ ReadBase \/ MakePlan \/ ReadFail
    \/ MutateDraft \/ MutateDiscard \/ MutateApply \/ TakeDesired \/ RestorePrevious
    \/ RefreshBefore \/ RefreshProject \/ RefreshAfter
    \/ ReadSnapshot \/ PrepareAll
    \/ SkipDomain \/ CommitDomain \/ CommitRefused \/ Finalize \/ FinalizeFail
    \/ Compensate \/ CompensateRefused \/ CompensateDone

Next ==
    \/ \E d \in Domains : ApplyMirror(d)
    \/ \E d \in Domains : \E changed \in SUBSET Fields :
           changed # {} /\ DirectWrite(d, changed)
    \/ Bridge
    \/ Crash

Spec == Init /\ [][Next]_vars

-----------------------------------------------------------------------------
(* What the bridge promises.                                               *)

Mutating == {"desired", "restore", "before", "project", "after"}

\* The caller named the field or, when a legacy writer ran first, it differs
\* between the two legacy images around that writer.
Named(d, f) ==
    \/ <<d, f>> \in payload
    \/ route = "effects" /\ plan[d].val[f] # prev.dom[d][f]

\* What a saga step may change in a domain.
Own(d, f) ==
    IF phase = "commit"
    THEN Named(d, f) \/ (d \in Coupled /\ \E g \in Fields : Named(d, g))
    ELSE f \in plan[d].set /\ typed[d].val[f] = plan[d].val[f]

SagaStep ==
    \A d \in Domains :
       typed'[d].ver > typed[d].ver /\ mirror'[d].by = "saga" =>
          \A f \in Fields : typed'[d].val[f] # typed[d].val[f] => Own(d, f)

\* Neither the saga nor its compensation overwrites a direct typed write: a saga
\* commit changes only fields that its caller named or that the images around a
\* legacy writer show changed (the other parts of a coupled field may go along),
\* a compensation only planned fields that still hold what the saga wrote (the
\* version fences of apply_legacy_verge_states_saga and
\* compensate_legacy_verge_saga).
SagaKeepsOthers == [][SagaStep]_vars

\* A side-effect mutation keeps a typed write made beside it: outside coupled
\* fields the saga of run_legacy_verge_mutation changes only what its caller
\* named.  The code does not: a write mirrored into the second legacy image is
\* taken for a change of the mutation (legacy_patch_between), and committed over
\* a still later write of the same field.
MutationKeepsOthers ==
    [][\A d \in Domains \ Coupled :
          phase = "commit" /\ typed'[d].ver > typed[d].ver
             /\ mirror'[d].by = "saga" =>
             \A f \in Fields :
                typed'[d].val[f] # typed[d].val[f] => <<d, f>> \in payload]_vars

\* Outside the legacy-first part of a mutation the legacy image shows what the
\* typed domains hold, whatever mirrors, restores and projections crossed
\* (PreparedLegacyMirror::apply, refresh_legacy_projection, the finalizer).
MirrorsAgree ==
    \A d \in Domains :
       phase \notin Mutating /\ ~ uncertain /\ ~ Busy(d)
          => legacy.dom[d] = typed[d].val

\* The answer tells the caller what became of his change: after an ordinary
\* error no typed domain holds one of its values, after PartialCommit only the
\* domains it names do (compensate_legacy_verge_saga), and after Ok every field
\* he changed holds his value or that of a later direct write.  The last is not
\* so on the effects route, where a mirror may reset the pending field.
AnswerIsHonest ==
    phase = "idle" => \A d \in Domains, f \in Fields :
       CASE result = "error"   -> typed[d].val[f] # token
         [] result = "partial" -> typed[d].val[f] = token => d \in failed
         [] result = "ok"      -> route # "effects" /\ <<d, f>> \in payload
                                     => typed[d].val[f] >= token
         [] OTHER              -> TRUE

\* The legacy-only fields on disk are those in memory unless a failure has been
\* reported, so a restart at any moment keeps them (patch_verge's save_file,
\* the restore and ConfigPreparedLegacyVergeCommit::commit).
LegacyFileCurrent == ~ uncertain => file.own = legacy.own
=============================================================================
