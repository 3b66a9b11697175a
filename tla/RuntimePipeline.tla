--------------------------- MODULE RuntimePipeline ---------------------------
(***************************************************************************)
(* The runtime pipeline of backend/nyanpasu-config/src/runtime: one build of  *)
(* the configuration the core is given.  Executor: the selected file or       *)
(* composition, its transforms, the global transforms, the whitelist, the     *)
(* guard, the built-in scripts and the finalization, each recorded as a node  *)
(* of a snapshot tree stored as keyframes and deltas.  Invalidation: which    *)
(* profile changes call for another build.                                    *)
(*                                                                          *)
(* A configuration is a mapping of a few top-level fields or no mapping at    *)
(* all.  A value is a list of items or a scalar, each named by its origin.    *)
(* Field order, nested paths and the text of log entries are left out, and so *)
(* is the expansion of include-all proxy groups.                              *)
(***************************************************************************)
EXTENDS Naturals, Sequences, FiniteSets, SequencesExt

CONSTANTS PlFiles,        \* file config profiles
          PlComposition,  \* the composition profile
          PlTransforms,   \* transform profiles
          PlProfiles,     \* profile documents: validated, see PlDocument
          PlRaw,          \* configurations a file may parse to or a script return
          PlOverlays,     \* overlay documents: sequences of directives
          PlBuiltins      \* number of built-in scripts of the core

VARIABLES plIn,      \* the inputs: profiles, whitelist, tun, optional port
          plTodo,    \* the steps that remain
          plMain,    \* the builder of the selected config
          plBranch,  \* the builder of the composition member being built
          plApplied, \* the known fields the user's side set, sampled before the whitelist
          plResult   \* "running", "ok", or the error

plVars == <<plIn, plTodo, plMain, plBranch, plApplied, plResult>>

NoProfile == "no profile"

\* Handle fields belong to the guard; mode stands for the typed overrides it
\* always inserts, port for the bindings it inserts when they are resolved.
HandleFields == {"mode", "port"}
OthersFields == {"dns", "tun", "profile"}
DefaultFields == {"proxies"}
KnownFields == HandleFields \cup OthersFields \cup DefaultFields

Scalar(origin) == [list |-> FALSE, of |-> <<origin>>]
List(items) == [list |-> TRUE, of |-> items]
NotMapping == [map |-> FALSE, at |-> <<>>]
Mapping(f) == [map |-> TRUE, at |-> f]
EmptyObject == Mapping(<<>>)
CleanSeed == Mapping([f \in {"proxies"} |-> List(<<>>)])

HasField(c, f) == c.map /\ f \in DOMAIN c.at

\* A root that is no mapping is replaced by a fresh one.
ObjInsert(c, f, v) ==
  LET old == IF c.map THEN DOMAIN c.at ELSE {}
  IN  Mapping([g \in old \cup {f} |-> IF g = f THEN v ELSE c.at[g]])

-----------------------------------------------------------------------------
(* The program: the steps of one build, in order.  A step doubles as the tag  *)
(* of the node it records.                                                    *)

Selected == [kind |-> "selected", index |-> 0]
Step(op, host, role, id, index) ==
  [op |-> op, host |-> host, role |-> role, id |-> id, index |-> index]

TransformSteps(op, host, role, ids) ==
  [i \in 1..Len(ids) |-> Step(op, host, role, ids[i], i - 1)]

\* build_scoped_file.
ScopedSteps(p, f, role) ==
  <<Step("file", f, role, f, 0)>> \o TransformSteps("transform", f, role, p.files[f])

\* run_composition: the base or the clean seed, then each member after its own
\* scoped build, then the composition's own transforms.
CompositionSteps(p) ==
  LET c == p.composition
  IN  (IF c.base = NoProfile
       THEN <<Step("seed", PlComposition, Selected, NoProfile, 0)>>
       ELSE ScopedSteps(p, c.base, [kind |-> "base", index |-> 0])
              \o <<Step("base", PlComposition, Selected, c.base, 0)>>)
      \o FlattenSeq([i \in 1..Len(c.members) |->
           ScopedSteps(p, c.members[i], [kind |-> "contributor", index |-> i - 1])
             \o <<Step("extend", PlComposition, Selected, c.members[i], i - 1)>>])
      \o TransformSteps("transform", PlComposition, Selected, c.transforms)

\* The shared tail of execute.
TailSteps(p) ==
  TransformSteps("global", p.current, Selected, p.globals)
  \o <<Step("whitelist", p.current, Selected, NoProfile, 0),
       Step("guard", p.current, Selected, NoProfile, 0)>>
  \o [i \in 1..PlBuiltins |-> Step("builtin", p.current, Selected, NoProfile, i - 1)]
  \o <<Step("final", p.current, Selected, NoProfile, 0)>>

Program(p) ==
  (CASE p.current = NoProfile -> <<Step("bare", NoProfile, Selected, NoProfile, 0)>>
     [] p.current \in PlFiles -> ScopedSteps(p, p.current, Selected)
     [] p.current = PlComposition -> CompositionSteps(p))
  \o TailSteps(p)

\* node_key: the tag without what is only displayed.
NodeKey(tag) ==
  [tag EXCEPT !.op = IF @ \in {"seed", "base"} THEN "composition" ELSE @, !.id = NoProfile]

\* RuntimeBuilder::build: only validated documents are executed.
PlDocument(p) ==
  LET c == p.composition
  IN  /\ p.current \in PlFiles \cup {PlComposition, NoProfile}
      /\ p.files \in [PlFiles -> Seq(PlTransforms)] /\ p.globals \in Seq(PlTransforms)
      /\ c.transforms \in Seq(PlTransforms) /\ c.members \in Seq(PlFiles)
      /\ c.base \in PlFiles \cup {NoProfile}
      /\ IsInjective(c.members) /\ ~Contains(c.members, c.base)
      /\ c.base = NoProfile => c.members \o c.transforms # <<>>

ASSUME PlAssumption == (\A p \in PlProfiles : PlDocument(p)) /\ PlBuiltins \in Nat

-----------------------------------------------------------------------------
(* The snapshot builder *)

\* json_patch::diff on top-level fields; a root of another shape is replaced.
Deleted == Scalar("gone")
Diff(a, b) ==
  LET changed == {f \in DOMAIN a.at \cup DOMAIN b.at :
                    ~(f \in DOMAIN a.at /\ f \in DOMAIN b.at /\ a.at[f] = b.at[f])}
  IN  IF a.map # b.map
      THEN [whole |-> TRUE, doc |-> b, set |-> <<>>]
      ELSE [whole |-> FALSE, doc |-> NotMapping,
            set |-> [f \in changed |-> IF f \in DOMAIN b.at THEN b.at[f] ELSE Deleted]]

Patched(a, patch) ==
  IF patch.whole THEN patch.doc
  ELSE LET kept == {f \in DOMAIN a.at \cup DOMAIN patch.set :
                      f \in DOMAIN patch.set => patch.set[f] # Deleted}
       IN  [a EXCEPT !.at = [f \in kept |-> IF f \in DOMAIN patch.set
                                             THEN patch.set[f] ELSE a.at[f]]]

NoPatch == [whole |-> FALSE, doc |-> NotMapping, set |-> <<>>]
Full(c) == [kind |-> "full", full |-> c, patch |-> NoPatch]

\* KeyframePolicy::encode: a delta unless it is more than half the size of the
\* value, sizes counted in fields.
Encode(parent, c) ==
  LET patch == Diff(parent, c)
      size == Cardinality(DOMAIN c.at)
  IN  IF patch.whole \/ 2 * Cardinality(DOMAIN patch.set) > IF size > 1 THEN size ELSE 1
      THEN Full(c)
      ELSE [kind |-> "delta", full |-> NotMapping, patch |-> patch]

Node(c, payload, baseline, tag) ==
  [full |-> c, payload |-> payload, baseline |-> baseline, tag |-> tag, children |-> <<>>]
NoBuilder == [nodes |-> <<>>, at |-> 0]
NewRoot(c, tag) == [nodes |-> <<Node(c, Full(c), "independent", tag)>>, at |-> 1]
Working(b) == b.nodes[b.at].full

Push(b, tag, c) ==
  LET id == Len(b.nodes) + 1
  IN  [nodes |-> Append([b.nodes EXCEPT ![b.at].children = Append(@, id)],
                        Node(c, Encode(Working(b), c), "parent", tag)),
       at |-> id]

MutAttach(b, branch) ==
  LET n == Len(b.nodes)
      moved == [i \in DOMAIN branch.nodes |->
                  [branch.nodes[i] EXCEPT !.children = [k \in DOMAIN @ |-> @[k] + n]]]
  IN  [nodes |-> [b.nodes EXCEPT ![b.at].children = Append(@, n + 1)] \o moved,
       at |-> n + branch.at]

\* attach_independent_branch under the current node, which stays current.
Attach(b, branch) ==
  LET n == Len(b.nodes)
      moved == [i \in DOMAIN branch.nodes |->
                  [branch.nodes[i] EXCEPT !.children = [k \in DOMAIN @ |-> @[k] + n]]]
      root == [moved[1] EXCEPT !.baseline = "independent", !.payload = Full(moved[1].full)]
  IN  [b EXCEPT !.nodes = [@ EXCEPT ![b.at].children = Append(@, n + 1)]
                            \o [moved EXCEPT ![1] = root]]

ParentsOf(nodes, i) == {p \in DOMAIN nodes : Contains(nodes[p].children, i)}

\* validate_tree_shape (and validate_tree, its twin on the builder).  A tree deeper than
\* MAX_MATERIALIZE_DEPTH, 1024 nodes, is refused, too: no build here comes near it.
ValidTreeShape(nodes) ==
  LET reach[n \in 0..Len(nodes)] ==
        IF n = 0 THEN {1}
        ELSE reach[n - 1] \cup UNION {ToSet(nodes[i].children) : i \in reach[n - 1]}
  IN  /\ nodes[1].baseline = "independent" /\ ParentsOf(nodes, 1) = {}
      /\ \A i \in DOMAIN nodes :
           /\ nodes[i].baseline = "independent" => nodes[i].payload.kind = "full"
           /\ ToSet(nodes[i].children) \subseteq DOMAIN nodes \ {i}
           /\ IsInjective(nodes[i].children)
           /\ Cardinality(ParentsOf(nodes, i)) <= 1
      /\ reach[Len(nodes)] = DOMAIN nodes

\* changed_fields_from_patch; a replaced root is the empty path.
ChangedFields(patch) == IF patch.whole THEN {"root"} ELSE DOMAIN patch.set

\* materialize: every node's configuration, deltas applied to the parent's, and
\* the fields it changed; an independent node changed nothing.
Materialize(nodes) ==
  LET value[i \in DOMAIN nodes] ==
        LET payload == nodes[i].payload
            parent == value[CHOOSE p \in ParentsOf(nodes, i) : TRUE].config
        IN  CASE nodes[i].baseline = "independent" -> [config |-> payload.full, changed |-> {}]
              [] nodes[i].baseline = "parent" /\ payload.kind = "full" ->
                   [config |-> payload.full,
                    changed |-> ChangedFields(Diff(parent, payload.full))]
              [] OTHER -> [config |-> Patched(parent, payload.patch),
                           changed |-> ChangedFields(payload.patch)]
  IN  value

-----------------------------------------------------------------------------
(* What the steps compute *)

\* append_proxies: a member without a list contributes nothing; a working value
\* that is no list is the user's and stays.
AppendProxies(c, member) ==
  LET extracted == IF HasField(member, "proxies") /\ member.at["proxies"].list
                   THEN member.at["proxies"].of ELSE <<>>
  IN  IF ~HasField(c, "proxies") THEN ObjInsert(c, "proxies", List(extracted))
      ELSE IF c.at["proxies"].list
           THEN ObjInsert(c, "proxies", List(c.at["proxies"].of \o extracted))
           ELSE c

\* The overlay directives: a target that is absent or no list is skipped.
IsList(c, f) == HasField(c, f) /\ c.at[f].list

SpliceSequence(c, d) ==
  LET old == c.at[d.field].of
  IN  IF ~(d.value.list /\ IsList(c, d.field)) THEN c
      ELSE ObjInsert(c, d.field, List(IF d.op = "prepend" THEN d.value.of \o old
                                                          ELSE old \o d.value.of))

OverridePath(c, d) == IF HasField(c, d.field) THEN ObjInsert(c, d.field, d.value) ELSE c

BareKeyMerge(c, d) == ObjInsert(c, d.field, d.value)

\* A filter keeps the items it names; filters that edit items are left out.
FilterPath(c, d) ==
  IF ~IsList(c, d.field) THEN c
  ELSE ObjInsert(c, d.field, List(SelectSeq(c.at[d.field].of, LAMBDA x : Contains(d.value.of, x))))

ApplyDirective(c, d) ==
  CASE d.op \in {"prepend", "append"} -> SpliceSequence(c, d)
    [] d.op = "override" -> OverridePath(c, d)
    [] d.op = "filter" -> FilterPath(c, d)
    [] d.op = "bare" -> BareKeyMerge(c, d)

ApplyOverlay(doc, c) == FoldLeft(ApplyDirective, c, doc)

\* apply_transform: an unreadable source, a document that does not parse and a
\* failing script pass the configuration through; a script may return anything.
ApplyTransform(c) == {c} \cup {ApplyOverlay(doc, c) : doc \in PlOverlays} \cup PlRaw

Stage1Fields == (plIn.profiles.valid \cap OthersFields) \cup DefaultFields

WhitelistFilter(c, allow) ==
  IF plIn.whitelist /\ c.map
  THEN Mapping([f \in DOMAIN c.at \cap allow |-> c.at[f]]) ELSE c

GuardFields == {"mode"} \cup IF plIn.port THEN {"port"} ELSE {}

\* apply_guard: typed overrides and resolved ports are inserted over anything.
ApplyGuard(c) ==
  LET old == IF c.map THEN DOMAIN c.at ELSE {}
  IN  Mapping([f \in old \cup GuardFields |->
                 IF f \in GuardFields THEN Scalar("guard") ELSE c.at[f]])

\* apply_tun: an absent tun section appears only when tun is on; dns is then on too.
ApplyTun(c) ==
  IF ~plIn.tun
  THEN IF HasField(c, "tun") THEN ObjInsert(c, "tun", Scalar("off")) ELSE c
  ELSE ObjInsert(ObjInsert(c, "tun", Scalar("on")), "dns", Scalar("on"))

\* apply_cache: the user's profile section is not touched.
ApplyCache(c) == IF HasField(c, "profile") THEN c ELSE ObjInsert(c, "profile", Scalar("cache"))

Finalize(c) == ApplyCache(ApplyTun(WhitelistFilter(c, KnownFields)))

-----------------------------------------------------------------------------
(* Execution *)

PlTypeOK ==
  /\ plResult \in {"running", "ok", "content source", "parse profile", "graph"}
  /\ \E n \in 0..Len(Program(plIn.profiles)) :
        plTodo = SubSeq(Program(plIn.profiles), n + 1, Len(Program(plIn.profiles)))
  /\ \A b \in {plMain, plBranch} : b.at \in 0..Len(b.nodes)
  /\ plApplied \subseteq KnownFields
  /\ \A i \in DOMAIN plMain.nodes :
        plMain.nodes[i].full.map => DOMAIN plMain.nodes[i].full.at \subseteq KnownFields \cup {"extra"}

PlInit ==
  /\ plIn \in [profiles : PlProfiles, whitelist : BOOLEAN, tun : BOOLEAN, port : BOOLEAN]
  /\ plTodo = Program(plIn.profiles)
  /\ plMain = NoBuilder /\ plBranch = NoBuilder
  /\ plApplied = {} /\ plResult = "running"

Next1(op) == plResult = "running" /\ plTodo # <<>> /\ Head(plTodo).op = op
Sampled(fields) ==
  plTodo' = Tail(plTodo) /\ plApplied' = fields /\ UNCHANGED <<plIn, plResult>>
Advance == Sampled(plApplied)
PushMain(c) == plMain' = Push(plMain, Head(plTodo), c) /\ UNCHANGED plBranch /\ Advance

PlBare ==
  /\ Next1("bare")
  /\ plMain' = NewRoot(EmptyObject, Head(plTodo))
  /\ UNCHANGED plBranch /\ Advance

\* The selected file starts the main builder, a member a branch of its own.
PlFile ==
  /\ Next1("file")
  /\ \E c \in PlRaw :
       IF Head(plTodo).role = Selected
       THEN plMain' = NewRoot(c, Head(plTodo)) /\ UNCHANGED plBranch
       ELSE plBranch' = NewRoot(c, Head(plTodo)) /\ UNCHANGED plMain
  /\ Advance

\* A file that cannot be read or parsed fails the whole build.
PlFileError ==
  /\ Next1("file")
  /\ plResult' \in {"content source", "parse profile"}
  /\ UNCHANGED <<plIn, plTodo, plMain, plBranch, plApplied>>

PlTransform ==
  /\ Next1("transform")
  /\ IF Head(plTodo).host = plIn.profiles.current
     THEN \E c \in ApplyTransform(Working(plMain)) :
            plMain' = Push(plMain, Head(plTodo), c) /\ UNCHANGED plBranch
     ELSE \E c \in ApplyTransform(Working(plBranch)) :
            plBranch' = Push(plBranch, Head(plTodo), c) /\ UNCHANGED plMain
  /\ Advance

PlSeed ==
  /\ Next1("seed")
  /\ plMain' = NewRoot(CleanSeed, Head(plTodo))
  /\ UNCHANGED plBranch /\ Advance

PlBase ==
  /\ Next1("base")
  /\ plMain' = Attach(NewRoot(Working(plBranch), Head(plTodo)), plBranch)
  /\ plBranch' = NoBuilder /\ Advance

PlExtend ==
  /\ Next1("extend")
  /\ plMain' = Push(Attach(plMain, plBranch), Head(plTodo),
                    AppendProxies(Working(plMain), Working(plBranch)))
  /\ plBranch' = NoBuilder /\ Advance

PlGlobal == Next1("global") /\ \E c \in ApplyTransform(Working(plMain)) : PushMain(c)

PlWhitelist ==
  /\ Next1("whitelist")
  /\ plMain' = Push(plMain, Head(plTodo), WhitelistFilter(Working(plMain), Stage1Fields))
  /\ UNCHANGED plBranch
  /\ Sampled(IF Working(plMain).map THEN DOMAIN Working(plMain).at \cap KnownFields ELSE {})

PlGuard == Next1("guard") /\ PushMain(ApplyGuard(Working(plMain)))

\* A built-in script that fails leaves the configuration as it was.
PlBuiltin == Next1("builtin") /\ \E c \in {Working(plMain)} \cup PlRaw : PushMain(c)

PlFinalize == Next1("final") /\ PushMain(Finalize(Working(plMain)))

PlBuild ==
  /\ plResult = "running" /\ plTodo = <<>>
  /\ plResult' = IF ValidTreeShape(plMain.nodes) THEN "ok" ELSE "graph"
  /\ UNCHANGED <<plIn, plTodo, plMain, plBranch, plApplied>>

PlNext ==
  \/ PlBare \/ PlFile \/ PlFileError \/ PlTransform \/ PlSeed \/ PlBase \/ PlExtend
  \/ PlGlobal \/ PlWhitelist \/ PlGuard \/ PlBuiltin \/ PlFinalize \/ PlBuild

-----------------------------------------------------------------------------
(* Invalidation *)

\* ProfileDependencyIndex::build, base and contributor tables together.
Index(p) ==
  [transform |-> [t \in PlTransforms |->
                    {f \in PlFiles : Contains(p.files[f], t)}
                    \cup IF Contains(p.composition.transforms, t) THEN {PlComposition} ELSE {}],
   config |-> [f \in PlFiles |->
                 IF Contains(p.composition.members, f) \/ p.composition.base = f
                 THEN {PlComposition} ELSE {}],
   global |-> ToSet(p.globals)]

\* transitive_config_dependents: compositions depend on files only, so the
\* dependents of the seeds have no dependents themselves.
ConfigDependents(seeds, index) ==
  seeds \cup UNION {index.config[f] : f \in seeds \cap PlFiles}

\* affected_configs of invalidate_profile.
Affected(p, changed) ==
  LET index == Index(p)
      seeds == IF changed \in PlTransforms THEN index.transform[changed] ELSE {changed}
  IN  ConfigDependents(seeds, index)
      \cup (IF changed \in index.global THEN {p.current} \ {NoProfile} ELSE {})

\* The rebuild invalidate_profile asks for; a global transform also runs when
\* nothing is selected.
Rebuild(p, changed) == changed \in Index(p).global \/ p.current \in Affected(p, changed)

\* tag_references_any_profile; a role refers to its composition.
TagReferences(tag, profiles) ==
  \/ ({tag.host, tag.id} \ {NoProfile}) \cap profiles # {}
  \/ tag.role # Selected /\ PlComposition \in profiles

\* collect_stale_node_keys, as node indices.
StaleNodes(nodes, p, changed) ==
  {i \in DOMAIN nodes : TagReferences(nodes[i].tag, Affected(p, changed) \cup {changed})}

-----------------------------------------------------------------------------
(* Properties *)

\* The profiles a step looks up.
Reads(step) == ({step.host, step.id} \ {NoProfile}) \cup
               (IF step.op = "extend" THEN {PlComposition} ELSE {})

\* The path of main-line tags from the root to node i.
PathTo(nodes, n) ==
  LET path[i \in DOMAIN nodes] ==
        IF i = 1 THEN <<nodes[1].tag>>
        ELSE Append(path[CHOOSE p \in ParentsOf(nodes, i) : TRUE], nodes[i].tag)
  IN  path[n]

OnMain(step) ==
  CASE step.op = "transform" -> step.host = plIn.profiles.current
    [] step.op = "file" -> step.role = Selected
    [] OTHER -> TRUE

\* Reading the stored snapshot tree back gives, at every node, the configuration
\* the pipeline had there and no change left unnamed, whatever mix of keyframes,
\* deltas and grafted member branches it is stored as; the tree is always accepted, the path from its
\* root to the last node is the program's main line, and no two nodes share the
\* position key the log entries and the UI are attached to
\* (snapshot.rs push, attach_independent_branch, materialize, node_key).
PlGraphFaithful ==
  /\ plResult # "graph"
  /\ plResult = "ok" =>
       LET nodes == plMain.nodes
           read == Materialize(nodes)
           value(i, f) == IF HasField(nodes[i].full, f) THEN nodes[i].full.at[f] ELSE Deleted
       IN  /\ \A i \in DOMAIN nodes : read[i].config = nodes[i].full
           /\ \A i \in DOMAIN nodes, f \in KnownFields : nodes[i].baseline = "parent" =>
                 \A p \in ParentsOf(nodes, i) :
                    value(i, f) # value(p, f) => read[i].changed \cap {f, "root"} # {}
           /\ PathTo(nodes, Len(nodes)) = SelectSeq(Program(plIn.profiles), OnMain)
           /\ Len(nodes) = Len(Program(plIn.profiles))
           /\ \A i, j \in DOMAIN nodes :
                NodeKey(nodes[i].tag) = NodeKey(nodes[j].tag) => i = j

\* Unless a built-in script rewrote the configuration after the guard, the
\* fields the guard owns reach the core with the guard's values, whatever the
\* profile, its transforms and the global transforms said; with the whitelist
\* on, no other handle field reaches it (builtin.rs stage1_fields, apply_guard,
\* finalize).
PlGuardWins ==
  LET nodes == plMain.nodes
      untouched == \A i \in DOMAIN nodes :
                      nodes[i].tag.op = "builtin" => nodes[i].full = nodes[i - 1].full
      final == nodes[Len(nodes)].full
  IN  plResult = "ok" /\ untouched =>
        /\ \A f \in GuardFields : HasField(final, f) /\ final.at[f] = Scalar("guard")
        /\ plIn.whitelist => DOMAIN final.at \cap HandleFields = GuardFields

\* The nodes whose configuration was computed from profile changed: the steps
\* that read it, what follows them, and the composition steps that took a member
\* built from it.
ComputedFrom(nodes, changed) ==
  LET from[i \in DOMAIN nodes] ==
        \/ nodes[i].tag.id = changed
        \/ nodes[i].baseline = "parent" /\ \E p \in ParentsOf(nodes, i) : from[p]
        \/ /\ nodes[i].tag.op \in {"base", "extend"}
           /\ \E j \in DOMAIN nodes : nodes[j].tag.op \in {"file", "transform"}
                                     /\ nodes[j].tag.host = nodes[i].tag.id /\ from[j]
  IN  {i \in DOMAIN nodes : from[i]}

\* A change of any profile the build looked up, at whatever place of the
\* pipeline, asks for another build; and when a profile is selected every node
\* computed from the changed one is marked stale (invalidation.rs,
\* dependency.rs).
PlInvalidated ==
  LET p == plIn.profiles
  IN  /\ \A i \in DOMAIN Program(p) : \A changed \in Reads(Program(p)[i]) : Rebuild(p, changed)
      /\ plResult = "ok" /\ p.current # NoProfile =>
            \A changed \in PlFiles \cup PlTransforms :
               ComputedFrom(plMain.nodes, changed) \subseteq StaleNodes(plMain.nodes, p, changed)

\* A build can be relied upon: it is stored as it was computed, the guard has the
\* last word in it, and it is asked for again when anything it read changes.
PlBuildSound == PlGraphFaithful /\ PlGuardWins /\ PlInvalidated
=============================================================================
