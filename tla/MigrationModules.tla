--------------------------- MODULE MigrationModules ---------------------------
(***************************************************************************)
(* What the nine migration steps do to the user's files                    *)
(* (core/migration/modules): the profiles document, the legacy verge, the   *)
(* hotkeys in the key-value storage, and the three typed files split from   *)
(* the legacy ones.  MigrationRunner has the runner and its store in full;  *)
(* here a step's marks are one set each and their flushes do not fail.      *)
(*                                                                         *)
(* A step reads its files and then replaces them one atomic write at a time, *)
(* so it is a plan: a sequence of writes and whether it then returns Ok. The *)
(* process may be killed between two writes, any write may fail, and the    *)
(* app (one instance, it waits for the migrate process) exits on an error:  *)
(* the user may then repair what the error names and start again.          *)
(***************************************************************************)
EXTENDS Naturals, Sequences, FiniteSets

CONSTANTS MmDisks,      \* the files a user may have
          MmMaxFaults,  \* bound: writes that fail
          MmMaxCrashes, \* bound: kills of the migrate process
          MmMaxStarts   \* bound: starts of the app

VARIABLES mmDisk,   \* the files
          mmStore,  \* migration-state.yaml: baselines, steps begun, steps completed
          mmRun,    \* the migrate process
          mmUser,   \* history: what the user's files said
          mmWindow, \* history: the known ways to lose some of it that were met
          mmCount   \* history: faults, crashes and starts so far

mmVars == <<mmDisk, mmStore, mmRun, mmUser, mmWindow, mmCount>>

NoFile == [form |-> "missing"]
MmFiles == {"profiles", "bak", "verge", "kv", "application", "session", "clash",
            "overrides", "previous"}

\* A YAML field: absent, null, a string or a list of uids, or something else.
Entry(is, uids) == [is |-> is, uids |-> uids]
AbsentEntry == Entry("absent", <<>>)
Rejected == [uid |-> "rejected"]

MmSteps ==
  <<[id |-> "null_value", module |-> "profiles", revision |-> 1],
    [id |-> "script_newtype", module |-> "profiles", revision |-> 2],
    [id |-> "clean_schema", module |-> "profiles", revision |-> 3],
    [id |-> "language_option", module |-> "app_config", revision |-> 1],
    [id |-> "theme_setting", module |-> "app_config", revision |-> 2],
    [id |-> "net_stat_widget_flatten", module |-> "app_config", revision |-> 3],
    [id |-> "hotkeys_to_kv", module |-> "storage", revision |-> 1],
    [id |-> "split_legacy_config", module |-> "typed_config", revision |-> 1],
    [id |-> "repair_clash_config_path", module |-> "typed_config", revision |-> 2]>>
MmModules == {MmSteps[i].module : i \in DOMAIN MmSteps}
-------------------------------------------------------------------------------
(* The profiles document.  A legacy item has a type, a chain, a file (a plain *)
(* path, a url or neither), a symlink and an update interval; a clean one is  *)
(* a config or a transform with its source and what it refers to.            *)
MigrateNullValue(doc) ==
  LET listed(e) == IF e.is = "null" THEN Entry("list", <<>>) ELSE e
  IN  [doc EXCEPT !.current = listed(@), !.chain = listed(@)]

\* Its rollback cannot tell the user's lists from the ones it made.
NullValueRollback(doc) ==
  LET nulled(e) == IF e.is = "list" THEN Entry("null", <<>>) ELSE e
  IN  [doc EXCEPT !.current = nulled(@), !.chain = nulled(@)]

Retyped(doc, from, to) ==
  [doc EXCEPT !.items = [i \in DOMAIN @ |->
     IF @[i].type = from THEN [@[i] EXCEPT !.type = to] ELSE @[i]]]

\* The type `!script js` becomes the type script with a field script_type.
MigrateProfileData(doc) == Retyped(doc, "tagged", "script")
DiscardProfileData(doc) == Retyped(doc, "script", "tagged")

IsCleanSchema(doc) ==
  /\ doc.chain.is = "absent"
  /\ \A i \in DOMAIN doc.items : doc.items[i].type \in {"config", "transform"}

MmUids(doc) == {doc.items[i].uid : i \in DOMAIN doc.items}

\* filter_dangling_transform_targets: references to items that are gone.
FilterDangling(uids, known) == SelectSeq(uids, LAMBDA u : u \in known)

\* migrate_remote_options: without options the interval is 120; zero is refused.
MigrateRemoteOptions(interval) == IF interval = "none" THEN "default" ELSE interval

IsConfigType(type) == type \in {"remote", "local"}

\* The source: an item whose file is a url is remote whatever its type.
MigrateSource(item) ==
  IF item.type = "remote" \/ item.file = "url" THEN "remote"
  ELSE IF item.link = "none" THEN "managed" ELSE "external"

\* validate_managed_relative: a plain relative path.
ManagedRelative(item) == item.file # "odd"

\* What migrate_item refuses rather than drop.
Refused(item) ==
  \/ item.type \notin {"remote", "local", "merge", "script"}
  \/ item.chain.is \notin {"absent", "null", "list"}
  \/ ~ManagedRelative(item) \/ item.link = "relative"
  \/ item.file = "url" /\ item.type # "remote" /\ item.link # "none"
  \/ item.type = "remote" /\ item.interval = "zero"

MigrateItem(item, known) ==
  IF Refused(item) THEN Rejected
  ELSE [uid |-> item.uid,
        type |-> IF IsConfigType(item.type) THEN "config" ELSE "transform",
        kind |-> CASE IsConfigType(item.type) -> "file"
                   [] item.type = "merge" -> "overlay" [] OTHER -> "script",
        source |-> MigrateSource(item),
        interval |-> IF item.type = "remote" THEN MigrateRemoteOptions(item.interval)
                     ELSE "default",
        refs |-> IF IsConfigType(item.type) THEN FilterDangling(item.chain.uids, known) ELSE <<>>]

\* The first of combined-profile, combined-profile-2, ... that is no item's uid.
CombinedUid(known) ==
  IF "combined-profile" \in known THEN "combined-profile-2" ELSE "combined-profile"

Combined(uid, members) ==
  [uid |-> uid, type |-> "config", kind |-> "composition", source |-> "none",
   interval |-> "default", refs |-> members]

\* migrate_clean_schema: several current profiles become one composition.
MigrateCleanSchema(doc) ==
  LET known == MmUids(doc)
      items == [i \in DOMAIN doc.items |-> MigrateItem(doc.items[i], known)]
      several == Len(doc.current.uids) > 1
      direct == {items[i].uid : i \in {k \in DOMAIN items : items[k] # Rejected
                                                            /\ items[k].type = "config"}}
      uid == CombinedUid(known)
  IN  IF \/ \E i \in DOMAIN items : items[i] = Rejected
         \/ doc.current.is = "odd" \/ doc.chain.is \notin {"absent", "null", "list"}
         \/ several /\ \E i \in DOMAIN doc.current.uids : doc.current.uids[i] \notin direct
      THEN Rejected
      ELSE [form |-> "doc", chain |-> AbsentEntry,
            current |-> IF doc.current.uids = <<>> THEN AbsentEntry
                        ELSE Entry("string", IF several THEN <<uid>> ELSE doc.current.uids),
            globals |-> FilterDangling(doc.chain.uids, known),
            items |-> IF several THEN Append(items, Combined(uid, doc.current.uids)) ELSE items]

\* Profiles::validate, and the duplicate uids its deserializer refuses.
ValidProfiles(doc) ==
  LET item(u) == CHOOSE it \in {doc.items[i] : i \in DOMAIN doc.items} : it.uid = u
      transforms(uids) == \A i \in DOMAIN uids :
        uids[i] \in MmUids(doc) /\ item(uids[i]).type = "transform"
      members(uids) == /\ uids # <<>>
                       /\ \A i, j \in DOMAIN uids : i # j => uids[i] # uids[j]
                       /\ \A i \in DOMAIN uids : item(uids[i]).kind = "file"
  IN  /\ Cardinality(MmUids(doc)) = Len(doc.items)
      /\ \A i \in DOMAIN doc.current.uids :
           doc.current.uids[i] \in MmUids(doc) /\ item(doc.current.uids[i]).type = "config"
      /\ transforms(doc.globals)
      /\ \A i \in DOMAIN doc.items :
           IF doc.items[i].kind = "composition" THEN members(doc.items[i].refs)
           ELSE transforms(doc.items[i].refs)
-------------------------------------------------------------------------------
(* The legacy verge.  A theme_setting is its primary color or none; the       *)
(* widget is nested or flat.                                                 *)
NeedsAppConfig(verge) ==
  verge.language = "zh" \/ verge.theme_setting # "absent" \/ verge.widget = "nested"

MigrateLanguage(verge) ==
  IF verge.language = "zh" THEN [verge EXCEPT !.language = "zh-CN"] ELSE verge

MigrateTheme(verge) ==
  [verge EXCEPT !.theme_setting = "absent",
                !.theme_color = IF verge.theme_setting \in {"absent", "bare"} THEN @
                                ELSE verge.theme_setting]
ThemeRollback(verge) ==
  IF verge.theme_color = "absent" THEN verge
  ELSE [verge EXCEPT !.theme_setting = verge.theme_color, !.theme_color = "absent"]

FlattenWidget(verge) == [verge EXCEPT !.widget = IF @ = "nested" THEN "flat" ELSE @]
ExpandWidget(verge) == [verge EXCEPT !.widget = IF @ = "flat" THEN "nested" ELSE @]
-------------------------------------------------------------------------------
(* The typed files.  The clash file shares its path with the legacy runtime   *)
(* configuration; an earlier release wrote it as clash.yaml.                  *)
ClashFileState(clash) == clash.form   \* "missing", "typed", "runtime" or "odd"

TypedFileState(disk) ==
  LET app == disk.application # NoFile
      session == disk.session # NoFile
      clash == ClashFileState(disk.clash)
  IN  IF clash = "odd" THEN "error"
      ELSE IF app /\ session THEN IF clash = "typed" THEN "all" ELSE "repair"
      ELSE IF app \/ session \/ clash = "typed" THEN "error"   \* partial
      ELSE "none"

\* read_legacy_clash_inputs: the runtime file, then the guard overrides on top.
LegacyClashMode(disk) ==
  IF disk.overrides # NoFile THEN disk.overrides.mode
  ELSE IF disk.clash.form = "runtime" THEN disk.clash.mode ELSE "rule"

\* read_legacy_verge cannot parse a nested widget.
LegacyReadable(disk) == disk.verge = NoFile \/ disk.verge.widget # "nested"

\* typed_config_from_legacy_parts: a language that is no variant and a
\* theme_setting are passed over.
TypedApplication(verge) ==
  [form |-> "typed",
   language |-> IF verge # NoFile /\ verge.language \notin {"absent", "zh"}
                THEN verge.language ELSE "default",
   theme_color |-> IF verge # NoFile /\ verge.theme_color # "absent"
                   THEN verge.theme_color ELSE "default"]
TypedSession == [form |-> "typed"]
TypedClash(mode) == [form |-> "typed", mode |-> mode]
-------------------------------------------------------------------------------
(* Plans. *)
MmWriteOf(file, to) == [file |-> file, to |-> to]
MmReturn(writes, ok) == [writes |-> writes, ok |-> ok]
Nothing == MmReturn(<<>>, TRUE)
Refuse == MmReturn(<<>>, FALSE)

\* run_clean_schema: the backup first, then the document that validates.
CleanSchemaPlan(doc) ==
  LET migrated == MigrateCleanSchema(doc)
      backup == MmWriteOf("bak", doc)
  IN  IF IsCleanSchema(doc) THEN Nothing
      ELSE IF migrated = Rejected THEN MmReturn(<<backup>>, FALSE)
      ELSE IF ~ValidProfiles(migrated) THEN MmReturn(<<backup>>, FALSE)
      ELSE MmReturn(<<backup, MmWriteOf("profiles", migrated)>>, TRUE)

ProfilesPlan(id, doc) ==
  IF doc = NoFile THEN Nothing
  ELSE CASE id = "null_value" -> MmReturn(<<MmWriteOf("profiles", MigrateNullValue(doc))>>, TRUE)
         [] id = "script_newtype" -> MmReturn(<<MmWriteOf("profiles", MigrateProfileData(doc))>>, TRUE)
         [] OTHER -> CleanSchemaPlan(doc)

\* Mutant: the verge is rewritten before the hotkeys are stored.
MutHotkeysPlan(verge) ==
  IF verge.hotkeys = "absent" THEN Nothing
  ELSE MmReturn(<<MmWriteOf("verge", [verge EXCEPT !.hotkeys = "absent"]),
                  MmWriteOf("kv", [form |-> "kv", hotkeys |-> verge.hotkeys])>>, TRUE)

\* hotkeys_to_kv: stored first, removed from the verge afterwards.
HotkeysPlan(verge) ==
  IF verge.hotkeys = "absent" THEN Nothing
  ELSE MmReturn(<<MmWriteOf("kv", [form |-> "kv", hotkeys |-> verge.hotkeys]),
                  MmWriteOf("verge", [verge EXCEPT !.hotkeys = "absent"])>>, TRUE)

\* Only theme_setting writes in any case.
AppConfigPlan(id, verge) ==
  LET to == CASE id = "language_option" -> MigrateLanguage(verge)
              [] id = "theme_setting" -> MigrateTheme(verge)
              [] OTHER -> FlattenWidget(verge)
  IN  IF id # "theme_setting" /\ to = verge THEN Nothing
      ELSE MmReturn(<<MmWriteOf("verge", to)>>, TRUE)

SplitPlan(disk) ==
  CASE TypedFileState(disk) \in {"all", "repair"} -> Nothing
    [] TypedFileState(disk) = "error" \/ ~LegacyReadable(disk) -> Refuse
    [] OTHER -> MmReturn(<<MmWriteOf("application", TypedApplication(disk.verge)),
                           MmWriteOf("session", TypedSession),
                           MmWriteOf("clash", TypedClash(LegacyClashMode(disk)))>>, TRUE)

RepairPlan(disk) ==
  CASE TypedFileState(disk) = "all" -> Nothing
    [] TypedFileState(disk) # "repair" -> Refuse
    [] disk.previous # NoFile -> MmReturn(<<MmWriteOf("clash", disk.previous)>>, TRUE)
    [] ~LegacyReadable(disk) -> Refuse
    [] OTHER -> MmReturn(<<MmWriteOf("clash", TypedClash(LegacyClashMode(disk)))>>, TRUE)

StepPlan(step, disk) ==
  CASE step.module = "profiles" -> ProfilesPlan(step.id, disk.profiles)
    [] step.id = "split_legacy_config" -> SplitPlan(disk)
    [] step.id = "repair_clash_config_path" -> RepairPlan(disk)
    [] disk.verge = NoFile -> Nothing
    [] step.module = "storage" -> HotkeysPlan(disk.verge)
    [] OTHER -> AppConfigPlan(step.id, disk.verge)

ProfilesRollback(id, disk) ==
  CASE id = "null_value" -> <<MmWriteOf("profiles", NullValueRollback(disk.profiles))>>
    [] id = "script_newtype" -> <<MmWriteOf("profiles", DiscardProfileData(disk.profiles))>>
    [] disk.bak # NoFile -> <<MmWriteOf("profiles", disk.bak)>>
    [] OTHER -> <<>>

\* rollback, and for the split the files it had created, removed in reverse.
RollbackPlan(step, disk, written) ==
  CASE step.module = "profiles" -> ProfilesRollback(step.id, disk)
    [] step.id = "theme_setting" -> <<MmWriteOf("verge", ThemeRollback(disk.verge))>>
    [] step.id = "net_stat_widget_flatten" -> <<MmWriteOf("verge", ExpandWidget(disk.verge))>>
    [] step.id = "split_legacy_config" ->
         [i \in DOMAIN written |-> MmWriteOf(written[Len(written) + 1 - i], NoFile)]
    [] OTHER -> <<>>
-------------------------------------------------------------------------------
\* What the files say to the user, whichever form they have.
ProfilesMeaning(doc) ==
  LET item(u) == CHOOSE it \in {doc.items[i] : i \in DOMAIN doc.items} : it.uid = u
      selected == doc.current.uids
      known == MmUids(doc)
      kind(t) == CASE t \in {"remote", "local"} -> "file" [] t = "merge" -> "overlay"
                   [] OTHER -> "script"
      said(it) == IF it.type \in {"config", "transform"}
                  THEN <<it.uid, it.kind, it.source, it.refs, it.interval>>
                  ELSE <<it.uid, kind(it.type), MigrateSource(it),
                         FilterDangling(it.chain.uids, known),
                         IF it.interval = "none" THEN "default" ELSE it.interval>>
  IN  [selected |-> IF /\ Len(selected) = 1 /\ selected[1] \in known
                       /\ item(selected[1]).type = "config"
                       /\ item(selected[1]).kind = "composition"
                    THEN item(selected[1]).refs ELSE selected,
       globals |-> IF IsCleanSchema(doc) THEN doc.globals ELSE FilterDangling(doc.chain.uids, known),
       items |-> {said(doc.items[i]) : i \in
                    {k \in DOMAIN doc.items : doc.items[k].type # "config"
                                              \/ doc.items[k].kind # "composition"}}]

VergeMeaning(verge) ==
  IF verge = NoFile THEN <<"default", "default">>
  ELSE <<IF verge.language = "zh" THEN "zh-CN"
         ELSE IF verge.language = "absent" THEN "default" ELSE verge.language,
         IF verge.theme_setting \notin {"absent", "bare"} THEN verge.theme_setting
         ELSE IF verge.theme_color = "absent" THEN "default" ELSE verge.theme_color>>

MmSaid(disk) ==
  [profiles |-> IF disk.profiles = NoFile THEN NoFile ELSE ProfilesMeaning(disk.profiles),
   verge |-> VergeMeaning(disk.verge),
   hotkeys |-> IF disk.verge = NoFile THEN "absent" ELSE disk.verge.hotkeys,
   mode |-> IF disk.clash.form = "typed" THEN disk.clash.mode
            ELSE IF disk.previous # NoFile THEN disk.previous.mode ELSE LegacyClashMode(disk)]
-------------------------------------------------------------------------------
MmRest == [pc |-> "down", at |-> 1, plan |-> Nothing, written |-> <<>>, failed |-> {}]

MmInit ==
  /\ mmDisk \in MmDisks
  /\ mmStore = [base |-> [m \in {} |-> 0], begun |-> {}, done |-> {}]
  /\ mmRun = MmRest
  /\ mmUser = MmSaid(mmDisk)
  /\ mmWindow = {}
  /\ mmCount = [faults |-> 0, crashes |-> 0, starts |-> 0]

\* detect_baseline of each module; the typed files' state may be an error.
ProfilesBaseline(doc) == IF doc = NoFile THEN 3 ELSE IF IsCleanSchema(doc) THEN 3 ELSE 0
AppConfigBaseline(verge) == IF verge = NoFile THEN 3 ELSE IF NeedsAppConfig(verge) THEN 0 ELSE 3
StorageBaseline(verge) == IF verge = NoFile THEN 1 ELSE IF verge.hotkeys # "absent" THEN 0 ELSE 1
TypedBaseline(disk) ==
  CASE TypedFileState(disk) = "all" -> 2 [] TypedFileState(disk) = "repair" -> 1 [] OTHER -> 0

MmBaselines(disk) ==
  [m \in MmModules |-> CASE m = "profiles" -> ProfilesBaseline(disk.profiles)
                         [] m = "app_config" -> AppConfigBaseline(disk.verge)
                         [] m = "storage" -> StorageBaseline(disk.verge)
                         [] OTHER -> TypedBaseline(disk)]

\* run_pending_migrations: the app starts the migrate process and waits.  The
\* first start records the baselines, or ends there when one cannot be told.
MmStart ==
  /\ mmRun.pc = "down" /\ mmCount.starts < MmMaxStarts
  /\ mmCount' = [mmCount EXCEPT !.starts = @ + 1]
  /\ IF mmStore.base = [m \in {} |-> 0] /\ TypedFileState(mmDisk) = "error"
     THEN UNCHANGED <<mmStore, mmRun>>
     ELSE /\ mmStore' = IF mmStore.base # [m \in {} |-> 0] THEN mmStore
                        ELSE [mmStore EXCEPT !.base = MmBaselines(mmDisk)]
          /\ mmRun' = [MmRest EXCEPT !.pc = "loop"]
  /\ UNCHANGED <<mmDisk, mmUser, mmWindow>>

MmStep == MmSteps[mmRun.at]

\* advice_step, and the steps of a module that has failed.
MmPending ==
  /\ MmStep.module \notin mmRun.failed
  /\ MmStep.id \notin mmStore.done
  /\ MmStep.id \in mmStore.begun \/ MmStep.revision > mmStore.base[MmStep.module]

MmSkipStep ==
  /\ mmRun.pc = "loop" /\ mmRun.at <= Len(MmSteps) /\ ~MmPending
  /\ mmRun' = [mmRun EXCEPT !.at = @ + 1]
  /\ UNCHANGED <<mmDisk, mmStore, mmUser, mmWindow, mmCount>>

\* The typed files are split from a verge app_config could not convert.
MmBegin ==
  /\ mmRun.pc = "loop" /\ mmRun.at <= Len(MmSteps) /\ MmPending
  /\ mmStore' = [mmStore EXCEPT !.begun = @ \cup {MmStep.id}]
  /\ mmRun' = [mmRun EXCEPT !.pc = "run", !.plan = StepPlan(MmStep, mmDisk), !.written = <<>>]
  /\ mmWindow' = IF MmStep.id = "split_legacy_config" /\ "app_config" \in mmRun.failed
                 THEN mmWindow \cup {"split"} ELSE mmWindow
  /\ UNCHANGED <<mmDisk, mmUser, mmCount>>

MmRollback(written) ==
  mmRun' = [mmRun EXCEPT !.pc = "undo", !.written = written,
                         !.plan = MmReturn(RollbackPlan(MmStep, mmDisk, written), FALSE)]

MmWrite ==
  /\ mmRun.pc \in {"run", "undo"} /\ mmRun.plan.writes # <<>>
  /\ LET w == Head(mmRun.plan.writes)
     IN  /\ mmDisk' = [mmDisk EXCEPT ![w.file] = w.to]
         /\ mmRun' = [mmRun EXCEPT !.plan.writes = Tail(@), !.written = Append(@, w.file)]
  /\ UNCHANGED <<mmStore, mmUser, mmWindow, mmCount>>

\* A write fails: the step is rolled back; a rollback goes on without it.
\* Rolling back null_value, or clean_schema with the backup of an earlier
\* attempt, is a known way to lose what the document said.
MmFault ==
  /\ mmRun.pc \in {"run", "undo"} /\ mmRun.plan.writes # <<>>
  /\ mmCount.faults < MmMaxFaults
  /\ mmCount' = [mmCount EXCEPT !.faults = @ + 1]
  /\ IF mmRun.pc = "run"
     THEN /\ MmRollback(mmRun.written)
          /\ mmWindow' = IF \/ MmStep.id = "null_value"
                            \/ Head(mmRun.plan.writes).file = "bak"
                         THEN mmWindow \cup {"rollback"} ELSE mmWindow
     ELSE mmRun' = [mmRun EXCEPT !.plan.writes = Tail(@)] /\ UNCHANGED mmWindow
  /\ UNCHANGED <<mmDisk, mmStore, mmUser>>

MmReturns ==
  /\ mmRun.pc = "run" /\ mmRun.plan.writes = <<>>
  /\ IF mmRun.plan.ok
     THEN /\ mmStore' = [mmStore EXCEPT !.done = @ \cup {MmStep.id}]
          /\ mmRun' = [mmRun EXCEPT !.pc = "loop", !.at = @ + 1]
     ELSE MmRollback(<<>>) /\ UNCHANGED mmStore
  /\ UNCHANGED <<mmDisk, mmUser, mmWindow, mmCount>>

MmRolledBack ==
  /\ mmRun.pc = "undo" /\ mmRun.plan.writes = <<>>
  /\ mmRun' = [mmRun EXCEPT !.pc = "loop", !.at = @ + 1, !.failed = @ \cup {MmStep.module}]
  /\ UNCHANGED <<mmDisk, mmStore, mmUser, mmWindow, mmCount>>

\* The app goes on, or shows the migration log and exits.
MmExit ==
  /\ mmRun.pc = "loop" /\ mmRun.at > Len(MmSteps)
  /\ mmRun' = [MmRest EXCEPT !.pc = IF mmRun.failed = {} THEN "up" ELSE "down"]
  /\ UNCHANGED <<mmDisk, mmStore, mmUser, mmWindow, mmCount>>

MmCrash ==
  /\ mmRun.pc \notin {"down", "up"} /\ mmCount.crashes < MmMaxCrashes
  /\ mmRun' = MmRest
  /\ mmCount' = [mmCount EXCEPT !.crashes = @ + 1]
  /\ UNCHANGED <<mmDisk, mmStore, mmUser, mmWindow>>

\* The user follows the error: a zero interval or a selection of a missing
\* profile is put right, half of the typed files is removed.
MmRepaired(doc) ==
  [doc EXCEPT !.items = [i \in DOMAIN @ |-> IF @[i].interval = "zero"
                                            THEN [@[i] EXCEPT !.interval = "hour"] ELSE @[i]],
              !.current = IF \A i \in DOMAIN @.uids : @.uids[i] \in MmUids(doc) THEN @
                          ELSE AbsentEntry]
MmFix ==
  /\ mmRun.pc = "down" /\ mmCount.starts > 0
  /\ LET doc == IF mmDisk.profiles = NoFile THEN NoFile ELSE MmRepaired(mmDisk.profiles)
         partial == TypedFileState(mmDisk) = "error" /\ mmDisk.clash.form # "odd"
     IN  mmDisk' = [mmDisk EXCEPT !.profiles = doc,
                                  !.application = IF partial THEN NoFile ELSE @,
                                  !.session = IF partial THEN NoFile ELSE @]
  /\ mmDisk' # mmDisk
  /\ mmUser' = [mmUser EXCEPT !.profiles = MmSaid(mmDisk').profiles]
  /\ UNCHANGED <<mmStore, mmRun, mmWindow, mmCount>>

MmNext ==
  \/ MmStart \/ MmSkipStep \/ MmBegin \/ MmWrite \/ MmFault \/ MmReturns
  \/ MmRolledBack \/ MmExit \/ MmCrash \/ MmFix
-------------------------------------------------------------------------------
\* The shape of the state; a completed step was begun.
MmTypeOK ==
  /\ DOMAIN mmDisk = MmFiles
  /\ mmStore.done \subseteq mmStore.begun
  /\ mmStore.begun \subseteq {MmSteps[i].id : i \in DOMAIN MmSteps}
  /\ mmRun.pc \in {"down", "loop", "run", "undo", "up"} /\ mmRun.at \in 1..(Len(MmSteps) + 1)
  /\ mmRun.failed \subseteq MmModules /\ mmRun.written \in Seq(MmFiles)
  /\ mmWindow \subseteq {"rollback", "split"}

(* Through crashes, failing writes, refused documents and any number of       *)
(* starts, nothing the user had is lost: profiles with their selection, chain  *)
(* and scripts, hotkeys, language, theme color and clash mode are on disk in   *)
(* one form or another, and once the app starts they are where it reads them.  *)
(* Excepted are the windows a failing write opens: the rollbacks that cannot   *)
(* tell what they undo, and a split of a verge that was not converted.         *)
MmUserDataKept ==
  /\ \/ mmUser.profiles = NoFile \/ "rollback" \in mmWindow
     \/ ProfilesMeaning(mmDisk.profiles) = mmUser.profiles
  /\ VergeMeaning(mmDisk.verge) = mmUser.verge
  /\ \/ mmUser.hotkeys = "absent"
     \/ mmDisk.verge.hotkeys = mmUser.hotkeys
     \/ mmDisk.kv # NoFile /\ mmDisk.kv.hotkeys = mmUser.hotkeys
  /\ mmRun.pc = "up" =>
       /\ mmDisk.profiles # NoFile => IsCleanSchema(mmDisk.profiles)
       /\ TypedFileState(mmDisk) = "all" /\ mmDisk.clash.mode = mmUser.mode
       /\ mmUser.hotkeys # "absent" => mmDisk.kv # NoFile
       /\ \/ "split" \in mmWindow
          \/ <<mmDisk.application.language, mmDisk.application.theme_color>> = mmUser.verge
================================================================================
