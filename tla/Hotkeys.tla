-------------------------------- MODULE Hotkeys --------------------------------
(***************************************************************************)
(* Global hotkeys (core/hotkey.rs, ipc.rs): the list in the key-value        *)
(* storage, the list the application believes to be registered, and what the *)
(* operating system has registered, which other applications compete for.   *)
(***************************************************************************)
EXTENDS KeyValueStorage

CONSTANTS HkKeys,       \* shortcuts that parse and have a super key
          HkBadKey,     \* one that does not
          HkFuncs,      \* functions
          HkOddFunc,    \* a name that is none
          HkLists,      \* lists a user may submit
          HkLegacy,     \* what a verge that was not migrated lists, or NoValue
          HkMaxStarts   \* bound: starts of the application

HkStorageKey == "hotkeys"
\* The web prefix keeps the frontend's keys apart from this one.
ASSUME HkAssumption ==
  HkStorageKey \in KvInnerKeys \ KvWebKeys /\ HkBadKey \notin HkKeys /\ HkOddFunc \notin HkFuncs

VARIABLES hkCurrent,  \* Hotkey::current
          hkOs,       \* the function registered for each shortcut
          hkTaken,    \* shortcuts another application holds
          hkOps,      \* the update that runs: its list and the operations left, or none
          hkUp,       \* starts so far, and whether the application runs
          hkTrouble   \* history: shortcuts of operations that failed or half succeeded,
                      \* and whether a list was registered and not stored

hkVars == <<hkCurrent, hkOs, hkTaken, hkOps, hkUp, hkTrouble>>

NoFunc == "no function"
NoUpdate == [list |-> <<>>, left |-> {}, on |-> FALSE]
NoTrouble == [keys |-> {}, unsaved |-> FALSE]

HkInit ==
  /\ KvInit
  /\ hkCurrent = <<>> /\ hkOs = [k \in HkKeys |-> NoFunc] /\ hkTaken = {}
  /\ hkOps = NoUpdate /\ hkUp = [starts |-> 0, on |-> FALSE] /\ hkTrouble = NoTrouble

\* The last entry of a key counts.
GetMapFromVec(list) ==
  [k \in {list[i].key : i \in DOMAIN list} |->
     LET last == CHOOSE i \in DOMAIN list :
                   list[i].key = k /\ \A j \in DOMAIN list : list[j].key = k => j <= i
     IN  list[last].func]

\* Mutant: a key that stays is taken for unchanged.
GetOpsOfKeys(old, new) ==
  {[key |-> k, is |-> "unbind", func |-> NoFunc] : k \in DOMAIN old \ DOMAIN new}
    \cup {[key |-> k, is |-> "bind", func |-> new[k]] : k \in DOMAIN new \ DOMAIN old}

\* Operations from the old map to the new: of a key that goes, changes or comes.
GetOps(old, new) ==
  {[key |-> k, is |-> "unbind", func |-> NoFunc] : k \in DOMAIN old \ DOMAIN new}
    \cup {[key |-> k, is |-> "change", func |-> new[k]] :
            k \in {x \in DOMAIN old \cap DOMAIN new : new[x] # old[x]}}
    \cup {[key |-> k, is |-> "bind", func |-> new[k]] : k \in DOMAIN new \ DOMAIN old}

CheckKey(key) == key \in HkKeys

\* What registering leaves: an own registration goes first, then the function
\* is parsed and the system asked.
Registered(os, key, func) ==
  [os EXCEPT ![key] = IF func \in HkFuncs /\ key \notin hkTaken THEN func ELSE NoFunc]
RegisterOk(key, func) == func \in HkFuncs /\ key \notin hkTaken

\* Hotkey::init registers each entry in turn and logs failures: the last of a key counts.
HkRegisterAll(list) ==
  LET map == GetMapFromVec(list)
  IN  [k \in HkKeys |-> IF k \in DOMAIN map /\ RegisterOk(k, map[k]) THEN map[k] ELSE NoFunc]

\* The stored list; a failed read or none: that of a verge that was not migrated.
\* The list is current whether or not its shortcuts could be registered.
HkStart ==
  /\ ~hkUp.on /\ hkUp.starts < HkMaxStarts
  /\ hkUp' = [starts |-> hkUp.starts + 1, on |-> TRUE]
  /\ KvOpen
  /\ \E readable \in BOOLEAN :
       LET stored == readable /\ kvTable'[HkStorageKey] # NoValue
           list == IF stored THEN kvTable'[HkStorageKey] ELSE HkLegacy
           map == GetMapFromVec(list)
       IN  IF list = NoValue THEN /\ hkTrouble' = [NoTrouble EXCEPT !.unsaved = TRUE]
                                  /\ UNCHANGED <<hkCurrent, hkOs>>
           ELSE /\ hkCurrent' = list /\ hkOs' = HkRegisterAll(list)
                /\ hkTrouble' = [keys |-> {k \in DOMAIN map : ~CheckKey(k) \/ ~RegisterOk(k, map[k])},
                                 unsaved |-> ~stored]
  /\ UNCHANGED <<hkTaken, hkOps>>

\* The process ends: the system forgets its registrations.
HkStop ==
  /\ hkUp.on /\ hkUp' = [hkUp EXCEPT !.on = FALSE]
  /\ hkOs' = [k \in HkKeys |-> NoFunc] /\ hkCurrent' = <<>> /\ hkOps' = NoUpdate
  /\ hkTrouble' = NoTrouble
  /\ KvClose /\ UNCHANGED hkTaken

\* Another application takes a shortcut that is free, or gives one up.
HkOthers ==
  /\ \E k \in HkKeys :
       \/ hkOs[k] = NoFunc /\ k \notin hkTaken /\ hkTaken' = hkTaken \cup {k}
       \/ k \in hkTaken /\ hkTaken' = hkTaken \ {k}
  /\ UNCHANGED <<kvVars, hkCurrent, hkOs, hkOps, hkUp, hkTrouble>>

\* set_hotkeys: Hotkey::update checks every new key before it touches any.
SetHotkeys ==
  /\ hkUp.on /\ ~hkOps.on /\ kvClear = NotClearing
  /\ \E list \in HkLists :
       LET ops == GetOps(GetMapFromVec(hkCurrent), GetMapFromVec(list))
       IN  /\ \A o \in ops : o.is # "unbind" => CheckKey(o.key)
           /\ hkOps' = [list |-> list, left |-> ops, on |-> TRUE]
  /\ UNCHANGED <<kvVars, hkCurrent, hkOs, hkTaken, hkUp, hkTrouble>>

HkDone(op) ==
  /\ hkOps' = [hkOps EXCEPT !.left = @ \ {op}]
  /\ hkTrouble' = [hkTrouble EXCEPT !.keys = @ \ {op.key}]

\* The first operation that fails ends the update; those before it stay done.
HkFails(op) ==
  /\ hkOps' = NoUpdate
  /\ LET done == {o.key : o \in GetOps(GetMapFromVec(hkCurrent), GetMapFromVec(hkOps.list)) \ hkOps.left}
     IN  hkTrouble' = [hkTrouble EXCEPT !.keys = @ \cup done \cup {op.key}]

\* Giving up a shortcut that is not registered is an error on some systems; a bad
\* key can have come from the storage only and is refused when it is given up.
HkUnbind(op) ==
  /\ op.is = "unbind"
  /\ \/ op.key \in HkKeys /\ hkOs' = [hkOs EXCEPT ![op.key] = NoFunc] /\ HkDone(op)
     \/ /\ (op.key \in HkKeys => hkOs[op.key] = NoFunc)
        /\ UNCHANGED hkOs /\ HkFails(op)

HkBind(op) ==
  /\ op.is = "bind"
  /\ hkOs' = Registered(hkOs, op.key, op.func)
  /\ IF RegisterOk(op.key, op.func) THEN HkDone(op) ELSE HkFails(op)

\* The old registration is given up first, which fails like any other.
HkChange(op) ==
  /\ op.is = "change"
  /\ \/ /\ hkOs' = Registered(hkOs, op.key, op.func)
        /\ IF RegisterOk(op.key, op.func) THEN HkDone(op) ELSE HkFails(op)
     \/ hkOs[op.key] = NoFunc /\ UNCHANGED hkOs /\ HkFails(op)

\* Operations run in the order of two hash maps: the old one's, then the new one's.
HkOperate ==
  /\ hkOps.on
  /\ \E op \in hkOps.left :
       /\ op.is = "bind" => \A o \in hkOps.left : o.is = "bind"
       /\ HkUnbind(op) \/ HkChange(op) \/ HkBind(op)
  /\ UNCHANGED <<kvVars, hkCurrent, hkTaken, hkUp>>

\* The list is current, then stored; the write may fail with the list in force.
HkStore ==
  /\ hkOps.on /\ hkOps.left = {}
  /\ hkOps' = NoUpdate /\ hkCurrent' = hkOps.list
  /\ \/ /\ SetItem(HkStorageKey, hkOps.list) /\ UNCHANGED kvClear
        /\ hkTrouble' = [hkTrouble EXCEPT !.unsaved = FALSE]
     \/ hkTrouble' = [hkTrouble EXCEPT !.unsaved = TRUE] /\ UNCHANGED kvVars
  /\ UNCHANGED <<hkOs, hkTaken, hkUp>>

HkNext ==
  \/ HkStart \/ HkStop \/ HkOthers \/ SetHotkeys \/ HkOperate \/ HkStore
  \/ hkUp.on /\ ~hkOps.on /\ KvCommands /\ UNCHANGED hkVars
  \/ hkUp.on /\ KvEvents /\ UNCHANGED hkVars
-------------------------------------------------------------------------------
\* Types of the hotkeys and of the storage under them.
HkTypeOK ==
  /\ hkOs \in [HkKeys -> HkFuncs \cup {NoFunc}] /\ hkTaken \subseteq HkKeys
  /\ hkCurrent \in HkLists \cup {HkLegacy, <<>>} /\ hkTrouble.keys \subseteq HkKeys \cup {HkBadKey}
  /\ Len(kvChannel) <= KvCapacity /\ kvListener \in {"off", "on", "lagged", "ended"}

(* Whenever no update runs, a shortcut does what the current list says and       *)
(* nothing is registered that no list asks for, through updates, failures and     *)
(* restarts; the exceptions are the shortcuts an operation of a failed update      *)
(* had reached.  What is current is what the next start will read, unless the      *)
(* write failed.                                                                *)
HkAsListed ==
  hkUp.on /\ ~hkOps.on =>
    LET map == GetMapFromVec(hkCurrent)
    IN  /\ \A k \in HkKeys \ hkTrouble.keys :
             hkOs[k] = IF k \in DOMAIN map THEN map[k] ELSE NoFunc
        /\ hkTrouble.unsaved \/ kvTable[HkStorageKey] = hkCurrent

(* Once every notification thread has run and the listener has forwarded what     *)
(* it got, the last event of each key is that of its last commit, unless two        *)
(* threads of the same key ran in the wrong order or the listener had lagged.       *)
KvAnnounced ==
  kvListener = "on" /\ kvThreads = {} /\ kvChannel = <<>> =>
    \A k \in KvKeys \ kvCommit.overtaken : kvShown[k] = kvCommit.of[k]

(* Shortcuts and stored items are what was last set, at the system, in the storage    *)
(* and at the listeners.                                                        *)
HkSettled == HkAsListed /\ KvAnnounced
================================================================================
