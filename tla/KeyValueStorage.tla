---------------------------- MODULE KeyValueStorage ----------------------------
(***************************************************************************)
(* The key-value storage of the application (core/storage.rs): redb         *)
(* transactions, and a change event for each committed one.  An event is    *)
(* handed to a broadcast channel by a thread of its own, so events of two    *)
(* commits may arrive in either order; a listener forwards them to the      *)
(* windows.  Keys with the web prefix are the frontend's (ipc.rs).          *)
(***************************************************************************)
EXTENDS Naturals, Sequences, FiniteSets

CONSTANTS KvWebKeys,      \* keys of the frontend
          KvInnerKeys,    \* keys of the application's own parts
          KvWebValues,    \* values the frontend stores
          NoValue,        \* what a key holds that is not stored
          KvCapacity,     \* size of the broadcast channel
          KvMaxCommits    \* bound: commits of a run of the application

ASSUME KvAssumption == KvCapacity \in Nat \ {0} /\ KvMaxCommits \in Nat

KvKeys == KvWebKeys \cup KvInnerKeys

VARIABLES kvTable,    \* the committed value of each key
          kvThreads,  \* notifications whose thread has not sent yet
          kvChannel,  \* sent and not received
          kvListener, \* the forwarding loop: "off", "on", "lagged", "ended"
          kvShown,    \* the event the windows saw last for each key
          kvCommit,   \* history: number of the last commit, and of the last of each key
          kvClear     \* keys clear_storage has yet to remove, or not running

kvVars == <<kvTable, kvThreads, kvChannel, kvListener, kvShown, kvCommit, kvClear>>

NotClearing == {"not clearing"}
NoCommits == [last |-> 0, of |-> [k \in KvKeys |-> 0], overtaken |-> {}]

\* The process ends: what was announced and not forwarded is lost.
KvClose ==
  /\ UNCHANGED kvTable
  /\ kvThreads' = {} /\ kvChannel' = <<>> /\ kvListener' = "off"
  /\ kvShown' = [k \in KvKeys |-> 0] /\ kvCommit' = NoCommits /\ kvClear' = NotClearing

KvInit ==
  /\ kvTable = [k \in KvKeys |-> NoValue]
  /\ kvThreads = {} /\ kvChannel = <<>> /\ kvListener = "off"
  /\ kvShown = [k \in KvKeys |-> 0] /\ kvCommit = NoCommits /\ kvClear = NotClearing

\* Opening at start: a file of an older redb format is removed, with all in it.
KvOpen ==
  /\ \/ UNCHANGED kvTable
     \/ kvTable' = [k \in KvKeys |-> NoValue]
  /\ UNCHANGED <<kvThreads, kvChannel, kvListener, kvShown, kvCommit, kvClear>>

\* A transaction that commits, and the thread that will announce it.
NotifySubscribers(key) ==
  /\ kvCommit.last < KvMaxCommits
  /\ kvCommit' = [kvCommit EXCEPT !.last = @ + 1, !.of[key] = kvCommit.last + 1,
                                  \* What was announced out of order is right again with the next.
                                  !.overtaken = @ \ {key}]
  /\ kvThreads' = kvThreads \cup {[key |-> key, n |-> kvCommit.last + 1]}

SetItem(key, value) ==
  /\ kvTable' = [kvTable EXCEPT ![key] = value]
  /\ NotifySubscribers(key)
  /\ UNCHANGED <<kvChannel, kvListener, kvShown>>

\* Removing a missing key commits and announces like any other.
RemoveItem(key) ==
  /\ kvTable' = [kvTable EXCEPT ![key] = NoValue]
  /\ NotifySubscribers(key)
  /\ UNCHANGED <<kvChannel, kvListener, kvShown>>

\* Commands of the frontend, one at a time: the prefix keeps them off other keys.
SetStorageItem ==
  kvClear = NotClearing /\ (\E k \in KvWebKeys, v \in KvWebValues : SetItem(k, v)) /\ UNCHANGED kvClear
RemoveStorageItem ==
  kvClear = NotClearing /\ (\E k \in KvWebKeys : RemoveItem(k)) /\ UNCHANGED kvClear
ClearStorage ==
  /\ kvClear = NotClearing
  /\ kvClear' = {k \in KvWebKeys : kvTable[k] # NoValue}
  /\ UNCHANGED <<kvTable, kvThreads, kvChannel, kvListener, kvShown, kvCommit>>
\* Its keys go one transaction each; the first that fails ends it.
ClearNext ==
  /\ kvClear # NotClearing
  /\ \/ \E k \in kvClear : RemoveItem(k) /\ kvClear' = kvClear \ {k}
     \/ kvClear' = NotClearing
        /\ UNCHANGED <<kvTable, kvThreads, kvChannel, kvListener, kvShown, kvCommit>>

\* A notification thread runs.  Without a receiver the event is dropped; a full
\* channel loses its oldest, and the receiver is told so before its next event.
KvSend ==
  \E t \in kvThreads :
    /\ kvThreads' = kvThreads \ {t}
    /\ LET full == Len(kvChannel) = KvCapacity
           kept == IF full THEN Tail(kvChannel) ELSE kvChannel
       IN  IF kvListener \in {"on", "lagged"}
           THEN /\ kvChannel' = Append(kept, t)
                /\ kvListener' = IF full THEN "lagged" ELSE kvListener
           ELSE UNCHANGED <<kvChannel, kvListener>>
    /\ kvCommit' = IF \E u \in kvThreads : u.key = t.key /\ u.n < t.n
                   THEN [kvCommit EXCEPT !.overtaken = @ \cup {t.key}] ELSE kvCommit
    /\ UNCHANGED <<kvTable, kvShown, kvClear>>

RegisterWebStorageListener ==
  /\ kvListener = "off" /\ kvListener' = "on"
  \* What was committed before the windows load is read by them, not announced.
  /\ kvShown' = [k \in KvKeys |-> kvCommit.of[k]]
  /\ UNCHANGED <<kvTable, kvThreads, kvChannel, kvCommit, kvClear>>

\* `while let Ok(..)`: the loop ends for good at the first lag.
KvForward ==
  /\ \/ kvListener = "lagged" /\ kvListener' = "ended" /\ kvChannel' = <<>> /\ UNCHANGED kvShown
     \/ /\ kvListener = "on" /\ kvChannel # <<>>
        /\ kvChannel' = Tail(kvChannel) /\ UNCHANGED kvListener
        /\ kvShown' = [kvShown EXCEPT ![Head(kvChannel).key] = Head(kvChannel).n]
  /\ UNCHANGED <<kvTable, kvThreads, kvCommit, kvClear>>

KvCommands == SetStorageItem \/ RemoveStorageItem \/ ClearStorage \/ ClearNext
KvEvents == KvSend \/ KvForward \/ RegisterWebStorageListener
================================================================================
