----------------------------- MODULE CommitLog -----------------------------
(***************************************************************************)
(* What a versioned state store promises its observers, independently of   *)
(* how writers, subscribers and cancellations are organised: committed     *)
(* values form a log that only grows, the store holds the last of them     *)
(* under its place in the log, and an observer that is told of a commit is *)
(* told of a version in the log that is newer than the last one it knew.   *)
(***************************************************************************)
EXTENDS Integers, Sequences

CONSTANTS
    Observers,  \* the parties that may be told of a commit
    Values      \* the states that can be committed

VARIABLES
    store,      \* the current value and its version
    log,        \* log[v + 1] is the value committed as version v
    known       \* known[o] is the newest version o was told of, or -1

clVars == <<store, log, known>>

clInit ==
    /\ \E v \in Values : log = <<v>> /\ store = [version |-> 0, state |-> v]
    /\ known = [o \in Observers |-> -1]

\* A writer commits v as the next version.
clCommit(v) ==
    /\ log' = Append(log, v)
    /\ store' = [version |-> Len(log), state |-> v]
    /\ UNCHANGED known

\* Observer o is told of a committed version newer than what it knows; the
\* versions in between may never be reported to it.
clLearn(o) ==
    /\ \E n \in (known[o] + 1) .. (Len(log) - 1) :
           known' = [known EXCEPT ![o] = n]
    /\ UNCHANGED <<store, log>>

clNext ==
    \/ \E v \in Values : clCommit(v)
    \/ \E o \in Observers : clLearn(o)

clSpec == clInit /\ [][clNext]_clVars
=============================================================================
