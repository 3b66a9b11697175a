------------------------------ MODULE LogIndexer ------------------------------
(***************************************************************************)
(* The index of a log file: LogIndex and Indexer (logging/indexer.rs), kept  *)
(* up to date by IndexerManagerRunner (logging/manager.rs) while the file is *)
(* written, line by line and sometimes in parts, and rotated away.  Line     *)
(* numbers count from 0.  (setup.rs:64 has the manager's setup commented     *)
(* out: only tests run this code.)                                           *)
(***************************************************************************)
EXTENDS Naturals, Sequences, FiniteSets

CONSTANTS LiLevels, LiTargets, \* levels and targets of log lines
          LiStamps,            \* timestamps, in milliseconds
          LiQueries,           \* queries: each filter a set, or {} for none; offset, limit
          LiMaxLines           \* bound: lines of the file

\* A query asks for levels and targets there are, and for a range of timestamps.
ASSUME LiAssumption ==
  /\ LiStamps \subseteq Nat
  /\ \A q \in LiQueries :
       /\ q.levels \subseteq LiLevels /\ q.targets \subseteq LiTargets
       /\ \A s, u \in q.stamps, t \in LiStamps : s <= t /\ t <= u => t \in q.stamps

VARIABLES liFile,   \* the file: whether it exists, its lines, how much of the last is written
          liRunner, \* the runner: scanning, about to watch, watching, or dead of a panic
          liIndex,  \* the indexer of the file, if the map has one
          liEvents, \* events of the watcher
          liCmd,    \* the command the watcher waits for
          liMissed  \* history: the file changed between scan and watch, and not since

liVars == <<liFile, liRunner, liIndex, liEvents, liCmd, liMissed>>

Line == [level : LiLevels, target : LiTargets, stamp : LiStamps]
LogIndexNew ==
  [lines |-> <<>>, stamps |-> <<>>, levels |-> [l \in LiLevels |-> {}], targets |-> [t \in LiTargets |-> {}], last |-> 0]
\* CurrentPos: the next line, and whether its predecessor's newline is still to come.
StartPos == [line |-> 0, mid |-> FALSE]
NoIndexer == [on |-> FALSE, index |-> LogIndexNew, current |-> StartPos, ok |-> TRUE]

LiInit ==
  /\ liFile \in {[on |-> on, lines |-> <<>>, tail |-> "none"] : on \in BOOLEAN}
  /\ liRunner = "scan" /\ liIndex = NoIndexer /\ liEvents = <<>> /\ liCmd = "none" /\ liMissed = FALSE
-------------------------------------------------------------------------------
(* The index.                                                                  *)

\* A map with a key set, or set anew.
Inserted(map, key, value) == [k \in DOMAIN map \cup {key} |-> IF k = key THEN value ELSE map[k]]

\* Mutant: of lines with one timestamp the first is kept.
AddEntryFirst(index, n, line) ==
  [lines |-> Inserted(index.lines, n, line),
   stamps |-> IF line.stamp \in DOMAIN index.stamps THEN index.stamps ELSE Inserted(index.stamps, line.stamp, n),
   levels |-> [index.levels EXCEPT ![line.level] = @ \cup {n}],
   targets |-> [index.targets EXCEPT ![line.target] = @ \cup {n}], last |-> n]

\* add_entry: of lines with one timestamp the last is kept.
AddEntry(index, n, line) ==
  [lines |-> Inserted(index.lines, n, line), stamps |-> Inserted(index.stamps, line.stamp, n),
   levels |-> [index.levels EXCEPT ![line.level] = @ \cup {n}],
   targets |-> [index.targets EXCEPT ![line.target] = @ \cup {n}], last |-> n]

\* The lines a query's filters match; a range of timestamps is one of lines.
ByStamp(index, range) ==
  LET hits == DOMAIN index.stamps \cap range
      first == CHOOSE t \in hits : \A u \in hits : t <= u
      last == CHOOSE t \in hits : \A u \in hits : u <= t
  IN  IF hits = {} THEN {} ELSE index.stamps[first]..index.stamps[last]
Matching(index, q) ==
  {n \in IF q.stamps # {} THEN ByStamp(index, q.stamps) ELSE IF index.lines = <<>> THEN {} ELSE 0..index.last :
     /\ q.levels = {} \/ \E l \in q.levels : n \in index.levels[l]
     /\ q.targets = {} \/ \E t \in q.targets : n \in index.targets[t]}

\* Results come in the order of their lines: offset are skipped, limit are taken.
Page(lines, q) ==
  {n \in lines : LET before == Cardinality({m \in lines : m < n}) IN q.offset <= before /\ before < q.offset + q.limit}
Query(index, q) == Page(Matching(index, q), q)

\* handle_line, for every line from current on.
HandleLines(index, lines, current) ==
  LET added[n \in current..Len(lines)] == IF n = current THEN index ELSE AddEntry(added[n - 1], n - 1, lines[n])
  IN  added[Len(lines)]

\* The read loop: a line written in part does not parse, nor does a newline that was missing.
Read(r) ==
  IF r.current.mid
  THEN IF liFile.tail = "whole" /\ r.current.line = Len(liFile.lines) THEN [r EXCEPT !.ok = TRUE]
       ELSE [r EXCEPT !.current = StartPos, !.ok = FALSE]
  ELSE [r EXCEPT !.index = HandleLines(@, liFile.lines, r.current.line),
                 !.current = IF liFile.tail = "part" THEN StartPos
                             ELSE [line |-> Len(liFile.lines), mid |-> liFile.tail = "whole"],
                 !.ok = liFile.tail # "part"]
BuildIndex == Read([NoIndexer EXCEPT !.on = TRUE])
-------------------------------------------------------------------------------
(* The runner and its watcher.                                                 *)

\* scan: a file that cannot be indexed fails the set-up, which panics.
Scan ==
  /\ liRunner = "scan"
  /\ IF ~liFile.on THEN liRunner' = "watch" /\ UNCHANGED liIndex
     ELSE IF BuildIndex.ok THEN liRunner' = "watch" /\ liIndex' = BuildIndex
     ELSE liRunner' = "dead" /\ UNCHANGED liIndex
  /\ UNCHANGED <<liFile, liEvents, liCmd, liMissed>>

RecommendedWatcher ==
  /\ liRunner = "watch" /\ liRunner' = "on"
  /\ UNCHANGED <<liFile, liIndex, liEvents, liCmd, liMissed>>

\* Create and Modify count for a log file that is there.
SpawnWatcher ==
  /\ liRunner = "on" /\ liCmd = "none" /\ liEvents # <<>> /\ liEvents' = Tail(liEvents)
  /\ liCmd' = IF Head(liEvents) = "Remove" THEN "RemoveLogFile"
              ELSE IF ~liFile.on THEN "none"
              ELSE IF Head(liEvents) = "Create" THEN "AddLogFile" ELSE "LogFileChanged"
  /\ UNCHANGED <<liFile, liRunner, liIndex, liMissed>>

\* A change of a file that has no indexer panics, and the runner is gone.
RunCmd ==
  /\ liRunner = "on" /\ liCmd' = "none"
  /\ \/ /\ liCmd = "AddLogFile" /\ UNCHANGED liRunner
        /\ liIndex' = IF liFile.on /\ BuildIndex.ok THEN BuildIndex ELSE liIndex
     \/ /\ liCmd = "RemoveLogFile" /\ liIndex' = NoIndexer /\ UNCHANGED liRunner
     \/ /\ liCmd = "LogFileChanged"
        /\ liIndex' = IF liIndex.on /\ liFile.on THEN Read(liIndex) ELSE liIndex
        /\ liRunner' = IF liIndex.on THEN "on" ELSE "dead"
  /\ UNCHANGED <<liFile, liEvents, liMissed>>
-------------------------------------------------------------------------------
(* The file.                                                                   *)

\* The watcher tells what happens once it watches, the debouncer merges what follows closely.
Told(kind) ==
  /\ liEvents' = IF liRunner # "on" \/ (kind = "Modify" /\ liEvents # <<>> /\ liEvents[Len(liEvents)] # "Remove")
                 THEN liEvents ELSE Append(liEvents, kind)
  /\ liMissed' = (liRunner = "watch")

FileCreated ==
  /\ ~liFile.on /\ liFile.lines = <<>> /\ liFile' = [liFile EXCEPT !.on = TRUE] /\ Told("Create")
  /\ UNCHANGED <<liRunner, liIndex, liCmd>>

\* A line is written at once, or first a part of it, or all but its newline.
LineWritten ==
  /\ liFile.on /\ Told("Modify")
  /\ \/ /\ liFile.tail = "none" /\ Len(liFile.lines) < LiMaxLines /\ liFile' = [liFile EXCEPT !.tail = "part"]
     \/ /\ liFile.tail \in {"none", "part"} /\ Len(liFile.lines) < LiMaxLines
        /\ \E line \in Line, tail \in {"none", "whole"} :
             liFile' = [liFile EXCEPT !.lines = Append(@, line), !.tail = tail]
     \/ /\ liFile.tail = "whole" /\ liFile' = [liFile EXCEPT !.tail = "none"]
  /\ UNCHANGED <<liRunner, liIndex, liCmd>>

FileRotated ==
  /\ liFile.on /\ liFile.lines # <<>> /\ liFile' = [liFile EXCEPT !.on = FALSE] /\ Told("Remove")
  /\ UNCHANGED <<liRunner, liIndex, liCmd>>

LiNext == \/ Scan \/ RecommendedWatcher \/ SpawnWatcher \/ RunCmd
          \/ FileCreated \/ LineWritten \/ FileRotated

LiTypeOK ==
  /\ liRunner \in {"scan", "watch", "on", "dead"} /\ liFile.tail \in {"none", "part", "whole"}
  /\ liCmd \in {"none", "AddLogFile", "RemoveLogFile", "LogFileChanged"}
-------------------------------------------------------------------------------
\* The timestamps of the first n lines never go back.
Ordered(n) == \A i, j \in 1..n : i < j => liFile.lines[i].stamp <= liFile.lines[j].stamp

\* What reading the first n lines one by one finds: all that match, but for lines in the
\* first millisecond of a range other than the last of them.
Scanned(n, q) ==
  LET at(k) == liFile.lines[k + 1]
      match == {k \in 0..(n - 1) : /\ q.stamps = {} \/ at(k).stamp \in q.stamps
                                   /\ q.levels = {} \/ at(k).level \in q.levels
                                   /\ q.targets = {} \/ at(k).target \in q.targets}
      within == {k \in 0..(n - 1) : at(k).stamp \in q.stamps}
      lost == {k \in within : /\ \A m \in within : at(k).stamp <= at(m).stamp
                              /\ \E m \in within : m > k /\ at(m).stamp = at(k).stamp}
  IN  Page(match \ lost, q)

\* The index is that of a prefix of the file, however often it was read again from the
\* start after a line that did not parse: its lines are the file's, queries by level,
\* target and, while the clock does not go back, by time answer what that prefix holds.
\* When all events are handled and the last read succeeded, the prefix is every line
\* written, unless the last change came between scan and watch.
LiQueryFaithful ==
  LET n == Cardinality(DOMAIN liIndex.index.lines)
  IN  liIndex.on =>
        /\ n <= Len(liFile.lines)
        /\ \A k \in 0..(n - 1) : liIndex.index.lines[k] = liFile.lines[k + 1]
        /\ \A q \in LiQueries : q.stamps = {} \/ Ordered(n) => Query(liIndex.index, q) = Scanned(n, q)
        /\ liFile.on /\ liRunner = "on" /\ liEvents = <<>> /\ liCmd = "none" /\ liIndex.ok /\ ~liMissed =>
             n = Len(liFile.lines)
===============================================================================
