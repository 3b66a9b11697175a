--------------------------- MODULE ClashConnections ---------------------------
(***************************************************************************)
(* The websocket connector of core/clash/ws.rs: an actor that keeps one     *)
(* stream per kind, the tasks that forward the streams' messages into its   *)
(* mailbox, and the shared history the window reads.  A stream is its       *)
(* forwarding task; ccHandler is the JoinHandle the actor holds.  A message *)
(* is its kind; ccHist keeps only how many were recorded.  What a report is *)
(* turned into (NormalizeMemory) is checked over sample reports.     *)
(***************************************************************************)
EXTENDS Naturals, FiniteSets, Sequences

CONSTANTS CcKinds,        \* stream kinds, Connections among them
          CcConnections,
          CcStreams,      \* identities of forwarding tasks
          CcReports,      \* memory reports [inuse, oslimit] the core may send
          CcLimit,        \* MAX_*_HISTORY
          CcMaxReport,    \* MAX_REASONABLE_MEMORY_BYTES
          CcMaxBox,       \* bound: length of the mailbox
          CcMaxTimers     \* bound: delayed reconnects of one kind

ASSUME CcAssumption == /\ CcConnections \in CcKinds /\ "none" \notin CcKinds
                       /\ CcReports \subseteq [inuse : Nat, oslimit : Nat]
                       /\ CcLimit \in Nat /\ CcMaxReport \in Nat
                       /\ CcMaxBox \in Nat /\ CcMaxTimers \in Nat

VARIABLES ccState,    \* the connector's published state
          ccHandler,  \* the stream each kind's JoinHandle refers to
          ccLive,     \* the forwarding tasks that run, with their kind
          ccBox,      \* the actor's mailbox
          ccTimers,   \* kinds with a delayed Reconnect (spawned sleeps)
          ccRecord,   \* recording
          ccHist,     \* length of each kind's history
          ccUp,       \* the actor runs
          ccWanted,   \* history: the kind was opened and not stopped since
          ccStale     \* history: a StreamClosed took a newer stream's handle,
                      \* or a Reconnect of before a stop was handled after it

ccVars == <<ccState, ccHandler, ccLive, ccBox, ccTimers, ccRecord, ccHist,
            ccUp, ccWanted, ccStale>>
ccData == <<ccRecord, ccHist>>
ccLink == <<ccState, ccHandler, ccLive, ccTimers, ccWanted, ccStale>>

NoStream == [id |-> "none", kind |-> "none"]
CcMessages ==
  [msg : {"Start", "Stop", "Restart"}] \cup
  [msg : {"Reconnect", "StreamClosed", "Update"}, kind : CcKinds]

\* The unit mismatch the core may report is undone by dividing; a report that
\* stays implausible is clamped.  sat(2 * oslimit) does not overflow here.
Scale[n \in Nat, limit \in Nat] ==
  IF n > limit /\ n % 1024 = 0 THEN Scale[n \div 1024, limit] ELSE n

NoReport == [inuse |-> 0, oslimit |-> 0]

NormalizeMemory(r) ==
  LET limit == 2 * r.oslimit
      bits == IF r.inuse \div 8 <= limit THEN r.inuse \div 8 ELSE r.inuse
      scaled == Scale[bits, limit]
  IN  IF r.oslimit > 0 /\ r.inuse > limit
      THEN [r EXCEPT !.inuse = IF scaled <= limit THEN scaled ELSE r.oslimit]
      ELSE IF r.oslimit = 0 /\ r.inuse > CcMaxReport THEN NoReport
      ELSE r

CcTypeOK ==
  /\ ccState \in {"Disconnected", "Connecting", "Connected"}
  /\ ccLive \subseteq [id : CcStreams, kind : CcKinds]
  /\ ccHandler \in [CcKinds -> [id : CcStreams, kind : CcKinds] \cup {NoStream}]
  /\ \A i \in 1..Len(ccBox) : ccBox[i] \in CcMessages
  /\ ccTimers \in [CcKinds -> 0..CcMaxTimers]
  /\ ccRecord \in [CcKinds -> BOOLEAN]
  /\ ccHist \in [CcKinds -> Nat]
  /\ ccUp \in BOOLEAN
  /\ ccWanted \in [CcKinds -> BOOLEAN] /\ ccStale \in [CcKinds -> BOOLEAN]

CcInit ==
  /\ ccState = "Disconnected"
  /\ ccHandler = [k \in CcKinds |-> NoStream] /\ ccLive = {}
  /\ ccBox = <<>> /\ ccTimers = [k \in CcKinds |-> 0]
  /\ ccRecord = [k \in CcKinds |-> TRUE] /\ ccHist = [k \in CcKinds |-> 0]
  /\ ccUp = TRUE
  /\ ccWanted = [k \in CcKinds |-> FALSE] /\ ccStale = [k \in CcKinds |-> FALSE]
-------------------------------------------------------------------------------
(* Streams.  start_stream first stops the stream whose handle is held; then *)
(* it connects or fails.  Opened says which kinds connect.                  *)
HasRoom(kinds, live) == Cardinality(CcStreams) - Cardinality(live) >= Cardinality(kinds)

\* stop_stream for every kind of kinds: abort the task whose handle is held.
Stopped(kinds) == ccLive \ {ccHandler[k] : k \in kinds}

\* start_stream for kinds in turn, of which those in opened connect.
StartStreams(kinds, opened) ==
  LET live == Stopped(kinds)
      assign == CHOOSE f \in [opened -> CcStreams] :
                   /\ \A j, k \in opened : j # k => f[j] # f[k]
                   /\ \A k \in opened, l \in live : l.id # f[k]
  IN  /\ HasRoom(opened, live)
      /\ ccHandler' = [k \in CcKinds |->
                         IF k \in opened THEN [id |-> assign[k], kind |-> k]
                         ELSE IF k \in kinds THEN NoStream ELSE ccHandler[k]]
      /\ ccLive' = live \cup {[id |-> assign[k], kind |-> k] : k \in opened}
      /\ ccState' = IF CcConnections \notin kinds THEN ccState
                    ELSE IF CcConnections \in opened THEN "Connected" ELSE "Disconnected"

StopAll ==
  /\ ccLive' = Stopped(CcKinds)
  /\ ccHandler' = [k \in CcKinds |-> NoStream]
  /\ ccState' = "Disconnected"

\* start_all: every kind once; a kind that does not connect is not retried.
StartAll(opened) ==
  /\ StartStreams(CcKinds, opened)
  /\ ccWanted' = [k \in CcKinds |-> k \in opened]

Post(m) == Len(ccBox) < CcMaxBox /\ ccBox' = Append(ccBox, m)
Received(type) == ccUp /\ ccBox # <<>> /\ Head(ccBox).msg = type
-------------------------------------------------------------------------------
(* Callers.  setup calls start once, ten seconds after the app started; stop *)
(* and restart are public and have no caller yet.                            *)
CcCall(type) == ccUp /\ Post([msg |-> type]) /\ UNCHANGED <<ccLink, ccData, ccUp>>

SetRecording(k, on) ==
  /\ ccRecord[k] # on
  /\ ccRecord' = [ccRecord EXCEPT ![k] = on]
  /\ UNCHANGED <<ccLink, ccBox, ccHist, ccUp>>

ClearHistory(k) ==
  /\ ccHist' = [ccHist EXCEPT ![k] = 0]
  /\ UNCHANGED <<ccLink, ccBox, ccRecord, ccUp>>

\* The forwarding task passes a message on, or sees the end of the stream.
CcForward(s) ==
  /\ ccUp /\ s \in ccLive
  /\ Post([msg |-> "Update", kind |-> s.kind])
  /\ UNCHANGED <<ccLink, ccData, ccUp>>

CcStreamEnds(s) ==
  /\ s \in ccLive /\ ccLive' = ccLive \ {s}
  /\ IF ccUp THEN Post([msg |-> "StreamClosed", kind |-> s.kind]) ELSE UNCHANGED ccBox
  /\ UNCHANGED <<ccState, ccHandler, ccTimers, ccWanted, ccStale, ccData, ccUp>>
-------------------------------------------------------------------------------
(* The actor's messages, in order. *)
CcStart ==
  /\ Received("Start") /\ ccBox' = Tail(ccBox)
  /\ \E opened \in SUBSET CcKinds : StartAll(opened)
  /\ UNCHANGED <<ccTimers, ccStale, ccData, ccUp>>

Pending(k) ==
  ccTimers[k] > 0 \/ \E i \in 2..Len(ccBox) : ccBox[i] = [msg |-> "Reconnect", kind |-> k]

CcStop ==
  /\ Received("Stop") /\ ccBox' = Tail(ccBox)
  /\ StopAll
  /\ ccWanted' = [k \in CcKinds |-> FALSE]
  /\ ccStale' = [k \in CcKinds |-> ccStale[k] \/ Pending(k)]
  /\ UNCHANGED <<ccTimers, ccData, ccUp>>

\* Restart is stop_all and start_all.
CcRestart ==
  /\ Received("Restart") /\ ccBox' = Tail(ccBox)
  /\ \E opened \in SUBSET CcKinds : StartAll(opened)
  /\ UNCHANGED <<ccTimers, ccStale, ccData, ccUp>>

\* StreamClosed drops the handle without looking at whose it is.
CcStreamClosed ==
  /\ Received("StreamClosed")
  /\ LET k == Head(ccBox).kind
     IN  /\ ccHandler' = [ccHandler EXCEPT ![k] = NoStream]
         /\ ccStale' = [ccStale EXCEPT ![k] = @ \/ ccHandler[k] \in ccLive]
         /\ ccState' = IF k = CcConnections THEN "Disconnected" ELSE ccState
         /\ ccBox' = Append(Tail(ccBox), [msg |-> "Reconnect", kind |-> k])
  /\ UNCHANGED <<ccLive, ccTimers, ccWanted, ccData, ccUp>>

\* Mutant: a failed reconnect is not tried again.
MutRetryLater(k) == UNCHANGED ccTimers

\* A spawned task sleeps for a second and casts Reconnect.
RetryLater(k) ==
  /\ ccTimers[k] < CcMaxTimers
  /\ ccTimers' = [ccTimers EXCEPT ![k] = @ + 1]

CcReconnect ==
  /\ Received("Reconnect") /\ ccBox' = Tail(ccBox)
  /\ LET k == Head(ccBox).kind
     IN  \/ /\ StartStreams({k}, {k})
            /\ ccWanted' = [ccWanted EXCEPT ![k] = TRUE]
            /\ UNCHANGED ccTimers
         \/ /\ StartStreams({k}, {})
            /\ RetryLater(k)
            /\ UNCHANGED ccWanted
  /\ UNCHANGED <<ccStale, ccData, ccUp>>

CcRetry(k) ==
  /\ ccTimers[k] > 0 /\ ccTimers' = [ccTimers EXCEPT ![k] = @ - 1]
  /\ IF ccUp THEN Post([msg |-> "Reconnect", kind |-> k]) ELSE UNCHANGED ccBox
  /\ UNCHANGED <<ccState, ccHandler, ccLive, ccWanted, ccStale, ccData, ccUp>>

\* push_limited: append, then drop from the front down to the limit.
PushLimited(n) == IF n + 1 > CcLimit THEN CcLimit ELSE n + 1

\* Update: a message that does not parse is dropped; the history grows only
\* while recording.
CcUpdate ==
  /\ Received("Update") /\ ccBox' = Tail(ccBox)
  /\ LET k == Head(ccBox).kind
     IN  ccHist' \in {ccHist, IF ccRecord[k] THEN [ccHist EXCEPT ![k] = PushLimited(@)]
                                             ELSE ccHist}
  /\ UNCHANGED <<ccLink, ccRecord, ccUp>>

\* The connector is dropped: the actor stops after its message, post_stop.
CcPostStop ==
  /\ ccUp /\ ccUp' = FALSE
  /\ StopAll /\ ccBox' = <<>>
  /\ ccWanted' = [k \in CcKinds |-> FALSE]
  /\ UNCHANGED <<ccTimers, ccStale, ccData>>

CcNext ==
  \/ \E type \in {"Start", "Stop", "Restart"} : CcCall(type)
  \/ \E k \in CcKinds : ClearHistory(k) \/ CcRetry(k) \/ \E on \in BOOLEAN : SetRecording(k, on)
  \/ \E s \in ccLive : CcStreamEnds(s) \/ CcForward(s)
  \/ CcStart \/ CcStop \/ CcRestart \/ CcStreamClosed \/ CcReconnect \/ CcUpdate
  \/ CcPostStop

CcSpec == CcInit /\ [][CcNext]_ccVars
-------------------------------------------------------------------------------
(* Per kind the actor holds the handle of the only running stream, and a      *)
(* stream that was opened is never forgotten: it runs, or its end, a          *)
(* Reconnect or a delayed Reconnect is on the way.  Both may fail only after   *)
(* a StreamClosed or a Reconnect of an earlier stream came behind a Stop,      *)
(* Start or Restart.  No history grows past its limit, and no report shows more  *)
(* memory than twice what the system has.                                      *)
CcStreamKept ==
  /\ \A k \in CcKinds : ccUp /\ ~ccStale[k] =>
     LET live == {s \in ccLive : s.kind = k}
     IN  /\ live \subseteq {ccHandler[k]}
         /\ ccWanted[k] => \/ live # {} \/ ccTimers[k] > 0
                           \/ \E i \in 1..Len(ccBox) :
                                 /\ ccBox[i].msg \in {"StreamClosed", "Reconnect"}
                                 /\ ccBox[i].kind = k
  /\ \A k \in CcKinds : ccHist[k] <= CcLimit
  /\ \A r \in CcReports : LET m == NormalizeMemory(r)
                          IN  m.inuse <= IF m.oslimit > 0 THEN 2 * m.oslimit ELSE CcMaxReport
================================================================================
