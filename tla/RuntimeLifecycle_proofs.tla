---------------------- MODULE RuntimeLifecycle_proofs ----------------------
(***************************************************************************)
(* Proofs about RuntimeLifecycle for every number of callers and cores and *)
(* all bounds.  The argument follows the two locks: an operation that has  *)
(* the rebuild gate is the only one that writes the product, the snapshots *)
(* or the core, and what it has done so far can be read off its program    *)
(* counter.                                                                *)
(***************************************************************************)
EXTENDS RuntimeLifecycle, TLAPS

Others(p) == \A q \in Procs \ {p} : proc'[q] = proc[q]

\* p has gone to step x and kept the rest of its state.
Moved(p, x) ==
    /\ Others(p)
    /\ proc' \in [Procs -> Local]
    /\ proc'[p].pc = x
    /\ proc'[p].op = proc[p].op /\ proc'[p].stage = proc[p].stage
    /\ proc'[p].want = proc[p].want /\ proc'[p].snap = proc[p].snap
    /\ proc'[p].saved = proc[p].saved

\* p's operation is over.
Rested(p) ==
    /\ Others(p)
    /\ proc' \in [Procs -> Local]
    /\ proc'[p] = Resting

\* The fields of a process.
LEMMA LocalFields ==
    ASSUME NEW L \in Local
    PROVE  /\ L.op \in AllOps \cup {"none", "regenerate", "existing", "default", "start"}
           /\ L.pc \in Steps /\ L.stage \in {"forward", "rollback", "restored"}
           /\ L.want \in Cores \cup (0 .. MaxMode)
           /\ L.snap \in Snap \cup {NoSnap}
           /\ L.saved \in Saved
BY DEF Local

\* The fields of what an operation saved for its compensation.
LEMMA SavedFields ==
    ASSUME NEW x \in Saved
    PROVE  /\ x.product \in Cfg \cup {NoCfg}
           /\ x.promoted \in Snap \cup {NoSnap} /\ x.applied \in Snap \cup {NoSnap}
BY DEF Saved

\* An operation that saved nothing is typed.
LEMMA NothingSaved == NoSaved \in Saved
BY DEF Saved, NoSaved

\* The local state of an operation at rest is typed.
LEMMA RestingIsLocal ==
    /\ Resting \in Local
    /\ Resting.pc = "idle" /\ Resting.op = "none" /\ Resting.stage = "forward"
    /\ Resting.snap = NoSnap /\ Resting.saved = NoSaved
<1>1. 0 \in 0 .. MaxMode
    BY BoundsAssumption
<1> QED
    BY <1>1, NothingSaved DEF Local, Resting, Steps

\* The fields of a snapshot.
LEMMA SnapFields == \A s \in Snap : s.cfg \in Cfg /\ s.rev \in Nat \ {0} /\ s # NoSnap
BY DEF Snap, NoSnap

\* No configuration has the name of the missing one.
LEMMA NoCfgIsNoCfg == NoCfg \notin Cfg
BY CoresAssumption DEF NoCfg, Cfg

\* A function changed at one point.
LEMMA Updates ==
    ASSUME proc \in [Procs -> Local], NEW p \in Procs, NEW L \in Local,
           proc' = [proc EXCEPT ![p] = L]
    PROVE  proc' \in [Procs -> Local] /\ proc'[p] = L /\ Others(p)
BY DEF Others

\* An operation moves to another step.
LEMMA Goes ==
    ASSUME TypeOK, NEW p \in Procs, NEW x \in Steps, Goto(p, x)
    PROVE  Moved(p, x)
<1> DEFINE L == [proc[p] EXCEPT !.pc = x]
<1>1. proc \in [Procs -> Local] /\ proc[p] \in Local
    BY DEF TypeOK
<1>2. /\ L \in Local /\ L.pc = x
      /\ L.op = proc[p].op /\ L.stage = proc[p].stage /\ L.want = proc[p].want
      /\ L.snap = proc[p].snap /\ L.saved = proc[p].saved
    BY <1>1 DEF Local
<1>3. proc' = [proc EXCEPT ![p] = L]
    BY DEF Goto
<1> HIDE DEF L
<1> QED
    BY <1>1, <1>2, <1>3, Updates DEF Moved

\* An operation comes to rest.
LEMMA Rests ==
    ASSUME TypeOK, NEW p \in Procs, proc' = [proc EXCEPT ![p] = Resting]
    PROVE  Rested(p)
BY Updates, RestingIsLocal DEF Rested, TypeOK

\* p has captured the rollback material and gone to step x.
LEMMA Captures ==
    ASSUME TypeOK, NEW p \in Procs, NEW x \in Steps,
           proc' = [proc EXCEPT ![p] = [@ EXCEPT !.pc = x, !.saved = Captured]]
    PROVE  /\ proc' \in [Procs -> Local] /\ Others(p) /\ proc'[p].pc = x
           /\ proc'[p].op = proc[p].op /\ proc'[p].stage = proc[p].stage
           /\ proc'[p].want = proc[p].want /\ proc'[p].snap = proc[p].snap
           /\ proc'[p].saved = Captured
<1> DEFINE L == [proc[p] EXCEPT !.pc = x, !.saved = Captured]
<1>1. Captured \in Saved
    BY DEF Captured, Saved, TypeOK
<1>2. proc[p] \in Local
    BY DEF TypeOK
<1>3. /\ L \in Local /\ L.pc = x
      /\ L.op = proc[p].op /\ L.stage = proc[p].stage /\ L.want = proc[p].want
      /\ L.snap = proc[p].snap /\ L.saved = Captured
    BY <1>1, <1>2 DEF Local
<1> HIDE DEF L
<1>4. proc' \in [Procs -> Local] /\ proc'[p] = L /\ Others(p)
    BY <1>3, Updates DEF TypeOK, L
<1> QED
    BY <1>3, <1>4

\* p has taken the snapshot s and gone to step x.
LEMMA Takes ==
    ASSUME TypeOK, NEW p \in Procs, NEW x \in Steps, NEW s \in Snap,
           proc' = [proc EXCEPT ![p] = [@ EXCEPT !.pc = x, !.snap = s]]
    PROVE  /\ proc' \in [Procs -> Local] /\ Others(p) /\ proc'[p].pc = x
           /\ proc'[p].op = proc[p].op /\ proc'[p].stage = proc[p].stage
           /\ proc'[p].want = proc[p].want /\ proc'[p].snap = s
           /\ proc'[p].saved = proc[p].saved
<1> DEFINE L == [proc[p] EXCEPT !.pc = x, !.snap = s]
<1>1. proc[p] \in Local
    BY DEF TypeOK
<1>2. /\ L \in Local /\ L.pc = x
      /\ L.op = proc[p].op /\ L.stage = proc[p].stage /\ L.want = proc[p].want
      /\ L.snap = s /\ L.saved = proc[p].saved
    BY <1>1 DEF Local
<1> HIDE DEF L
<1>3. proc' \in [Procs -> Local] /\ proc'[p] = L /\ Others(p)
    BY <1>2, Updates DEF TypeOK, L
<1> QED
    BY <1>2, <1>3

\* The product has been restored: the old promoted snapshot comes back.
LEMMA Restores ==
    ASSUME TypeOK, NEW p \in Procs, RestorePromoted(p)
    PROVE  /\ proc' \in [Procs -> Local] /\ Others(p) /\ proc'[p].pc = "restart"
           /\ proc'[p].op = proc[p].op /\ proc'[p].stage = "restored"
           /\ proc'[p].want = proc[p].want /\ proc'[p].snap = proc[p].saved.promoted
           /\ proc'[p].saved = proc[p].saved
           /\ promoted' = proc[p].saved.promoted /\ promoted' \in Snap \cup {NoSnap}
<1> DEFINE old == proc[p].saved.promoted
           L == [proc[p] EXCEPT !.stage = "restored", !.pc = "restart", !.snap = old]
<1>1. proc[p] \in Local
    BY DEF TypeOK
<1>2. old \in Snap \cup {NoSnap}
    BY <1>1, LocalFields, SavedFields
<1>3. /\ L \in Local /\ L.pc = "restart" /\ L.stage = "restored"
      /\ L.op = proc[p].op /\ L.want = proc[p].want
      /\ L.snap = old /\ L.saved = proc[p].saved
    BY <1>1, <1>2 DEF Local, Steps
<1>4. proc' = [proc EXCEPT ![p] = L] /\ promoted' = old
    BY DEF RestorePromoted
<1> HIDE DEF L
<1>5. proc' \in [Procs -> Local] /\ proc'[p] = L /\ Others(p)
    BY <1>3, <1>4, Updates DEF TypeOK
<1> QED
    BY <1>2, <1>3, <1>4, <1>5

\* p has begun the operation o.
Begun(p, o, w) ==
    /\ Others(p)
    /\ proc' \in [Procs -> Local]
    /\ proc'[p].pc = "gate" /\ proc'[p].op = o /\ proc'[p].want = w
    /\ proc'[p].stage = "forward" /\ proc'[p].saved = NoSaved

\* A call begins its operation.
LEMMA Begins ==
    ASSUME TypeOK, NEW p \in Procs, NEW w \in Cores \cup (0 .. MaxMode),
           NEW o \in AllOps \cup {"regenerate", "existing", "default", "start"},
           Start(p, o, w)
    PROVE  Begun(p, o, w)
<1> DEFINE L == [Resting EXCEPT !.op = o, !.pc = "gate", !.want = w]
<1>1. /\ L \in Local /\ L.pc = "gate" /\ L.op = o /\ L.want = w
      /\ L.stage = "forward" /\ L.saved = NoSaved
    BY NothingSaved DEF Local, Resting, Steps
<1>2. proc' = [proc EXCEPT ![p] = L]
    BY DEF Start
<1> HIDE DEF L
<1> QED
    BY <1>1, <1>2, Updates DEF Begun, TypeOK

-----------------------------------------------------------------------------
(* The locks, and what the program counter says.                           *)

InLease == {"promote", "publish", "apply", "restart", "restore", "unpublish",
            "compensate"}

Leased(p) ==
    \/ proc[p].pc \in InLease
    \/ At(p, "read") /\ proc[p].op \notin Fallbacks
    \/ At(p, "applied") /\ proc[p].op # "patch"

Gated(p) == proc[p].pc \in InLease \cup {"lease", "read", "applied"}

\* The rebuild gate and the lifecycle lease are held exactly by the operations
\* whose guards are alive.
Locked == \A p \in Procs : (gate = p <=> Gated(p)) /\ (lease = p <=> Leased(p))

\* What the operation and the place in it say about the rest of the process.
Shaped(L) ==
    /\ L.op = "change_core" => L.want \in Cores
    /\ L.op = "patch" => L.want \in 0 .. MaxMode
    /\ L.op = "start" => L.pc \in {"gate", "lease", "restart", "applied"}
    /\ L.stage # "forward" => L.op = "change_core"
    /\ L.stage = "restored" =>
           L.pc \in {"restart", "applied"} /\ L.snap = L.saved.promoted
    /\ L.pc = "compensate" => L.op = "patch"
    /\ L.pc \in {"restore", "unpublish", "reseed", "commit"} => L.op = "change_core"
    /\ L.pc \in {"promote", "publish", "apply", "applied"} => L.snap \in Snap
    /\ L.pc = "restart" /\ L.stage # "restored" => L.snap \in Snap
    /\ L.pc = "lease" /\ L.op \in Fallbacks => L.snap \in Snap
    /\ L.op = "patch" /\ L.pc \notin {"gate", "lease"} => L.saved.applied \in Snap

Ordered == \A p \in Procs : Shaped(proc[p])

\* The product an operation is about to publish or apply is the one it wrote.
Written ==
    \A p \in Procs : proc[p].pc \in {"publish", "apply"} => product = proc[p].snap.cfg

\* A running core was given some configuration.
Configured == core.up => core.cfg \in Cfg

Control == TypeOK /\ Locked /\ Ordered /\ Written /\ Configured

\* The control invariant holds at the start.
LEMMA ControlInit == Init => Control
<1> SUFFICES ASSUME Init PROVE Control
    OBVIOUS
<1> USE BoundsAssumption, CoresAssumption DEF Init
<1>1. \A p \in Procs : proc[p] = Resting
    OBVIOUS
<1>2. typed \in Cfg /\ legacy \in Legacy
    BY DEF Cfg, Legacy
<1>3. product \in Cfg \cup {NoCfg}
    BY <1>2
<1>4. core \in Core
    BY DEF Core
<1>5. TypeOK
    <2>1. /\ proc \in [Procs -> Local]
          /\ legacy \in Legacy /\ latest \in Legacy
          /\ promoted \in Snap \cup {NoSnap} /\ applied \in Snap \cup {NoSnap}
        BY <1>2, RestingIsLocal
    <2>2. /\ rev \in Nat
          /\ ops \in 0 .. MaxOps /\ failures \in 0 .. MaxFailures
          /\ crashes \in 0 .. MaxCrashes /\ outside \in 0 .. MaxOutside
        OBVIOUS
    <2>3. /\ doubt \in BOOLEAN /\ recovering \in BOOLEAN
          /\ dirty \in BOOLEAN /\ owed \in BOOLEAN /\ active \in BOOLEAN
          /\ gate \in Procs \cup {Free} /\ lease \in Procs \cup {Free}
          /\ boot \in {"regen", "fallback", "start", "done"}
          /\ worker \in {"recv", "coalesce", "drain", "rebuild", "stopped"}
          /\ stopping \in {"no", "signalled", "done"}
        OBVIOUS
    <2> QED
        BY <1>2, <1>3, <1>4, <2>1, <2>2, <2>3 DEF TypeOK
<1>6. Locked
    BY <1>1, RestingIsLocal, FreeAssumption
    DEF Locked, Gated, Leased, At, InLease
<1>7. Shaped(Resting)
    BY RestingIsLocal DEF Shaped
<1>8. Ordered
    BY <1>1, <1>7 DEF Ordered
<1>9. Written
    BY <1>1, RestingIsLocal DEF Written
<1>10. Configured
    BY DEF Configured
<1> QED
    BY <1>5, <1>6, <1>8, <1>9, <1>10 DEF Control

\* A step of p that takes and releases p's own locks.
LEMMA LocksKept ==
    ASSUME Locked, NEW p \in Procs, Others(p),
           Gated(p)' => gate' = p /\ gate \in {p, Free},
           ~ Gated(p)' => gate' = IF gate = p THEN Free ELSE gate,
           Leased(p)' => lease' = p /\ lease \in {p, Free},
           ~ Leased(p)' => lease' = IF lease = p THEN Free ELSE lease
    PROVE  Locked'
<1> SUFFICES ASSUME NEW q \in Procs
             PROVE  /\ gate' = q <=> Gated(q)'
                    /\ lease' = q <=> Leased(q)'
    BY DEF Locked
<1>1. q # p => (Gated(q)' <=> Gated(q)) /\ (Leased(q)' <=> Leased(q))
    BY DEF Others, Gated, Leased, At
<1> QED
    BY <1>1, FreeAssumption DEF Locked

\* A step of one operation keeps the shape of the others.
LEMMA ShapeKept ==
    ASSUME Ordered, NEW p \in Procs, Others(p), Shaped(proc'[p])
    PROVE  Ordered'
BY DEF Ordered, Others

\* The product changes only under the lease, so that nobody else relies on it.
LEMMA WrittenKept ==
    ASSUME Locked, Written, NEW p \in Procs, Others(p),
           product' = product \/ lease = p,
           proc'[p].pc \in {"publish", "apply"} => product' = proc'[p].snap.cfg
    PROVE  Written'
<1> SUFFICES ASSUME NEW q \in Procs, proc'[q].pc \in {"publish", "apply"}
             PROVE  product' = proc'[q].snap.cfg
    BY DEF Written
<1>1. q # p => lease = q /\ proc'[q] = proc[q]
    BY DEF Locked, Leased, InLease, Others
<1> QED
    BY <1>1 DEF Written

\* Whoever is before, in or after the lease had the lock it must have.
LEMMA GateOf == ASSUME Locked, NEW p \in Procs
                PROVE  /\ Gated(p) => gate = p
                       /\ ~ Gated(p) => gate # p
                       /\ Leased(p) => lease = p
                       /\ ~ Leased(p) => lease # p
BY DEF Locked

\* An operation takes the gate.
LEMMA ControlAcquireGate ==
    ASSUME Control, NEW p \in Procs, AcquireGate(p) PROVE Control'
<1> USE DEF Control, desiredVars, runtimeVars, coreVars, lockVars, workerVars, boundVars
<1>1. Moved(p, AfterGate(p)) /\ AfterGate(p) \in {"read", "lease"}
    BY Goes DEF AcquireGate, AfterGate, Steps
<1>2. TypeOK'
    BY <1>1 DEF AcquireGate, TypeOK, Moved
<1>3. Locked'
    BY <1>1, LocksKept DEF AcquireGate, AfterGate, Moved, Locked, Gated, Leased, At, InLease
<1>4. Ordered'
    BY <1>1, ShapeKept DEF AcquireGate, AfterGate, Fallbacks, Moved, Ordered, Shaped, At
<1>5. Written'
    BY <1>1, WrittenKept DEF AcquireGate, Moved
<1> QED
    BY <1>2, <1>3, <1>4, <1>5 DEF AcquireGate, Configured

\* The lease is taken together with the rollback material.
LEMMA Leases ==
    ASSUME TypeOK, NEW p \in Procs, AcquireLease(p)
    PROVE  /\ proc' \in [Procs -> Local] /\ Others(p)
           /\ proc'[p].pc = IF proc[p].op \in Fallbacks THEN "promote" ELSE "read"
           /\ proc'[p].op = proc[p].op /\ proc'[p].stage = proc[p].stage
           /\ proc'[p].want = proc[p].want /\ proc'[p].snap = proc[p].snap
           /\ proc'[p].saved = Captured
<1> DEFINE x == IF proc[p].op \in Fallbacks THEN "promote" ELSE "read"
<1>1. x \in Steps
    BY DEF Steps
<1>2. proc' = [proc EXCEPT ![p] = [@ EXCEPT !.pc = x, !.saved = Captured]]
    BY DEF AcquireLease
<1>3. /\ proc' \in [Procs -> Local] /\ Others(p) /\ proc'[p].pc = x
      /\ proc'[p].op = proc[p].op /\ proc'[p].stage = proc[p].stage
      /\ proc'[p].want = proc[p].want /\ proc'[p].snap = proc[p].snap
      /\ proc'[p].saved = Captured
    <2> HIDE DEF x
    <2> QED
        BY <1>1, <1>2, Captures
<1> QED
    BY <1>3

\* An operation takes the lease.
LEMMA ControlAcquireLease ==
    ASSUME Control, NEW p \in Procs, AcquireLease(p) PROVE Control'
<1> USE DEF Control, desiredVars, runtimeVars, coreVars, lockVars, workerVars, boundVars
<1>1. proc[p].op \notin {"patch", "start"}
    BY DEF AcquireLease
<1>2. /\ proc' \in [Procs -> Local] /\ Others(p)
      /\ proc'[p].pc = IF proc[p].op \in Fallbacks THEN "promote" ELSE "read"
      /\ proc'[p].op = proc[p].op /\ proc'[p].stage = proc[p].stage
      /\ proc'[p].want = proc[p].want /\ proc'[p].snap = proc[p].snap
    BY Leases
<1>3. latest' \in Legacy
    BY DEF AcquireLease, Legacy, TypeOK, Ordered, Shaped
<1>4. TypeOK'
    BY <1>2, <1>3 DEF AcquireLease, TypeOK
<1>5. Locked'
    BY <1>1, <1>2, LocksKept DEF AcquireLease, Locked, Gated, Leased, At, InLease
<1>6. Ordered'
    <2>1. Ordered /\ Shaped(proc[p]) /\ proc[p].pc = "lease"
        BY DEF Ordered, AcquireLease, At
    <2>2. proc'[p].pc = "promote" => proc'[p].snap \in Snap
        BY <1>2, <2>1 DEF Shaped
    <2>3. Shaped(proc'[p])
        <3> HIDE DEF Control
        <3> QED
            BY <1>1, <1>2, <2>1, <2>2 DEF Shaped
    <2> HIDE DEF Control
    <2> QED
        BY <1>2, <2>1, <2>3, ShapeKept
<1>7. Written'
    BY <1>2, WrittenKept DEF AcquireLease
<1> QED
    BY <1>4, <1>5, <1>6, <1>7 DEF AcquireLease, Configured

\* An operation ends and gives back what it holds.
LEMMA Finishes ==
    ASSUME Control, NEW p \in Procs, Finish(p), product' = product \/ lease = p
    PROVE  /\ proc' \in [Procs -> Local] /\ Others(p) /\ proc'[p] = Resting
           /\ gate' \in Procs \cup {Free} /\ lease' \in Procs \cup {Free}
           /\ Locked' /\ Ordered' /\ Written'
<1> USE DEF Control
<1>1. Rested(p)
    BY Rests DEF Finish
<1>2. proc'[p].pc = "idle" /\ Shaped(proc'[p]) /\ ~ Gated(p)' /\ ~ Leased(p)'
    BY <1>1, RestingIsLocal DEF Rested, Shaped, Gated, Leased, At, InLease
<1>3. Locked'
    BY <1>1, <1>2, LocksKept DEF Rested, Finish, Unlock
<1>4. Ordered' /\ Written'
    BY <1>1, <1>2, ShapeKept, WrittenKept DEF Rested
<1> QED
    BY <1>1, <1>3, <1>4 DEF Rested, Finish, Unlock, TypeOK

\* start_promoted with a promoted snapshot takes the lease and that snapshot.
LEMMA Starts ==
    ASSUME TypeOK, NEW p \in Procs, StartPromoted(p), ~ Finish(p)
    PROVE  /\ proc' \in [Procs -> Local] /\ Others(p) /\ proc'[p].pc = "restart"
           /\ proc'[p].op = "start" /\ proc'[p].stage = proc[p].stage
           /\ proc'[p].snap = promoted /\ proc'[p].saved = proc[p].saved
<1> DEFINE L == [proc[p] EXCEPT !.pc = "restart", !.snap = promoted]
<1>1. /\ proc \in [Procs -> Local] /\ proc[p] \in Local
      /\ proc[p].op = "start" /\ promoted \in Snap
    BY DEF StartPromoted, TypeOK
<1>2. /\ L \in Local /\ L.pc = "restart" /\ L.op = proc[p].op
      /\ L.stage = proc[p].stage /\ L.snap = promoted /\ L.saved = proc[p].saved
    BY <1>1 DEF Local, Steps
<1>3. proc' = [proc EXCEPT ![p] = L]
    BY DEF StartPromoted
<1> HIDE DEF L
<1>4. proc' \in [Procs -> Local] /\ proc'[p] = L /\ Others(p)
    BY <1>1, <1>2, <1>3, Updates
<1> QED
    BY <1>1, <1>2, <1>4

\* The promoted snapshot is started.
LEMMA ControlStartPromoted ==
    ASSUME Control, NEW p \in Procs, StartPromoted(p) PROVE Control'
<1> USE DEF Control, desiredVars, runtimeVars, coreVars, lockVars, workerVars, boundVars
<1>1. CASE Finish(p)
    BY <1>1, Finishes DEF StartPromoted, TypeOK, Configured
<1>2. CASE ~ Finish(p)
    <2>1. /\ proc[p].op = "start" /\ proc[p].pc = "lease" /\ promoted \in Snap
          /\ lease = Free /\ lease' = p /\ gate' = gate
        BY <1>2 DEF StartPromoted, TypeOK, At
    <2>2. /\ proc' \in [Procs -> Local] /\ Others(p) /\ proc'[p].pc = "restart"
          /\ proc'[p].op = proc[p].op /\ proc'[p].stage = proc[p].stage
          /\ proc'[p].snap = promoted /\ proc'[p].saved = proc[p].saved
        BY <1>2, <2>1, Starts
    <2>4. TypeOK'
        BY <2>1, <2>2 DEF StartPromoted, TypeOK
    <2>5. Locked'
        BY <2>1, <2>2, LocksKept DEF Locked, Gated, Leased, At, InLease
    <2>6. Ordered'
        BY <2>1, <2>2, ShapeKept DEF Fallbacks, Ordered, Shaped
    <2>7. Written'
        BY <2>2, WrittenKept DEF StartPromoted
    <2> QED
        BY <2>4, <2>5, <2>6, <2>7 DEF StartPromoted, Configured
<1> QED
    BY <1>1, <1>2

\* A failure is counted only while some are left.
LEMMA FailuresBounded ==
    ASSUME TypeOK, NEW fault, Fail(fault) PROVE failures' \in 0 .. MaxFailures
BY BoundsAssumption DEF TypeOK, Fail

\* Patching the mode of the running core keeps a configuration.
LEMMA CorePatched ==
    ASSUME NEW c \in Core, c.cfg \in Cfg, NEW m \in 0 .. MaxMode
    PROVE  /\ [c EXCEPT !.cfg.mode = m] \in Core
           /\ [c EXCEPT !.cfg.mode = m].cfg \in Cfg
           /\ [c EXCEPT !.cfg.mode = m].up = c.up
BY DEF Core, Cfg

\* The running core is patched.
LEMMA ControlPatchCore ==
    ASSUME Control, NEW p \in Procs, PatchCore(p) PROVE Control'
<1> USE DEF Control, desiredVars, runtimeVars, coreVars, lockVars, workerVars, boundVars
<1>0. /\ proc[p] \in Local /\ proc[p].op = "patch" /\ proc[p].pc = "lease"
      /\ proc[p].want \in 0 .. MaxMode
    BY DEF PatchCore, TypeOK, At, Ordered, Shaped
<1>1. core.up => /\ [core EXCEPT !.cfg.mode = proc[p].want] \in Core
                 /\ [core EXCEPT !.cfg.mode = proc[p].want].cfg \in Cfg
    BY <1>0, CorePatched DEF TypeOK, Configured
<1>2. CASE lease' # p
    <2>0. Finish(p)
        BY <1>2 DEF PatchCore
    <2>1. core' \in Core /\ (core'.up => core'.cfg \in Cfg)
        BY <1>1, <1>2 DEF PatchCore, TypeOK, Configured
    <2>2. UNCHANGED latest /\ doubt' \in BOOLEAN
        BY <1>2 DEF PatchCore, TypeOK
    <2>3. failures' \in 0 .. MaxFailures
        BY <1>2, FailuresBounded DEF PatchCore, TypeOK
    <2> QED
        BY <1>2, <2>0, <2>1, <2>2, <2>3, Finishes DEF PatchCore, TypeOK, Configured
<1>3. CASE lease' = p
    <2>0. lease = Free /\ ~ Finish(p)
        BY <1>3, FreeAssumption DEF PatchCore, Finish, Unlock
    <2>1. /\ lease = Free /\ lease' = p /\ gate' = gate
          /\ proc' = [proc EXCEPT ![p] = [@ EXCEPT !.pc = "read", !.saved = Captured]]
          /\ applied # NoSnap
          /\ core' = [core EXCEPT !.cfg.mode = proc[p].want] /\ core.up
          /\ latest' = [latest EXCEPT !.mode = proc[p].want]
          /\ UNCHANGED <<doubt, failures>>
        BY <1>3, <2>0 DEF PatchCore, CompensationFor
    <2>2. Captured.applied \in Snap
        BY <2>1 DEF Captured, TypeOK
    <2>4. /\ proc' \in [Procs -> Local] /\ Others(p) /\ proc'[p].pc = "read"
          /\ proc'[p].op = proc[p].op /\ proc'[p].stage = proc[p].stage
          /\ proc'[p].want = proc[p].want /\ proc'[p].saved = Captured
        BY <2>1, Captures DEF Steps
    <2>5. latest' \in Legacy
        BY <1>0, <2>1 DEF Legacy, TypeOK
    <2>6. core' \in Core /\ core'.cfg \in Cfg
        BY <1>1, <2>1
    <2>10. TypeOK' /\ Configured'
        BY <2>1, <2>4, <2>5, <2>6 DEF PatchCore, TypeOK, Configured
    <2>7. Locked'
        BY <1>0, <2>1, <2>4, LocksKept
        DEF Locked, Gated, Leased, At, InLease, Fallbacks
    <2>8. Ordered'
        BY <1>0, <2>2, <2>4, ShapeKept DEF Ordered, Shaped
    <2>9. Written'
        BY <2>4, WrittenKept DEF PatchCore
    <2> QED
        BY <2>10, <2>7, <2>8, <2>9
<1> QED
    BY <1>2, <1>3

\* Whatever it is built from, the result is a configuration.
LEMMA InputsAreCfg ==
    ASSUME TypeOK, NEW p \in Procs PROVE Inputs(p) \in Cfg
<1> USE BoundsAssumption DEF TypeOK
<1>1. typed \in Cfg /\ typed.core \in Cores /\ typed.prof \in 0 .. MaxProf
    BY DEF Cfg
<1>2. latest.core \in Cores /\ latest.mode \in 0 .. MaxMode /\ 0 \in 0 .. MaxProf
    BY DEF Legacy
<1>3. [product EXCEPT !.core = typed.core] \in Cfg
    BY <1>1 DEF Cfg, NoCfg
<1>4. /\ [core |-> latest.core, prof |-> 0, mode |-> latest.mode] \in Cfg
      /\ [core |-> latest.core, prof |-> typed.prof, mode |-> latest.mode] \in Cfg
    BY <1>1, <1>2 DEF Cfg
<1> QED
    BY <1>1, <1>3, <1>4 DEF Inputs

\* A build has its revision and its inputs.
LEMMA Reads ==
    ASSUME TypeOK, NEW p \in Procs, ReadInputs(p)
    PROVE  /\ proc' \in [Procs -> Local] /\ Others(p)
           /\ proc'[p].pc = IF lease = p THEN "promote" ELSE "lease"
           /\ proc'[p].op = proc[p].op /\ proc'[p].stage = proc[p].stage
           /\ proc'[p].want = proc[p].want /\ proc'[p].saved = proc[p].saved
           /\ proc'[p].snap \in Snap
<1> DEFINE x == IF lease = p THEN "promote" ELSE "lease"
           s == [rev |-> rev + 1, cfg |-> Inputs(p)]
<1>1. x \in Steps
    BY DEF Steps
<1>2. s \in Snap
    BY InputsAreCfg DEF Snap, TypeOK
<1>3. proc' = [proc EXCEPT ![p] = [@ EXCEPT !.pc = x, !.snap = s]]
    BY DEF ReadInputs
<1>4. /\ proc' \in [Procs -> Local] /\ Others(p) /\ proc'[p].pc = x
      /\ proc'[p].op = proc[p].op /\ proc'[p].stage = proc[p].stage
      /\ proc'[p].want = proc[p].want /\ proc'[p].snap = s
      /\ proc'[p].saved = proc[p].saved
    <2> HIDE DEF x, s
    <2> QED
        BY <1>1, <1>2, <1>3, Takes
<1> QED
    BY <1>2, <1>4

\* A build reads its inputs.
LEMMA ControlReadInputs ==
    ASSUME Control, NEW p \in Procs, ReadInputs(p) PROVE Control'
<1> USE DEF Control, desiredVars, runtimeVars, coreVars, lockVars, workerVars, boundVars
<1>1. proc[p].pc = "read" /\ rev' \in Nat
    BY DEF ReadInputs, At, TypeOK
<1>2. /\ proc' \in [Procs -> Local] /\ Others(p)
      /\ proc'[p].pc = IF lease = p THEN "promote" ELSE "lease"
      /\ proc'[p].op = proc[p].op /\ proc'[p].stage = proc[p].stage
      /\ proc'[p].want = proc[p].want /\ proc'[p].saved = proc[p].saved
      /\ proc'[p].snap \in Snap
    BY Reads
<1>3. TypeOK'
    BY <1>1, <1>2 DEF ReadInputs, TypeOK
<1>4. lease = p <=> proc[p].op \notin Fallbacks
    BY <1>1 DEF Locked, Leased, At, InLease
<1>5. Locked'
    BY <1>1, <1>2, <1>4, LocksKept
    DEF ReadInputs, Locked, Gated, Leased, At, InLease
<1>6. Ordered'
    BY <1>1, <1>2, <1>4, ShapeKept DEF Ordered, Shaped
<1>7. Written'
    BY <1>2, WrittenKept DEF ReadInputs
<1> QED
    BY <1>3, <1>5, <1>6, <1>7 DEF ReadInputs, Configured

\* A build is promoted.
LEMMA ControlPromote ==
    ASSUME Control, NEW p \in Procs, Promote(p) PROVE Control'
<1> USE DEF Control, desiredVars, runtimeVars, coreVars, lockVars, workerVars, boundVars
<1>1. Moved(p, "publish")
    BY Goes DEF Promote, Steps
<1>2. proc[p].pc = "promote" /\ proc[p].snap \in Snap /\ lease = p /\ gate = p
    BY GateOf DEF Promote, At, Ordered, Shaped, Gated, Leased, InLease
<1>3. product' \in Cfg /\ product' = proc'[p].snap.cfg
    BY <1>1, <1>2, SnapFields DEF Promote, Moved
<1>4. TypeOK'
    BY <1>1, <1>3 DEF Promote, TypeOK, Moved
<1>5. Locked'
    BY <1>1, <1>2, LocksKept DEF Promote, Moved, Gated, Leased, At, InLease
<1>6. Ordered'
    BY <1>1, <1>2, ShapeKept DEF Moved, Ordered, Shaped
<1>7. Written'
    BY <1>1, <1>2, <1>3, WrittenKept DEF Moved
<1> QED
    BY <1>4, <1>5, <1>6, <1>7 DEF Promote, Configured

\* A promoted build is published.
LEMMA ControlPublish ==
    ASSUME Control, NEW p \in Procs, Publish(p) PROVE Control'
<1> USE DEF Control, desiredVars, runtimeVars, coreVars, lockVars, workerVars, boundVars
<1>1. /\ proc[p].pc = "publish" /\ proc[p].snap \in Snap /\ lease = p /\ gate = p
      /\ product = proc[p].snap.cfg /\ promoted' \in Snap
    BY GateOf DEF Publish, At, Ordered, Shaped, Written, Gated, Leased, InLease
<1>2. CASE AfterPublish(p) = "idle"
    BY <1>1, <1>2, Finishes DEF Publish, TypeOK, Configured
<1>3. CASE AfterPublish(p) # "idle"
    <2>1. /\ Moved(p, AfterPublish(p)) /\ UNCHANGED lockVars
          /\ AfterPublish(p) \in {"apply", "restart"}
        BY <1>3, Goes DEF Publish, AfterPublish, Steps
    <2>2. TypeOK'
        BY <1>1, <2>1 DEF Publish, TypeOK, Moved
    <2>3. Locked'
        BY <1>1, <2>1, LocksKept DEF Moved, Gated, Leased, At, InLease
    <2>4. Ordered'
        BY <1>1, <2>1, ShapeKept DEF Moved, Ordered, Shaped
    <2>5. Written'
        BY <1>1, <2>1, WrittenKept DEF Publish, Moved
    <2> QED
        BY <2>2, <2>3, <2>4, <2>5 DEF Publish, Configured
<1> QED
    BY <1>2, <1>3

\* Committing to the legacy configuration.
LEMMA CommitsLegacy ==
    ASSUME TypeOK, NEW p \in Procs, CommitLegacy(p)
    PROVE  /\ legacy' \in Legacy
           /\ lease' = IF proc[p].op = "patch" THEN Free ELSE lease
BY DEF CommitLegacy, TypeOK, Legacy

\* The core is asked to take the product.
LEMMA ControlApply ==
    ASSUME Control, NEW p \in Procs, Apply(p) PROVE Control'
<1> USE DEF Control, desiredVars, runtimeVars, coreVars, lockVars, workerVars, boundVars
<1>1. Moved(p, "applied")
    BY Goes DEF Apply, Steps
<1>2. /\ proc[p].pc = "apply" /\ proc[p].snap \in Snap /\ lease = p /\ gate = p
      /\ product = proc[p].snap.cfg
    BY GateOf DEF Apply, At, Ordered, Shaped, Written, Gated, Leased, InLease
<1>3. /\ legacy' \in Legacy /\ gate' = gate
      /\ lease' = IF proc[p].op = "patch" THEN Free ELSE lease
    BY CommitsLegacy DEF Apply
<1>4. product \in Cfg
    BY <1>2, SnapFields
<1>5. core' \in Core /\ core'.cfg \in Cfg
    BY <1>4 DEF Apply, Core, TypeOK
<1>6. lease' \in Procs \cup {Free} /\ proc' \in [Procs -> Local] /\ doubt' \in BOOLEAN
    BY <1>1, <1>3 DEF Apply, TypeOK, Moved
<1>7. TypeOK'
    BY <1>3, <1>5, <1>6 DEF Apply, TypeOK
<1>8. Locked'
    BY <1>1, <1>2, <1>3, LocksKept DEF Moved, Gated, Leased, At, InLease
<1>9. Ordered'
    BY <1>1, <1>2, ShapeKept DEF Moved, Ordered, Shaped
<1>10. Written'
    BY <1>1, WrittenKept DEF Apply, Moved
<1> QED
    BY <1>5, <1>7, <1>8, <1>9, <1>10 DEF Configured

\* What run_core starts from a product that is there.
LEMMA RunningIsCore ==
    ASSUME TypeOK, product # NoCfg
    PROVE  /\ Running \in Core /\ Running.cfg = product /\ product \in Cfg
           /\ Running.up /\ Running.bin = latest.core
BY DEF TypeOK, Running, Core, Legacy

\* The core is restarted.
LEMMA ControlRestart ==
    ASSUME Control, NEW p \in Procs, Restart(p) PROVE Control'
<1> USE DEF Control, desiredVars, runtimeVars, coreVars, lockVars, workerVars, boundVars
<1>1. proc[p].pc = "restart" /\ lease = p /\ gate = p
    BY GateOf DEF Restart, At, Gated, Leased, InLease
<1>2. core' \in Core /\ core'.cfg \in Cfg /\ doubt' \in BOOLEAN
    BY RunningIsCore DEF Restart
<1>3. CASE proc[p].stage = "restored" /\ proc[p].saved.promoted = NoSnap
    <2>1. Finish(p) /\ UNCHANGED legacy
        BY <1>3 DEF Restart
    <2> QED
        BY <1>2, <2>1, Finishes DEF Restart, TypeOK, Configured
<1>4. CASE ~ (proc[p].stage = "restored" /\ proc[p].saved.promoted = NoSnap)
    <2>1. Moved(p, "applied") /\ CommitLegacy(p) /\ gate' = gate
        BY <1>4, Goes DEF Restart, Steps
    <2>2. /\ legacy' \in Legacy
          /\ lease' = IF proc[p].op = "patch" THEN Free ELSE lease
        BY <2>1, CommitsLegacy
    <2>3. proc[p].snap \in Snap
        <3>1. proc[p].saved.promoted \in Snap \cup {NoSnap}
            BY LocalFields, SavedFields DEF TypeOK
        <3> QED
            BY <1>1, <1>4, <3>1 DEF Ordered, Shaped
    <2>8. lease' \in Procs \cup {Free} /\ proc' \in [Procs -> Local]
        BY <2>1, <2>2 DEF TypeOK, Moved
    <2>4. TypeOK'
        BY <1>2, <2>1, <2>2, <2>8 DEF Restart, TypeOK
    <2>5. Locked'
        BY <1>1, <2>1, <2>2, LocksKept DEF Moved, Gated, Leased, At, InLease
    <2>6. Ordered'
        BY <1>1, <2>1, <2>3, ShapeKept DEF Moved, Ordered, Shaped
    <2>7. Written'
        BY <2>1, WrittenKept DEF Restart, Moved
    <2> QED
        BY <1>2, <2>4, <2>5, <2>6, <2>7 DEF Configured
<1> QED
    BY <1>3, <1>4

\* The applied snapshot is published.
LEMMA ControlPublishApplied ==
    ASSUME Control, NEW p \in Procs, PublishApplied(p) PROVE Control'
<1> USE DEF Control, desiredVars, runtimeVars, coreVars, lockVars, workerVars, boundVars
<1>1. /\ proc[p].pc = "applied" /\ proc[p].snap \in Snap /\ gate = p
      /\ lease = p <=> proc[p].op # "patch"
    BY GateOf DEF PublishApplied, At, Ordered, Shaped, Gated, Leased, InLease
<1>2. applied' \in Snap \cup {NoSnap}
    BY <1>1 DEF PublishApplied, TypeOK
<1>3. CASE ~ (proc[p].op = "change_core" /\ proc[p].stage = "forward")
    BY <1>2, <1>3, Finishes DEF PublishApplied, TypeOK, Configured
<1>4. CASE proc[p].op = "change_core" /\ proc[p].stage = "forward"
    <2>1. Moved(p, "reseed") /\ Unlock(p)
        BY <1>4, Goes DEF PublishApplied, Steps
    <2>2. TypeOK'
        BY <1>2, <2>1 DEF PublishApplied, TypeOK, Moved, Unlock
    <2>3. Locked'
        BY <2>1, LocksKept DEF Moved, Gated, Leased, At, InLease, Unlock
    <2>4. Ordered'
        BY <1>1, <1>4, <2>1, ShapeKept DEF Moved, Ordered, Shaped
    <2>5. Written'
        BY <2>1, WrittenKept DEF PublishApplied, Moved
    <2> QED
        BY <2>2, <2>3, <2>4, <2>5 DEF PublishApplied, Configured
<1> QED
    BY <1>3, <1>4

\* After a core switch the legacy image is restored and the typed state committed.
LEMMA ControlReseed ==
    ASSUME Control, NEW p \in Procs, ReseedRestore(p) \/ ReseedCommit(p)
    PROVE  Control'
<1> USE DEF Control, desiredVars, runtimeVars, coreVars, lockVars, workerVars, boundVars
<1>1. CASE ReseedRestore(p)
    <2>1. Moved(p, "commit") /\ proc[p].pc = "reseed"
        BY <1>1, Goes DEF ReseedRestore, Steps, At
    <2>2. legacy' \in Legacy /\ latest' \in Legacy
        BY <1>1 DEF ReseedRestore, TypeOK, Legacy, Cfg
    <2>3. TypeOK'
        BY <1>1, <2>1, <2>2 DEF ReseedRestore, TypeOK, Moved
    <2>4. Locked'
        BY <1>1, <2>1, LocksKept, GateOf
        DEF ReseedRestore, Moved, Gated, Leased, At, InLease
    <2>5. Ordered'
        BY <2>1, ShapeKept DEF Moved, Ordered, Shaped
    <2>6. Written'
        BY <1>1, <2>1, WrittenKept DEF ReseedRestore, Moved
    <2> QED
        BY <1>1, <2>3, <2>4, <2>5, <2>6 DEF ReseedRestore, Configured
<1>2. CASE ReseedCommit(p)
    <2>1. proc[p].pc = "commit" /\ proc[p].want \in Cores
        BY <1>2 DEF ReseedCommit, At, Ordered, Shaped
    <2>2. typed' \in Cfg /\ legacy' \in Legacy /\ latest' \in Legacy
        BY <1>2, <2>1 DEF ReseedCommit, TypeOK, Legacy, Cfg
    <2> QED
        BY <1>2, <2>2, Finishes DEF ReseedCommit, TypeOK, Configured
<1> QED
    BY <1>1, <1>2

\* A compensation writes the former product back.
LEMMA ControlRestoreProduct ==
    ASSUME Control, NEW p \in Procs, RestoreProduct(p) PROVE Control'
<1> USE DEF Control, desiredVars, runtimeVars, coreVars, lockVars, workerVars, boundVars
<1>1. Moved(p, "unpublish")
    BY Goes DEF RestoreProduct, Steps
<1>2. proc[p].pc = "restore" /\ lease = p /\ gate = p
    BY GateOf DEF RestoreProduct, At, Gated, Leased, InLease
<1>3. product' \in Cfg \cup {NoCfg}
    BY LocalFields, SavedFields DEF RestoreProduct, TypeOK
<1>4. TypeOK'
    BY <1>1, <1>3 DEF RestoreProduct, TypeOK, Moved
<1>5. Locked'
    BY <1>1, <1>2, LocksKept DEF RestoreProduct, Moved, Gated, Leased, At, InLease
<1>6. Ordered'
    BY <1>1, <1>2, ShapeKept DEF Moved, Ordered, Shaped
<1>7. Written'
    BY <1>1, <1>2, WrittenKept DEF Moved
<1> QED
    BY <1>4, <1>5, <1>6, <1>7 DEF RestoreProduct, Configured

\* A compensation restores the promoted snapshot.
LEMMA ControlRestorePromoted ==
    ASSUME Control, NEW p \in Procs, RestorePromoted(p) PROVE Control'
<1> USE DEF Control, desiredVars, runtimeVars, coreVars, lockVars, workerVars, boundVars
<1>1. /\ proc[p].pc = "unpublish" /\ lease = p /\ gate = p
      /\ proc[p].op = "change_core"
    BY GateOf DEF RestorePromoted, At, Ordered, Shaped, Gated, Leased, InLease
<1>2. /\ proc' \in [Procs -> Local] /\ Others(p) /\ proc'[p].pc = "restart"
      /\ proc'[p].op = proc[p].op /\ proc'[p].stage = "restored"
      /\ proc'[p].want = proc[p].want /\ proc'[p].snap = proc[p].saved.promoted
      /\ proc'[p].saved = proc[p].saved /\ promoted' \in Snap \cup {NoSnap}
    BY Restores
<1>3. TypeOK'
    BY <1>2 DEF RestorePromoted, TypeOK
<1>4. Locked'
    BY <1>1, <1>2, LocksKept DEF RestorePromoted, Gated, Leased, At, InLease
<1>5. Ordered'
    BY <1>1, <1>2, ShapeKept DEF Ordered, Shaped
<1>6. Written'
    BY <1>2, WrittenKept DEF RestorePromoted
<1> QED
    BY <1>3, <1>4, <1>5, <1>6 DEF RestorePromoted, Configured

\* Discarding a draft.
LEMMA Discards ==
    ASSUME TypeOK, NEW p \in Procs, Discard(p) PROVE latest' \in Legacy
BY DEF Discard, TypeOK, Legacy

\* A compensation starts the former core.
LEMMA ControlCompensate ==
    ASSUME Control, NEW p \in Procs, Compensate(p) PROVE Control'
<1> USE DEF Control, desiredVars, runtimeVars, coreVars, lockVars, workerVars, boundVars
<1>1. proc[p].saved.applied \in Snap /\ proc[p].saved.applied.cfg \in Cfg
    BY SnapFields DEF Compensate, At, Ordered, Shaped
<1>2. core' \in Core /\ (core'.up => core'.cfg \in Cfg)
    BY <1>1 DEF Compensate, TypeOK, Core, Configured
<1>3. applied' \in Snap \cup {NoSnap} /\ latest' \in Legacy
    BY <1>1, Discards DEF Compensate, TypeOK
<1>4. doubt' \in BOOLEAN
    BY DEF Compensate
<1> QED
    BY <1>2, <1>3, <1>4, Finishes DEF Compensate, TypeOK, Configured
\* Wherever an operation goes when a step of it fails.
LEMMA ErrorsKept ==
    ASSUME Control, NEW p \in Procs, OnError(p),
           proc[p].pc \in {"read", "promote", "apply", "restart"},
           product' = product \/ lease = p
    PROVE  /\ proc' \in [Procs -> Local] /\ Others(p) /\ latest' \in Legacy
           /\ gate' \in Procs \cup {Free} /\ lease' \in Procs \cup {Free}
           /\ Locked' /\ Ordered' /\ Written'
           /\ \/ proc'[p] = Resting
              \/ /\ proc'[p].pc \in {"read", "restore", "compensate"}
                 /\ proc'[p].op = proc[p].op /\ proc'[p].saved = proc[p].saved
                 /\ proc[p].op \notin Fallbacks /\ UNCHANGED lockVars
<1> USE DEF Control, lockVars
<1>1. /\ proc[p] \in Local /\ gate = p
      /\ proc[p].op \notin Fallbacks => lease = p
      /\ lease = p => Leased(p)
    BY GateOf DEF TypeOK, At, Gated, Leased, InLease
<1>2. CASE proc[p].op = "change_core" /\ proc[p].stage = "forward" /\ At(p, "restart")
    <2> DEFINE L == [proc[p] EXCEPT !.stage = "rollback", !.pc = "read"]
    <2>1. proc' = [proc EXCEPT ![p] = L] /\ Discard(p) /\ UNCHANGED lockVars
        BY <1>2 DEF OnError
    <2>2. /\ L \in Local /\ L.pc = "read" /\ L.stage = "rollback"
          /\ L.op = proc[p].op /\ L.want = proc[p].want /\ L.saved = proc[p].saved
        BY <1>1 DEF Local, Steps
    <2> HIDE DEF L
    <2>3. proc' \in [Procs -> Local] /\ Others(p) /\ proc'[p] = L
        BY <2>1, <2>2, Updates DEF TypeOK
    <2>4. Locked'
        BY <1>1, <1>2, <2>1, <2>2, <2>3, LocksKept
        DEF Gated, Leased, At, InLease, Fallbacks
    <2>5. Ordered'
        BY <1>2, <2>2, <2>3, ShapeKept DEF Ordered, Shaped
    <2>6. Written'
        BY <2>2, <2>3, WrittenKept
    <2> QED
        BY <1>2, <2>1, <2>2, <2>3, <2>4, <2>5, <2>6, Discards DEF TypeOK, Fallbacks
<1>3. ASSUME NEW x \in {"restore", "compensate"}, Goto(p, x),
             UNCHANGED <<latest, lockVars>>,
             x = "restore" => proc[p].op = "change_core" /\ proc[p].stage = "rollback",
             x = "compensate" => proc[p].op = "patch"
      PROVE  /\ proc' \in [Procs -> Local] /\ Others(p) /\ latest' \in Legacy
             /\ proc'[p].pc = x
             /\ proc'[p].op = proc[p].op /\ proc'[p].saved = proc[p].saved
             /\ gate' \in Procs \cup {Free} /\ lease' \in Procs \cup {Free}
             /\ Locked' /\ Ordered' /\ Written'
    <2>1. Moved(p, x)
        BY <1>3, Goes DEF Steps
    <2>2. Locked'
        BY <1>1, <1>3, <2>1, LocksKept
        DEF Moved, Gated, Leased, At, InLease, Fallbacks
    <2>3. Ordered'
        BY <1>3, <2>1, ShapeKept DEF Moved, Ordered, Shaped
    <2>4. Written'
        BY <2>1, WrittenKept DEF Moved
    <2> QED
        BY <1>3, <2>1, <2>2, <2>3, <2>4 DEF Moved, TypeOK
<1>4. CASE Finish(p) /\ (Discard(p) \/ UNCHANGED latest)
    BY <1>4, Finishes, Discards, RestingIsLocal DEF TypeOK
<1> QED
    BY <1>2, <1>3, <1>4 DEF OnError, At, Fallbacks

\* A step of an operation fails.
LEMMA ControlTrouble ==
    ASSUME Control, NEW p \in Procs, Trouble(p) PROVE Control'
<1> USE DEF Control, desiredVars, runtimeVars, coreVars, lockVars, workerVars, boundVars
<1>1. CASE BuildFails(p)
    <2>1. OnError(p) /\ proc[p].pc \in {"read", "promote"}
        BY <1>1 DEF BuildFails
    <2>2. product' = product \/ lease = p
        BY <1>1, GateOf DEF BuildFails, At, Leased, InLease
    <2>3. product' \in Cfg \cup {NoCfg} /\ rev' \in Nat
        BY <1>1, SnapFields DEF BuildFails, At, Ordered, Shaped, TypeOK
    <2>4. failures' \in 0 .. MaxFailures
        BY <1>1, FailuresBounded DEF BuildFails
    <2> QED
        BY <1>1, <2>1, <2>2, <2>3, <2>4, ErrorsKept DEF BuildFails, TypeOK, Configured
<1>2. CASE ApplyFails(p)
    <2>1. OnError(p) /\ proc[p].pc = "apply"
        BY <1>2 DEF ApplyFails, At
    <2>2. product \in Cfg
        BY <2>1, SnapFields DEF Written, Ordered, Shaped
    <2>3. core' \in Core /\ (core'.up => core'.cfg \in Cfg)
        BY <1>2, <2>2 DEF ApplyFails, TypeOK, Core, Configured
    <2>4. failures' \in 0 .. MaxFailures
        BY <1>2, FailuresBounded DEF ApplyFails, TypeOK
    <2>5. doubt' \in BOOLEAN
        BY <1>2 DEF ApplyFails, TypeOK
    <2> QED
        BY <1>2, <2>1, <2>3, <2>4, <2>5, ErrorsKept DEF ApplyFails, TypeOK, Configured
<1>3. CASE RestartFails(p)
    <2>1. OnError(p) /\ proc[p].pc = "restart"
        BY <1>3 DEF RestartFails, At
    <2>2. core' \in Core /\ (core'.up => core'.cfg \in Cfg)
        BY <1>3 DEF RestartFails, TypeOK, Core, Configured
    <2>3. failures' \in 0 .. MaxFailures
        BY <1>3, FailuresBounded DEF RestartFails, TypeOK
    <2> QED
        BY <1>3, <2>1, <2>2, <2>3, ErrorsKept DEF RestartFails, TypeOK, Configured
<1>4. CASE RestoreFails(p) \/ SaveFails(p)
    <2>1. failures' \in 0 .. MaxFailures
        BY <1>4, FailuresBounded DEF RestoreFails, SaveFails
    <2> QED
        BY <1>4, <2>1, Finishes DEF RestoreFails, SaveFails, TypeOK, Configured
<1>5. CASE CompensateFails(p)
    <2>1. failures' \in 0 .. MaxFailures /\ latest' \in Legacy /\ doubt' \in BOOLEAN
        BY <1>5, FailuresBounded, Discards DEF CompensateFails
    <2> QED
        BY <1>5, <2>1, Finishes DEF CompensateFails, TypeOK, Configured
<1> QED
    BY <1>1, <1>2, <1>3, <1>4, <1>5 DEF Trouble
\* A step of an operation is under way, and concerns its own process only.
LEMMA StepFrame ==
    ASSUME TypeOK, NEW p \in Procs, Step(p) \/ Trouble(p)
    PROVE  /\ Others(p) /\ ~ At(p, "idle")
           /\ UNCHANGED <<boot, workerVars, recovering, ops, crashes, outside>>
<1> USE DEF At, Goto, Finish, desiredVars, runtimeVars, coreVars, lockVars, boundVars
<1>0. proc \in [Procs -> Local]
    BY DEF TypeOK
<1>1. CASE AcquireGate(p) \/ AcquireLease(p) \/ StartPromoted(p) \/ PatchCore(p)
    BY <1>0, <1>1 DEF AcquireGate, AcquireLease, StartPromoted, PatchCore, Others
<1>2. CASE ReadInputs(p) \/ Promote(p) \/ Publish(p) \/ Apply(p) \/ Restart(p)
    BY <1>0, <1>2 DEF ReadInputs, Promote, Publish, Apply, Restart, Others
<1>3. CASE PublishApplied(p) \/ ReseedRestore(p) \/ ReseedCommit(p)
    BY <1>0, <1>3 DEF PublishApplied, ReseedRestore, ReseedCommit, Others
<1>4. CASE RestoreProduct(p) \/ RestorePromoted(p) \/ Compensate(p)
    BY <1>0, <1>4 DEF RestoreProduct, RestorePromoted, Compensate, Others
<1>5. CASE BuildFails(p) \/ ApplyFails(p) \/ RestartFails(p)
    <2>1. OnError(p) /\ proc[p].pc # "idle"
        BY <1>5 DEF BuildFails, ApplyFails, RestartFails
    <2>2. Others(p)
        BY <1>0, <2>1 DEF OnError, Others
    <2> QED
        BY <1>5, <2>1, <2>2 DEF BuildFails, ApplyFails, RestartFails
<1>6. CASE RestoreFails(p) \/ CompensateFails(p) \/ SaveFails(p)
    BY <1>0, <1>6 DEF RestoreFails, CompensateFails, SaveFails, Others
<1> QED
    BY <1>1, <1>2, <1>3, <1>4, <1>5, <1>6 DEF Step, Trouble

\* Every step of an operation keeps the control invariant.
LEMMA ControlStep ==
    ASSUME Control, NEW p \in Procs, Step(p) \/ Trouble(p) PROVE Control'
BY ControlAcquireGate, ControlAcquireLease, ControlStartPromoted, ControlPatchCore,
   ControlReadInputs, ControlPromote, ControlPublish, ControlApply, ControlRestart,
   ControlPublishApplied, ControlReseed, ControlRestoreProduct, ControlRestorePromoted,
   ControlCompensate, ControlTrouble
DEF Step

-----------------------------------------------------------------------------
\* The worker's process is at rest unless the worker waits for a rebuild.
WorkerRests == worker # "rebuild" => At(Worker, "idle")

\* A process begins an operation: it needs no lock yet.
LEMMA BeginKept ==
    ASSUME Control, NEW p \in Procs, At(p, "idle"), NEW o, NEW w, Begun(p, o, w),
           UNCHANGED <<product, gate, lease>>,
           o = "change_core" => w \in Cores,
           o = "patch" => w \in 0 .. MaxMode
    PROVE  Locked' /\ Ordered' /\ Written'
<1> USE DEF Control
<1>1. /\ proc'[p].pc = "gate" /\ Others(p) /\ Shaped(proc'[p])
      /\ ~ Gated(p)' /\ ~ Leased(p)' /\ ~ Gated(p) /\ ~ Leased(p)
    BY DEF Begun, Shaped, Gated, Leased, InLease, At
<1>2. gate # p /\ lease # p
    BY <1>1, GateOf
<1>3. Locked'
    BY <1>1, <1>2, LocksKept
<1>4. Ordered'
    BY <1>1, ShapeKept
<1>5. Written'
    BY <1>1, WrittenKept
<1> QED
    BY <1>3, <1>4, <1>5

\* Steps that leave the processes, the locks and the product alone.
LEMMA QuietKept ==
    ASSUME Control, UNCHANGED <<proc, gate, lease, product>>
    PROVE  Locked' /\ Ordered' /\ Written'
BY DEF Control, Locked, Gated, Leased, At, Ordered, Written

\* The process dies.
LEMMA CrashResets ==
    ASSUME Control, Crash PROVE Control' /\ WorkerRests'
<1> USE DEF Control
<1>1. \A p \in Procs : proc'[p] = Resting
    BY DEF Crash
<1>2. proc' \in [Procs -> Local] /\ legacy' \in Legacy /\ core' \in Core
    BY RestingIsLocal DEF Crash, TypeOK, Cfg, Legacy, Core
<1>3. crashes' \in 0 .. MaxCrashes
    BY BoundsAssumption DEF Crash, TypeOK
<1>4. /\ doubt' \in BOOLEAN /\ recovering' \in BOOLEAN
      /\ dirty' \in BOOLEAN /\ owed' \in BOOLEAN /\ active' \in BOOLEAN
    BY DEF Crash
<1>5. TypeOK'
    BY <1>2, <1>3, <1>4 DEF Crash, TypeOK
<1>6. Locked'
    BY <1>1, RestingIsLocal, FreeAssumption
    DEF Crash, Locked, Gated, Leased, At, InLease
<1>7. Shaped(Resting)
    BY RestingIsLocal DEF Shaped
<1>8. Ordered'
    BY <1>1, <1>7 DEF Ordered
<1>9. Written'
    BY <1>1, RestingIsLocal DEF Written
<1>10. Configured'
    BY <1>2 DEF Crash, Configured, Core, TypeOK
<1>11. WorkerRests'
    BY <1>1, RestingIsLocal DEF WorkerRests, At, Procs
<1> QED
    BY <1>5, <1>6, <1>8, <1>9, <1>10, <1>11

\* Every call keeps the control invariant.
LEMMA ControlCalls ==
    ASSUME Control, Calls PROVE Control' /\ (WorkerRests => WorkerRests')
<1> USE DEF Control, desiredVars, runtimeVars, coreVars, lockVars, workerVars, boundVars
<1>1. PICK p \in Clients, o \in Ops, w \in Cores \cup (0 .. MaxMode) :
          /\ Call(p, o, w)
          /\ o = "change_core" => w \in Cores
          /\ o = "patch" => w \in 0 .. MaxMode
    <2>1. 0 \in 0 .. MaxMode /\ 1 .. MaxMode \subseteq 0 .. MaxMode
        BY BoundsAssumption
    <2> QED
        BY <2>1 DEF Calls
<1>2. p \in Procs /\ p # Worker /\ o \in AllOps /\ At(p, "idle")
    BY <1>1, ProcsAssumption, OpsAssumption DEF Procs, Call
<1>3. Begun(p, o, w)
    BY <1>1, <1>2, Begins DEF Call
<1>4. UNCHANGED <<product, gate, lease>>
    BY <1>1 DEF Call
<1>5. Locked' /\ Ordered' /\ Written'
    BY <1>1, <1>2, <1>3, <1>4, BeginKept
<1>6. typed' \in Cfg
    BY <1>1, BoundsAssumption DEF Call, TypeOK, Cfg
<1>7. ops' \in 0 .. MaxOps
    BY <1>1, BoundsAssumption DEF Call, TypeOK
<1>8. TypeOK' /\ Configured'
    BY <1>1, <1>3, <1>6, <1>7 DEF Call, TypeOK, Begun, Configured
<1>9. WorkerRests => WorkerRests'
    BY <1>1, <1>2, <1>3 DEF WorkerRests, Begun, Others, At, Call, Procs
<1> QED
    BY <1>5, <1>8, <1>9

\* The start of the application keeps it.
LEMMA ControlBoot ==
    ASSUME Control, BootStep PROVE Control' /\ (WorkerRests => WorkerRests')
<1> USE DEF Control, desiredVars, runtimeVars, coreVars, lockVars, workerVars, boundVars
<1>1. Boot \in Procs /\ Worker \in Procs /\ Boot # Worker /\ At(Boot, "idle")
    BY ProcsAssumption DEF Procs, BootStep
<1>2. boot' \in {"regen", "fallback", "start", "done"}
    BY DEF BootStep
<1>3. CASE UNCHANGED proc
    <2>1. Locked' /\ Ordered' /\ Written'
        BY <1>3, QuietKept DEF BootStep
    <2> QED
        BY <1>2, <1>3, <2>1 DEF BootStep, TypeOK, Configured, WorkerRests, At
<1>4. CASE ~ UNCHANGED proc
    <2>1. PICK o \in {"regenerate", "existing", "default", "start"} : Start(Boot, o, 0)
        BY <1>4 DEF BootStep
    <2>2. 0 \in 0 .. MaxMode
        BY BoundsAssumption
    <2>3. Begun(Boot, o, 0)
        BY <1>1, <2>1, <2>2, Begins
    <2>4. UNCHANGED <<product, gate, lease>>
        BY DEF BootStep
    <2>5. Locked' /\ Ordered' /\ Written'
        BY <1>1, <2>3, <2>4, BeginKept
    <2>6. TypeOK' /\ Configured'
        BY <1>2, <2>3 DEF BootStep, TypeOK, Begun, Configured
    <2>7. WorkerRests => WorkerRests'
        BY <1>1, <2>3 DEF WorkerRests, Begun, Others, At, BootStep
    <2> QED
        BY <2>5, <2>6, <2>7
<1> QED
    BY <1>3, <1>4

\* The core's own steps keep it.
LEMMA ControlCore ==
    ASSUME Control, RestartCore \/ CoreDies \/ RecoverCore
    PROVE  Control' /\ (WorkerRests => WorkerRests')
<1> USE DEF Control, desiredVars, runtimeVars, coreVars, lockVars, workerVars, boundVars
<1>1. UNCHANGED <<proc, gate, lease, product, worker>>
    BY DEF RestartCore, CoreDies, RecoverCore
<1>2. core' \in Core /\ (core'.up => core'.cfg \in Cfg)
    <2>1. [core EXCEPT !.up = FALSE] \in Core /\ ~ [core EXCEPT !.up = FALSE].up
        BY DEF TypeOK, Core
    <2> QED
        BY <2>1, RunningIsCore DEF RestartCore, CoreDies, RecoverCore
<1>3. failures' \in 0 .. MaxFailures
    BY FailuresBounded DEF RestartCore, CoreDies, RecoverCore, TypeOK
<1>4. outside' \in 0 .. MaxOutside
    BY BoundsAssumption DEF RestartCore, CoreDies, RecoverCore, TypeOK
<1>5. doubt' \in BOOLEAN /\ recovering' \in BOOLEAN
    BY DEF RestartCore, CoreDies, RecoverCore, TypeOK
<1>6. TypeOK' /\ Configured'
    BY <1>1, <1>2, <1>3, <1>4, <1>5
    DEF RestartCore, CoreDies, RecoverCore, TypeOK, Configured
<1> QED
    BY <1>1, <1>6, QuietKept DEF WorkerRests, At

\* The dirty worker keeps it.
LEMMA ControlWorker ==
    ASSUME Control, WorkerRests,
           CommitProfile \/ RequestRebuild \/ WorkerLoop \/ Deactivate
           \/ Signal \/ ShutdownDone
    PROVE  Control' /\ WorkerRests'
<1> USE DEF Control, desiredVars, runtimeVars, coreVars, lockVars, workerVars, boundVars
<1>1. CASE CommitProfile
    <2>1. typed' \in Cfg /\ owed' \in BOOLEAN
        BY <1>1, BoundsAssumption DEF CommitProfile, TypeOK, Cfg
    <2> QED
        BY <1>1, <2>1, QuietKept DEF CommitProfile, TypeOK, Configured, WorkerRests, At
<1>2. CASE RequestRebuild
    <2>1. dirty' \in BOOLEAN /\ owed' \in BOOLEAN
        BY <1>2 DEF RequestRebuild, TypeOK
    <2> QED
        BY <1>2, <2>1, QuietKept DEF RequestRebuild, TypeOK, Configured, WorkerRests, At
<1>3. CASE WorkerReceive \/ WorkerWake \/ WorkerDone \/ WorkerStop
    <2>1. UNCHANGED <<proc, gate, lease, product>>
        BY <1>3 DEF WorkerReceive, WorkerWake, WorkerDone, WorkerStop
    <2>2. dirty' \in BOOLEAN
        BY <1>3 DEF WorkerReceive, WorkerWake, WorkerDone, WorkerStop, TypeOK
    <2>3. worker' \in {"recv", "coalesce", "drain", "rebuild", "stopped"}
        BY <1>3 DEF WorkerReceive, WorkerWake, WorkerDone, WorkerStop
    <2>4. TypeOK' /\ Configured'
        BY <1>3, <2>1, <2>2, <2>3
        DEF WorkerReceive, WorkerWake, WorkerDone, WorkerStop, TypeOK, Configured
    <2>5. WorkerRests => WorkerRests'
        BY <1>3 DEF WorkerReceive, WorkerWake, WorkerDone, WorkerStop, WorkerRests, At
    <2> QED
        BY <2>1, <2>4, <2>5, QuietKept
<1>4. CASE WorkerDrain
    <2>1. 0 \in 0 .. MaxMode /\ Worker \in Procs
        BY BoundsAssumption DEF Procs
    <2>2. Begun(Worker, "rebuild", 0)
        BY <1>4, <2>1, Begins DEF WorkerDrain, AllOps
    <2>3. UNCHANGED <<product, gate, lease>> /\ worker' = "rebuild"
        BY <1>4 DEF WorkerDrain
    <2>4. dirty' \in BOOLEAN
        BY <1>4 DEF WorkerDrain
    <2>5. TypeOK' /\ Configured'
        BY <1>4, <2>2, <2>4 DEF WorkerDrain, TypeOK, Begun, Configured
    <2> QED
        BY <1>4, <2>1, <2>2, <2>3, <2>5, BeginKept DEF WorkerRests, WorkerDrain
<1>5. CASE Deactivate \/ Signal \/ ShutdownDone
    <2>1. UNCHANGED <<proc, gate, lease, product, worker>>
        BY <1>5 DEF Deactivate, Signal, ShutdownDone
    <2>2. active' \in BOOLEAN
        BY <1>5 DEF Deactivate, Signal, ShutdownDone, TypeOK
    <2>3. stopping' \in {"no", "signalled", "done"}
        BY <1>5 DEF Deactivate, Signal, ShutdownDone, TypeOK
    <2>4. TypeOK' /\ Configured'
        BY <1>5, <2>1, <2>2, <2>3
        DEF Deactivate, Signal, ShutdownDone, TypeOK, Configured
    <2> QED
        BY <2>1, <2>4, QuietKept DEF WorkerRests, At
<1> QED
    BY <1>1, <1>2, <1>3, <1>4, <1>5 DEF WorkerLoop

\* Every step keeps the control invariant.
LEMMA ControlNext == Control /\ WorkerRests /\ [Next]_vars => Control' /\ WorkerRests'
<1> SUFFICES ASSUME Control, WorkerRests, [Next]_vars PROVE Control' /\ WorkerRests'
    OBVIOUS
<1>1. ASSUME NEW p \in Procs, Step(p) \/ Trouble(p) PROVE Control' /\ WorkerRests'
    <2>1. Others(p) /\ ~ At(p, "idle") /\ UNCHANGED worker
        BY <1>1, StepFrame DEF Control, workerVars
    <2>2. WorkerRests'
        BY <2>1 DEF WorkerRests, At, Others, Procs
    <2> QED
        BY <1>1, <2>2, ControlStep
<1>2. CASE UNCHANGED vars
    <2>1. TypeOK'
        BY <1>2 DEF vars, desiredVars, runtimeVars, coreVars, lockVars, workerVars,
                    boundVars, Control, TypeOK
    <2> QED
        BY <1>2, <2>1, QuietKept
        DEF vars, runtimeVars, coreVars, lockVars, workerVars, Control, Configured,
            WorkerRests, At
<1> QED
    BY <1>1, <1>2, ControlCalls, ControlBoot, ControlCore, ControlWorker, CrashResets
    DEF Next

\* Every variable keeps its type: in particular the core is never given
\* anything but a checked configuration or what a killed run had left.
THEOREM RlTypeCorrect == Spec => []TypeOK
<1>1. Init => Control /\ WorkerRests
    BY ControlInit, RestingIsLocal DEF Init, WorkerRests, At, Procs
<1>2. Control => TypeOK
    BY DEF Control
<1> QED
    BY <1>1, <1>2, ControlNext, PTL DEF Spec

\* No two operations are in their critical sections at once: an operation is
\* between its locks exactly while it holds them.
THEOREM GuardsExclusive == Spec => []Locked
<1>1. Init => Control /\ WorkerRests
    BY ControlInit, RestingIsLocal DEF Init, WorkerRests, At, Procs
<1>2. Control => Locked
    BY DEF Control
<1> QED
    BY <1>1, <1>2, ControlNext, PTL DEF Spec

-----------------------------------------------------------------------------
(* The product and the promoted snapshot.                                  *)

\* Between two writes that belong together.
Writing(p) == proc[p].pc \in {"publish", "unpublish"}

\* What p knows of the product: what it has restored, what it could restore,
\* and what it is about to give to the core.
KnowsProduct(p) ==
    /\ At(p, "unpublish") => product = proc[p].saved.product
    /\ proc[p].op = "change_core" /\ Leased(p) /\ proc[p].saved.promoted # NoSnap
           => proc[p].saved.product = proc[p].saved.promoted.cfg
    /\ proc[p].pc \in {"apply", "restart", "applied"} => promoted = proc[p].snap

ProductTrue ==
    /\ (\A p \in Procs : ~ Writing(p)) /\ promoted # NoSnap => product = promoted.cfg
    /\ \A p \in Procs : KnowsProduct(p)

\* Only the operation with both locks writes the product or promotes.
LEMMA ProductKept ==
    ASSUME Control, ProductTrue, NEW p \in Procs, Others(p), KnowsProduct(p)',
           UNCHANGED <<product, promoted>> \/ gate = p,
           ~ Writing(p)' /\ promoted' # NoSnap =>
               \/ product' = promoted'.cfg
               \/ UNCHANGED <<product, promoted>> /\ ~ Writing(p)
    PROVE  ProductTrue'
<1>1. ASSUME NEW q \in Procs, q # p PROVE KnowsProduct(q)'
    <2>1. CASE UNCHANGED <<product, promoted>>
        BY <1>1, <2>1 DEF ProductTrue, KnowsProduct, Others, At, Leased
    <2>2. CASE gate = p
        <3>1. ~ Gated(q) /\ proc'[q] = proc[q]
            BY <1>1, <2>2 DEF Control, Locked, Others
        <3> QED
            BY <3>1 DEF KnowsProduct, At, Leased, Gated, InLease
    <2> QED
        BY <2>1, <2>2
<1>2. ASSUME \A q \in Procs : ~ Writing(q)', promoted' # NoSnap
      PROVE  product' = promoted'.cfg
    <2>1. CASE UNCHANGED <<product, promoted>> /\ ~ Writing(p)
        <3>1. \A q \in Procs : ~ Writing(q)
            BY <1>2, <2>1 DEF Writing, Others
        <3> QED
            BY <1>2, <2>1, <3>1 DEF ProductTrue
    <2> QED
        BY <1>2, <2>1
<1> QED
    BY <1>1, <1>2 DEF ProductTrue

\* The end of an operation that has left both alone, or neither half written.
LEMMA ProductAtRest ==
    ASSUME NEW p \in Procs, proc'[p] = Resting
    PROVE  KnowsProduct(p)' /\ ~ Writing(p)'
BY RestingIsLocal DEF KnowsProduct, Writing, At, Leased, InLease

\* Nobody is in the middle of a write while the lease is free, or while the
\* operation that has both locks is not.
LEMMA NobodyWrites ==
    ASSUME Control, ProductTrue, promoted # NoSnap,
           lease = Free \/ \E p \in Procs : gate = p /\ ~ Writing(p)
    PROVE  product = promoted.cfg
<1>1. \A q \in Procs : ~ Writing(q)
    BY FreeAssumption DEF Control, Locked, Writing, Gated, Leased, InLease
<1> QED
    BY <1>1 DEF ProductTrue

\* Every step of an operation keeps the product true.
LEMMA ProductStep ==
    ASSUME Control, ProductTrue, NEW p \in Procs, Step(p) PROVE ProductTrue'
<1> USE DEF runtimeVars, lockVars
<1>0. TypeOK
    BY DEF Control
<1>1. CASE AcquireGate(p)
    <2>1. Moved(p, AfterGate(p)) /\ AfterGate(p) \in {"read", "lease"}
        BY <1>0, <1>1, Goes DEF AcquireGate, AfterGate, Steps
    <2>2. UNCHANGED <<product, promoted>> /\ ~ Writing(p)
        BY <1>1 DEF AcquireGate, At, Writing
    <2>3. proc[p].op \in Fallbacks => AfterGate(p) = "read"
        BY DEF AfterGate
    <2>4. KnowsProduct(p)'
        <3>1. proc'[p].op = "change_core" => ~ Leased(p)'
            BY <2>1 DEF Moved, AfterGate, Leased, At, InLease, Fallbacks
        <3> QED
            BY <2>1, <3>1 DEF Moved, KnowsProduct, At
    <2> QED
        BY <2>1, <2>2, <2>4, ProductKept DEF Moved
<1>2. CASE AcquireLease(p)
    <2>1. /\ Others(p) /\ proc'[p].pc \in {"promote", "read"}
          /\ proc'[p].saved = Captured
        BY <1>0, <1>2, Leases
    <2>2. UNCHANGED <<product, promoted>> /\ ~ Writing(p) /\ lease = Free
        BY <1>2 DEF AcquireLease, At, Writing
    <2>3. KnowsProduct(p)'
        BY <2>1, <2>2, NobodyWrites DEF KnowsProduct, At, Captured
    <2> QED
        BY <2>1, <2>2, <2>3, ProductKept
<1>3. CASE StartPromoted(p)
    <2>1. UNCHANGED <<product, promoted>> /\ ~ Writing(p)
        BY <1>3 DEF StartPromoted, At, Writing
    <2>2. CASE Finish(p)
        BY <1>0, <2>1, <2>2, Rests, ProductAtRest, ProductKept DEF Finish, Rested
    <2>3. CASE ~ Finish(p)
        <3>1. /\ Others(p) /\ proc'[p].pc = "restart" /\ proc'[p].op = "start"
              /\ proc'[p].snap = promoted
            BY <1>0, <1>3, <2>3, Starts
        <3>2. KnowsProduct(p)'
            BY <2>1, <3>1 DEF KnowsProduct, At
        <3> QED
            BY <2>1, <3>1, <3>2, ProductKept
    <2> QED
        BY <2>2, <2>3
<1>4. CASE PatchCore(p)
    <2>1. UNCHANGED <<product, promoted>> /\ ~ Writing(p) /\ proc[p].op = "patch"
        BY <1>4 DEF PatchCore, At, Writing
    <2>2. CASE lease' # p
        <3>1. Finish(p)
            BY <1>4, <2>2 DEF PatchCore
        <3> QED
            BY <1>0, <2>1, <3>1, Rests, ProductAtRest, ProductKept DEF Finish, Rested
    <2>3. CASE lease' = p
        <3>1. proc' = [proc EXCEPT ![p] = [@ EXCEPT !.pc = "read", !.saved = Captured]]
            BY <1>4, <2>3, FreeAssumption DEF PatchCore, Finish, Unlock
        <3>2. Others(p) /\ proc'[p].pc = "read" /\ proc'[p].op = "patch"
            BY <1>0, <2>1, <3>1, Captures DEF Steps
        <3>3. KnowsProduct(p)'
            BY <3>2 DEF KnowsProduct, At
        <3> QED
            BY <2>1, <3>2, <3>3, ProductKept
    <2> QED
        BY <2>2, <2>3
<1>5. CASE ReadInputs(p)
    <2>1. /\ Others(p) /\ proc'[p].pc = IF lease = p THEN "promote" ELSE "lease"
          /\ proc'[p].op = proc[p].op /\ proc'[p].saved = proc[p].saved
        BY <1>0, <1>5, Reads
    <2>2. /\ UNCHANGED <<product, promoted>> /\ ~ Writing(p) /\ proc[p].pc = "read"
        BY <1>5 DEF ReadInputs, At, Writing
    <2>3. proc[p].op = "change_core" /\ Leased(p)' => Leased(p)
        BY <2>1, <2>2 DEF Leased, At, InLease, Fallbacks
    <2>4. KnowsProduct(p)'
        BY <2>1, <2>2, <2>3 DEF KnowsProduct, ProductTrue, At
    <2> QED
        BY <2>1, <2>2, <2>4, ProductKept
<1>6. CASE Promote(p)
    <2>1. Moved(p, "publish") /\ gate = p /\ Leased(p) /\ UNCHANGED promoted
        BY <1>0, <1>6, Goes, GateOf
        DEF Promote, Steps, At, Control, Gated, Leased, InLease
    <2>2. KnowsProduct(p)' /\ Writing(p)'
        BY <2>1 DEF Moved, KnowsProduct, ProductTrue, At, Writing
    <2> QED
        BY <2>1, <2>2, ProductKept DEF Moved
<1>7. CASE Publish(p)
    <2>1. /\ gate = p /\ Leased(p) /\ product' = product
          /\ promoted' = proc[p].snap /\ product = proc[p].snap.cfg
        BY <1>7, GateOf
        DEF Publish, At, Control, Written, Gated, Leased, InLease
    <2>2. CASE AfterPublish(p) = "idle"
        BY <1>0, <1>7, <2>1, <2>2, Rests, ProductAtRest, ProductKept
        DEF Publish, Finish, Rested
    <2>3. CASE AfterPublish(p) # "idle"
        <3>1. Moved(p, AfterPublish(p)) /\ AfterPublish(p) \in {"apply", "restart"}
            BY <1>0, <1>7, <2>3, Goes DEF Publish, AfterPublish, Steps
        <3>2. KnowsProduct(p)'
            BY <2>1, <3>1 DEF Moved, KnowsProduct, ProductTrue, At
        <3> QED
            BY <2>1, <3>1, <3>2, ProductKept DEF Moved
    <2> QED
        BY <2>2, <2>3
<1>8. CASE Apply(p)
    <2>1. /\ Moved(p, "applied") /\ Leased(p) /\ UNCHANGED <<product, promoted>>
          /\ ~ Writing(p) /\ proc[p].pc = "apply"
        BY <1>0, <1>8, Goes DEF Apply, Steps, At, Leased, InLease, Writing
    <2>2. KnowsProduct(p)'
        BY <2>1 DEF Moved, KnowsProduct, ProductTrue, At
    <2> QED
        BY <2>1, <2>2, ProductKept DEF Moved
<1>9. CASE Restart(p)
    <2>1. /\ UNCHANGED <<product, promoted>> /\ Leased(p)
          /\ ~ Writing(p) /\ proc[p].pc = "restart"
        BY <1>9 DEF Restart, At, Leased, InLease, Writing
    <2>2. CASE Finish(p)
        BY <1>0, <2>1, <2>2, Rests, ProductAtRest, ProductKept DEF Finish, Rested
    <2>3. CASE Goto(p, "applied")
        <3>1. Moved(p, "applied")
            BY <1>0, <2>3, Goes DEF Steps
        <3>2. KnowsProduct(p)'
            BY <2>1, <3>1 DEF Moved, KnowsProduct, ProductTrue, At
        <3> QED
            BY <2>1, <3>1, <3>2, ProductKept DEF Moved
    <2> QED
        BY <1>9, <2>2, <2>3 DEF Restart
<1>10. CASE PublishApplied(p) \/ ReseedRestore(p)
    <2>1. UNCHANGED <<product, promoted>> /\ ~ Writing(p)
        BY <1>10 DEF PublishApplied, ReseedRestore, At, Writing
    <2>2. CASE proc' = [proc EXCEPT ![p] = Resting]
        BY <1>0, <2>1, <2>2, Rests, ProductAtRest, ProductKept DEF Rested
    <2>3. ASSUME NEW x \in {"reseed", "commit"}, Goto(p, x) PROVE ProductTrue'
        <3>1. Moved(p, x)
            BY <1>0, <2>3, Goes DEF Steps
        <3>2. KnowsProduct(p)'
            BY <2>3, <3>1 DEF Moved, KnowsProduct, At, Leased, InLease
        <3> QED
            BY <2>1, <3>1, <3>2, ProductKept DEF Moved
    <2> QED
        BY <1>10, <2>2, <2>3 DEF PublishApplied, ReseedRestore, Finish
<1>11. CASE ReseedCommit(p) \/ Compensate(p)
    <2>1. UNCHANGED <<product, promoted>> /\ ~ Writing(p) /\ Finish(p)
        BY <1>11 DEF ReseedCommit, Compensate, At, Writing
    <2> QED
        BY <1>0, <2>1, Rests, ProductAtRest, ProductKept DEF Finish, Rested
<1>12. CASE RestoreProduct(p)
    <2>1. /\ Moved(p, "unpublish") /\ gate = p /\ Leased(p) /\ UNCHANGED promoted
          /\ product' = proc[p].saved.product
        BY <1>0, <1>12, Goes, GateOf
        DEF RestoreProduct, Steps, At, Control, Gated, Leased, InLease
    <2>2. KnowsProduct(p)' /\ Writing(p)'
        BY <2>1 DEF Moved, KnowsProduct, ProductTrue, At, Writing
    <2> QED
        BY <2>1, <2>2, ProductKept DEF Moved
<1>13. CASE RestorePromoted(p)
    <2>1. /\ Others(p) /\ proc'[p].pc = "restart" /\ proc'[p].op = proc[p].op
          /\ proc'[p].snap = proc[p].saved.promoted
          /\ proc'[p].saved = proc[p].saved /\ promoted' = proc[p].saved.promoted
        BY <1>0, <1>13, Restores
    <2>2. /\ gate = p /\ Leased(p) /\ product' = product /\ proc[p].op = "change_core"
          /\ proc[p].pc = "unpublish"
        BY <1>13, GateOf
        DEF RestorePromoted, At, Control, Gated, Leased, InLease, Ordered, Shaped
    <2>3. product = proc[p].saved.product
        BY <2>2 DEF ProductTrue, KnowsProduct, At
    <2>4. proc[p].saved.promoted # NoSnap =>
              proc[p].saved.product = proc[p].saved.promoted.cfg
        BY <2>2 DEF ProductTrue, KnowsProduct
    <2>5. KnowsProduct(p)'
        BY <2>1, <2>2, <2>4 DEF KnowsProduct, At
    <2> QED
        BY <2>1, <2>2, <2>3, <2>4, <2>5, ProductKept
<1> QED
    BY <1>1, <1>2, <1>3, <1>4, <1>5, <1>6, <1>7, <1>8, <1>9, <1>10, <1>11, <1>12,
       <1>13 DEF Step

\* Where an operation goes after an error it knows no more than before.
LEMMA ProductError ==
    ASSUME Control, ProductTrue, NEW p \in Procs, OnError(p),
           proc[p].pc \in {"read", "promote", "apply", "restart"},
           UNCHANGED <<product, promoted>>
    PROVE  ProductTrue'
<1>1. /\ Others(p)
      /\ \/ proc'[p] = Resting
         \/ /\ proc'[p].pc \in {"read", "restore", "compensate"}
            /\ proc'[p].op = proc[p].op /\ proc'[p].saved = proc[p].saved
            /\ proc[p].op \notin Fallbacks
    BY ErrorsKept
<1>2. ~ Writing(p)
    BY DEF Writing
<1>3. CASE proc'[p] = Resting
    BY <1>1, <1>2, <1>3, ProductAtRest, ProductKept
<1>4. CASE proc'[p] # Resting
    <2>1. Leased(p)
        BY <1>1, <1>4 DEF Leased, At, InLease
    <2>2. KnowsProduct(p)'
        BY <1>1, <1>4, <2>1 DEF KnowsProduct, ProductTrue, At
    <2> QED
        BY <1>1, <1>2, <2>2, ProductKept
<1> QED
    BY <1>3, <1>4

\* The operation is over and neither half of the pair has changed.
LEMMA ProductOver ==
    ASSUME Control, ProductTrue, NEW p \in Procs, ~ Writing(p), Finish(p),
           UNCHANGED <<product, promoted>>
    PROVE  ProductTrue'
BY Rests, ProductAtRest, ProductKept DEF Control, Finish, Rested

\* A step that fails keeps it.
LEMMA ProductTrouble ==
    ASSUME "readback" \notin Faults, Control, ProductTrue,
           NEW p \in Procs, Trouble(p)
    PROVE  ProductTrue'
<1>1. UNCHANGED <<product, promoted>> /\ ~ Writing(p)
    BY DEF Trouble, BuildFails, ApplyFails, RestartFails, RestoreFails,
           CompensateFails, SaveFails, runtimeVars, Fail, At, Writing
<1>2. CASE BuildFails(p) \/ ApplyFails(p) \/ RestartFails(p)
    BY <1>1, <1>2, ProductError DEF BuildFails, ApplyFails, RestartFails, At
<1>3. CASE RestoreFails(p) \/ CompensateFails(p) \/ SaveFails(p)
    BY <1>1, <1>3, ProductOver DEF RestoreFails, CompensateFails, SaveFails
<1> QED
    BY <1>2, <1>3 DEF Trouble

\* A process begins an operation.
LEMMA ProductBegins ==
    ASSUME ProductTrue, NEW p \in Procs, NEW o, NEW w, Begun(p, o, w),
           At(p, "idle"), UNCHANGED <<product, promoted>>
    PROVE  ProductTrue'
<1>1. \A q \in Procs : (Writing(q)' <=> Writing(q)) /\ KnowsProduct(q)'
    <2> SUFFICES ASSUME NEW q \in Procs
                 PROVE  (Writing(q)' <=> Writing(q)) /\ KnowsProduct(q)'
        OBVIOUS
    <2>1. CASE q = p
        BY <2>1 DEF Begun, Writing, KnowsProduct, At, Leased, InLease
    <2>2. CASE q # p
        BY <2>2 DEF Begun, Others, Writing, ProductTrue, KnowsProduct, At, Leased
    <2> QED
        BY <2>1, <2>2
<1> QED
    BY <1>1 DEF ProductTrue

\* Steps that touch neither product nor promoted keep it.
LEMMA ProductQuiet ==
    ASSUME ProductTrue, UNCHANGED <<proc, product, promoted>> PROVE ProductTrue'
BY DEF ProductTrue, Writing, KnowsProduct, At, Leased

\* The steps of everything but the operations.
LEMMA Surroundings ==
    ASSUME Control, WorkerRests,
           \/ Calls \/ BootStep \/ RestartCore \/ CoreDies \/ RecoverCore
           \/ CommitProfile \/ RequestRebuild \/ WorkerLoop
           \/ Deactivate \/ Signal \/ ShutdownDone
    PROVE  /\ UNCHANGED <<runtimeVars, lockVars>>
           /\ \/ UNCHANGED proc
              \/ \E p \in Procs, o \in AllOps \cup {"regenerate", "existing",
                                                    "default", "start"},
                    w \in Cores \cup (0 .. MaxMode) :
                    /\ At(p, "idle") /\ Begun(p, o, w) /\ UNCHANGED coreVars
<1> USE DEF desiredVars, runtimeVars, coreVars, lockVars, workerVars, boundVars
<1>0. 0 \in 0 .. MaxMode /\ 1 .. MaxMode \subseteq 0 .. MaxMode /\ TypeOK
    BY BoundsAssumption DEF Control
<1>1. CASE Calls
    <2>1. PICK p \in Clients, o \in Ops, w \in Cores \cup (0 .. MaxMode) : Call(p, o, w)
        BY <1>0, <1>1 DEF Calls
    <2>2. p \in Procs /\ o \in AllOps
        BY OpsAssumption DEF Procs
    <2>3. Begun(p, o, w) /\ At(p, "idle")
        BY <1>0, <2>1, <2>2, Begins DEF Call
    <2> QED
        BY <2>1, <2>2, <2>3 DEF Call
<1>2. CASE BootStep
    <2>1. Boot \in Procs
        BY DEF Procs
    <2>2. CASE UNCHANGED proc
        BY <1>2, <2>2 DEF BootStep
    <2>3. CASE ~ UNCHANGED proc
        <3>1. PICK o \in {"regenerate", "existing", "default", "start"} : Start(Boot, o, 0)
            BY <1>2, <2>3 DEF BootStep
        <3>2. Begun(Boot, o, 0) /\ At(Boot, "idle")
            BY <1>0, <1>2, <2>1, <3>1, Begins DEF BootStep
        <3> QED
            BY <1>0, <1>2, <2>1, <3>2 DEF BootStep
    <2> QED
        BY <2>2, <2>3
<1>3. CASE WorkerDrain
    <2>1. Worker \in Procs /\ "rebuild" \in AllOps /\ At(Worker, "idle")
        BY <1>3 DEF Procs, AllOps, WorkerRests, WorkerDrain
    <2>2. Begun(Worker, "rebuild", 0)
        BY <1>0, <1>3, <2>1, Begins DEF WorkerDrain
    <2> QED
        BY <1>0, <1>3, <2>1, <2>2 DEF WorkerDrain
<1>4. CASE RestartCore \/ CoreDies \/ RecoverCore
    BY <1>4 DEF RestartCore, CoreDies, RecoverCore
<1>5. CASE CommitProfile \/ RequestRebuild \/ Deactivate \/ Signal \/ ShutdownDone
    BY <1>5 DEF CommitProfile, RequestRebuild, Deactivate, Signal, ShutdownDone
<1>6. CASE WorkerReceive \/ WorkerWake \/ WorkerDone \/ WorkerStop
    BY <1>6 DEF WorkerReceive, WorkerWake, WorkerDone, WorkerStop
<1> QED
    BY <1>1, <1>2, <1>3, <1>4, <1>5, <1>6 DEF WorkerLoop

\* Every step keeps the product true.
LEMMA ProductNext ==
    ASSUME "readback" \notin Faults
    PROVE  Control /\ WorkerRests /\ ProductTrue /\ [Next]_vars => ProductTrue'
<1> SUFFICES ASSUME Control, WorkerRests, ProductTrue, [Next]_vars PROVE ProductTrue'
    OBVIOUS
<1>1. ASSUME NEW p \in Procs, Step(p) \/ Trouble(p) PROVE ProductTrue'
    BY <1>1, ProductStep, ProductTrouble
<1>2. CASE \/ Calls \/ BootStep \/ RestartCore \/ CoreDies \/ RecoverCore
           \/ CommitProfile \/ RequestRebuild \/ WorkerLoop
           \/ Deactivate \/ Signal \/ ShutdownDone
    <2>1. UNCHANGED <<product, promoted>>
        BY <1>2, Surroundings DEF runtimeVars
    <2> QED
        BY <1>2, <2>1, Surroundings, ProductBegins, ProductQuiet
<1>3. CASE Crash
    <2>1. promoted' = NoSnap /\ \A p \in Procs : proc'[p] = Resting
        BY <1>3 DEF Crash
    <2> QED
        BY <2>1, ProductAtRest DEF ProductTrue
<1>4. CASE UNCHANGED vars
    BY <1>4, ProductQuiet DEF vars, runtimeVars
<1> QED
    BY <1>1, <1>2, <1>3, <1>4 DEF Next

\* Unless the product cannot be read back after it was written, the snapshot
\* the read commands show is what the product file holds, for any number of
\* callers, through failed checks, patches and rolled back core switches.
THEOREM PromotedIsTheProduct ==
    ASSUME "readback" \notin Faults PROVE Spec => []ProductIsPromoted
<1>1. Init => Control /\ WorkerRests
    BY ControlInit, RestingIsLocal DEF Init, WorkerRests, At, Procs
<1>2. Init => ProductTrue
    <2> SUFFICES ASSUME Init PROVE ProductTrue
        OBVIOUS
    <2>1. promoted = NoSnap /\ \A p \in Procs : proc[p] = Resting
        BY DEF Init
    <2> QED
        BY <2>1, RestingIsLocal DEF ProductTrue, KnowsProduct, At, Leased, InLease
<1>3. Control /\ ProductTrue => ProductIsPromoted
    BY NobodyWrites DEF ProductIsPromoted
<1> QED
    BY <1>1, <1>2, <1>3, ControlNext, ProductNext, PTL DEF Spec

-----------------------------------------------------------------------------
(* The core and the applied snapshot.                                      *)

\* p has given the core something that is not the applied snapshot yet.
Touching(p) == At(p, "applied") \/ (proc[p].op = "patch" /\ Leased(p))

\* What p has captured of Applied is still so, and what it is about to publish
\* as Applied is what the core was given.
KnowsCore(p) ==
    /\ Leased(p) /\ proc[p].op # "start" =>
           /\ proc[p].saved.applied = applied
           /\ proc[p].saved.promoted = NoSnap => applied = NoSnap
    /\ At(p, "applied") => core.cfg = proc[p].snap.cfg

Settled == core.up /\ ~ doubt /\ applied # NoSnap => core.cfg = applied.cfg

CoreTrue ==
    /\ ~ recovering
    /\ promoted = NoSnap => applied = NoSnap
    /\ (\A p \in Procs : ~ Touching(p)) => Settled
    /\ \A p \in Procs : KnowsCore(p)

\* Only the operation with the gate gives the core anything.
LEMMA CoreKept ==
    ASSUME Control, CoreTrue, NEW p \in Procs, Others(p), UNCHANGED recovering,
           promoted' = NoSnap => applied' = NoSnap, KnowsCore(p)',
           UNCHANGED <<applied, core, doubt>> \/ gate = p,
           \/ Touching(p)' \/ Settled'
           \/ UNCHANGED <<applied, core, doubt>> /\ ~ Touching(p)
    PROVE  CoreTrue'
<1>1. ASSUME NEW q \in Procs, q # p PROVE KnowsCore(q)'
    <2>1. CASE UNCHANGED <<applied, core, doubt>>
        BY <1>1, <2>1 DEF CoreTrue, KnowsCore, Others, At, Leased
    <2>2. CASE gate = p
        <3>1. ~ Gated(q) /\ proc'[q] = proc[q]
            BY <1>1, <2>2 DEF Control, Locked, Others
        <3> QED
            BY <3>1 DEF KnowsCore, At, Leased, Gated, InLease
    <2> QED
        BY <2>1, <2>2
<1>2. ASSUME \A q \in Procs : ~ Touching(q)' PROVE Settled'
    <2>1. CASE UNCHANGED <<applied, core, doubt>> /\ ~ Touching(p)
        <3>1. \A q \in Procs : ~ Touching(q)
            BY <1>2, <2>1 DEF Touching, Others, At, Leased
        <3> QED
            BY <2>1, <3>1 DEF CoreTrue, Settled
    <2> QED
        BY <1>2, <2>1
<1> QED
    BY <1>1, <1>2 DEF CoreTrue

\* Between operations the applied snapshot is what runs.
LEMMA CoreAtRest ==
    ASSUME NEW p \in Procs, proc'[p] = Resting PROVE KnowsCore(p)'
BY RestingIsLocal DEF KnowsCore, At, Leased, InLease

\* The end of an operation that has left the core, or a core nobody asks about.
LEMMA CoreOver ==
    ASSUME Control, CoreTrue, NEW p \in Procs, Finish(p),
           UNCHANGED <<recovering, promoted, applied>>,
           UNCHANGED <<core, doubt>> \/ gate = p,
           \/ Settled'
           \/ UNCHANGED <<core, doubt>> /\ ~ Touching(p)
    PROVE  CoreTrue'
<1>1. Others(p) /\ proc'[p] = Resting
    BY Rests DEF Control, Finish, Rested
<1>2. promoted' = NoSnap => applied' = NoSnap
    BY DEF CoreTrue
<1> QED
    BY <1>1, <1>2, CoreAtRest, CoreKept

\* An operation goes on under the locks it has, without touching the core.
LEMMA CoreGoesOn ==
    ASSUME Control, CoreTrue, NEW p \in Procs, NEW x \in Steps \ {"applied"}, Moved(p, x),
           UNCHANGED <<recovering, applied, core, doubt>>,
           promoted' = NoSnap => applied' = NoSnap,
           Leased(p)' <=> Leased(p), ~ At(p, "applied")
    PROVE  CoreTrue'
<1>1. KnowsCore(p)'
    BY DEF CoreTrue, KnowsCore, Moved, At
<1>2. Touching(p)' <=> Touching(p)
    BY DEF Touching, Moved, At
<1> QED
    BY <1>1, <1>2, CoreKept DEF Moved

\* The first half of an operation: everything up to publishing Promoted.
LEMMA CoreBuild ==
    ASSUME Control, CoreTrue, NEW p \in Procs,
           \/ AcquireGate(p) \/ AcquireLease(p) \/ StartPromoted(p)
           \/ ReadInputs(p) \/ Promote(p) \/ Publish(p)
    PROVE  CoreTrue'
<1> USE DEF runtimeVars, lockVars, coreVars
<1>0. TypeOK
    BY DEF Control
<1>1. CASE AcquireGate(p)
    <2>1. /\ Moved(p, AfterGate(p)) /\ AfterGate(p) \in {"read", "lease"} /\ At(p, "gate")
          /\ UNCHANGED <<promoted, applied, core, doubt, recovering>>
        BY <1>0, <1>1, Goes DEF AcquireGate, AfterGate, Steps
    <2>2. ~ Leased(p)' /\ ~ Leased(p)
        BY <2>1 DEF Moved, AfterGate, Leased, At, InLease, Fallbacks
    <2>3. "read" \in Steps \ {"applied"} /\ "lease" \in Steps \ {"applied"}
        BY DEF Steps
    <2>4. ~ At(p, "applied") /\ (promoted' = NoSnap => applied' = NoSnap)
        BY <2>1 DEF At, CoreTrue
    <2> QED
        BY <2>1, <2>2, <2>3, <2>4, CoreGoesOn
<1>2. CASE AcquireLease(p)
    <2>1. /\ Others(p) /\ proc'[p].pc \in {"promote", "read"}
          /\ proc'[p].saved = Captured /\ proc'[p].op = proc[p].op
        BY <1>0, <1>2, Leases
    <2>2. /\ UNCHANGED <<promoted, applied, core, doubt, recovering>> /\ ~ Touching(p)
        BY <1>2 DEF AcquireLease, At, Touching, Leased, InLease
    <2>3. KnowsCore(p)'
        BY <2>1, <2>2 DEF KnowsCore, CoreTrue, At, Captured
    <2> QED
        BY <2>1, <2>2, <2>3, CoreKept DEF CoreTrue
<1>3. CASE StartPromoted(p)
    <2>1. /\ UNCHANGED <<promoted, applied, core, doubt, recovering>> /\ ~ Touching(p)
        BY <1>3 DEF StartPromoted, At, Touching, Leased, InLease
    <2>2. CASE Finish(p)
        BY <2>1, <2>2, CoreOver
    <2>3. CASE ~ Finish(p)
        <3>1. /\ Others(p) /\ proc'[p].pc = "restart" /\ proc'[p].op = "start"
            BY <1>0, <1>3, <2>3, Starts
        <3>2. KnowsCore(p)'
            BY <3>1 DEF KnowsCore, At
        <3> QED
            BY <2>1, <3>1, <3>2, CoreKept DEF CoreTrue
    <2> QED
        BY <2>2, <2>3
<1>4. CASE ReadInputs(p)
    <2>1. /\ Others(p) /\ proc'[p].pc = IF lease = p THEN "promote" ELSE "lease"
          /\ proc'[p].op = proc[p].op /\ proc'[p].saved = proc[p].saved
        BY <1>0, <1>4, Reads
    <2>2. UNCHANGED <<promoted, applied, core, doubt, recovering>> /\ proc[p].pc = "read"
        BY <1>4 DEF ReadInputs, At
    <2>3. Leased(p)' <=> Leased(p)
        BY <2>1, <2>2 DEF Leased, At, InLease, Control, Locked
    <2>4. KnowsCore(p)' /\ (Touching(p)' <=> Touching(p))
        BY <2>1, <2>2, <2>3 DEF KnowsCore, CoreTrue, At, Touching
    <2> QED
        BY <2>1, <2>2, <2>4, CoreKept DEF CoreTrue
<1>5. CASE Promote(p)
    <2>1. /\ Moved(p, "publish") /\ At(p, "promote")
          /\ UNCHANGED <<promoted, applied, core, doubt, recovering>>
        BY <1>0, <1>5, Goes DEF Promote, Steps
    <2>2. Leased(p)' /\ Leased(p) /\ ~ At(p, "applied")
        BY <2>1 DEF Moved, Leased, At, InLease
    <2>3. "publish" \in Steps \ {"applied"} /\ (promoted' = NoSnap => applied' = NoSnap)
        BY <2>1 DEF Steps, CoreTrue
    <2> QED
        BY <2>1, <2>2, <2>3, CoreGoesOn
<1>6. CASE Publish(p)
    <2>1. /\ At(p, "publish") /\ promoted' = proc[p].snap /\ promoted' # NoSnap
          /\ UNCHANGED <<applied, core, doubt, recovering>>
        BY <1>6, SnapFields DEF Publish, Control, Ordered, Shaped, At
    <2>2. CASE AfterPublish(p) = "idle"
        <3>1. Others(p) /\ proc'[p] = Resting /\ ~ Touching(p)
            BY <1>0, <1>6, <2>1, <2>2, Rests
            DEF Publish, Finish, Rested, Touching, At, AfterPublish
        <3> QED
            BY <2>1, <3>1, CoreAtRest, CoreKept
    <2>3. CASE AfterPublish(p) # "idle"
        <3>1. Moved(p, AfterPublish(p)) /\ AfterPublish(p) \in {"apply", "restart"}
            BY <1>0, <1>6, <2>3, Goes DEF Publish, AfterPublish, Steps
        <3>2. Leased(p)' /\ Leased(p) /\ ~ At(p, "applied")
            BY <2>1, <3>1 DEF Moved, Leased, At, InLease
        <3>3. AfterPublish(p) \in Steps \ {"applied"}
            BY <3>1 DEF Steps
        <3> QED
            BY <2>1, <3>1, <3>2, <3>3, CoreGoesOn
    <2> QED
        BY <2>2, <2>3
<1> QED
    BY <1>1, <1>2, <1>3, <1>4, <1>5, <1>6

\* At "restart" the product is what p has promoted, or p restores a product of
\* which no snapshot was known.
LEMMA RestartProduct ==
    ASSUME Control, ProductTrue, NEW p \in Procs, At(p, "restart")
    PROVE  /\ gate = p /\ Leased(p) /\ promoted = proc[p].snap
           /\ proc[p].snap # NoSnap => product = proc[p].snap.cfg
<1>1. Gated(p) /\ Leased(p) /\ ~ Writing(p)
    BY DEF Gated, Leased, At, InLease, Writing
<1>2. gate = p
    BY <1>1, GateOf DEF Control
<1>3. promoted = proc[p].snap
    BY DEF ProductTrue, KnowsProduct, At
<1> QED
    BY <1>1, <1>2, <1>3, NobodyWrites

\* The second half: the core is given the product, and Applied is published.
LEMMA CoreGiven ==
    ASSUME Control, ProductTrue, CoreTrue, NEW p \in Procs,
           \/ PatchCore(p) \/ Apply(p) \/ Restart(p) \/ PublishApplied(p)
    PROVE  CoreTrue'
<1> USE DEF runtimeVars, coreVars
<1>0. TypeOK
    BY DEF Control
<1>1. CASE PatchCore(p)
    <2>1. /\ UNCHANGED <<promoted, applied, recovering>> /\ proc[p].op = "patch"
          /\ ~ Touching(p) /\ gate = p
        BY <1>1, GateOf DEF PatchCore, At, Touching, Leased, InLease, Gated, Control
    <2>2. CASE lease' # p
        <3>1. Finish(p) /\ (UNCHANGED <<core, doubt>> \/ doubt' = TRUE)
            BY <1>1, <2>2 DEF PatchCore
        <3> QED
            BY <2>1, <3>1, CoreOver DEF Settled
    <2>3. CASE lease' = p
        <3>1. proc' = [proc EXCEPT ![p] = [@ EXCEPT !.pc = "read", !.saved = Captured]]
            BY <1>1, <2>3, FreeAssumption DEF PatchCore, Finish, Unlock
        <3>2. /\ Others(p) /\ proc'[p].pc = "read" /\ proc'[p].op = "patch"
              /\ proc'[p].saved = Captured
            BY <1>0, <2>1, <3>1, Captures DEF Steps
        <3>3. KnowsCore(p)'
            BY <2>1, <3>2 DEF KnowsCore, At, Captured, CoreTrue
        <3>4. Touching(p)'
            BY <3>2 DEF Touching, Leased, At, Fallbacks
        <3> QED
            BY <2>1, <3>2, <3>3, <3>4, CoreKept DEF CoreTrue
    <2> QED
        BY <2>2, <2>3
<1>2. CASE Apply(p)
    <2>1. /\ Moved(p, "applied") /\ At(p, "apply") /\ core'.cfg = product
          /\ UNCHANGED <<promoted, applied, recovering>>
        BY <1>0, <1>2, Goes DEF Apply, Steps, TypeOK, Core
    <2>2. Leased(p) /\ gate = p
        BY <2>1, GateOf DEF At, Leased, InLease, Gated, Control
    <2>3. product = proc[p].snap.cfg
        BY <2>1 DEF Control, Written, At
    <2>4. KnowsCore(p)' /\ Touching(p)'
        BY <2>1, <2>2, <2>3 DEF KnowsCore, CoreTrue, At, Moved, Touching
    <2> QED
        BY <2>1, <2>2, <2>4, CoreKept DEF Moved, CoreTrue
<1>3. CASE Restart(p)
    <2>1. /\ At(p, "restart") /\ core'.cfg = product
          /\ UNCHANGED <<promoted, applied, recovering>>
        BY <1>3 DEF Restart, Running
    <2>2. /\ gate = p /\ Leased(p) /\ promoted = proc[p].snap
          /\ proc[p].snap # NoSnap => product = proc[p].snap.cfg
        BY <2>1, RestartProduct
    <2>3. CASE proc[p].stage = "restored" /\ proc[p].saved.promoted = NoSnap
        <3>1. proc[p].op # "start"
            BY <2>3 DEF Control, Ordered, Shaped
        <3>2. applied = NoSnap
            BY <2>2, <2>3, <3>1 DEF CoreTrue, KnowsCore
        <3>3. Finish(p) /\ Settled'
            BY <1>3, <2>1, <2>3, <3>2 DEF Restart, Settled
        <3> QED
            BY <2>1, <2>2, <3>3, CoreOver
    <2>4. CASE ~ (proc[p].stage = "restored" /\ proc[p].saved.promoted = NoSnap)
        <3>1. Moved(p, "applied")
            BY <1>0, <1>3, <2>4, Goes DEF Restart, Steps
        <3>2. proc[p].snap # NoSnap
            BY <2>1, <2>4, SnapFields DEF Control, Ordered, Shaped, At
        <3>3. KnowsCore(p)' /\ Touching(p)'
            BY <2>1, <2>2, <3>1, <3>2 DEF KnowsCore, CoreTrue, At, Moved, Touching
        <3> QED
            BY <2>1, <2>2, <3>1, <3>3, CoreKept DEF Moved, CoreTrue
    <2> QED
        BY <2>3, <2>4
<1>4. CASE PublishApplied(p)
    <2>1. /\ At(p, "applied") /\ UNCHANGED <<promoted, core, doubt, recovering>>
        BY <1>4 DEF PublishApplied
    <2>2. gate = p
        BY <2>1, GateOf DEF At, Gated, Control
    <2>3. promoted = proc[p].snap /\ core.cfg = proc[p].snap.cfg
        BY <2>1 DEF ProductTrue, KnowsProduct, CoreTrue, KnowsCore, At
    <2>4. applied' = promoted
        BY <1>4, <2>3 DEF PublishApplied
    <2>5. Settled' /\ (promoted' = NoSnap => applied' = NoSnap)
        BY <2>1, <2>3, <2>4 DEF Settled
    <2>6. CASE Finish(p)
        <3>1. Others(p) /\ proc'[p] = Resting
            BY <1>0, <2>6, Rests DEF Finish, Rested
        <3> QED
            BY <2>1, <2>2, <2>5, <3>1, CoreAtRest, CoreKept
    <2>7. CASE Goto(p, "reseed")
        <3>1. Moved(p, "reseed")
            BY <1>0, <2>7, Goes DEF Steps
        <3>2. KnowsCore(p)'
            BY <3>1 DEF Moved, KnowsCore, At, Leased, InLease
        <3> QED
            BY <2>1, <2>2, <2>5, <3>1, <3>2, CoreKept DEF Moved
    <2> QED
        BY <1>4, <2>6, <2>7 DEF PublishApplied
<1> QED
    BY <1>1, <1>2, <1>3, <1>4

\* The commit of a switch, and what is put back when an operation fails.
LEMMA CoreAfter ==
    ASSUME Control, CoreTrue, NEW p \in Procs,
           \/ ReseedRestore(p) \/ ReseedCommit(p)
           \/ RestoreProduct(p) \/ RestorePromoted(p) \/ Compensate(p)
    PROVE  CoreTrue'
<1> USE DEF runtimeVars, coreVars
<1>0. TypeOK
    BY DEF Control
<1>1. CASE ReseedRestore(p) \/ RestoreProduct(p)
    <2>1. /\ UNCHANGED <<promoted, applied, core, doubt, recovering>>
          /\ proc[p].pc \in {"reseed", "restore"}
        BY <1>1 DEF ReseedRestore, RestoreProduct, At
    <2>2. PICK x \in {"commit", "unpublish"} :
              /\ Goto(p, x)
              /\ x = "commit" <=> proc[p].pc = "reseed"
        BY <1>1 DEF ReseedRestore, RestoreProduct, At
    <2>3. Moved(p, x) /\ x \in Steps \ {"applied"}
        BY <1>0, <2>2, Goes DEF Steps
    <2>4. (Leased(p)' <=> Leased(p)) /\ ~ At(p, "applied")
        BY <2>1, <2>2, <2>3 DEF Moved, Leased, At, InLease
    <2>5. promoted' = NoSnap => applied' = NoSnap
        BY <2>1 DEF CoreTrue
    <2> QED
        BY <2>1, <2>3, <2>4, <2>5, CoreGoesOn
<1>2. CASE ReseedCommit(p)
    <2>1. /\ UNCHANGED <<promoted, applied, core, doubt, recovering>>
          /\ ~ Touching(p) /\ Finish(p)
        BY <1>2 DEF ReseedCommit, At, Touching, Leased, InLease
    <2> QED
        BY <2>1, CoreOver
<1>3. CASE RestorePromoted(p)
    <2>1. /\ Others(p) /\ proc'[p].pc = "restart" /\ proc'[p].op = proc[p].op
          /\ proc'[p].saved = proc[p].saved /\ promoted' = proc[p].saved.promoted
        BY <1>0, <1>3, Restores
    <2>2. /\ Leased(p) /\ proc[p].op = "change_core"
          /\ UNCHANGED <<applied, core, doubt, recovering>> /\ proc[p].pc = "unpublish"
        BY <1>3 DEF RestorePromoted, At, Leased, InLease, Control, Ordered, Shaped
    <2>3. promoted' = NoSnap => applied' = NoSnap
        BY <2>1, <2>2 DEF CoreTrue, KnowsCore
    <2>4. KnowsCore(p)' /\ ~ Touching(p)
        BY <2>1, <2>2 DEF CoreTrue, KnowsCore, At, Touching
    <2> QED
        BY <2>1, <2>2, <2>3, <2>4, CoreKept
<1>4. CASE Compensate(p)
    <2>1. /\ At(p, "compensate") /\ Finish(p) /\ UNCHANGED <<promoted, recovering>>
          /\ gate = p /\ Leased(p) /\ proc[p].op = "patch"
        BY <1>4, GateOf
        DEF Compensate, At, Leased, InLease, Gated, Control, Ordered, Shaped
    <2>2. applied = proc[p].saved.applied
        BY <2>1 DEF CoreTrue, KnowsCore
    <2>3. UNCHANGED applied /\ Settled'
        BY <1>0, <1>4, <2>2 DEF Compensate, FenceMatches, Settled, TypeOK, Core
    <2> QED
        BY <2>1, <2>3, CoreOver
<1> QED
    BY <1>1, <1>2, <1>3, <1>4

\* A failed patch is always compensated, unless only its save failed.
LEMMA PatchErrs ==
    ASSUME TypeOK, NEW p \in Procs, OnError(p), proc[p].op = "patch"
    PROVE  proc'[p].pc = "compensate" /\ proc'[p].op = "patch"
<1>1. Goto(p, "compensate")
    BY DEF OnError
<1> QED
    BY <1>1, Goes DEF Moved, Steps

\* A step fails that leaves the core as it was, down, or in doubt.
LEMMA CoreError ==
    ASSUME Control, CoreTrue, NEW p \in Procs, OnError(p),
           proc[p].pc \in {"read", "promote", "apply", "restart"},
           product' = product \/ lease = p,
           UNCHANGED <<promoted, applied, recovering>>,
           Settled' \/ UNCHANGED <<core, doubt>>
    PROVE  CoreTrue'
<1>1. /\ Others(p)
      /\ \/ proc'[p] = Resting
         \/ /\ proc'[p].pc \in {"read", "restore", "compensate"}
            /\ proc'[p].op = proc[p].op /\ proc'[p].saved = proc[p].saved
            /\ proc[p].op \notin Fallbacks
    BY ErrorsKept
<1>2. gate = p
    BY GateOf DEF Control, Gated, InLease
<1>3. KnowsCore(p)'
    <2>1. CASE proc'[p] = Resting
        BY <2>1, CoreAtRest
    <2>2. CASE proc'[p] # Resting
        <3>1. Leased(p)
            BY <1>1, <2>2 DEF Leased, At, InLease
        <3> QED
            BY <1>1, <2>2, <3>1 DEF CoreTrue, KnowsCore, At
    <2> QED
        BY <2>1, <2>2
<1>4. Touching(p)' \/ ~ Touching(p)
    BY PatchErrs DEF Control, Touching, Leased, InLease, At
<1>5. promoted' = NoSnap => applied' = NoSnap
    BY DEF CoreTrue
<1> QED
    BY <1>1, <1>2, <1>3, <1>4, <1>5, CoreKept

\* A step that fails keeps what is known of the core.
LEMMA CoreTrouble ==
    ASSUME "save" \notin Faults, Control, CoreTrue, NEW p \in Procs, Trouble(p)
    PROVE  CoreTrue'
<1> USE DEF runtimeVars, coreVars
<1>1. CASE BuildFails(p)
    <2>1. product' = product \/ lease = p
        BY <1>1, GateOf DEF BuildFails, At, Leased, InLease, Control
    <2> QED
        BY <1>1, <2>1, CoreError DEF BuildFails
<1>2. CASE ApplyFails(p) \/ RestartFails(p)
    <2>1. Settled' \/ UNCHANGED <<core, doubt>>
        <3>1. ~ [core EXCEPT !.up = FALSE].up
            BY DEF Control, TypeOK, Core
        <3> QED
            BY <1>2, <3>1 DEF ApplyFails, RestartFails, Settled
    <2> QED
        BY <1>2, <2>1, CoreError DEF ApplyFails, RestartFails, At
<1>3. CASE RestoreFails(p)
    <2>1. ~ Touching(p)
        BY <1>3 DEF RestoreFails, At, Touching, Control, Ordered, Shaped
    <2> QED
        BY <1>3, <2>1, CoreOver DEF RestoreFails
<1>4. CASE CompensateFails(p)
    <2>1. gate = p /\ Settled'
        BY <1>4, GateOf DEF CompensateFails, Settled, Gated, InLease, At, Control
    <2> QED
        BY <1>4, <2>1, CoreOver DEF CompensateFails
<1> QED
    BY <1>1, <1>2, <1>3, <1>4 DEF Trouble, SaveFails, Fail

\* A process begins an operation.
LEMMA CoreBegins ==
    ASSUME CoreTrue, NEW p \in Procs, NEW o, NEW w, Begun(p, o, w), At(p, "idle"),
           UNCHANGED <<promoted, applied, core, doubt, recovering>>
    PROVE  CoreTrue'
<1>1. \A q \in Procs : (Touching(q)' <=> Touching(q)) /\ KnowsCore(q)'
    <2> SUFFICES ASSUME NEW q \in Procs
                 PROVE  (Touching(q)' <=> Touching(q)) /\ KnowsCore(q)'
        OBVIOUS
    <2>1. CASE q = p
        BY <2>1 DEF Begun, Touching, KnowsCore, At, Leased, InLease
    <2>2. CASE q # p
        BY <2>2 DEF Begun, Others, Touching, CoreTrue, KnowsCore, At, Leased
    <2> QED
        BY <2>1, <2>2
<1> QED
    BY <1>1 DEF CoreTrue, Settled

\* Steps that do not touch the core keep it.
LEMMA CoreQuiet ==
    ASSUME CoreTrue, UNCHANGED <<proc, promoted, applied, core, doubt, recovering>>
    PROVE  CoreTrue'
BY DEF CoreTrue, Settled, Touching, KnowsCore, At, Leased

\* Every step keeps what is known of the core.
LEMMA CoreNext ==
    ASSUME "save" \notin Faults, Outside = {}
    PROVE  Control /\ WorkerRests /\ ProductTrue /\ CoreTrue /\ [Next]_vars => CoreTrue'
<1> SUFFICES ASSUME Control, WorkerRests, ProductTrue, CoreTrue, [Next]_vars
             PROVE  CoreTrue'
    OBVIOUS
<1>1. ASSUME NEW p \in Procs, Step(p) \/ Trouble(p) PROVE CoreTrue'
    BY <1>1, CoreBuild, CoreGiven, CoreAfter, CoreTrouble DEF Step
<1>2. CASE \/ Calls \/ BootStep \/ RestartCore \/ CoreDies \/ RecoverCore
           \/ CommitProfile \/ RequestRebuild \/ WorkerLoop
           \/ Deactivate \/ Signal \/ ShutdownDone
    <2>1. UNCHANGED <<core, doubt, recovering>>
        <3>1. ~ RestartCore /\ ~ CoreDies /\ ~ RecoverCore
            BY DEF RestartCore, CoreDies, RecoverCore, CoreTrue
        <3>2. CASE Calls \/ BootStep \/ CommitProfile \/ RequestRebuild
            BY <3>2 DEF Calls, Call, BootStep, CommitProfile, RequestRebuild, coreVars
        <3>3. CASE WorkerLoop
            BY <3>3 DEF WorkerLoop, WorkerReceive, WorkerWake, WorkerDrain,
                        WorkerDone, WorkerStop, coreVars
        <3>4. CASE Deactivate \/ Signal \/ ShutdownDone
            BY <3>4 DEF Deactivate, Signal, ShutdownDone, coreVars
        <3> QED
            BY <1>2, <3>1, <3>2, <3>3, <3>4
    <2>2. UNCHANGED <<promoted, applied>>
        BY <1>2, Surroundings DEF runtimeVars
    <2> QED
        BY <1>2, <2>1, <2>2, Surroundings, CoreBegins, CoreQuiet
<1>3. CASE Crash
    <2>1. /\ ~ recovering' /\ applied' = NoSnap /\ \A p \in Procs : proc'[p] = Resting
        BY <1>3 DEF Crash
    <2> QED
        BY <2>1, CoreAtRest DEF CoreTrue, Settled
<1>4. CASE UNCHANGED vars
    BY <1>4, CoreQuiet DEF vars, runtimeVars, coreVars
<1> QED
    BY <1>1, <1>2, <1>3, <1>4 DEF Next

\* Both snapshots are true of what they are named for: Promoted of the product
\* file, and Applied of the core between operations, on which running-core
\* patches base their compensation.  The hypotheses are the three ways the code
\* has of losing track: a product that cannot be read back after it was written,
\* a patch whose save fails after the core has taken it, and CoreManager
\* starting the core on the product without the gate.
THEOREM SnapshotsAreTrue ==
    ASSUME "readback" \notin Faults, "save" \notin Faults, Outside = {}
    PROVE  Spec => []SnapshotsTrue
<1>1. Init => Control /\ WorkerRests
    BY ControlInit, RestingIsLocal DEF Init, WorkerRests, At, Procs
<1>2. Init => ProductTrue /\ CoreTrue
    <2> SUFFICES ASSUME Init PROVE ProductTrue /\ CoreTrue
        OBVIOUS
    <2>1. /\ promoted = NoSnap /\ applied = NoSnap /\ ~ recovering
          /\ \A p \in Procs : proc[p] = Resting
        BY DEF Init
    <2>2. ProductTrue
        BY <2>1, RestingIsLocal DEF ProductTrue, KnowsProduct, At, Leased, InLease
    <2>3. CoreTrue
        BY <2>1, RestingIsLocal DEF CoreTrue, Settled, KnowsCore, At, Leased, InLease
    <2> QED
        BY <2>2, <2>3
<1>3. Control /\ ProductTrue /\ CoreTrue => SnapshotsTrue
    <2> SUFFICES ASSUME Control, ProductTrue, CoreTrue PROVE SnapshotsTrue
        OBVIOUS
    <2>1. ProductIsPromoted
        BY NobodyWrites DEF ProductIsPromoted
    <2>2. ASSUME gate = Free, lease = Free PROVE \A p \in Procs : ~ Touching(p)
        BY <2>2, FreeAssumption DEF Control, Locked, Gated, Touching, At
    <2>3. RunningIsApplied
        BY <2>2 DEF RunningIsApplied, CoreTrue, Settled
    <2> QED
        BY <2>1, <2>3 DEF SnapshotsTrue
<1> QED
    BY <1>1, <1>2, <1>3, ControlNext, ProductNext, CoreNext, PTL DEF Spec
=============================================================================
