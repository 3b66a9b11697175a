------------------------- MODULE LegacyVerge_proofs -------------------------
(***************************************************************************)
(* Proofs about LegacyVerge for every sequence of domains, every set of    *)
(* fields and coupled domains, and every bound on writes, operations,      *)
(* failures and crashes.                                                   *)
(*                                                                         *)
(* The invariant Inv has four parts.  TypeOK and InPhase say where an      *)
(* operation can be.  MirrorsCurrent, Reprojected and OwnSaved explain why *)
(* the legacy image and its file are right whenever they are looked at.    *)
(* Fenced says what a version fence is worth: a state read or written at a *)
(* version is still there as long as the version is.  Planned and          *)
(* TokenPlaced follow the caller's value from the plan to the domains that *)
(* hold it.                                                                *)
(***************************************************************************)
EXTENDS LegacyVerge, TLAPS

\* The reading s of domain d was true at its version, and is so still unless
\* the version has moved on.
Seen(s, d) ==
    /\ typed[d].ver >= s[d].ver
    /\ typed[d].ver = s[d].ver => typed[d].val = s[d].val

-----------------------------------------------------------------------------
\* The operation of a phase, and a pass that has still a domain to visit.
InPhase ==
    /\ phase \in {"mutate", "mutated", "desired", "restore", "before",
                  "project", "after"} => route = "effects"
    /\ phase = "base" => route # "effects"
    /\ phase \in {"before", "after"} => todo # <<>>

\* A mirror still to be applied is that of the committed state.
MirrorsCurrent == \A d \in Domains : Busy(d) => mirror[d].val = typed[d].val

\* The reprojection of a mutation: what was read was true when it was read, and
\* a domain that has not moved since, or was looked at again, is shown.
Reprojected ==
    /\ phase \in {"before", "project", "after"} =>
          \A d \in Domains :
             (phase = "before" /\ d \in Range(todo)) \/ Seen(base, d)
    /\ phase = "after" => \A d \in Domains :
          /\ ~ Busy(d)
          /\ d \notin Range(todo) \/ typed[d].ver = base[d].ver
          => legacy.dom[d] = typed[d].val

\* The legacy-only fields are saved, and in the legacy-first part of a mutation
\* they are whatever has been reported before.
OwnSaved == (~ uncertain \/ phase \in Mutating) => file.own = legacy.own

-----------------------------------------------------------------------------
Saga == {"commit", "compensate"}

\* Snapshots are true at their version; so is what the saga wrote.
Fenced ==
    /\ phase \in {"snap"} \cup Saga =>
          \A d \in Domains :
             (phase = "snap" /\ d \in Range(todo)) \/ Seen(snap, d)
    /\ phase \in Saga => \A c \in Range(committed) :
          /\ typed[c[1]].ver >= c[2]
          /\ typed[c[1]].ver = c[2] => typed[c[1]].val = Forward(c[1])
    /\ phase \notin {"idle"} \cup Saga => committed = <<>>

\* The plan sets what the caller named, and nothing but.
Planned ==
    /\ phase \in {"restore", "before", "project", "after"} =>
          \A d \in Domains : \A f \in plan[d].set : plan[d].val[f] # prev.dom[d][f]
    /\ phase \in {"snap"} \cup Saga =>
          /\ \A d \in Domains : \A f \in plan[d].set :
                Named(d, f) \/ (d \in Coupled /\ \E g \in Fields : Named(d, g))
          /\ route # "effects" => \A d \in Domains, f \in Fields :
                <<d, f>> \in payload => f \in plan[d].set /\ plan[d].val[f] = token

\* Where the caller's value may be.
Holds(d) == \E f \in Fields : typed[d].val[f] = token
TokenPlaced ==
    /\ phase \notin {"idle"} \cup Saga => \A d \in Domains : ~ Holds(d)
    /\ phase # "idle" => \A d \in Domains, f \in Fields :
          base[d].val[f] # token /\ snap[d].val[f] # token
    /\ phase \in Saga => \A d \in Domains :
          Holds(d) => \/ \E c \in Range(committed) : c[1] = d
                      \/ (phase = "compensate" /\ d \in failed)
    /\ phase = "commit" /\ route # "effects" =>
          \A d \in Domains, f \in Fields :
             <<d, f>> \in payload => d \in Range(todo) \/ typed[d].val[f] >= token

-----------------------------------------------------------------------------
\* The first domain of a pass and those after it.
LEMMA HeadTail ==
    ASSUME NEW S, NEW s \in Seq(S), s # <<>>
    PROVE  /\ Head(s) \in S /\ Tail(s) \in Seq(S)
           /\ Len(s) \in Nat /\ Len(s) >= 1 /\ Len(Tail(s)) = Len(s) - 1
           /\ Range(s) = {Head(s)} \cup Range(Tail(s))
           /\ Len(s) > 1 => Tail(s) # <<>>
           /\ Len(s) = 1 => Range(Tail(s)) = {}
<1>1. /\ Len(s) \in Nat /\ Len(s) >= 1 /\ DOMAIN s = 1 .. Len(s) /\ Head(s) = s[1]
      /\ Head(s) \in S /\ Tail(s) \in Seq(S) /\ Len(Tail(s)) = Len(s) - 1
  OBVIOUS
<1>2. /\ DOMAIN Tail(s) = 1 .. (Len(s) - 1)
      /\ \A i \in 1 .. (Len(s) - 1) : Tail(s)[i] = s[i + 1]
  BY <1>1
<1>3. \A i \in DOMAIN s : i = 1 \/ i - 1 \in DOMAIN Tail(s)
  BY <1>1, <1>2
<1>4. \A i \in DOMAIN s : s[i] \in {Head(s)} \cup Range(Tail(s))
  BY <1>1, <1>2, <1>3 DEF Range
<1>5. \A i \in DOMAIN Tail(s) : Tail(s)[i] \in Range(s)
  BY <1>1, <1>2 DEF Range
<1>6. ASSUME Len(s) > 1 PROVE Tail(s) # <<>>
  <2>1. 1 \in DOMAIN Tail(s) /\ DOMAIN <<>> = {}
    BY <1>1, <1>2, <1>6
  <2> QED
    BY <2>1
<1>7. Len(s) = 1 => Range(Tail(s)) = {}
  BY <1>1, <1>2 DEF Range
<1> QED
  BY <1>1, <1>4, <1>5, <1>6, <1>7 DEF Range

\* The last committed domain and those before it.
LEMMA LastFront ==
    ASSUME NEW S, NEW s \in Seq(S), s # <<>>
    PROVE  /\ Last(s) \in S /\ Front(s) \in Seq(S)
           /\ Range(s) = {Last(s)} \cup Range(Front(s))
<1>1. Len(s) \in Nat /\ Len(s) >= 1 /\ DOMAIN s = 1 .. Len(s)
  OBVIOUS
<1>2. /\ Front(s) \in Seq(S) /\ DOMAIN Front(s) = 1 .. (Len(s) - 1)
      /\ \A i \in 1 .. (Len(s) - 1) : Front(s)[i] = s[i]
  BY <1>1 DEF Front
<1>3. \A i \in DOMAIN s : i = Len(s) \/ i \in DOMAIN Front(s)
  BY <1>1, <1>2
<1> QED
  BY <1>1, <1>2, <1>3 DEF Range, Last

\* A domain that is appended to those committed.
LEMMA AppendRange ==
    ASSUME NEW S, NEW s \in Seq(S), NEW x \in S
    PROVE  Append(s, x) \in Seq(S) /\ Range(Append(s, x)) = Range(s) \cup {x}
<1>1. /\ Len(s) \in Nat /\ DOMAIN s = 1 .. Len(s) /\ Append(s, x) \in Seq(S)
      /\ DOMAIN Append(s, x) = 1 .. (Len(s) + 1)
  OBVIOUS
<1>2. /\ \A i \in 1 .. Len(s) : Append(s, x)[i] = s[i]
      /\ Append(s, x)[Len(s) + 1] = x
  OBVIOUS
<1> QED
  BY <1>1, <1>2 DEF Range

\* Nothing is left in an empty pass.
LEMMA EmptyRange == Range(<<>>) = {}
  BY DEF Range

\* The domain whose overrides a replacement reads.
LEMMA LastOfOrder == Last(Order) \in Domains /\ <<Last(Order)>> \in Seq(Domains)
<1>1. Last(Order) \in Domains
  BY OrderAssumption, LastFront
<1> QED
  BY <1>1

-----------------------------------------------------------------------------
\* Values only grow.
LEMMA ValuesGrow ==
    ASSUME TypeOK, writes' \in {writes, writes + 1}
    PROVE  /\ Value \subseteq Value' /\ State \subseteq State'
           /\ Image \subseteq Image' /\ Versioned \subseteq Versioned'
           /\ Plan \subseteq Plan' /\ Mirror \subseteq Mirror'
           /\ writes \in Nat /\ writes' \in Value'
<1>1. writes \in Nat /\ writes' \in Nat /\ Value \subseteq Value' /\ writes' \in Value'
  BY BoundsAssumption DEF TypeOK, Value
<1>2. State \subseteq State'
  BY <1>1 DEF State
<1>3. Image \subseteq Image'
  BY <1>1, <1>2 DEF Image
<1>4. Versioned \subseteq Versioned' /\ Plan \subseteq Plan' /\ Mirror \subseteq Mirror'
  BY <1>2 DEF Versioned, Plan, Mirror
<1> QED
  BY <1>1, <1>2, <1>3, <1>4

\* A swap keeps the types of the actors.
LEMMA ReplaceType ==
    ASSUME TypeOK, writes' \in {writes, writes + 1},
           NEW d \in Domains, NEW v \in Nat, NEW x \in State',
           NEW by \in {"direct", "saga"}, Replace(d, v, x, by)
    PROVE  typed' \in [Domains -> Versioned'] /\ mirror' \in [Domains -> Mirror']
<1>1. [ver |-> v + 1, val |-> x] \in Versioned' /\ [by |-> by, val |-> x] \in Mirror'
  BY DEF Versioned, Mirror
<1>2. typed \in [Domains -> Versioned'] /\ mirror \in [Domains -> Mirror']
  BY ValuesGrow DEF TypeOK
<1> QED
  BY <1>1, <1>2 DEF Replace

\* NoImage is no image.
LEMMA NoImageOutside == NoImage \notin Image
  BY DEF NoImage, Image, Value

\* The states the saga handles.
LEMMA ForwardType ==
    ASSUME TypeOK, NEW d \in Domains
    PROVE  Forward(d) \in State /\ snap[d].val \in State /\ typed[d].val \in State
           /\ base[d].val \in State /\ plan[d].val \in State /\ plan[d].set \subseteq Fields
<1>1. /\ snap[d].val \in State /\ typed[d].val \in State /\ base[d].val \in State
      /\ plan[d].val \in State /\ plan[d].set \subseteq Fields
  BY DEF TypeOK, Versioned, Plan
<1> QED
  BY <1>1 DEF Forward, State

\* While nothing is written the sets of values stay the same.
LEMMA SameValues ==
    ASSUME writes' = writes
    PROVE  /\ Value' = Value /\ State' = State /\ Image' = Image
           /\ Versioned' = Versioned /\ Plan' = Plan /\ Mirror' = Mirror
BY DEF Value, State, Image, Versioned, Plan, Mirror

\* The initial state has its types.
LEMMA TypeInit == Init => TypeOK /\ InPhase
<1> SUFFICES ASSUME Init PROVE TypeOK /\ InPhase
  OBVIOUS
<1>1. Zero \in State /\ 0 \in Value /\ Value = {0}
  BY DEF Init, Zero, State, Value
<1>2. Start \in [Domains -> Versioned]
  BY <1>1 DEF Start, Versioned
<1>3. legacy \in Image /\ file \in Image /\ prev \in Image
  BY <1>1 DEF Init, Image
<1>4. NoPlan \in [Domains -> Plan]
  BY <1>1 DEF NoPlan, Plan, Zero
<1>5. Nobody \in Mirror
  BY <1>1 DEF Nobody, Mirror, Zero
<1>6. committed \in Seq(Domains \X Nat) /\ todo \in Seq(Domains)
  BY DEF Init
<1>7. /\ typed \in [Domains -> Versioned] /\ base \in [Domains -> Versioned]
      /\ snap \in [Domains -> Versioned] /\ mirror \in [Domains -> Mirror]
      /\ plan \in [Domains -> Plan]
  BY <1>2, <1>4, <1>5 DEF Init
<1>8. /\ draft \in (IF phase = "mutated" THEN Image ELSE {NoImage}) /\ phase \in Phases
      /\ route \in Routes \cup {"none"} /\ payload \subseteq (Domains \X Fields)
      /\ token \in Value /\ failed \subseteq (Domains \cup {"legacy"})
      /\ result \in {"none", "ok", "error", "partial"} /\ uncertain \in BOOLEAN
  BY <1>1 DEF Init, Phases
<1>9. /\ writes \in 0 .. MaxWrites /\ ops \in 0 .. MaxOps
      /\ failures \in 0 .. MaxFailures /\ crashes \in 0 .. MaxCrashes
  BY BoundsAssumption DEF Init
<1>10. InPhase
  BY DEF Init, InPhase
<1> QED
  BY <1>3, <1>6, <1>7, <1>8, <1>9, <1>10 DEF TypeOK

\* A Get of the next domain.
LEMMA GetType ==
    ASSUME TypeOK, Get
    PROVE  /\ Head(todo) \in Domains /\ todo' \in Seq(Domains)
           /\ Len(todo) \in Nat /\ Len(todo) >= 1 /\ (Len(todo) > 1 => todo' # <<>>)
           /\ WithAnswer(base) \in [Domains -> Versioned]
           /\ WithAnswer(snap) \in [Domains -> Versioned]
<1>1. todo \in Seq(Domains) /\ todo # <<>>
  BY DEF TypeOK, Get
<1>2. /\ Head(todo) \in Domains /\ Tail(todo) \in Seq(Domains)
      /\ Len(todo) \in Nat /\ Len(todo) >= 1 /\ Len(Tail(todo)) = Len(todo) - 1
  BY <1>1, HeadTail
<1>3. Len(todo) > 1 => Tail(todo) # <<>>
  BY <1>1, HeadTail
<1>4. /\ typed \in [Domains -> Versioned] /\ base \in [Domains -> Versioned]
      /\ snap \in [Domains -> Versioned]
  BY DEF TypeOK
<1>5. /\ WithAnswer(base) \in [Domains -> Versioned]
      /\ WithAnswer(snap) \in [Domains -> Versioned]
  BY <1>2, <1>4 DEF WithAnswer
<1> QED
  BY <1>2, <1>3, <1>5 DEF Get

\* Every step keeps the types.
LEMMA TypeStep == TypeOK /\ InPhase /\ Next => TypeOK' /\ InPhase'
<1> SUFFICES ASSUME TypeOK, InPhase, Next PROVE TypeOK' /\ InPhase'
  OBVIOUS
<1> USE DEF actorVars, legacyVars, opVars, sagaVars, boundVars, Phases
<1>0. <<>> \in Seq(Domains)
  OBVIOUS
<1>1. ASSUME NEW d \in Domains, ApplyMirror(d) PROVE TypeOK' /\ InPhase'
  <2>1. mirror[d].val \in State /\ Nobody \in Mirror
    <3>1. 0 \in Value
      BY <1>1, ValuesGrow DEF ApplyMirror, Value
    <3> QED
      BY <3>1 DEF TypeOK, Mirror, Nobody, State
  <2>2. legacy \in Image /\ Projected(legacy, d, mirror[d].val) \in Image
    <3>1. legacy \in Image /\ legacy # NoImage
      BY NoImageOutside DEF TypeOK
    <3> QED
      BY <2>1, <3>1 DEF Projected, Image
  <2>3. Projected(draft, d, mirror[d].val)
           \in (IF phase = "mutated" THEN Image ELSE {NoImage})
    <3>1. CASE phase = "mutated"
      <4>1. draft \in Image /\ draft # NoImage
        BY <3>1, NoImageOutside DEF TypeOK
      <4> QED
        BY <2>1, <3>1, <4>1 DEF Projected, Image
    <3>2. CASE phase # "mutated"
      BY <3>2 DEF TypeOK, Projected
    <3> QED
      BY <3>1, <3>2
  <2> QED
    BY <1>1, <2>1, <2>2, <2>3, SameValues DEF ApplyMirror, TypeOK, InPhase
<1>2. ASSUME NEW d \in Domains, NEW changed \in SUBSET Fields, DirectWrite(d, changed)
      PROVE  TypeOK' /\ InPhase'
  <2>1. typed[d].ver \in Nat /\ typed[d].val \in State
    BY DEF TypeOK, Versioned
  <2>2. [f \in Fields |-> IF f \in changed THEN writes + 1 ELSE typed[d].val[f]] \in State'
    BY <1>2, <2>1, ValuesGrow DEF DirectWrite, State
  <2>3. typed' \in [Domains -> Versioned'] /\ mirror' \in [Domains -> Mirror']
    BY <1>2, <2>1, <2>2, ReplaceType DEF DirectWrite
  <2>4. writes' \in 0 .. MaxWrites
    BY <1>2, BoundsAssumption DEF DirectWrite, TypeOK
  <2> QED
    BY <1>2, <2>3, <2>4, ValuesGrow DEF DirectWrite, TypeOK, InPhase
<1>3. ASSUME NEW r \in Routes, NEW changed \in SUBSET (Domains \X Fields), Begin(r, changed)
      PROVE  TypeOK' /\ InPhase'
  <2>1. todo' \in Seq(Domains)
    BY <1>3, LastOfOrder, OrderAssumption DEF Begin
  <2>2. writes' \in 0 .. MaxWrites /\ ops' \in 0 .. MaxOps /\ token' \in Value'
    BY <1>3, BoundsAssumption, ValuesGrow DEF Begin, TypeOK
  <2>3. NoPlan \in [Domains -> Plan]
    <3>1. 0 \in Value
      BY <1>3, ValuesGrow DEF Begin, Value
    <3> QED
      BY <3>1 DEF NoPlan, Plan, State
  <2>4. committed' \in Seq(Domains \X Nat)
    BY <1>3 DEF Begin
  <2>5. payload' \subseteq (Domains \X Fields)
    BY <1>3 DEF Begin
  <2> QED
    BY <1>3, <2>1, <2>2, <2>3, <2>4, <2>5, ValuesGrow DEF Begin, TypeOK, InPhase
<1>4. CASE ReadBase
  BY <1>4, GetType, SameValues DEF ReadBase, TypeOK, InPhase
<1>5. CASE MakePlan
  <2>1. PatchedBase \in [Domains -> State]
    BY ForwardType DEF PatchedBase, State, TypeOK
  <2>2. \A d \in Domains : PlanFor(d, PatchedBase) \in Plan
    BY <2>1 DEF PlanFor, Plan
  <2> QED
    BY <1>5, <2>2, SameValues, OrderAssumption DEF MakePlan, TypeOK, InPhase
<1>6. CASE ReadFail
  BY <1>6, SameValues, BoundsAssumption DEF ReadFail, Return, Fail, TypeOK, InPhase
<1>7. CASE MutateDraft
  <2>1. draft' \in Image
    <3>1. token \in Value /\ legacy.dom \in [Domains -> State]
      BY DEF TypeOK, Image
    <3>2. [d \in Domains |-> [f \in Fields |->
             IF <<d, f>> \in payload THEN token ELSE legacy.dom[d][f]]] \in [Domains -> State]
      BY <3>1 DEF State
    <3> QED
      BY <1>7, <3>1, <3>2 DEF MutateDraft, Image
  <2> QED
    BY <1>7, <2>1, SameValues DEF MutateDraft, TypeOK, InPhase
<1>8. CASE MutateDiscard
  BY <1>8, SameValues, BoundsAssumption DEF MutateDiscard, Return, Fail, TypeOK, InPhase
<1>9. CASE MutateApply
  <2>1. phase' \in {"idle", "desired"} /\ todo' \in Seq(Domains)
    BY <1>0, <1>9 DEF MutateApply, Return, TypeOK
  <2>2. failures' \in 0 .. MaxFailures
    BY <1>9, BoundsAssumption DEF MutateApply, Fail, TypeOK
  <2>3. /\ legacy' \in Image /\ file' \in Image /\ draft' = NoImage
        /\ result' \in {"none", "ok", "error", "partial"} /\ uncertain' \in BOOLEAN
    BY <1>9 DEF MutateApply, Return, TypeOK
  <2>4. route = "effects"
    BY <1>9 DEF MutateApply, InPhase
  <2> QED
    BY <1>9, <2>1, <2>2, <2>3, <2>4, SameValues DEF MutateApply, TypeOK, InPhase
<1>10. CASE TakeDesired
  <2>1. plan' \in [Domains -> Plan]
    <3>1. legacy.dom \in [Domains -> State]
      BY DEF TypeOK, Image
    <3> QED
      BY <1>10, <3>1 DEF TakeDesired, Plan
  <2> QED
    BY <1>10, <2>1, SameValues DEF TakeDesired, TypeOK, InPhase
<1>11. CASE RestorePrevious
  <2>1. /\ phase' \in {"idle", "before"} /\ todo' \in Seq(Domains)
        /\ phase' = "before" => todo' # <<>>
    BY <1>0, <1>11, OrderAssumption DEF RestorePrevious, Return
  <2>2. failures' \in 0 .. MaxFailures
    BY <1>11, BoundsAssumption DEF RestorePrevious, Fail, TypeOK
  <2>3. /\ legacy' \in Image /\ file' \in Image /\ draft' = NoImage
        /\ result' \in {"none", "ok", "error", "partial"} /\ uncertain' \in BOOLEAN
    BY <1>11 DEF RestorePrevious, Return, TypeOK
  <2>4. route = "effects"
    BY <1>11 DEF RestorePrevious, InPhase
  <2> QED
    BY <1>11, <2>1, <2>2, <2>3, <2>4, SameValues DEF RestorePrevious, TypeOK, InPhase
<1>12. CASE RefreshBefore
  <2>1. /\ todo' \in Seq(Domains) /\ base' \in [Domains -> Versioned]
        /\ Len(todo) = 1 \/ todo' # <<>>
    <3>1. Get /\ base' = WithAnswer(base)
      BY <1>12 DEF RefreshBefore
    <3>2. /\ todo' \in Seq(Domains) /\ WithAnswer(base) \in [Domains -> Versioned]
          /\ Len(todo) \in Nat /\ Len(todo) >= 1 /\ (Len(todo) > 1 => todo' # <<>>)
      BY <3>1, GetType
    <3>3. Len(todo) = 1 \/ Len(todo) > 1
      BY <3>2
    <3> QED
      BY <3>1, <3>2, <3>3
  <2> QED
    BY <1>12, <2>1, SameValues DEF RefreshBefore, TypeOK, InPhase
<1>13. CASE RefreshProject
  <2>1. legacy' \in Image
    <3>1. legacy \in Image /\ [d \in Domains |-> base[d].val] \in [Domains -> State]
      BY ForwardType DEF TypeOK
    <3> QED
      BY <1>13, <3>1 DEF RefreshProject, Image
  <2> QED
    BY <1>13, <2>1, SameValues, OrderAssumption DEF RefreshProject, TypeOK, InPhase
<1>14. CASE RefreshAfter
  <2>1. todo \in Seq(Domains) /\ todo # <<>>
    BY <1>14 DEF RefreshAfter, InPhase, TypeOK
  <2>2. /\ todo' \in Seq(Domains) /\ phase' \in {"before", "after", "snap"}
        /\ phase' # "snap" => todo' # <<>>
    <3>1. Tail(todo) \in Seq(Domains) /\ (Len(todo) > 1 => Tail(todo) # <<>>)
      BY <2>1, HeadTail
    <3>2. phase = "after" /\ Order \in Seq(Domains) /\ Order # <<>>
      BY <1>14, OrderAssumption DEF RefreshAfter
    <3>3. \/ phase' = "before" /\ todo' = Order
          \/ phase' = phase /\ todo' = Tail(todo) /\ Len(todo) > 1
          \/ phase' = "snap" /\ todo' = Order
      BY <1>14 DEF RefreshAfter
    <3> QED
      BY <3>1, <3>2, <3>3
  <2>3. plan' \in [Domains -> Plan]
    <3>1. \A d \in Domains : [f \in Fields |-> IF f \in plan[d].set
             THEN plan[d].val[f] ELSE base[d].val[f]] \in State
      BY ForwardType DEF State
    <3> QED
      BY <1>14, <3>1 DEF RefreshAfter, Plan, TypeOK
  <2> QED
    BY <1>14, <2>2, <2>3, SameValues DEF RefreshAfter, TypeOK, InPhase
<1>15. CASE ReadSnapshot
  BY <1>15, GetType, SameValues DEF ReadSnapshot, TypeOK, InPhase
<1>16. CASE PrepareAll
  <2>1. /\ phase' \in {"idle", "commit"} /\ todo' \in Seq(Domains)
        /\ result' \in {"none", "ok", "error", "partial"}
    BY <1>16, OrderAssumption DEF PrepareAll, Return, TypeOK
  <2>2. failures' \in 0 .. MaxFailures
    BY <1>16, BoundsAssumption DEF PrepareAll, Fail, TypeOK
  <2> QED
    BY <1>16, <2>1, <2>2, SameValues DEF PrepareAll, TypeOK, InPhase
<1>17. CASE SkipDomain
  BY <1>17, HeadTail, SameValues DEF SkipDomain, TypeOK, InPhase
<1>18. CASE CommitDomain
  <2>1. todo \in Seq(Domains) /\ todo # <<>> /\ Head(todo) \in Domains /\ Tail(todo) \in Seq(Domains)
    BY <1>18, HeadTail DEF CommitDomain, TypeOK
  <2>2. snap[Head(todo)].ver \in Nat /\ Forward(Head(todo)) \in State
    BY <2>1, ForwardType DEF TypeOK, Versioned
  <2>3. typed' \in [Domains -> Versioned'] /\ mirror' \in [Domains -> Mirror']
    BY <1>18, <2>1, <2>2, ReplaceType, SameValues DEF CommitDomain
  <2>4. committed' \in Seq(Domains \X Nat)
    BY <1>18, <2>1, <2>2, AppendRange DEF CommitDomain, TypeOK
  <2> QED
    BY <1>18, <2>1, <2>3, <2>4, SameValues DEF CommitDomain, TypeOK, InPhase
<1>19. CASE CommitRefused
  BY <1>19, SameValues, BoundsAssumption DEF CommitRefused, Fail, TypeOK, InPhase
<1>20. CASE Finalize
  <2>1. FinalImage \in Image
    BY DEF FinalImage, Image, TypeOK
  <2> QED
    BY <1>20, <2>1, SameValues DEF Finalize, Return, TypeOK, InPhase
<1>21. CASE FinalizeFail
  BY <1>21, SameValues, BoundsAssumption DEF FinalizeFail, Fail, TypeOK, InPhase
<1>22. CASE Compensate
  <2>1. Last(committed) \in Domains \X Nat /\ Front(committed) \in Seq(Domains \X Nat)
    BY <1>22, LastFront DEF Compensate, TypeOK
  <2>2. /\ Last(committed)[1] \in Domains /\ Last(committed)[2] \in Nat
        /\ snap[Last(committed)[1]].val \in State
    BY <2>1, ForwardType
  <2>3. typed' \in [Domains -> Versioned'] /\ mirror' \in [Domains -> Mirror']
    BY <1>22, <2>2, ReplaceType, SameValues DEF Compensate
  <2> QED
    BY <1>22, <2>1, <2>3, SameValues DEF Compensate, TypeOK, InPhase
<1>23. CASE CompensateRefused
  <2>1. Last(committed) \in Domains \X Nat /\ Front(committed) \in Seq(Domains \X Nat)
    BY <1>23, LastFront DEF CompensateRefused, TypeOK
  <2> QED
    BY <1>23, <2>1, SameValues, BoundsAssumption
       DEF CompensateRefused, Fail, TypeOK, InPhase
<1>24. CASE CompensateDone
  BY <1>24, SameValues DEF CompensateDone, Return, TypeOK, InPhase
<1>25. CASE Crash
  <2>1. typed' \in [Domains -> Versioned]
    BY <1>25, ForwardType DEF Crash, Versioned
  <2>2. legacy' \in Image
    <3>1. file.own \in Value /\ [d \in Domains |-> typed[d].val] \in [Domains -> State]
      BY ForwardType DEF TypeOK, Image
    <3> QED
      BY <1>25, <3>1 DEF Crash, Image
  <2>3. mirror' \in [Domains -> Mirror]
    <3>1. 0 \in Value
      BY <1>25, ValuesGrow DEF Crash, Value
    <3> QED
      BY <1>25, <3>1 DEF Crash, Nobody, Mirror, State
  <2>4. todo' \in Seq(Domains) /\ crashes' \in 0 .. MaxCrashes
    BY <1>25, BoundsAssumption DEF Crash, TypeOK
  <2> QED
    BY <1>25, <2>1, <2>2, <2>3, <2>4, SameValues DEF Crash, TypeOK, InPhase
<1> QED
  BY <1>1, <1>2, <1>3, <1>4, <1>5, <1>6, <1>7, <1>8, <1>9, <1>10, <1>11, <1>12, <1>13,
     <1>14, <1>15, <1>16, <1>17, <1>18, <1>19, <1>20, <1>21, <1>22, <1>23, <1>24, <1>25
     DEF Next, Bridge

-----------------------------------------------------------------------------
\* What a swap does, to its domain and to the others.
LEMMA Replaced ==
    ASSUME TypeOK, NEW d \in Domains, NEW v \in Nat, NEW x,
           NEW by \in {"direct", "saga"}, Replace(d, v, x, by)
    PROVE  /\ ~ Busy(d) /\ typed[d].ver = v
           /\ typed'[d].ver = v + 1 /\ typed'[d].val = x
           /\ mirror'[d].by = by /\ mirror'[d].val = x
           /\ \A e \in Domains \ {d} : typed'[e] = typed[e] /\ mirror'[e] = mirror[e]
  BY DEF Replace, TypeOK

\* What a step other than a crash does to one actor.
ActorStep(d) ==
    \/ typed'[d] = typed[d] /\ mirror'[d] = mirror[d]
    \/ typed'[d] = typed[d] /\ ApplyMirror(d) /\ mirror'[d].by = "none"
    \/ /\ typed'[d].ver = typed[d].ver + 1 /\ ~ Busy(d)
       /\ mirror'[d].by # "none" /\ mirror'[d].val = typed'[d].val
       /\ UNCHANGED legacyVars

\* Every step but a crash is such a step for every actor.
LEMMA ActorSteps ==
    ASSUME TypeOK, InPhase, Next, ~ Crash, NEW d \in Domains
    PROVE  ActorStep(d)
<1> USE DEF actorVars, legacyVars
<1>1. ASSUME NEW e \in Domains, NEW v \in Nat, NEW x, NEW by \in {"direct", "saga"},
             Replace(e, v, x, by), UNCHANGED legacyVars
      PROVE  ActorStep(d)
  <2>1. CASE e = d
    BY <1>1, <2>1, Replaced DEF ActorStep
  <2>2. CASE e # d
    BY <1>1, <2>2, Replaced DEF ActorStep
  <2> QED
    BY <2>1, <2>2
<1>2. ASSUME NEW e \in Domains, ApplyMirror(e) PROVE ActorStep(d)
  BY <1>2 DEF ActorStep, ApplyMirror, TypeOK, Nobody
<1>3. ASSUME NEW e \in Domains, NEW changed \in SUBSET Fields, DirectWrite(e, changed)
      PROVE  ActorStep(d)
  <2>1. typed[e].ver \in Nat
    BY DEF TypeOK, Versioned
  <2> QED
    BY <1>1, <1>3, <2>1 DEF DirectWrite
<1>4. CASE CommitDomain
  <2>1. Head(todo) \in Domains /\ snap[Head(todo)].ver \in Nat
    BY <1>4, HeadTail DEF CommitDomain, TypeOK, Versioned
  <2> QED
    BY <1>1, <1>4, <2>1 DEF CommitDomain
<1>5. CASE Compensate
  <2>1. Last(committed) \in Domains \X Nat
    BY <1>5, LastFront DEF Compensate, TypeOK
  <2>2. Last(committed)[1] \in Domains /\ Last(committed)[2] \in Nat
    BY <2>1
  <2> QED
    BY <1>1, <1>5, <2>2 DEF Compensate
<1>6. ASSUME UNCHANGED actorVars PROVE ActorStep(d)
  BY <1>6 DEF ActorStep
<1>7. Bridge => CommitDomain \/ Compensate \/ UNCHANGED actorVars
  BY DEF Bridge, Begin, ReadBase, MakePlan, ReadFail, MutateDraft, MutateDiscard,
         MutateApply, TakeDesired, RestorePrevious, RefreshBefore, RefreshProject,
         RefreshAfter, ReadSnapshot, PrepareAll, SkipDomain, CommitRefused, Finalize,
         FinalizeFail, CompensateRefused, CompensateDone
<1> QED
  BY <1>2, <1>3, <1>4, <1>5, <1>6, <1>7 DEF Next

\* A reading stays true of its version.
LEMMA SeenKept ==
    ASSUME TypeOK, InPhase, Next, ~ Crash, NEW d \in Domains,
           NEW s \in [Domains -> Versioned], Seen(s, d)
    PROVE  /\ typed'[d].ver >= s[d].ver
           /\ typed'[d].ver = s[d].ver => typed'[d].val = s[d].val
<1>1. typed[d].ver \in Nat /\ s[d].ver \in Nat
  BY DEF TypeOK, Versioned
<1>2. typed'[d] = typed[d] \/ typed'[d].ver = typed[d].ver + 1
  BY ActorSteps DEF ActorStep
<1> QED
  BY <1>1, <1>2 DEF Seen

\* A swap and its mirror go together.
LEMMA MirrorsStep == TypeOK /\ InPhase /\ Next /\ MirrorsCurrent => MirrorsCurrent'
<1> SUFFICES ASSUME TypeOK, InPhase, Next, MirrorsCurrent, NEW d \in Domains, Busy(d)'
             PROVE  mirror'[d].val = typed'[d].val
  BY DEF MirrorsCurrent
<1>1. CASE Crash
  BY <1>1 DEF Crash, Nobody, Busy
<1>2. CASE ~ Crash
  BY <1>2, ActorSteps DEF ActorStep, MirrorsCurrent, Busy
<1> QED
  BY <1>1, <1>2

\* Image and file get the same legacy-only fields, or a failure is reported.
LEMMA OwnStep == TypeOK /\ InPhase /\ Next /\ OwnSaved => OwnSaved'
<1> SUFFICES ASSUME TypeOK, InPhase, Next, OwnSaved PROVE OwnSaved'
  OBVIOUS
<1> USE DEF legacyVars, OwnSaved, Mutating
<1>1. ASSUME NEW d \in Domains, ApplyMirror(d) PROVE OwnSaved'
  <2>1. Projected(legacy, d, mirror[d].val).own = legacy.own
    BY DEF Projected, TypeOK, Image
  <2> QED
    BY <1>1, <2>1 DEF ApplyMirror
<1>2. ASSUME NEW d \in Domains, NEW changed \in SUBSET Fields, DirectWrite(d, changed)
      PROVE  OwnSaved'
  BY <1>2 DEF DirectWrite
<1>3. CASE RefreshProject
  <2>1. legacy'.own = legacy.own
    BY <1>3 DEF RefreshProject, TypeOK, Image
  <2> QED
    BY <1>3, <2>1 DEF RefreshProject
<1>4. CASE Crash
  BY <1>4 DEF Crash
<1>5. CASE MutateApply \/ RestorePrevious \/ RefreshAfter \/ ReadFail \/ Finalize
  BY <1>5 DEF MutateApply, RestorePrevious, RefreshAfter, ReadFail, Finalize, Return,
              FinalImage
<1>6. CASE Bridge /\ ~ (RefreshProject \/ MutateApply \/ RestorePrevious \/ RefreshAfter
                          \/ ReadFail \/ Finalize)
  BY <1>6 DEF Bridge, Begin, ReadBase, MakePlan, MutateDraft, MutateDiscard, TakeDesired,
         RefreshBefore, ReadSnapshot, PrepareAll, SkipDomain, CommitDomain, CommitRefused,
         FinalizeFail, Compensate, CompensateRefused, CompensateDone, Return
<1> QED
  BY <1>1, <1>2, <1>3, <1>4, <1>5, <1>6 DEF Next

\* Applying the mirror of e shows the state of e and leaves the others alone.
LEMMA MirrorApplied ==
    ASSUME TypeOK, MirrorsCurrent, NEW e \in Domains, ApplyMirror(e)
    PROVE  /\ legacy'.dom[e] = typed'[e].val
           /\ \A d \in Domains \ {e} : /\ legacy'.dom[d] = legacy.dom[d]
                                       /\ mirror'[d] = mirror[d]
           /\ typed' = typed
<1>1. legacy \in Image /\ legacy # NoImage
  BY NoImageOutside DEF TypeOK
<1>2. /\ Projected(legacy, e, mirror[e].val).dom[e] = mirror[e].val
      /\ \A d \in Domains \ {e} :
            Projected(legacy, e, mirror[e].val).dom[d] = legacy.dom[d]
  BY <1>1 DEF Projected, Image
<1> QED
  BY <1>2 DEF ApplyMirror, MirrorsCurrent, TypeOK

\* A pass starts with every domain.
LEMMA RangeOfOrder == Range(Order) = Domains
  BY DEF Domains

\* The part of Reprojected about what was read.
LEMMA ReadingsStep ==
    ASSUME TypeOK, InPhase, Next, Reprojected, NEW d \in Domains,
           phase' \in {"before", "project", "after"}
    PROVE  (phase' = "before" /\ d \in Range(todo')) \/ Seen(base, d)'
<1> USE DEF opVars, boundVars
<1>1. ASSUME phase \in {"before", "project", "after"}, ~ Crash, base' = base,
             ~ (phase = "before" /\ d \in Range(todo))
      PROVE  Seen(base, d)'
  BY <1>1, SeenKept DEF Reprojected, Seen, TypeOK
<1>2. CASE RestorePrevious
  BY <1>2, RangeOfOrder DEF RestorePrevious, Return
<1>3. CASE RefreshBefore
  <2>1. /\ base' = [base EXCEPT ![Head(todo)] = typed[Head(todo)]] /\ todo' = Tail(todo)
        /\ todo \in Seq(Domains) /\ todo # <<>> /\ typed' = typed /\ phase = "before"
        /\ phase' = IF Len(todo) = 1 THEN "project" ELSE "before"
    BY <1>3 DEF RefreshBefore, Get, WithAnswer, TypeOK, actorVars
  <2>2. /\ Range(todo) = {Head(todo)} \cup Range(todo')
        /\ Len(todo) = 1 => Range(todo') = {}
    BY <2>1, HeadTail
  <2>3. typed[d].ver \in Nat /\ base \in [Domains -> Versioned]
    BY DEF TypeOK, Versioned
  <2>4. CASE d = Head(todo)
    BY <2>1, <2>3, <2>4 DEF Seen
  <2>5. CASE d # Head(todo) /\ d \in Range(todo)
    BY <2>1, <2>2, <2>5
  <2>6. CASE d # Head(todo) /\ d \notin Range(todo)
    <3>1. Seen(base, d)
      BY <2>1, <2>6 DEF Reprojected
    <3> QED
      BY <2>1, <2>3, <2>6, <3>1 DEF Seen
  <2> QED
    BY <2>4, <2>5, <2>6
<1>4. CASE RefreshProject
  BY <1>1, <1>4 DEF RefreshProject, Crash, sagaVars
<1>5. CASE RefreshAfter
  <2>1. CASE phase' = "before"
    BY <1>5, <2>1, RangeOfOrder DEF RefreshAfter
  <2>2. CASE phase' # "before"
    BY <1>1, <1>5, <2>2 DEF RefreshAfter, Crash
  <2> QED
    BY <2>1, <2>2
<1>6. ASSUME NEW e \in Domains, ApplyMirror(e) PROVE Seen(base, d)' \/
             (phase' = "before" /\ d \in Range(todo'))
  BY <1>1, <1>6 DEF ApplyMirror, Crash, sagaVars
<1>7. ASSUME NEW e \in Domains, NEW changed \in SUBSET Fields, DirectWrite(e, changed)
      PROVE  Seen(base, d)' \/ (phase' = "before" /\ d \in Range(todo'))
  BY <1>1, <1>7 DEF DirectWrite, Crash, sagaVars
<1>8. ~ Crash /\ ~ ReadFail /\ ~ MutateDiscard /\ ~ MutateApply
  BY DEF Crash, ReadFail, MutateDiscard, MutateApply, Return
<1>9. ~ PrepareAll /\ ~ Finalize /\ ~ CompensateDone /\ ~ MakePlan /\ ~ ReadBase
      /\ ~ MutateDraft /\ ~ TakeDesired /\ ~ ReadSnapshot /\ ~ SkipDomain
      /\ ~ CommitDomain /\ ~ CommitRefused /\ ~ FinalizeFail /\ ~ Compensate
      /\ ~ CompensateRefused
  BY DEF PrepareAll, Finalize, CompensateDone, MakePlan, ReadBase, MutateDraft,
         TakeDesired, ReadSnapshot, SkipDomain, CommitDomain, CommitRefused,
         FinalizeFail, Compensate, CompensateRefused, Return
<1>10. ASSUME NEW r \in Routes, NEW changed \in SUBSET (Domains \X Fields)
       PROVE  ~ Begin(r, changed)
  BY DEF Begin
<1> QED
  BY <1>2, <1>3, <1>4, <1>5, <1>6, <1>7, <1>8, <1>9, <1>10 DEF Next, Bridge

\* The part of Reprojected about what the image shows.
LEMMA ShownStep ==
    ASSUME TypeOK, InPhase, Next, MirrorsCurrent, Reprojected, NEW d \in Domains,
           phase' = "after", ~ Busy(d)', d \notin Range(todo') \/ typed'[d].ver = base'[d].ver
    PROVE  legacy'.dom[d] = typed'[d].val
<1> USE DEF opVars, boundVars, sagaVars
<1>1. CASE RefreshProject
  <2>1. /\ legacy'.dom[d] = base[d].val /\ typed' = typed /\ base' = base
        /\ phase = "project" /\ todo' = Order
    BY <1>1 DEF RefreshProject, actorVars, TypeOK, Image
  <2>2. typed[d].ver = base[d].ver /\ Seen(base, d)
    BY <2>1, RangeOfOrder DEF Reprojected
  <2> QED
    BY <2>1, <2>2 DEF Seen
<1>2. CASE RefreshAfter
  <2>1. /\ todo \in Seq(Domains) /\ todo # <<>> /\ phase = "after" /\ todo' = Tail(todo)
        /\ typed' = typed /\ mirror' = mirror /\ legacy' = legacy /\ base' = base
        /\ typed[Head(todo)].ver = base[Head(todo)].ver
    BY <1>2 DEF RefreshAfter, InPhase, TypeOK, actorVars, legacyVars
  <2>2. Range(todo) = {Head(todo)} \cup Range(todo')
    BY <2>1, HeadTail
  <2>3. d \notin Range(todo) \/ typed[d].ver = base[d].ver
    BY <2>1, <2>2
  <2> QED
    BY <2>1, <2>3 DEF Reprojected, Busy
<1>3. ASSUME NEW e \in Domains, ApplyMirror(e) PROVE legacy'.dom[d] = typed'[d].val
  <2>1. phase = "after" /\ todo' = todo /\ base' = base
    BY <1>3 DEF ApplyMirror
  <2> QED
    BY <1>3, <2>1, MirrorApplied DEF Reprojected, Busy
<1>4. ASSUME NEW e \in Domains, NEW changed \in SUBSET Fields, DirectWrite(e, changed)
      PROVE  legacy'.dom[d] = typed'[d].val
  <2>1. phase = "after" /\ todo' = todo /\ base' = base /\ legacy' = legacy
    BY <1>4 DEF DirectWrite, legacyVars
  <2>2. ~ Crash /\ ~ ApplyMirror(d)
    BY <1>4 DEF DirectWrite, Crash, ApplyMirror, TypeOK
  <2>3. typed'[d] = typed[d] /\ mirror'[d] = mirror[d]
    BY <2>2, ActorSteps DEF ActorStep, Busy
  <2> QED
    BY <2>1, <2>3 DEF Reprojected, Busy
<1>5. ~ Crash /\ ~ (Bridge /\ ~ RefreshProject /\ ~ RefreshAfter)
  BY DEF Crash, Bridge, Begin, ReadBase, MakePlan, ReadFail, MutateDraft, MutateDiscard,
         MutateApply, TakeDesired, RestorePrevious, RefreshBefore, ReadSnapshot, PrepareAll,
         SkipDomain, CommitDomain, CommitRefused, Finalize, FinalizeFail, Compensate,
         CompensateRefused, CompensateDone, Return
<1> QED
  BY <1>1, <1>2, <1>3, <1>4, <1>5 DEF Next

\* A reprojection is looked at until no domain has moved.
LEMMA ReprojectedStep ==
    TypeOK /\ InPhase /\ Next /\ MirrorsCurrent /\ Reprojected => Reprojected'
<1> SUFFICES ASSUME TypeOK, InPhase, Next, MirrorsCurrent, Reprojected PROVE Reprojected'
  OBVIOUS
<1>1. ASSUME phase' \in {"before", "project", "after"}, NEW d \in Domains
      PROVE  (phase' = "before" /\ d \in Range(todo')) \/ Seen(base, d)'
  BY <1>1, ReadingsStep
<1>2. ASSUME phase' = "after", NEW d \in Domains, ~ Busy(d)',
             d \notin Range(todo') \/ typed'[d].ver = base'[d].ver
      PROVE  legacy'.dom[d] = typed'[d].val
  BY <1>2, ShownStep
<1> QED
  BY <1>1, <1>2 DEF Reprojected

\* Once looked at, the image follows the mirrors.
LEMMA AgreeStep ==
    TypeOK /\ InPhase /\ Next /\ MirrorsCurrent /\ Reprojected /\ MirrorsAgree
        => MirrorsAgree'
<1> SUFFICES ASSUME TypeOK, InPhase, Next, MirrorsCurrent, Reprojected, MirrorsAgree,
                    NEW d \in Domains, phase' \notin Mutating, ~ uncertain', ~ Busy(d)'
             PROVE  legacy'.dom[d] = typed'[d].val
  BY DEF MirrorsAgree
<1> USE DEF Mutating
<1>1. CASE Crash
  BY <1>1 DEF Crash
<1>2. ASSUME NEW e \in Domains, ApplyMirror(e) PROVE legacy'.dom[d] = typed'[d].val
  BY <1>2, MirrorApplied DEF ApplyMirror, MirrorsAgree, Busy
<1>3. ASSUME ~ Crash, \A e \in Domains : ~ ApplyMirror(e), legacy'.dom = legacy.dom,
             phase \notin Mutating, ~ uncertain
      PROVE  legacy'.dom[d] = typed'[d].val
  <2>1. typed'[d] = typed[d] /\ mirror'[d] = mirror[d]
    BY <1>3, ActorSteps DEF ActorStep, Busy
  <2> QED
    BY <1>3, <2>1 DEF MirrorsAgree, Busy
<1>4. CASE RefreshAfter
  <2>0. todo \in Seq(Domains) /\ todo # <<>>
    BY <1>4 DEF RefreshAfter, InPhase, TypeOK
  <2>a. ~ (Len(todo) > 1)
    BY <1>4 DEF RefreshAfter
  <2>1. /\ phase = "after"
        /\ typed' = typed /\ mirror' = mirror /\ legacy' = legacy
        /\ typed[Head(todo)].ver = base[Head(todo)].ver
    BY <1>4 DEF RefreshAfter, actorVars, legacyVars
  <2>2. Range(todo) = {Head(todo)}
    <3>1. /\ Len(todo) \in Nat /\ Len(todo) >= 1
          /\ Range(todo) = {Head(todo)} \cup Range(Tail(todo))
          /\ Len(todo) = 1 => Range(Tail(todo)) = {}
      BY <2>0, HeadTail
    <3>2. Len(todo) = 1 \/ Len(todo) > 1
      BY <3>1
    <3>3. Len(todo) = 1
      BY <2>a, <3>2
    <3> QED
      BY <3>1, <3>3
  <2> QED
    BY <2>1, <2>2 DEF Reprojected, Busy
<1>5. ASSUME ~ Crash, ~ RefreshAfter, \A e \in Domains : ~ ApplyMirror(e)
      PROVE  legacy'.dom = legacy.dom /\ phase \notin Mutating /\ ~ uncertain
  <2> USE DEF legacyVars
  <2>1. CASE Finalize
    BY <2>1 DEF Finalize, FinalImage
  <2>2. ASSUME NEW e \in Domains, NEW changed \in SUBSET Fields, DirectWrite(e, changed)
        PROVE  legacy'.dom = legacy.dom /\ phase \notin Mutating /\ ~ uncertain
    BY <2>2 DEF DirectWrite
  <2>3. ASSUME NEW r \in Routes, NEW changed \in SUBSET (Domains \X Fields), Begin(r, changed)
        PROVE  legacy'.dom = legacy.dom /\ phase \notin Mutating /\ ~ uncertain
    BY <2>3 DEF Begin
  <2>4. /\ ~ MutateApply /\ ~ RestorePrevious
        /\ ~ RefreshBefore /\ ~ RefreshProject /\ ~ TakeDesired
    <3>1. ~ MutateApply
      BY DEF MutateApply
    <3>2. ~ RestorePrevious
      BY DEF RestorePrevious
    <3>3. ~ RefreshBefore /\ ~ RefreshProject /\ ~ TakeDesired
      BY DEF RefreshBefore, RefreshProject, TakeDesired
    <3> QED
      BY <3>1, <3>2, <3>3
  <2>5. CASE ReadFail
    <3>1. uncertain \in BOOLEAN
      BY DEF TypeOK
    <3> QED
      BY <2>5, <3>1 DEF ReadFail
  <2>6. ASSUME ReadBase \/ MakePlan \/ MutateDraft \/ MutateDiscard \/ ReadSnapshot
                 \/ PrepareAll
        PROVE  legacy'.dom = legacy.dom /\ phase \notin Mutating /\ ~ uncertain
    BY <2>6 DEF ReadBase, MakePlan, MutateDraft, MutateDiscard, ReadSnapshot, PrepareAll
  <2>7. ASSUME SkipDomain \/ CommitDomain \/ CommitRefused \/ FinalizeFail
                 \/ Compensate \/ CompensateRefused \/ CompensateDone
        PROVE  legacy'.dom = legacy.dom /\ phase \notin Mutating /\ ~ uncertain
    BY <2>7 DEF SkipDomain, CommitDomain, CommitRefused, FinalizeFail, Compensate,
                CompensateRefused, CompensateDone
  <2> QED
    BY <1>5, <2>1, <2>2, <2>3, <2>4, <2>5, <2>6, <2>7 DEF Next, Bridge
<1> QED
  BY <1>1, <1>2, <1>3, <1>4, <1>5

-----------------------------------------------------------------------------
\* What the saga's commit of the next domain does.
LEMMA CommittedHead ==
    ASSUME TypeOK, CommitDomain
    PROVE  /\ todo \in Seq(Domains) /\ todo # <<>> /\ Head(todo) \in Domains
           /\ snap[Head(todo)].ver \in Nat
           /\ typed[Head(todo)].ver = snap[Head(todo)].ver
           /\ typed'[Head(todo)].ver = snap[Head(todo)].ver + 1
           /\ typed'[Head(todo)].val = Forward(Head(todo))
           /\ mirror'[Head(todo)].by = "saga"
           /\ \A e \in Domains \ {Head(todo)} : typed'[e] = typed[e]
           /\ Range(committed')
                = Range(committed) \cup {<<Head(todo), snap[Head(todo)].ver + 1>>}
<1>1. todo \in Seq(Domains) /\ todo # <<>> /\ Head(todo) \in Domains
  <2>1. todo \in Seq(Domains) /\ todo # <<>>
    BY DEF CommitDomain, TypeOK
  <2> QED
    BY <2>1, HeadTail
<1>2. snap[Head(todo)].ver \in Nat
  BY <1>1 DEF TypeOK, Versioned
<1>3. Replace(Head(todo), snap[Head(todo)].ver, Forward(Head(todo)), "saga")
  BY DEF CommitDomain
<1>4. <<Head(todo), snap[Head(todo)].ver + 1>> \in Domains \X Nat
  BY <1>1, <1>2
<1>5. /\ committed \in Seq(Domains \X Nat)
      /\ committed' = Append(committed, <<Head(todo), snap[Head(todo)].ver + 1>>)
  BY DEF CommitDomain, TypeOK
<1>6. Range(committed') = Range(committed) \cup {<<Head(todo), snap[Head(todo)].ver + 1>>}
  <2> DEFINE c == <<Head(todo), snap[Head(todo)].ver + 1>>
             S == Domains \X Nat
  <2>1. c \in S /\ committed \in Seq(S) /\ committed' = Append(committed, c)
    BY <1>4, <1>5
  <2> HIDE DEF c, S
  <2>2. Range(Append(committed, c)) = Range(committed) \cup {c}
    BY <2>1, AppendRange
  <2> QED
    BY <2>1, <2>2 DEF c
<1> QED
  BY <1>1, <1>2, <1>3, <1>6, Replaced

\* What the compensation of the last committed domain does.
LEMMA CompensatedLast ==
    ASSUME TypeOK, Compensate
    PROVE  /\ Last(committed) \in Range(committed)
           /\ Last(committed)[1] \in Domains /\ Last(committed)[2] \in Nat
           /\ typed[Last(committed)[1]].ver = Last(committed)[2]
           /\ typed'[Last(committed)[1]].ver = Last(committed)[2] + 1
           /\ typed'[Last(committed)[1]].val = snap[Last(committed)[1]].val
           /\ \A e \in Domains \ {Last(committed)[1]} : typed'[e] = typed[e]
           /\ Range(committed) = {Last(committed)} \cup Range(committed')
<1>1. committed \in Seq(Domains \X Nat) /\ committed # <<>> /\ committed' = Front(committed)
  BY DEF Compensate, TypeOK
<1>2. /\ Last(committed) \in Domains \X Nat
      /\ Range(committed) = {Last(committed)} \cup Range(committed')
  BY <1>1, LastFront
<1>3. Last(committed)[1] \in Domains /\ Last(committed)[2] \in Nat
  BY <1>2
<1>4. Replace(Last(committed)[1], Last(committed)[2], snap[Last(committed)[1]].val, "saga")
  BY DEF Compensate
<1> QED
  BY <1>2, <1>3, <1>4, Replaced

\* A compensation that is refused drops the last committed domain.
LEMMA RefusedLast ==
    ASSUME TypeOK, CompensateRefused
    PROVE  Range(committed) = {Last(committed)} \cup Range(committed')
<1>1. committed \in Seq(Domains \X Nat) /\ committed # <<>> /\ committed' = Front(committed)
  BY DEF CompensateRefused, TypeOK
<1> QED
  BY <1>1, LastFront

\* The part of Fenced about what was read.
LEMMA SnapshotsStep ==
    ASSUME TypeOK, InPhase, Next, Fenced, NEW d \in Domains, phase' \in {"snap"} \cup Saga
    PROVE  (phase' = "snap" /\ d \in Range(todo')) \/ Seen(snap, d)'
<1> USE DEF opVars, boundVars, Saga
<1>1. ASSUME phase \in {"snap"} \cup Saga, ~ Crash, snap' = snap,
             ~ (phase = "snap" /\ d \in Range(todo))
      PROVE  Seen(snap, d)'
  BY <1>1, SeenKept DEF Fenced, Seen, TypeOK
<1>2. CASE MakePlan \/ RefreshAfter
  BY <1>2, RangeOfOrder DEF MakePlan, RefreshAfter
<1>3. CASE ReadSnapshot
  <2>0. todo \in Seq(Domains) /\ todo # <<>>
    BY <1>3 DEF ReadSnapshot, Get, TypeOK
  <2>1. /\ snap' = [snap EXCEPT ![Head(todo)] = typed[Head(todo)]] /\ todo' = Tail(todo)
        /\ typed' = typed /\ phase = "snap" /\ phase' = "snap"
    BY <1>3 DEF ReadSnapshot, Get, WithAnswer, actorVars
  <2>2. Range(todo) = {Head(todo)} \cup Range(todo')
    BY <2>0, <2>1, HeadTail
  <2>3. typed[d].ver \in Nat /\ snap \in [Domains -> Versioned]
    BY DEF TypeOK, Versioned
  <2>4. CASE d = Head(todo)
    BY <2>1, <2>3, <2>4 DEF Seen
  <2>5. CASE d # Head(todo) /\ d \in Range(todo)
    BY <2>1, <2>2, <2>5
  <2>6. CASE d # Head(todo) /\ d \notin Range(todo)
    <3>1. Seen(snap, d)
      BY <2>1, <2>6 DEF Fenced
    <3> QED
      BY <2>1, <2>3, <2>6, <3>1 DEF Seen
  <2> QED
    BY <2>4, <2>5, <2>6
<1>4. CASE PrepareAll
  BY <1>1, <1>4, EmptyRange DEF PrepareAll, Crash, sagaVars, Return
<1>5. ASSUME SkipDomain \/ CommitDomain \/ CommitRefused \/ FinalizeFail
               \/ Compensate \/ CompensateRefused
      PROVE  Seen(snap, d)'
  BY <1>1, <1>5 DEF SkipDomain, CommitDomain, CommitRefused, FinalizeFail, Compensate,
                    CompensateRefused, Crash, sagaVars
<1>6. ASSUME NEW e \in Domains, ApplyMirror(e)
      PROVE  (phase' = "snap" /\ d \in Range(todo')) \/ Seen(snap, d)'
  BY <1>1, <1>6 DEF ApplyMirror, Crash, sagaVars
<1>7. ASSUME NEW e \in Domains, NEW changed \in SUBSET Fields, DirectWrite(e, changed)
      PROVE  (phase' = "snap" /\ d \in Range(todo')) \/ Seen(snap, d)'
  BY <1>1, <1>7 DEF DirectWrite, Crash, sagaVars
<1>8. /\ ~ Crash /\ ~ ReadFail /\ ~ MutateDiscard /\ ~ MutateApply /\ ~ RestorePrevious
      /\ ~ Finalize /\ ~ CompensateDone /\ ~ ReadBase /\ ~ MutateDraft /\ ~ TakeDesired
      /\ ~ RefreshBefore /\ ~ RefreshProject
  BY DEF Crash, ReadFail, MutateDiscard, MutateApply, RestorePrevious, Finalize,
         CompensateDone, ReadBase, MutateDraft, TakeDesired, RefreshBefore,
         RefreshProject, Return
<1>9. ASSUME NEW r \in Routes, NEW changed \in SUBSET (Domains \X Fields)
      PROVE  ~ Begin(r, changed)
  BY DEF Begin
<1> QED
  BY <1>2, <1>3, <1>4, <1>5, <1>6, <1>7, <1>8, <1>9 DEF Next, Bridge

\* The part of Fenced about what was written.
LEMMA CommittedStep ==
    ASSUME TypeOK, InPhase, Next, Fenced, NEW c \in Range(committed'), phase' \in Saga
    PROVE  /\ typed'[c[1]].ver >= c[2]
           /\ typed'[c[1]].ver = c[2] => typed'[c[1]].val = Forward(c[1])'
<1> USE DEF Saga, sagaVars
<1>1. ASSUME phase \in Saga, ~ Crash, c \in Range(committed), snap' = snap, plan' = plan
      PROVE  /\ typed'[c[1]].ver >= c[2]
             /\ typed'[c[1]].ver = c[2] => typed'[c[1]].val = Forward(c[1])'
  <2>1. c \in Domains \X Nat
    BY <1>1 DEF TypeOK, Range
  <2>2. /\ c[1] \in Domains /\ c[2] \in Nat /\ typed[c[1]].ver \in Nat
    BY <2>1 DEF TypeOK, Versioned
  <2>3. Forward(c[1])' = Forward(c[1])
    BY <1>1 DEF Forward
  <2>4. typed'[c[1]] = typed[c[1]] \/ typed'[c[1]].ver = typed[c[1]].ver + 1
    BY <1>1, <2>2, ActorSteps DEF ActorStep
  <2>5. /\ typed[c[1]].ver >= c[2]
        /\ typed[c[1]].ver = c[2] => typed[c[1]].val = Forward(c[1])
    BY <1>1 DEF Fenced
  <2> QED
    BY <2>2, <2>3, <2>4, <2>5
<1>2. CASE CommitDomain
  <2>1. phase = "commit" /\ ~ Crash /\ snap' = snap /\ plan' = plan
    BY <1>2 DEF CommitDomain, Crash
  <2>2. CASE c \in Range(committed)
    BY <1>1, <2>1, <2>2
  <2>3. CASE c = <<Head(todo), snap[Head(todo)].ver + 1>>
    <3>1. Forward(c[1])' = Forward(c[1])
      BY <2>1 DEF Forward
    <3> QED
      BY <1>2, <2>3, <3>1, CommittedHead
  <2> QED
    BY <1>2, <2>2, <2>3, CommittedHead
<1>3. CASE Compensate
  BY <1>1, <1>3, CompensatedLast DEF Compensate, Crash
<1>4. CASE CompensateRefused
  BY <1>1, <1>4, RefusedLast DEF CompensateRefused, Crash
<1>5. CASE PrepareAll
  <2>1. committed' = <<>>
    BY <1>5 DEF PrepareAll, Fenced
  <2> QED
    BY <2>1, EmptyRange
<1>6. ASSUME ~ CommitDomain, ~ Compensate, ~ CompensateRefused, ~ PrepareAll
      PROVE  /\ phase \in Saga /\ ~ Crash /\ committed' = committed
             /\ snap' = snap /\ plan' = plan
  <2>1. ASSUME NEW e \in Domains, ApplyMirror(e)
        PROVE  /\ phase \in Saga /\ ~ Crash /\ committed' = committed
               /\ snap' = snap /\ plan' = plan
    BY <2>1 DEF ApplyMirror, Crash
  <2>2. ASSUME NEW e \in Domains, NEW changed \in SUBSET Fields, DirectWrite(e, changed)
        PROVE  /\ phase \in Saga /\ ~ Crash /\ committed' = committed
               /\ snap' = snap /\ plan' = plan
    BY <2>2 DEF DirectWrite, Crash
  <2>3. CASE SkipDomain \/ CommitRefused \/ FinalizeFail
    BY <2>3 DEF SkipDomain, CommitRefused, FinalizeFail, Crash
  <2>4. /\ ~ Crash /\ ~ ReadFail /\ ~ MutateDiscard /\ ~ MutateApply /\ ~ RestorePrevious
        /\ ~ Finalize /\ ~ CompensateDone /\ ~ ReadBase /\ ~ MutateDraft /\ ~ TakeDesired
        /\ ~ RefreshBefore /\ ~ RefreshProject /\ ~ MakePlan /\ ~ RefreshAfter
        /\ ~ ReadSnapshot
    BY DEF Crash, ReadFail, MutateDiscard, MutateApply, RestorePrevious, Finalize,
           CompensateDone, ReadBase, MutateDraft, TakeDesired, RefreshBefore,
           RefreshProject, MakePlan, RefreshAfter, ReadSnapshot, Return, opVars, boundVars
  <2>5. ASSUME NEW r \in Routes, NEW changed \in SUBSET (Domains \X Fields)
        PROVE  ~ Begin(r, changed)
    BY DEF Begin
  <2> QED
    BY <1>6, <2>1, <2>2, <2>3, <2>4, <2>5 DEF Next, Bridge
<1> QED
  BY <1>1, <1>2, <1>3, <1>4, <1>5, <1>6

\* Versions fence what the saga read and what it wrote.
LEMMA FencedStep == TypeOK /\ InPhase /\ Next /\ Fenced => Fenced'
<1> SUFFICES ASSUME TypeOK, InPhase, Next, Fenced PROVE Fenced'
  OBVIOUS
<1>1. ASSUME phase' \in {"snap"} \cup Saga, NEW d \in Domains
      PROVE  (phase' = "snap" /\ d \in Range(todo')) \/ Seen(snap, d)'
  BY <1>1, SnapshotsStep
<1>2. ASSUME phase' \in Saga, NEW c \in Range(committed')
      PROVE  /\ typed'[c[1]].ver >= c[2]
             /\ typed'[c[1]].ver = c[2] => typed'[c[1]].val = Forward(c[1])'
  BY <1>2, CommittedStep
<1>3. ASSUME phase' \notin {"idle"} \cup Saga PROVE committed' = <<>>
  <2> USE DEF Saga, sagaVars
  <2>1. ASSUME NEW r \in Routes, NEW changed \in SUBSET (Domains \X Fields), Begin(r, changed)
        PROVE  committed' = <<>>
    BY <2>1 DEF Begin
  <2>2. ASSUME NEW e \in Domains, ApplyMirror(e) PROVE committed' = <<>>
    BY <1>3, <2>2 DEF ApplyMirror, Fenced
  <2>3. ASSUME NEW e \in Domains, NEW changed \in SUBSET Fields, DirectWrite(e, changed)
        PROVE  committed' = <<>>
    BY <1>3, <2>3 DEF DirectWrite, Fenced
  <2>4. /\ ~ Crash /\ ~ ReadFail /\ ~ PrepareAll /\ ~ SkipDomain /\ ~ CommitDomain
        /\ ~ CommitRefused /\ ~ Finalize /\ ~ FinalizeFail /\ ~ Compensate
        /\ ~ CompensateRefused /\ ~ CompensateDone /\ ~ MutateDiscard
    BY <1>3 DEF Crash, ReadFail, PrepareAll, SkipDomain, CommitDomain, CommitRefused,
                Finalize, FinalizeFail, Compensate, CompensateRefused, CompensateDone,
                MutateDiscard, Return
  <2>5. ASSUME ReadBase \/ MakePlan \/ MutateDraft \/ MutateApply \/ TakeDesired
                 \/ RestorePrevious \/ RefreshBefore \/ RefreshProject \/ RefreshAfter
                 \/ ReadSnapshot
        PROVE  committed' = <<>>
    BY <2>5 DEF Fenced, ReadBase, MakePlan, MutateDraft, MutateApply, TakeDesired,
         RestorePrevious, RefreshBefore, RefreshProject, RefreshAfter, ReadSnapshot
  <2> QED
    BY <2>1, <2>2, <2>3, <2>4, <2>5 DEF Next, Bridge
<1> QED
  BY <1>1, <1>2, <1>3 DEF Fenced

-----------------------------------------------------------------------------
\* The plan of a patch or a replacement sets what the caller named.
LEMMA MakePlanNames ==
    ASSUME TypeOK, InPhase, TokenPlaced, MakePlan
    PROVE  \A d \in Domains : \A f \in Fields :
             /\ f \in plan'[d].set =>
                   <<d, f>> \in payload \/ (d \in Coupled /\ \E g \in Fields : <<d, g>> \in payload)
             /\ <<d, f>> \in payload => f \in plan'[d].set /\ plan'[d].val[f] = token
<1> SUFFICES ASSUME NEW d \in Domains, NEW f \in Fields
             PROVE  /\ f \in plan'[d].set => \/ <<d, f>> \in payload
                                             \/ d \in Coupled /\ \E g \in Fields : <<d, g>> \in payload
                    /\ <<d, f>> \in payload => f \in plan'[d].set /\ plan'[d].val[f] = token
  OBVIOUS
<1> DEFINE named == {g \in Fields : PatchedBase[d][g] # base[d].val[g]}
<1>1. /\ plan'[d].set = IF named # {} /\ d \in Coupled THEN Fields ELSE named
      /\ plan'[d].val = PatchedBase[d]
  BY DEF MakePlan, PlanFor
<1>2. \A g \in Fields : PatchedBase[d][g] =
         IF <<d, g>> \in payload THEN token ELSE base[d].val[g]
  BY DEF PatchedBase
<1>3. \A g \in Fields : base[d].val[g] # token
  BY DEF MakePlan, TokenPlaced
<1>4. \A g \in Fields : g \in named <=> <<d, g>> \in payload
  BY <1>2, <1>3
<1> HIDE DEF named
<1>5. \A g \in named : g \in Fields
  BY DEF named
<1> QED
  BY <1>1, <1>2, <1>4, <1>5

\* The plan is computed once and then only carried out.
LEMMA PlannedStep == TypeOK /\ InPhase /\ Next /\ TokenPlaced /\ Planned => Planned'
<1> SUFFICES ASSUME TypeOK, InPhase, Next, TokenPlaced, Planned PROVE Planned'
  OBVIOUS
<1> USE DEF Saga, opVars
<1>1. CASE MakePlan
  <2>1. /\ phase' = "snap" /\ route' = route /\ payload' = payload /\ token' = token
        /\ route # "effects"
    BY <1>1 DEF MakePlan, InPhase
  <2>2. \A d \in Domains : plan'[d].set \subseteq Fields
    BY <1>1, TypeStep DEF TypeOK, Plan
  <2> QED
    BY <1>1, <2>1, <2>2, MakePlanNames DEF Planned, Named
<1>2. CASE TakeDesired
  <2>1. /\ phase' = "restore" /\ prev' = prev
        /\ \A d \in Domains : \A f \in plan'[d].set : plan'[d].val[f] # prev.dom[d][f]
    BY <1>2 DEF TakeDesired
  <2> QED
    BY <2>1 DEF Planned
<1>3. CASE RefreshAfter
  <2>1. /\ phase = "after" /\ route = "effects" /\ route' = route /\ payload' = payload
        /\ prev' = prev /\ token' = token
    BY <1>3 DEF RefreshAfter, InPhase
  <2>2. CASE phase' # "snap"
    <3>1. plan' = plan /\ phase' \in {"before", "after"}
      BY <1>3, <2>2 DEF RefreshAfter
    <3> QED
      BY <2>1, <3>1 DEF Planned
  <2>3. CASE phase' = "snap"
    <3>1. plan' = [d \in Domains |->
                  IF plan[d].set # {} /\ d \in Coupled
                  THEN [set |-> Fields,
                        val |-> [f \in Fields |-> IF f \in plan[d].set
                                    THEN plan[d].val[f] ELSE base[d].val[f]]]
                  ELSE plan[d]]
      BY <1>3, <2>1, <2>3 DEF RefreshAfter
    <3>2. \A d \in Domains : /\ plan[d].set \subseteq Fields
                             /\ \A f \in plan[d].set : plan[d].val[f] # prev.dom[d][f]
      BY <2>1, ForwardType DEF Planned
    <3>3. ASSUME NEW d \in Domains, NEW f \in plan'[d].set
          PROVE  \/ plan'[d].val[f] # prev.dom[d][f]
                 \/ d \in Coupled /\ \E g \in Fields : plan'[d].val[g] # prev.dom[d][g]
      <4>1. CASE plan[d].set # {} /\ d \in Coupled
        <5>1. PICK g \in plan[d].set : TRUE
          BY <4>1
        <5>2. g \in Fields /\ plan'[d].val[g] = plan[d].val[g]
          BY <3>1, <3>2, <4>1, <5>1
        <5> QED
          BY <3>2, <4>1, <5>1, <5>2
      <4>2. CASE ~ (plan[d].set # {} /\ d \in Coupled)
        BY <3>1, <3>2, <3>3, <4>2
      <4> QED
        BY <4>1, <4>2
    <3> QED
      BY <2>1, <2>3, <3>3 DEF Planned, Named
  <2> QED
    BY <2>2, <2>3
<1>4. ASSUME NEW r \in Routes, NEW changed \in SUBSET (Domains \X Fields), Begin(r, changed)
      PROVE  Planned'
  BY <1>4 DEF Begin, Planned
<1>5. ASSUME UNCHANGED <<route, payload, token, plan, prev>>,
             \/ phase' = phase \/ phase' \in {"idle", "mutated", "desired"}
             \/ /\ phase \in {"restore", "before", "project", "after"}
                /\ phase' \in {"restore", "before", "project", "after"}
             \/ phase \in {"snap", "commit"} /\ phase' \in {"commit", "compensate"}
      PROVE  Planned'
  BY <1>5 DEF Planned, Named
<1>6. ASSUME NEW e \in Domains, ApplyMirror(e) PROVE Planned'
  BY <1>5, <1>6 DEF ApplyMirror, sagaVars
<1>7. ASSUME NEW e \in Domains, NEW changed \in SUBSET Fields, DirectWrite(e, changed)
      PROVE  Planned'
  BY <1>5, <1>7 DEF DirectWrite, sagaVars
<1>8. ASSUME Crash \/ ReadBase \/ ReadFail \/ MutateDraft \/ MutateDiscard \/ MutateApply
                \/ RestorePrevious \/ RefreshBefore \/ RefreshProject
      PROVE  Planned'
  BY <1>5, <1>8 DEF Crash, ReadBase, ReadFail, MutateDraft, MutateDiscard, MutateApply,
         RestorePrevious, RefreshBefore, RefreshProject, Return, sagaVars
<1>9. ASSUME ReadSnapshot \/ PrepareAll \/ SkipDomain \/ CommitDomain \/ CommitRefused
               \/ Finalize \/ FinalizeFail \/ Compensate \/ CompensateRefused
               \/ CompensateDone
      PROVE  Planned'
  BY <1>5, <1>9 DEF ReadSnapshot, PrepareAll, SkipDomain, CommitDomain, CommitRefused,
         Finalize, FinalizeFail, Compensate, CompensateRefused, CompensateDone, Return,
         sagaVars
<1> QED
  BY <1>1, <1>2, <1>3, <1>4, <1>6, <1>7, <1>8, <1>9 DEF Next, Bridge

-----------------------------------------------------------------------------
\* Values are numbers, none newer than the last write.
LEMMA ValueRange ==
    ASSUME TypeOK, NEW d \in Domains, NEW f \in Fields
    PROVE  /\ typed[d].val[f] \in 0 .. writes /\ base[d].val[f] \in 0 .. writes
           /\ snap[d].val[f] \in 0 .. writes /\ plan[d].val[f] \in 0 .. writes
           /\ token \in 0 .. writes /\ writes \in Nat
<1>1. /\ snap[d].val \in State /\ typed[d].val \in State /\ base[d].val \in State
      /\ plan[d].val \in State
  BY ForwardType
<1> QED
  BY <1>1 DEF State, Value, TypeOK

\* Only the saga writes the caller's value; a direct write is a later one.
LEMMA DirectIsLater ==
    ASSUME TypeOK, InPhase, Next, ~ CommitDomain, ~ Compensate, token' = token,
           NEW d \in Domains, NEW f \in Fields
    PROVE  typed'[d].val[f] = typed[d].val[f] \/ typed'[d].val[f] > token
<1>1. ASSUME NEW e \in Domains, NEW changed \in SUBSET Fields, DirectWrite(e, changed)
      PROVE  typed'[d].val[f] = typed[d].val[f] \/ typed'[d].val[f] > token
  <2>1. /\ typed[e].ver \in Nat
        /\ Replace(e, typed[e].ver,
                   [g \in Fields |-> IF g \in changed THEN writes + 1 ELSE typed[e].val[g]],
                   "direct")
    BY <1>1 DEF DirectWrite, TypeOK, Versioned
  <2>2. /\ typed'[e].val = [g \in Fields |-> IF g \in changed THEN writes + 1
                                                              ELSE typed[e].val[g]]
        /\ \A x \in Domains \ {e} : typed'[x] = typed[x]
    BY <2>1, Replaced
  <2>3. writes + 1 > token
    BY ValueRange
  <2> QED
    BY <2>2, <2>3
<1>2. ASSUME typed' = typed PROVE typed'[d].val[f] = typed[d].val[f]
  BY <1>2
<1>3. CASE Crash
  BY <1>3 DEF Crash
<1>4. ASSUME NEW e \in Domains, ApplyMirror(e) PROVE typed' = typed
  BY <1>4 DEF ApplyMirror
<1>5. Bridge => typed' = typed
  BY DEF Bridge, Begin, ReadBase, MakePlan, ReadFail, MutateDraft, MutateDiscard,
         MutateApply, TakeDesired, RestorePrevious, RefreshBefore, RefreshProject,
         RefreshAfter, ReadSnapshot, PrepareAll, SkipDomain, CommitRefused, Finalize,
         FinalizeFail, CompensateRefused, CompensateDone, actorVars
<1> QED
  BY <1>1, <1>2, <1>3, <1>4, <1>5 DEF Next

\* The readings of an operation never show the caller's value.
LEMMA ReadingsWithout ==
    ASSUME TypeOK, InPhase, Next, TokenPlaced, phase' # "idle",
           NEW d \in Domains, NEW f \in Fields
    PROVE  base'[d].val[f] # token' /\ snap'[d].val[f] # token'
<1>1. ASSUME NEW r \in Routes, NEW changed \in SUBSET (Domains \X Fields), Begin(r, changed)
      PROVE  base'[d].val[f] # token' /\ snap'[d].val[f] # token'
  BY <1>1, ValueRange DEF Begin
<1>2. ASSUME phase # "idle", token' = token, base' = base, snap' = snap
      PROVE  base'[d].val[f] # token' /\ snap'[d].val[f] # token'
  BY <1>2 DEF TokenPlaced
<1>3. CASE ReadBase \/ RefreshBefore \/ ReadSnapshot
  <2>1. /\ phase \in {"base", "before", "snap"} /\ token' = token
        /\ base' = WithAnswer(base) \/ base' = base
        /\ snap' = WithAnswer(snap) \/ snap' = snap
    BY <1>3 DEF ReadBase, RefreshBefore, ReadSnapshot, opVars
  <2>2. /\ typed[d].val[f] # token /\ base[d].val[f] # token /\ snap[d].val[f] # token
    BY <2>1 DEF TokenPlaced, Holds, Saga
  <2>3. /\ WithAnswer(base)[d] = base[d] \/ WithAnswer(base)[d] = typed[d]
        /\ WithAnswer(snap)[d] = snap[d] \/ WithAnswer(snap)[d] = typed[d]
    BY DEF WithAnswer, TypeOK
  <2> QED
    BY <2>1, <2>2, <2>3
<1>4. ASSUME NEW e \in Domains, ApplyMirror(e)
      PROVE  base'[d].val[f] # token' /\ snap'[d].val[f] # token'
  BY <1>2, <1>4 DEF ApplyMirror, opVars, sagaVars
<1>5. ASSUME NEW e \in Domains, NEW changed \in SUBSET Fields, DirectWrite(e, changed)
      PROVE  base'[d].val[f] # token' /\ snap'[d].val[f] # token'
  BY <1>2, <1>5 DEF DirectWrite, opVars, sagaVars
<1>6. ~ Crash
  BY DEF Crash
<1>7. ASSUME MakePlan \/ ReadFail \/ MutateDraft \/ MutateDiscard \/ MutateApply
               \/ TakeDesired \/ RestorePrevious \/ RefreshProject \/ RefreshAfter
      PROVE  phase # "idle" /\ token' = token /\ base' = base /\ snap' = snap
  BY <1>7 DEF MakePlan, ReadFail, MutateDraft, MutateDiscard, MutateApply, TakeDesired,
              RestorePrevious, RefreshProject, RefreshAfter, opVars, sagaVars
<1>8. ASSUME PrepareAll \/ SkipDomain \/ CommitDomain \/ CommitRefused \/ Finalize
               \/ FinalizeFail \/ Compensate \/ CompensateRefused \/ CompensateDone
      PROVE  phase # "idle" /\ token' = token /\ base' = base /\ snap' = snap
  BY <1>8 DEF PrepareAll, SkipDomain, CommitDomain, CommitRefused, Finalize, FinalizeFail,
              Compensate, CompensateRefused, CompensateDone, opVars, sagaVars
<1> QED
  BY <1>1, <1>2, <1>3, <1>4, <1>5, <1>6, <1>7, <1>8 DEF Next, Bridge

\* A domain that holds the caller's value held it before or is being committed.
LEMMA HoldsFrom ==
    ASSUME TypeOK, InPhase, Next, TokenPlaced, phase # "idle", token' = token,
           NEW d \in Domains, Holds(d)'
    PROVE  \/ Holds(d) /\ ~ (Compensate /\ d = Last(committed)[1])
           \/ CommitDomain /\ d = Head(todo)
<1>1. PICK f \in Fields : typed'[d].val[f] = token'
  BY DEF Holds
<1>2. token \in Nat /\ snap[d].val[f] # token
  BY ValueRange DEF TokenPlaced
<1>3. CASE ~ CommitDomain /\ ~ Compensate
  BY <1>1, <1>2, <1>3, DirectIsLater DEF Holds
<1>4. CASE CommitDomain
  <2>1. ~ Compensate
    BY <1>4 DEF CommitDomain, Compensate
  <2> QED
    BY <1>1, <1>4, <2>1, CommittedHead DEF Holds
<1>5. CASE Compensate
  BY <1>1, <1>2, <1>5, CompensatedLast DEF Holds
<1> QED
  BY <1>3, <1>4, <1>5

\* Where an operation that goes on comes from.
LEMMA PhaseFlow ==
    ASSUME TypeOK, Next, phase' # "idle",
           \A r \in Routes, changed \in SUBSET (Domains \X Fields) : ~ Begin(r, changed)
    PROVE  /\ phase # "idle" /\ UNCHANGED <<route, payload, token>>
           /\ phase \in Saga => phase' \in Saga
           /\ phase' \in Saga => phase \in Saga \/ PrepareAll
           /\ phase' = "commit" => phase = "commit" \/ PrepareAll
<1> USE DEF opVars, Saga
<1>1. ASSUME NEW e \in Domains, ApplyMirror(e)
      PROVE  phase' = phase /\ UNCHANGED <<route, payload, token>>
  BY <1>1 DEF ApplyMirror
<1>2. ASSUME NEW e \in Domains, NEW changed \in SUBSET Fields, DirectWrite(e, changed)
      PROVE  phase' = phase /\ UNCHANGED <<route, payload, token>>
  BY <1>2 DEF DirectWrite
<1>3. ASSUME ReadBase \/ MakePlan \/ MutateDraft \/ MutateApply \/ TakeDesired
               \/ RestorePrevious \/ RefreshBefore \/ RefreshProject \/ RefreshAfter
               \/ ReadSnapshot
      PROVE  /\ phase \notin {"idle"} \cup Saga /\ phase' \notin Saga
             /\ UNCHANGED <<route, payload, token>>
  BY <1>3 DEF ReadBase, MakePlan, MutateDraft, MutateApply, TakeDesired, RestorePrevious,
              RefreshBefore, RefreshProject, RefreshAfter, ReadSnapshot, Return
<1>4. CASE PrepareAll
  BY <1>4 DEF PrepareAll
<1>5. ASSUME SkipDomain \/ CommitDomain \/ CommitRefused \/ FinalizeFail
               \/ Compensate \/ CompensateRefused
      PROVE  /\ phase \in Saga /\ phase' \in {phase, "compensate"}
             /\ UNCHANGED <<route, payload, token>>
  BY <1>5 DEF SkipDomain, CommitDomain, CommitRefused, FinalizeFail, Compensate,
              CompensateRefused
<1>6. /\ ~ Crash /\ ~ ReadFail /\ ~ MutateDiscard /\ ~ Finalize /\ ~ CompensateDone
  BY DEF Crash, ReadFail, MutateDiscard, Finalize, CompensateDone, Return
<1> QED
  BY <1>1, <1>2, <1>3, <1>4, <1>5, <1>6 DEF Next, Bridge

\* The caller's value is where the saga has committed, or in what it reports.
LEMMA TokenStep ==
    TypeOK /\ InPhase /\ Next /\ Planned /\ TokenPlaced => TokenPlaced'
<1> SUFFICES ASSUME TypeOK, InPhase, Next, Planned, TokenPlaced PROVE TokenPlaced'
  OBVIOUS
<1>1. ASSUME phase' # "idle", NEW d \in Domains, NEW f \in Fields
      PROVE  base'[d].val[f] # token' /\ snap'[d].val[f] # token'
  BY <1>1, ReadingsWithout
<1>2. ASSUME NEW r \in Routes, NEW changed \in SUBSET (Domains \X Fields), Begin(r, changed)
      PROVE  phase' \notin {"idle"} \cup Saga /\ \A d \in Domains : ~ Holds(d)'
  BY <1>2, ValueRange DEF Begin, Holds, Saga, actorVars
<1>3. ASSUME \A r \in Routes, changed \in SUBSET (Domains \X Fields) : ~ Begin(r, changed),
             phase' \notin {"idle"} \cup Saga, NEW d \in Domains, Holds(d)'
      PROVE  FALSE
  <2>1. phase \notin {"idle"} \cup Saga /\ token' = token
    BY <1>3, PhaseFlow
  <2>2. ~ CommitDomain
    BY <2>1 DEF CommitDomain, Saga
  <2>3. Holds(d)
    BY <1>3, <2>1, <2>2, HoldsFrom
  <2> QED
    BY <2>1, <2>3 DEF TokenPlaced
<1>4. ASSUME \A r \in Routes, changed \in SUBSET (Domains \X Fields) : ~ Begin(r, changed),
             phase' \in Saga, NEW d \in Domains, Holds(d)'
      PROVE  \/ \E c \in Range(committed') : c[1] = d
             \/ phase' = "compensate" /\ d \in failed'
  <2>0. phase' # "idle"
    BY <1>4 DEF Saga
  <2>1. /\ phase # "idle" /\ token' = token
        /\ phase \in Saga \/ PrepareAll
        /\ phase' = "commit" => phase = "commit" \/ PrepareAll
    BY <1>4, <2>0, PhaseFlow
  <2>2. CASE CommitDomain /\ d = Head(todo)
    <3>1. <<d, snap[d].ver + 1>> \in Range(committed')
      BY <2>2, CommittedHead
    <3> QED
      BY <3>1
  <2>3. CASE ~ (CommitDomain /\ d = Head(todo))
    <3>1. Holds(d) /\ ~ (Compensate /\ d = Last(committed)[1])
      BY <1>4, <2>1, <2>3, HoldsFrom
    <3>2. phase \in Saga /\ ~ PrepareAll
      BY <2>1, <3>1 DEF TokenPlaced, PrepareAll, Saga
    <3>3. \/ \E c \in Range(committed) : c[1] = d
          \/ phase = "compensate" /\ d \in failed
      BY <3>1, <3>2 DEF TokenPlaced
    <3>4. CASE CommitDomain
      BY <3>3, <3>4, CommittedHead DEF CommitDomain
    <3>5. CASE Compensate
      BY <3>1, <3>3, <3>5, CompensatedLast DEF Compensate
    <3>6. CASE CompensateRefused
      BY <3>3, <3>6, RefusedLast DEF CompensateRefused
    <3>7. CASE FinalizeFail
      BY <3>3, <3>7 DEF FinalizeFail
    <3>8. ASSUME phase' \in {phase, "compensate"}, UNCHANGED <<committed, failed>>
          PROVE  \/ \E c \in Range(committed') : c[1] = d
                 \/ phase' = "compensate" /\ d \in failed'
      BY <3>3, <3>8
    <3>9. CASE SkipDomain \/ CommitRefused
      BY <3>8, <3>9 DEF SkipDomain, CommitRefused, sagaVars
    <3>10. ASSUME NEW e \in Domains, ApplyMirror(e)
           PROVE  phase' \in {phase, "compensate"} /\ UNCHANGED <<committed, failed>>
      BY <3>10 DEF ApplyMirror, sagaVars
    <3>11. ASSUME NEW e \in Domains, NEW changed \in SUBSET Fields, DirectWrite(e, changed)
           PROVE  phase' \in {phase, "compensate"} /\ UNCHANGED <<committed, failed>>
      BY <3>11 DEF DirectWrite, sagaVars
    <3>12. /\ ~ Crash /\ ~ ReadFail /\ ~ Finalize /\ ~ CompensateDone /\ ~ ReadBase
           /\ ~ MakePlan /\ ~ MutateDraft /\ ~ MutateDiscard /\ ~ MutateApply
           /\ ~ TakeDesired /\ ~ RestorePrevious /\ ~ RefreshBefore /\ ~ RefreshProject
           /\ ~ RefreshAfter /\ ~ ReadSnapshot
      BY <2>0, <3>2 DEF Crash, ReadFail, Finalize, CompensateDone, ReadBase, MakePlan,
           MutateDraft, MutateDiscard, MutateApply, TakeDesired, RestorePrevious,
           RefreshBefore, RefreshProject, RefreshAfter, ReadSnapshot, Return, Saga
    <3> QED
      BY <1>4, <3>2, <3>4, <3>5, <3>6, <3>7, <3>8, <3>9, <3>10, <3>11, <3>12 DEF Next, Bridge
  <2> QED
    BY <2>2, <2>3
<1>5. ASSUME \A r \in Routes, changed \in SUBSET (Domains \X Fields) : ~ Begin(r, changed),
             phase' = "commit", route' # "effects",
             NEW d \in Domains, NEW f \in Fields, <<d, f>> \in payload', d \notin Range(todo')
      PROVE  typed'[d].val[f] >= token'
  <2>1. /\ phase # "idle" /\ UNCHANGED <<route, payload, token>>
        /\ phase = "commit" \/ PrepareAll
    BY <1>5, PhaseFlow
  <2>2. ~ PrepareAll
    BY <1>5, RangeOfOrder DEF PrepareAll, Return
  <2>3. f \in plan[d].set /\ plan[d].val[f] = token
    BY <1>5, <2>1, <2>2 DEF Planned, Saga
  <2>4. d \in Range(todo) \/ typed[d].val[f] >= token
    BY <1>5, <2>1, <2>2 DEF TokenPlaced
  <2>5. token \in Nat /\ typed[d].val[f] \in Nat
    BY ValueRange
  <2>6. CASE CommitDomain
    <3>1. CASE d = Head(todo)
      BY <2>1, <2>3, <2>5, <2>6, <3>1, CommittedHead DEF Forward
    <3>2. CASE d # Head(todo)
      <4>1. Range(todo) = {Head(todo)} \cup Range(todo')
        BY <2>6, CommittedHead, HeadTail DEF CommitDomain
      <4> QED
        BY <1>5, <2>1, <2>4, <2>6, <3>2, <4>1, CommittedHead
    <3> QED
      BY <3>1, <3>2
  <2>7. CASE SkipDomain
    <3>1. /\ todo \in Seq(Domains) /\ todo # <<>> /\ plan[Head(todo)].set = {}
          /\ todo' = Tail(todo) /\ typed' = typed
      BY <2>7 DEF SkipDomain, TypeOK, actorVars
    <3>2. Range(todo) = {Head(todo)} \cup Range(todo')
      BY <3>1, HeadTail
    <3> QED
      BY <1>5, <2>1, <2>3, <2>4, <3>1, <3>2
  <2>8. CASE ~ CommitDomain /\ ~ SkipDomain
    <3>1. todo' = todo
      <4>1. ASSUME NEW e \in Domains, ApplyMirror(e) PROVE todo' = todo
        BY <4>1 DEF ApplyMirror
      <4>2. ASSUME NEW e \in Domains, NEW changed \in SUBSET Fields, DirectWrite(e, changed)
            PROVE  todo' = todo
        BY <4>2 DEF DirectWrite
      <4>3. ~ Crash /\ ~ (Bridge /\ ~ CommitDomain /\ ~ SkipDomain /\ ~ PrepareAll)
        BY <1>5, <2>1, <2>2 DEF Bridge, Begin, Crash, ReadFail, Finalize, CompensateDone,
             ReadBase, MakePlan, MutateDraft, MutateDiscard, MutateApply, TakeDesired,
             RestorePrevious, RefreshBefore, RefreshProject, RefreshAfter, ReadSnapshot,
             CommitRefused, FinalizeFail, Compensate, CompensateRefused, Return
      <4> QED
        BY <2>2, <2>8, <4>1, <4>2, <4>3 DEF Next
    <3>2. ~ Compensate
      BY <1>5 DEF Compensate
    <3>3. typed'[d].val[f] = typed[d].val[f] \/ typed'[d].val[f] > token
      BY <2>1, <2>8, <3>2, DirectIsLater
    <3>4. typed'[d].val[f] \in Int
      <4>1. TypeOK'
        BY TypeStep
      <4>2. typed'[d].val \in [Fields -> 0 .. writes']
        BY <4>1 DEF TypeOK, Versioned, State, Value
      <4> QED
        BY <4>2
    <3>5. typed[d].val[f] >= token
      BY <1>5, <2>4, <3>1
    <3> QED
      BY <2>1, <2>5, <3>3, <3>4, <3>5
  <2> QED
    BY <2>6, <2>7, <2>8
<1> QED
  BY <1>1, <1>2, <1>3, <1>4, <1>5 DEF TokenPlaced, Saga

-----------------------------------------------------------------------------
\* AnswerIsHonest, one answer at a time.
LEMMA AnswerParts ==
    AnswerIsHonest <=>
      (phase = "idle" => \A d \in Domains, f \in Fields :
          /\ result = "error" => typed[d].val[f] # token
          /\ result = "partial" => (typed[d].val[f] = token => d \in failed)
          /\ result = "ok" => (route # "effects" /\ <<d, f>> \in payload
                                  => typed[d].val[f] >= token))
  BY DEF AnswerIsHonest

\* The answer is true when it is given, and later writes keep it so.
LEMMA AnswerStep ==
    TypeOK /\ InPhase /\ Next /\ TokenPlaced /\ AnswerIsHonest => AnswerIsHonest'
<1> SUFFICES ASSUME TypeOK, InPhase, Next, TokenPlaced, AnswerIsHonest, phase' = "idle",
                    NEW d \in Domains, NEW f \in Fields
             PROVE  /\ result' = "error" => typed'[d].val[f] # token'
                    /\ result' = "partial" => (typed'[d].val[f] = token' => d \in failed')
                    /\ result' = "ok" => (route' # "effects" /\ <<d, f>> \in payload'
                                             => typed'[d].val[f] >= token')
  BY DEF AnswerIsHonest
<1> DEFINE Answered ==
      /\ result' = "error" => typed'[d].val[f] # token'
      /\ result' = "partial" => (typed'[d].val[f] = token' => d \in failed')
      /\ result' = "ok" => (route' # "effects" /\ <<d, f>> \in payload'
                               => typed'[d].val[f] >= token')
<1>1. ASSUME phase = "idle", UNCHANGED <<opVars, failed, result>>, ~ CommitDomain, ~ Compensate
      PROVE  Answered
  <2>1. UNCHANGED <<route, payload, token, failed, result>>
    BY <1>1 DEF opVars
  <2>2. typed'[d].val[f] = typed[d].val[f] \/ typed'[d].val[f] > token
    BY <1>1, <2>1, DirectIsLater
  <2>3. typed'[d].val[f] \in Int /\ typed[d].val[f] \in Int /\ token \in Int
    <3>1. TypeOK'
      BY TypeStep
    <3>2. typed'[d].val \in [Fields -> 0 .. writes']
      BY <3>1 DEF TypeOK, Versioned, State, Value
    <3> QED
      BY <3>2, ValueRange
  <2>4. typed'[d].val[f] # typed[d].val[f] =>
           typed'[d].val[f] # token /\ typed'[d].val[f] >= token
    BY <2>2, <2>3
  <2>5. /\ result = "error" => typed[d].val[f] # token
        /\ result = "partial" => (typed[d].val[f] = token => d \in failed)
        /\ result = "ok" => (route # "effects" /\ <<d, f>> \in payload
                                => typed[d].val[f] >= token)
    BY <1>1, AnswerParts
  <2>6. CASE typed'[d].val[f] = typed[d].val[f]
    BY <2>1, <2>5, <2>6
  <2>7. CASE typed'[d].val[f] # typed[d].val[f]
    BY <2>1, <2>4, <2>7
  <2> QED
    BY <2>6, <2>7
<1>2. ASSUME phase \notin {"idle"} \cup Saga, typed' = typed, token' = token,
             result' \in {"error", "partial"}
      PROVE  Answered
  BY <1>2 DEF TokenPlaced, Holds
<1>3. ASSUME NEW e \in Domains, ApplyMirror(e) PROVE Answered
  <2>1. /\ phase = "idle" /\ UNCHANGED <<opVars, failed, result>>
        /\ ~ CommitDomain /\ ~ Compensate
    BY <1>3 DEF ApplyMirror, sagaVars, CommitDomain, Compensate
  <2> QED
    BY <1>1, <2>1
<1>4. ASSUME NEW e \in Domains, NEW changed \in SUBSET Fields, DirectWrite(e, changed)
      PROVE  Answered
  <2>1. /\ phase = "idle" /\ UNCHANGED <<opVars, failed, result>>
        /\ ~ CommitDomain /\ ~ Compensate
    BY <1>4 DEF DirectWrite, sagaVars, CommitDomain, Compensate
  <2> QED
    BY <1>1, <2>1
<1>5. CASE ReadFail \/ MutateDiscard \/ MutateApply \/ RestorePrevious \/ PrepareAll
  <2>1. /\ phase \notin {"idle"} \cup Saga /\ typed' = typed /\ token' = token
        /\ result' \in {"error", "partial"}
    BY <1>5 DEF ReadFail, MutateDiscard, MutateApply, RestorePrevious, PrepareAll, Return,
                Saga, actorVars, opVars
  <2> QED
    BY <1>2, <2>1
<1>6. CASE Finalize
  <2>1. /\ phase = "commit" /\ todo = <<>> /\ typed' = typed /\ UNCHANGED <<route, payload, token>>
        /\ result' = "ok"
    BY <1>6 DEF Finalize, Return, actorVars, opVars
  <2>2. route # "effects" /\ <<d, f>> \in payload => typed[d].val[f] >= token
    BY <2>1, EmptyRange DEF TokenPlaced
  <2> QED
    BY <2>1, <2>2
<1>7. CASE CompensateDone
  <2>1. /\ phase = "compensate" /\ committed = <<>> /\ typed' = typed
        /\ token' = token /\ failed' = failed
        /\ result' \in {"error", "partial"} /\ (result' = "error" => failed = {})
    BY <1>7 DEF CompensateDone, Return, actorVars, opVars, sagaVars
  <2>2. typed[d].val[f] = token => d \in failed
    BY <2>1, EmptyRange DEF TokenPlaced, Holds, Saga
  <2> QED
    BY <2>1, <2>2
<1>8. CASE Crash
  BY <1>8 DEF Crash
<1>9. ASSUME NEW r \in Routes, NEW changed \in SUBSET (Domains \X Fields)
      PROVE  ~ Begin(r, changed)
  BY DEF Begin
<1>10. /\ ~ ReadBase /\ ~ MakePlan /\ ~ MutateDraft /\ ~ TakeDesired /\ ~ RefreshBefore
       /\ ~ RefreshProject /\ ~ RefreshAfter /\ ~ ReadSnapshot /\ ~ SkipDomain
       /\ ~ CommitDomain /\ ~ CommitRefused /\ ~ FinalizeFail /\ ~ Compensate
       /\ ~ CompensateRefused
  BY DEF ReadBase, MakePlan, MutateDraft, TakeDesired, RefreshBefore, RefreshProject,
         RefreshAfter, ReadSnapshot, SkipDomain, CommitDomain, CommitRefused, FinalizeFail,
         Compensate, CompensateRefused
<1> QED
  BY <1>3, <1>4, <1>5, <1>6, <1>7, <1>8, <1>9, <1>10 DEF Next, Bridge

-----------------------------------------------------------------------------
\* What every step keeps.
Inv ==
    /\ TypeOK /\ InPhase
    /\ MirrorsCurrent /\ Reprojected /\ MirrorsAgree /\ OwnSaved
    /\ Fenced /\ Planned /\ TokenPlaced /\ AnswerIsHonest

\* The invariant holds initially.
LEMMA InvInit == Init => Inv
<1> SUFFICES ASSUME Init PROVE Inv
  OBVIOUS
<1>1. TypeOK /\ InPhase
  BY TypeInit
<1>2. MirrorsCurrent /\ Reprojected /\ OwnSaved
  BY DEF Init, MirrorsCurrent, Reprojected, OwnSaved, Busy, Nobody, Mutating
<1>3. MirrorsAgree
  BY DEF Init, MirrorsAgree, Start
<1>4. Fenced /\ Planned /\ TokenPlaced
  BY DEF Init, Fenced, Planned, TokenPlaced, Saga
<1>5. AnswerIsHonest
  BY DEF Init, AnswerIsHonest
<1> QED
  BY <1>1, <1>2, <1>3, <1>4, <1>5 DEF Inv

\* Every step keeps the invariant.
LEMMA InvStep == Inv /\ [Next]_vars => Inv'
<1> SUFFICES ASSUME Inv, [Next]_vars PROVE Inv'
  OBVIOUS
<1>1. CASE Next
  BY <1>1, TypeStep, MirrorsStep, ReprojectedStep, AgreeStep, OwnStep, FencedStep,
     PlannedStep, TokenStep, AnswerStep DEF Inv
<1>2. CASE UNCHANGED vars
  <2> USE <1>2 DEF vars, actorVars, legacyVars, opVars, sagaVars, boundVars
  <2>1. TypeOK' /\ InPhase'
    <3>1. writes' = writes
      OBVIOUS
    <3> QED
      BY <3>1, SameValues DEF Inv, TypeOK, InPhase
  <2>2. MirrorsCurrent' /\ Reprojected' /\ MirrorsAgree' /\ OwnSaved'
    BY DEF Inv, MirrorsCurrent, Reprojected, MirrorsAgree, OwnSaved, Busy, Seen
  <2>3. Fenced' /\ Planned' /\ TokenPlaced' /\ AnswerIsHonest'
    BY DEF Inv, Fenced, Planned, TokenPlaced, AnswerIsHonest, Seen, Forward, Named, Holds
  <2> QED
    BY <2>1, <2>2, <2>3 DEF Inv
<1> QED
  BY <1>1, <1>2

\* The invariant holds in every reachable state.
LEMMA Invariant == Spec => []Inv
  BY InvInit, InvStep, PTL DEF Spec

\* Every variable has its type, no value is newer than the last write, and a
\* draft is pending only while feat::patch_verge runs.
THEOREM TypeCorrect == Spec => []TypeOK
<1>1. Inv => TypeOK
  BY DEF Inv
<1> QED
  BY <1>1, Invariant, PTL

\* Outside the legacy-first part of a mutation the legacy image shows the typed
\* domains, however mirrors, restores, projections and crashes interleave
\* (PreparedLegacyMirror::apply, refresh_legacy_projection).
THEOREM ImageFollowsDomains == Spec => []MirrorsAgree
<1>1. Inv => MirrorsAgree
  BY DEF Inv
<1> QED
  BY <1>1, Invariant, PTL

\* The legacy-only fields on disk are those in memory unless a failure has been
\* reported (prepare_restore, ConfigPreparedLegacyVergeCommit::commit).
THEOREM DiskKeepsOwnFields == Spec => []LegacyFileCurrent
<1>1. Inv => LegacyFileCurrent
  BY DEF Inv, OwnSaved, LegacyFileCurrent
<1> QED
  BY <1>1, Invariant, PTL

\* An error leaves none of the caller's values, PartialCommit names every domain
\* that holds one, Ok means they are all there or overwritten by a later write
\* (apply_legacy_verge_states_saga, compensate_legacy_verge_saga).
THEOREM AnswerTrue == Spec => []AnswerIsHonest
<1>1. Inv => AnswerIsHonest
  BY DEF Inv
<1> QED
  BY <1>1, Invariant, PTL

\* The saga and its compensation overwrite no direct typed write: the version
\* fences of replace_prepared_if_version hold what was read and what was written.
THEOREM SagaFenced == Spec => SagaKeepsOthers
<1>1. Inv /\ [Next]_vars => SagaStep
  <2> SUFFICES ASSUME Inv, [Next]_vars, NEW d \in Domains,
                      typed'[d].ver > typed[d].ver, mirror'[d].by = "saga",
                      NEW f \in Fields, typed'[d].val[f] # typed[d].val[f]
               PROVE  Own(d, f)
    BY DEF SagaStep
  <2>1. TypeOK /\ InPhase /\ Fenced /\ Planned /\ typed[d].ver \in Nat
    BY DEF Inv, TypeOK, Versioned
  <2>2. CASE CommitDomain
    <3>1. d = Head(todo)
      BY <2>1, <2>2, CommittedHead
    <3>2. typed'[d].val = Forward(d) /\ typed[d].ver = snap[d].ver
      BY <2>1, <2>2, <3>1, CommittedHead
    <3>3. typed[d].val = snap[d].val /\ phase = "commit"
      BY <2>1, <2>2, <3>2 DEF CommitDomain, Fenced, Saga, Seen
    <3>4. f \in plan[d].set
      BY <3>2, <3>3 DEF Forward
    <3> QED
      BY <2>1, <3>3, <3>4 DEF Planned, Own, Saga
  <2>3. CASE Compensate
    <3>1. d = Last(committed)[1] /\ Last(committed) \in Range(committed)
      BY <2>1, <2>3, CompensatedLast
    <3>2. typed'[d].val = snap[d].val /\ typed[d].ver = Last(committed)[2]
      BY <2>1, <2>3, <3>1, CompensatedLast
    <3>3. typed[d].val = Forward(d) /\ phase = "compensate"
      BY <2>1, <2>3, <3>1, <3>2 DEF Compensate, Fenced, Saga
    <3> QED
      BY <3>2, <3>3 DEF Forward, Own
  <2>4. ASSUME NEW e \in Domains, NEW changed \in SUBSET Fields, DirectWrite(e, changed)
        PROVE  FALSE
    <3>1. typed[e].ver \in Nat
      BY <2>1 DEF TypeOK, Versioned
    <3>2. mirror'[e].by = "direct" /\ \A x \in Domains \ {e} : typed'[x] = typed[x]
      BY <2>1, <2>4, <3>1, Replaced DEF DirectWrite
    <3> QED
      BY <2>1, <3>2
  <2>5. ~ Crash
    BY DEF Crash, Nobody
  <2>6. typed' # typed
    BY <2>1
  <2>7. ASSUME NEW e \in Domains PROVE ~ ApplyMirror(e)
    BY <2>6 DEF ApplyMirror
  <2>8. ~ UNCHANGED vars /\ ~ (Bridge /\ ~ CommitDomain /\ ~ Compensate)
    BY <2>6 DEF vars, Bridge, Begin, ReadBase, MakePlan, ReadFail, MutateDraft,
         MutateDiscard, MutateApply, TakeDesired, RestorePrevious, RefreshBefore,
         RefreshProject, RefreshAfter, ReadSnapshot, PrepareAll, SkipDomain, CommitRefused,
         Finalize, FinalizeFail, CompensateRefused, CompensateDone, actorVars
  <2> QED
    BY <2>2, <2>3, <2>4, <2>5, <2>7, <2>8 DEF Next
<1> QED
  BY <1>1, Invariant, PTL DEF Spec, SagaKeepsOthers
=============================================================================
