--------------------------- MODULE HostDataProofs ---------------------------
(***************************************************************************)
(* For any number of ups and workspaces, whoever dies where: a pull keeps   *)
(* its archive, clean removes nothing that is in use, and what nobody uses  *)
(* is gone after a clean.                                                   *)
(***************************************************************************)
EXTENDS HostData, TLAPS

\* An up that runs has a workspace, and so has a clean that is at one.
AtTarget == {"revalidate", "recheck"} \cup Kinds
Placed ==
    /\ \A u \in Ups : up[u].pc # "idle" => up[u].ws \in Workspaces
    /\ clean.pc \in AtTarget => clean.ws \in Workspaces

TypeInv == TypeOK /\ Placed

\* What a step does before the history is brought up to date.
Move == (\E u \in Ups : UpStep(u)) \/ CleanStep \/ \E w \in Workspaces : Unmanage(w)

\* The history only shrinks, but for the step at which it begins, and it holds
\* only what is true now.
LEMMA History ==
  ASSUME Spare
  PROVE  /\ spared' = [managed |-> spared'.managed, active |-> spared'.active,
                       stale |-> spared'.stale]
         /\ spared'.managed \subseteq managed'
         /\ spared'.active \subseteq Active'
         /\ spared'.stale \subseteq Unused'
         /\ clean.pc # "confirm" => /\ spared'.managed \subseteq spared.managed
                                    /\ spared'.active \subseteq spared.active
         /\ clean.pc # "idle" => spared'.stale \subseteq spared.stale
  BY DEF Spare

\* A clean that goes to its target w, and NextTarget without the order of them.
CleanRec == [pc : CleanPcs, listed : SUBSET Workspaces, todo : SUBSET Workspaces,
             ws : Workspaces \cup {NoWorkspace}, features : BOOLEAN]
Taken(w) == [clean EXCEPT !.pc = "revalidate", !.ws = w, !.todo = @ \ {w}]
LEMMA NextTargetSteps ==
  ASSUME NextTarget
  PROVE  /\ clean.pc = "next"
         /\ UNCHANGED <<up, dirs, extracted, archive, managed>>
         /\ \/ \E w \in clean.todo : clean' = Taken(w)
            \/ /\ clean.todo = {}
               /\ clean' = [clean EXCEPT !.pc = IF clean.features THEN "lock" ELSE "done",
                                         !.ws = NoWorkspace]
  BY Zenon DEF NextTarget, Taken
LEMMA NextTargetPc ==
  ASSUME clean \in CleanRec, NextTarget
  PROVE  clean'.pc \in {"revalidate", "lock", "done"}
<1>1. CASE \E w \in clean.todo : clean' = Taken(w)
  <2>1. PICK w \in clean.todo : clean' = Taken(w)
    BY <1>1
  <2> QED
    BY <2>1 DEF Taken, CleanRec
<1>2. CASE clean' = [clean EXCEPT !.pc = IF clean.features THEN "lock" ELSE "done",
                                 !.ws = NoWorkspace]
  BY <1>2 DEF CleanRec
<1> QED
  BY <1>1, <1>2, NextTargetSteps

\* Where each step of clean leads.
LEMMA PcStep ==
  ASSUME clean \in CleanRec
  PROVE  /\ (\E features \in BOOLEAN : BeginClean(features)) => clean'.pc = "list"
         /\ ListManaged => clean'.pc = "scan"
         /\ Scan => clean'.pc = "confirm"
         /\ Confirm => clean'.pc = "next"
         /\ NextTarget => clean'.pc \in {"revalidate", "lock", "done"}
         /\ Revalidate => clean'.pc = "recheck"
         /\ Recheck => clean'.pc \in {"cache", "next"}
         /\ RemoveDir => clean'.pc \in {"state", "runtime", "ports", "next"}
         /\ LockExclusive => clean'.pc = "features"
         /\ (\E f \in archive : RemoveArchive(f)) => clean' = clean /\ clean.pc = "features"
         /\ RemovedArchives => clean'.pc = "done"
         /\ EndClean => clean'.pc = "idle"
<1>1. (\E features \in BOOLEAN : BeginClean(features)) => clean'.pc = "list"
  BY DEF BeginClean, NoClean
<1>2. ListManaged => clean'.pc = "scan"
  BY DEF ListManaged, CleanRec
<1>3. Scan => clean'.pc = "confirm"
  BY DEF Scan, CleanRec
<1>4. Confirm => clean'.pc = "next"
  BY DEF Confirm, CleanRec
<1>5. Revalidate => clean'.pc = "recheck"
  BY DEF Revalidate, CleanRec
<1>6. Recheck => clean'.pc \in {"cache", "next"}
  BY DEF Recheck, CleanRec
<1>7. RemoveDir => clean'.pc \in {"state", "runtime", "ports", "next"}
  BY DEF RemoveDir, CleanRec, AfterKind, Kinds
<1>8. LockExclusive => clean'.pc = "features"
  BY DEF LockExclusive, CleanRec
<1>9. (\E f \in archive : RemoveArchive(f)) => clean' = clean /\ clean.pc = "features"
  BY DEF RemoveArchive
<1>10. RemovedArchives => clean'.pc = "done"
  BY DEF RemovedArchives, CleanRec
<1>11. EndClean => clean'.pc = "idle"
  BY DEF EndClean, NoClean
<1> QED
  BY <1>1, <1>2, <1>3, <1>4, <1>5, <1>6, <1>7, <1>8, <1>9, <1>10, <1>11, NextTargetPc

-----------------------------------------------------------------------------
(* Types *)

LEMMA InitType == Init => TypeInv
<1> SUFFICES ASSUME Init PROVE TypeInv
  OBVIOUS
<1>1. NoClean \in CleanRec
  BY DEF NoClean, CleanPcs, CleanRec
<1>2. up \in [Ups -> [pc : UpPcs, ws : Workspaces \cup {NoWorkspace}]]
  BY DEF Init, UpPcs
<1>3. Leftovers \subseteq SUBSET Kinds
  BY DEF Leftovers, Kinds
<1>4. dirs \in [Workspaces -> SUBSET Kinds]
  BY <1>3 DEF Init
<1>5. Placed
  BY DEF Init, Placed, NoClean, AtTarget, Kinds
<1> QED
  BY <1>1, <1>2, <1>4, <1>5 DEF Init, TypeInv, TypeOK, CleanRec

LEMMA UpType ==
  ASSUME TypeInv, NEW u \in Ups, UpStep(u)
  PROVE  /\ up' \in [Ups -> [pc : UpPcs, ws : Workspaces \cup {NoWorkspace}]]
         /\ \A v \in Ups : up'[v].pc # "idle" => up'[v].ws \in Workspaces
         /\ dirs' \in [Workspaces -> SUBSET Kinds]
         /\ extracted' \in [Workspaces -> {"none", "whole"} \cup Ups]
         /\ archive' \subseteq {"tgz", "toml"}
         /\ managed' \subseteq Workspaces
         /\ UNCHANGED clean
<1> USE DEF TypeInv, TypeOK, Placed
<1>1. ASSUME NEW w \in Homes[u], BeginUp(u, w)
      PROVE  up' \in [Ups -> [pc : UpPcs, ws : Workspaces \cup {NoWorkspace}]]
             /\ \A v \in Ups : up'[v].pc # "idle" => up'[v].ws \in Workspaces
  <2>1. w \in Workspaces
    BY HomesAssumption
  <2> QED
    BY <1>1, <2>1 DEF BeginUp, UpPcs
<1>2. ASSUME NEW pc \in UpPcs \ {"idle"}, Goto(u, pc), up[u].pc # "idle"
      PROVE  up' \in [Ups -> [pc : UpPcs, ws : Workspaces \cup {NoWorkspace}]]
             /\ \A v \in Ups : up'[v].pc # "idle" => up'[v].ws \in Workspaces
  BY <1>2 DEF Goto
<1>3. ASSUME Leave(u)
      PROVE  up' \in [Ups -> [pc : UpPcs, ws : Workspaces \cup {NoWorkspace}]]
             /\ \A v \in Ups : up'[v].pc # "idle" => up'[v].ws \in Workspaces
  BY <1>3 DEF Leave, UpPcs
<1>4. CASE \E w \in Homes[u] : BeginUp(u, w)
  BY <1>1, <1>4 DEF BeginUp
<1>5. CASE LockShared(u) \/ Check(u) \/ Fetch(u)
  BY <1>2, <1>3, <1>5 DEF LockShared, Check, Fetch, UpPcs, Pulling
<1>6. CASE WriteArchive(u) \/ DescribeArchive(u)
  BY <1>2, <1>6 DEF WriteArchive, DescribeArchive, UpPcs, Pulling
<1>7. CASE OpenArchive(u)
  <2>1. dirs' \in [Workspaces -> SUBSET Kinds]
        /\ extracted' \in [Workspaces -> {"none", "whole"} \cup Ups]
    BY <1>7 DEF OpenArchive, Kinds
  <2> QED
    BY <1>2, <1>3, <1>7, <2>1 DEF OpenArchive, UpPcs, Pulling
<1>8. CASE Unpack(u)
  BY <1>2, <1>3, <1>8 DEF Unpack, UpPcs, Pulling
<1>9. CASE Verify(u) \/ Build(u)
  BY <1>2, <1>3, <1>9 DEF Verify, Build, UpPcs, Pulling
<1>10. CASE Stage(u) \/ Record(u) \/ Serve(u)
  <2>1. "runtime" \in Kinds /\ "state" \in Kinds /\ "ports" \in Kinds
    BY DEF Kinds
  <2>2. dirs' \in [Workspaces -> SUBSET Kinds]
    BY <1>10, <2>1 DEF Stage, Record, Serve
  <2>3. "create" \in UpPcs /\ "serve" \in UpPcs /\ "hold" \in UpPcs
    BY DEF UpPcs
  <2> QED
    BY <1>2, <1>3, <1>10, <2>2, <2>3 DEF Stage, Record, Serve
<1>11. CASE Create(u)
  BY <1>2, <1>3, <1>11 DEF Create, UpPcs
<1>12. CASE EndUp(u)
  BY <1>3, <1>12 DEF EndUp
<1> QED
  BY <1>4, <1>5, <1>6, <1>7, <1>8, <1>9, <1>10, <1>11, <1>12 DEF UpStep

LEMMA CleanType ==
  ASSUME TypeInv, CleanStep
  PROVE  /\ clean' \in CleanRec
         /\ clean'.pc \in AtTarget => clean'.ws \in Workspaces
         /\ dirs' \in [Workspaces -> SUBSET Kinds]
         /\ extracted' \in [Workspaces -> {"none", "whole"} \cup Ups]
         /\ archive' \subseteq {"tgz", "toml"}
         /\ UNCHANGED <<up, managed>>
<1> USE DEF TypeInv, TypeOK, Placed, CleanPcs, AtTarget, CleanRec
<1>1. CASE \E features \in BOOLEAN : BeginClean(features)
  <2>1. PICK features \in BOOLEAN : BeginClean(features)
    BY <1>1
  <2>2. clean' = [pc |-> "list", listed |-> {}, todo |-> {}, ws |-> NoWorkspace,
                  features |-> features]
    BY <2>1 DEF BeginClean, NoClean
  <2>3. clean' \in CleanRec /\ clean'.pc \notin AtTarget
    BY <2>2 DEF Kinds
  <2> QED
    BY <2>1, <2>3 DEF BeginClean
<1>2. CASE ListManaged \/ Confirm \/ LockExclusive
  <2>1. CASE ListManaged
    BY <2>1 DEF ListManaged, Kinds
  <2>2. CASE Confirm
    BY <2>2 DEF Confirm, Kinds
  <2>3. CASE LockExclusive
    BY <2>3 DEF LockExclusive, Kinds
  <2> QED
    BY <1>2, <2>1, <2>2, <2>3
<1>3. CASE Scan
  BY <1>3 DEF Scan, Discovered, Kinds
<1>4. CASE NextTarget
  <2>1. CASE \E w \in clean.todo : clean' = Taken(w)
    <3>1. PICK w \in clean.todo : clean' = Taken(w)
      BY <2>1
    <3>2. clean.todo \ {w} \subseteq Workspaces /\ w \in Workspaces
      OBVIOUS
    <3>3. clean' \in CleanRec /\ clean'.ws \in Workspaces
      BY <3>1, <3>2 DEF Taken
    <3> QED
      BY <1>4, <3>3, NextTargetSteps
  <2>2. CASE clean' = [clean EXCEPT !.pc = IF clean.features THEN "lock" ELSE "done",
                                    !.ws = NoWorkspace]
    BY <1>4, <2>2, NextTargetSteps DEF Kinds
  <2> QED
    BY <1>4, <2>1, <2>2, NextTargetSteps
<1>5. CASE Revalidate \/ Recheck
  <2>1. CASE Revalidate
    BY <2>1 DEF Revalidate, Kinds
  <2>2. CASE Recheck
    BY <2>2 DEF Recheck, Kinds
  <2> QED
    BY <1>5, <2>1, <2>2
<1>6. CASE RemoveDir
  BY <1>6 DEF RemoveDir, AfterKind, Kinds
<1>7. CASE (\E f \in archive : RemoveArchive(f)) \/ RemovedArchives
  BY <1>7 DEF RemoveArchive, RemovedArchives, Kinds
<1>8. CASE EndClean
  BY <1>8 DEF EndClean, NoClean, Kinds
<1> QED
  BY <1>1, <1>2, <1>3, <1>4, <1>5, <1>6, <1>7, <1>8 DEF CleanStep

LEMMA TypeStep == TypeInv /\ [Next]_vars => TypeInv'
<1> SUFFICES ASSUME TypeInv, [Next]_vars PROVE TypeInv'
  OBVIOUS
<1> USE DEF TypeInv
<1>1. CASE Next
  <2>1. /\ up' \in [Ups -> [pc : UpPcs, ws : Workspaces \cup {NoWorkspace}]]
        /\ clean' \in CleanRec
        /\ dirs' \in [Workspaces -> SUBSET Kinds]
        /\ extracted' \in [Workspaces -> {"none", "whole"} \cup Ups]
        /\ archive' \subseteq {"tgz", "toml"}
        /\ managed' \subseteq Workspaces
        /\ Placed'
    <3>1. CASE \E u \in Ups : UpStep(u)
      BY <3>1, UpType DEF TypeOK, Placed, CleanRec
    <3>2. CASE CleanStep
      BY <3>2, CleanType DEF TypeOK, Placed
    <3>3. CASE \E w \in Workspaces : Unmanage(w)
      BY <3>3 DEF Unmanage, TypeOK, Placed, CleanRec
    <3> QED
      BY <1>1, <3>1, <3>2, <3>3 DEF Next
  <2>2. Active' \subseteq Workspaces /\ Unused' \subseteq Workspaces
    BY DEF Active, Unused
  <2>3. spared' \in [managed : SUBSET Workspaces, active : SUBSET Workspaces,
                     stale : SUBSET Workspaces]
    BY <1>1, <2>1, <2>2, History DEF Next
  <2> QED
    BY <2>1, <2>3 DEF TypeOK, CleanRec
<1>2. CASE UNCHANGED vars
  BY <1>2 DEF vars, TypeOK, Placed
<1> QED
  BY <1>1, <1>2

\* TypeOK: every variable keeps its type, in whatever order processes die.
THEOREM TypeCorrect == Spec => []TypeOK
<1>1. Spec => []TypeInv
  BY InitType, TypeStep, PTL DEF Spec
<1> QED
  BY <1>1, PTL DEF TypeInv

-----------------------------------------------------------------------------
(* A pull keeps its archive: the shared lock keeps clean out, and no other   *)
(* pull takes anything away.                                                *)

Locked == clean.pc = "features" => \A u \in Ups : up[u].pc \notin Pulling
Archived == \A u \in Ups : up[u].pc = "describe" => "tgz" \in archive
PullInv == TypeInv /\ Locked /\ Archived /\ PulledArchiveStays

LEMMA PullStep == PullInv /\ [Next]_vars => PullInv'
<1> SUFFICES ASSUME PullInv, [Next]_vars PROVE PullInv'
  OBVIOUS
<1> USE DEF Locked, Archived, PulledArchiveStays
<1>0. TypeInv /\ Locked /\ Archived /\ PulledArchiveStays
  BY DEF PullInv
<1>1. TypeInv'
  BY <1>0, TypeStep
<1>2. archive' \subseteq {"tgz", "toml"}
  BY <1>1 DEF TypeInv, TypeOK
<1>3. ASSUME NEW u \in Ups, UpStep(u)
      PROVE  Locked' /\ Archived' /\ PulledArchiveStays'
  <2>1. up \in [Ups -> [pc : UpPcs, ws : Workspaces \cup {NoWorkspace}]]
    BY <1>0 DEF TypeInv, TypeOK
  <2>2. \A pc : Goto(u, pc) => \A v \in Ups : up'[v].pc = IF v = u THEN pc ELSE up[v].pc
    BY <2>1 DEF Goto
  <2>3. Leave(u) => \A v \in Ups : up'[v].pc = IF v = u THEN "idle" ELSE up[v].pc
    BY <2>1 DEF Leave
  <2>4. CASE \E w \in Homes[u] : BeginUp(u, w)
    <3>1. \A v \in Ups : up'[v].pc = IF v = u THEN "lock" ELSE up[v].pc
      BY <2>1, <2>4 DEF BeginUp
    <3> QED
      BY <1>0, <2>4, <3>1 DEF BeginUp, Pulling
  <2>5. CASE LockShared(u)
    BY <1>0, <2>2, <2>5 DEF LockShared, Pulling
  <2>6. CASE Check(u) \/ Fetch(u)
    BY <1>0, <2>2, <2>3, <2>6 DEF Check, Fetch, Pulling
  <2>7. CASE WriteArchive(u)
    <3>1. archive \subseteq archive' /\ "tgz" \in archive'
      BY <2>7 DEF WriteArchive
    <3>2. archive = {"tgz", "toml"} => archive' = {"tgz", "toml"}
      BY <1>2, <3>1
    <3> QED
      BY <1>0, <2>2, <2>7, <3>1, <3>2 DEF WriteArchive, Pulling
  <2>8. CASE DescribeArchive(u)
    <3>1. "tgz" \in archive' /\ "toml" \in archive'
      BY <1>0, <2>8 DEF DescribeArchive
    <3>2. archive' = {"tgz", "toml"}
      BY <1>2, <3>1
    <3> QED
      BY <1>0, <2>2, <2>8, <3>2 DEF DescribeArchive, Pulling
  <2>9. CASE OpenArchive(u) \/ Unpack(u) \/ Verify(u) \/ Build(u)
    BY <1>0, <2>2, <2>3, <2>9 DEF OpenArchive, Unpack, Verify, Build, Pulling
  <2>10. CASE Stage(u) \/ Create(u) \/ Record(u) \/ Serve(u) \/ EndUp(u)
    BY <1>0, <2>2, <2>3, <2>10 DEF Stage, Create, Record, Serve, EndUp, Pulling
  <2> QED
    BY <1>3, <2>4, <2>5, <2>6, <2>7, <2>8, <2>9, <2>10 DEF UpStep
<1>4. ASSUME CleanStep PROVE Locked' /\ Archived' /\ PulledArchiveStays'
  <2>1. UNCHANGED up
    BY <1>0, <1>4, CleanType
  <2>2. CASE clean.pc = "features"
    \* Nobody pulls.
    <3>1. \A u \in Ups : up[u].pc \notin Pulling
      BY <1>0, <2>2
    <3> QED
      BY <2>1, <3>1 DEF Pulling
  <2>3. CASE clean.pc # "features"
    <3>1. UNCHANGED archive
      BY <1>4, <2>3 DEF CleanStep, BeginClean, ListManaged, Scan, Confirm, NextTarget,
           Revalidate, Recheck, RemoveDir, LockExclusive, RemoveArchive, RemovedArchives,
           EndClean
    <3>2. clean'.pc = "features" => \A u \in Ups : up[u].pc \notin Pulling
      <4>1. CASE LockExclusive
        BY <4>1 DEF LockExclusive
      <4>2. CASE ~LockExclusive
        <5>1. clean \in CleanRec
          BY <1>0 DEF TypeInv, TypeOK, CleanRec
        <5>2. clean'.pc # "features"
          BY <1>4, <2>3, <4>2, <5>1, PcStep DEF CleanStep
        <5> QED
          BY <5>2
      <4> QED
        BY <4>1, <4>2
    <3> QED
      BY <1>0, <2>1, <3>1, <3>2
  <2> QED
    BY <2>2, <2>3
<1>5. ASSUME NEW w \in Workspaces, Unmanage(w)
      PROVE  Locked' /\ Archived' /\ PulledArchiveStays'
  BY <1>0, <1>5 DEF Unmanage
<1>6. CASE UNCHANGED vars
  BY <1>0, <1>1, <1>6 DEF vars, PullInv
<1> QED
  BY <1>1, <1>3, <1>4, <1>5, <1>6 DEF Next, PullInv

\* PulledArchiveStays: what a pull has found or written is there when it opens
\* it, under any number of pulls, cleans and deaths.
THEOREM PullsKeepTheirArchive == Spec => []PulledArchiveStays
<1>1. Init => PullInv
  BY InitType DEF Init, PullInv, Locked, Archived, PulledArchiveStays, NoClean
<1>2. Spec => []PullInv
  BY <1>1, PullStep, PTL DEF Spec
<1> QED
  BY <1>2, PTL DEF PullInv

-----------------------------------------------------------------------------
(* clean spares what is used.                                               *)

\* The history holds only what is so now.
Current ==
    /\ spared.managed \subseteq managed
    /\ spared.active \subseteq Active
    /\ spared.stale \subseteq Unused
\* What Docker said of the target before the files is still what is spared.
Asked == clean.pc = "recheck" => spared.managed \subseteq clean.listed
\* A target that is being removed is not spared.
Condemned == clean.pc \in Kinds => clean.ws \notin spared.managed \cup spared.active
SpareInv == TypeInv /\ Current /\ Asked /\ Condemned

LEMMA SpareStep == SpareInv /\ [Next]_vars => SpareInv'
<1> SUFFICES ASSUME SpareInv, [Next]_vars PROVE SpareInv'
  OBVIOUS
<1>0. TypeInv /\ Current /\ Asked /\ Condemned
  BY DEF SpareInv
<1>1. TypeInv'
  BY <1>0, TypeStep
<1>2. CASE Next
  <2>1. Spare
    BY <1>2 DEF Next
  <2>2. Current'
    BY <2>1, History DEF Current
  <2>3. Asked' /\ Condemned'
    <3>1. CASE UNCHANGED clean
      <4>1. clean.pc = "recheck" \/ clean.pc \in Kinds =>
              spared'.managed \subseteq spared.managed /\ spared'.active \subseteq spared.active
        BY <2>1, History DEF Kinds
      <4> QED
        BY <1>0, <3>1, <4>1 DEF Asked, Condemned
    <3>2. CASE CleanStep
      <4>1. clean \in CleanRec
        BY <1>0 DEF TypeInv, TypeOK, CleanRec
      <4>2. CASE Revalidate
        <5>1. spared'.managed \subseteq managed /\ clean'.listed = managed
              /\ clean'.pc = "recheck"
          BY <2>1, <4>1, <4>2, History DEF Revalidate
        <5> QED
          BY <5>1 DEF Asked, Condemned, Kinds
      <4>3. CASE Recheck
        <5>1. /\ spared'.managed \subseteq clean.listed
              /\ spared'.active \subseteq Active
          BY <1>0, <2>1, <4>3, History DEF Recheck, Asked, Current
        <5>2. clean'.pc \in Kinds => clean.ws \notin clean.listed \cup Active
          BY <4>1, <4>3 DEF Recheck, IsStale, Kinds
        <5>3. clean'.ws = clean.ws /\ clean'.pc # "recheck"
          BY <4>1, <4>3 DEF Recheck
        <5> QED
          BY <5>1, <5>2, <5>3 DEF Asked, Condemned
      <4>4. CASE RemoveDir
        <5>1. spared'.managed \subseteq spared.managed /\ spared'.active \subseteq spared.active
          BY <2>1, <4>4, History DEF RemoveDir, Kinds
        <5>2. clean.pc \in Kinds /\ clean'.ws = clean.ws /\ clean'.pc # "recheck"
          BY <4>1, <4>4 DEF RemoveDir, AfterKind, Kinds
        <5> QED
          BY <1>0, <5>1, <5>2 DEF Asked, Condemned
      <4>5. CASE ~(Revalidate \/ Recheck \/ RemoveDir)
        <5>1. clean'.pc # "recheck" /\ clean'.pc \notin Kinds
          BY <3>2, <4>1, <4>5, PcStep DEF CleanStep, Kinds
        <5> QED
          BY <5>1 DEF Asked, Condemned
      <4> QED
        BY <4>2, <4>3, <4>4, <4>5
    <3> QED
      BY <1>0, <1>2, <3>1, <3>2, UpType DEF Next, Unmanage
  <2> QED
    BY <1>1, <2>2, <2>3 DEF SpareInv
<1>3. CASE UNCHANGED vars
  BY <1>0, <1>1, <1>3 DEF vars, SpareInv, Current, Asked, Condemned, Active, Unused, Touched
<1> QED
  BY <1>2, <1>3

LEMMA InitSpare == Init => SpareInv
<1> SUFFICES ASSUME Init PROVE SpareInv
  OBVIOUS
<1> QED
  BY InitType DEF Init, SpareInv, Current, Asked, Condemned, NoClean, Kinds

\* CleanSparesUsed: clean removes nothing of a workspace that has had a
\* container or a live session ever since its user confirmed.
THEOREM CleanLeavesUsedAlone == Spec => CleanSparesUsed
<1> DEFINE Removed == \A w \in Workspaces :
             ~(dirs[w] \subseteq dirs'[w]) => w \notin spared.managed \cup spared.active
<1>1. SpareInv /\ [Next]_vars => [Removed]_vars
  <2> SUFFICES ASSUME SpareInv, Next PROVE Removed
    BY DEF vars
  <2>1. dirs \in [Workspaces -> SUBSET Kinds]
    BY DEF SpareInv, TypeInv, TypeOK
  <2>2. CASE RemoveDir
    <3>1. clean.pc \in Kinds /\ \A w \in Workspaces \ {clean.ws} : dirs'[w] = dirs[w]
      BY <2>1, <2>2 DEF RemoveDir
    <3> QED
      BY <3>1 DEF SpareInv, Condemned
  <2>3. CASE ~RemoveDir
    <3>1. \A w \in Workspaces : dirs[w] \subseteq dirs'[w]
      <4>1. CASE \E u \in Ups : UpStep(u)
        BY <2>1, <4>1 DEF UpStep, BeginUp, LockShared, Check, Fetch, WriteArchive,
           DescribeArchive, OpenArchive, Unpack, Verify, Build, Stage, Create, Record,
           Serve, EndUp
      <4>2. CASE CleanStep
        BY <2>3, <4>2 DEF CleanStep, BeginClean, ListManaged, Scan, Confirm, NextTarget,
           Revalidate, Recheck, LockExclusive, RemoveArchive, RemovedArchives, EndClean
      <4>3. CASE \E w \in Workspaces : Unmanage(w)
        BY <4>3 DEF Unmanage
      <4> QED
        BY <4>1, <4>2, <4>3 DEF Next
    <3> QED
      BY <3>1
  <2> QED
    BY <2>2, <2>3
<1>2. Spec => []SpareInv
  BY InitSpare, SpareStep, PTL DEF Spec
<1> QED
  BY <1>1, <1>2, PTL DEF Spec, CleanSparesUsed

-----------------------------------------------------------------------------
(* clean finds everything that nobody uses.                                 *)

\* What may be left of a target before the step at pc.
Left(pc) == IF pc = "state" THEN {"state", "runtime", "ports"}
            ELSE IF pc = "runtime" THEN {"runtime", "ports"}
            ELSE IF pc = "ports" THEN {"ports"} ELSE Kinds
\* Docker never names a workspace that is unused all the while.
Unnamed == clean.pc \in {"scan", "recheck"} => clean.listed \cap spared.stale = {}
\* Such a workspace is empty, a target still, or being removed.
Chased ==
    \A w \in spared.stale :
        /\ clean.pc \in {"confirm", "next"} \cup AtTarget =>
               \/ dirs[w] = {} \/ w \in clean.todo
               \/ clean.pc \in AtTarget /\ w = clean.ws /\ dirs[w] \subseteq Left(clean.pc)
        /\ clean.pc \in {"lock", "features", "done"} => dirs[w] = {}
StaleInv == SpareInv /\ Unnamed /\ Chased

\* Nothing of a workspace that no up touches comes or goes by an up.
LEMMA UpDirs ==
  ASSUME TypeInv, NEW u \in Ups, UpStep(u)
  PROVE  \A w \in Workspaces \ {up[u].ws} : dirs'[w] = dirs[w]
  BY DEF TypeInv, TypeOK, UpStep, BeginUp, LockShared, Check, Fetch, WriteArchive,
     DescribeArchive, OpenArchive, Unpack, Verify, Build, Stage, Create, Record, Serve, EndUp

LEMMA StaleStep == StaleInv /\ [Next]_vars => StaleInv'
<1> SUFFICES ASSUME StaleInv, [Next]_vars PROVE StaleInv'
  OBVIOUS
<1>0. TypeInv /\ SpareInv /\ Current /\ Unnamed /\ Chased
  BY DEF StaleInv, SpareInv
<1>1. SpareInv'
  BY <1>0, SpareStep
<1>2. clean \in CleanRec /\ dirs \in [Workspaces -> SUBSET Kinds]
  BY <1>0 DEF TypeInv, TypeOK, CleanRec
<1>3. spared.stale \subseteq Workspaces
  BY <1>0 DEF TypeInv, TypeOK
<1>4. CASE Next
  <2>1. clean.pc # "idle" => spared'.stale \subseteq spared.stale
    BY <1>4, History DEF Next
  <2>2. CASE UNCHANGED clean /\ \A w \in spared.stale : dirs'[w] = dirs[w]
    <3>1. CASE clean.pc = "idle"
      BY <2>2, <3>1, <1>1 DEF StaleInv, Unnamed, Chased, AtTarget, Kinds
    <3>2. CASE clean.pc # "idle"
      BY <1>0, <1>1, <2>1, <2>2, <3>2 DEF StaleInv, Unnamed, Chased
    <3> QED
      BY <3>1, <3>2
  <2>3. CASE \E u \in Ups : UpStep(u)
    <3>1. PICK u \in Ups : UpStep(u)
      BY <2>3
    <3>2. up[u].ws \notin spared.stale
      BY <1>0 DEF Current, Unused, Touched
    <3> QED
      BY <1>0, <1>3, <2>2, <3>1, <3>2, UpType, UpDirs
  <2>4. CASE \E w \in Workspaces : Unmanage(w)
    BY <2>2, <2>4 DEF Unmanage
  <2>5. CASE CleanStep
    <3>1. CASE (\E features \in BOOLEAN : BeginClean(features)) \/ EndClean
      BY <1>1, <1>2, <3>1, PcStep DEF StaleInv, Unnamed, Chased, AtTarget, Kinds
    <3>2. CASE ListManaged
      <4>1. clean'.pc = "scan" /\ clean'.listed = managed /\ spared'.stale \subseteq spared.stale
        BY <1>2, <2>1, <3>2 DEF ListManaged, CleanRec
      <4>2. managed \cap spared.stale = {}
        BY <1>0 DEF Current, Unused
      <4> QED
        BY <1>1, <4>1, <4>2 DEF StaleInv, Unnamed, Chased, AtTarget, Kinds
    <3>3. CASE Scan
      <4>1. /\ clean'.pc = "confirm"
            /\ clean'.todo = {w \in Discovered : IsStale(w)}
            /\ clean.listed \cap spared.stale = {}
            /\ spared'.stale \subseteq spared.stale
            /\ UNCHANGED dirs
        BY <1>0, <1>2, <2>1, <3>3 DEF Scan, CleanRec, Unnamed
      <4>2. ASSUME NEW w \in spared.stale, dirs[w] # {} PROVE w \in clean'.todo
        <5>1. w \notin Active
          BY <1>0 DEF Current, Unused
        <5> QED
          BY <1>3, <4>1, <4>2, <5>1 DEF Discovered, IsStale
      <4> QED
        BY <1>1, <4>1, <4>2 DEF StaleInv, Unnamed, Chased, AtTarget, Kinds
    <3>4. CASE Confirm
      BY <1>0, <1>1, <1>2, <2>1, <3>4 DEF Confirm, CleanRec, StaleInv, Unnamed, Chased, AtTarget, Kinds
    <3>5. CASE NextTarget
      <4>1. clean.pc = "next" /\ spared'.stale \subseteq spared.stale /\ UNCHANGED dirs
        BY <2>1, <3>5, NextTargetSteps
      <4>2. \A w \in spared.stale : dirs[w] = {} \/ w \in clean.todo
        BY <1>0, <4>1 DEF Chased, AtTarget, Kinds
      <4>3. CASE \E w \in clean.todo : clean' = Taken(w)
        <5>1. PICK t \in clean.todo : clean' = Taken(t)
          BY <4>3
        <5>2. clean'.pc = "revalidate" /\ clean'.ws = t /\ clean'.todo = clean.todo \ {t}
          BY <1>2, <5>1 DEF Taken, CleanRec
        <5>3. \A w \in spared.stale : dirs[w] \subseteq Left("revalidate")
          BY <1>2, <1>3 DEF Left
        <5> QED
          BY <1>1, <4>1, <4>2, <5>2, <5>3 DEF StaleInv, Unnamed, Chased, AtTarget
      <4>4. CASE /\ clean.todo = {}
                 /\ clean' = [clean EXCEPT !.pc = IF clean.features THEN "lock" ELSE "done",
                                           !.ws = NoWorkspace]
        <5>1. clean'.pc \in {"lock", "done"}
          BY <1>2, <4>4 DEF CleanRec
        <5> QED
          BY <1>1, <4>1, <4>2, <4>4, <5>1 DEF StaleInv, Unnamed, Chased, AtTarget, Kinds
      <4> QED
        BY <3>5, <4>3, <4>4, NextTargetSteps
    <3>6. CASE Revalidate
      <4>1. /\ clean.pc = "revalidate" /\ clean'.pc = "recheck" /\ clean'.listed = managed
            /\ clean'.todo = clean.todo /\ clean'.ws = clean.ws
            /\ spared'.stale \subseteq spared.stale
            /\ UNCHANGED dirs
        BY <1>2, <2>1, <3>6 DEF Revalidate, CleanRec
      <4>2. managed \cap spared.stale = {}
        BY <1>0 DEF Current, Unused
      <4>3. Left("revalidate") = Left("recheck")
        BY DEF Left
      <4> QED
        BY <1>0, <1>1, <4>1, <4>2, <4>3 DEF StaleInv, Unnamed, Chased, AtTarget
    <3>7. CASE Recheck
      <4>1. /\ clean.pc = "recheck" /\ clean.listed \cap spared.stale = {}
            /\ clean'.pc = IF IsStale(clean.ws) THEN "cache" ELSE "next"
            /\ clean'.todo = clean.todo /\ clean'.ws = clean.ws
            /\ spared'.stale \subseteq spared.stale
            /\ UNCHANGED dirs
        BY <1>0, <1>2, <2>1, <3>7 DEF Recheck, CleanRec, Unnamed
      <4>2. clean.ws \in spared.stale => IsStale(clean.ws) \/ dirs[clean.ws] = {}
        BY <1>0, <4>1 DEF Current, Unused, IsStale
      <4>3. Left("recheck") = Left("cache") /\ "cache" \in AtTarget /\ "recheck" \in AtTarget
        BY DEF Left, AtTarget, Kinds
      <4>4. clean'.pc \notin {"scan", "recheck", "lock", "features", "done"}
        BY <4>1
      <4>5. ASSUME NEW w \in spared.stale
            PROVE  \/ dirs[w] = {} \/ w \in clean.todo
                   \/ w = clean.ws /\ dirs[w] \subseteq Left("cache")
        BY <1>0, <4>1, <4>3 DEF Chased
      <4> QED
        BY <1>1, <4>1, <4>2, <4>3, <4>4, <4>5 DEF StaleInv, Unnamed, Chased
    <3>8. CASE RemoveDir
      <4>1. /\ clean.pc \in Kinds /\ clean'.pc = AfterKind[clean.pc]
            /\ clean'.todo = clean.todo /\ clean'.ws = clean.ws
            /\ spared'.stale \subseteq spared.stale
            /\ dirs' = [dirs EXCEPT ![clean.ws] = @ \ {clean.pc}]
        BY <1>2, <2>1, <3>8 DEF RemoveDir, CleanRec, Kinds
      <4>2. clean'.pc \in {"state", "runtime", "ports", "next"}
        BY <4>1 DEF AfterKind, Kinds
      <4>3. \/ clean.pc = "ports" /\ clean'.pc = "next" /\ Left(clean.pc) \ {clean.pc} = {}
            \/ clean'.pc \in Kinds /\ Left(clean.pc) \ {clean.pc} \subseteq Left(clean'.pc)
        BY <4>1 DEF AfterKind, Kinds, Left
      <4>4. ASSUME NEW w \in spared.stale
            PROVE  \/ dirs'[w] = {} \/ w \in clean.todo
                   \/ /\ w = clean.ws /\ clean'.pc \in Kinds
                      /\ dirs'[w] \subseteq Left(clean'.pc)
        <5>1. dirs'[w] = IF w = clean.ws THEN dirs[w] \ {clean.pc} ELSE dirs[w]
          BY <1>2, <1>3, <4>1
        <5>2. \/ dirs[w] = {} \/ w \in clean.todo
              \/ w = clean.ws /\ dirs[w] \subseteq Left(clean.pc)
          <6>1. clean.pc \in AtTarget
            BY <4>1 DEF AtTarget
          <6> QED
            BY <1>0, <6>1 DEF Chased
        <5> QED
          BY <4>3, <5>1, <5>2
      <4> QED
        BY <1>1, <4>1, <4>2, <4>4 DEF StaleInv, Unnamed, Chased, AtTarget
    <3>9. CASE LockExclusive \/ RemovedArchives
      <4>1. /\ clean.pc \in {"lock", "features"} /\ clean'.pc \in {"features", "done"}
            /\ spared'.stale \subseteq spared.stale
            /\ UNCHANGED dirs
        BY <1>2, <2>1, <3>9 DEF LockExclusive, RemovedArchives, CleanRec
      <4> QED
        BY <1>0, <1>1, <4>1 DEF StaleInv, Unnamed, Chased, AtTarget, Kinds
    <3>10. CASE \E f \in archive : RemoveArchive(f)
      BY <2>2, <3>10 DEF RemoveArchive
    <3> QED
      BY <2>5, <3>1, <3>2, <3>3, <3>4, <3>5, <3>6, <3>7, <3>8, <3>9, <3>10 DEF CleanStep
  <2> QED
    BY <1>4, <2>3, <2>4, <2>5 DEF Next
<1>5. CASE UNCHANGED vars
  BY <1>0, <1>1, <1>5 DEF vars, StaleInv, Unnamed, Chased
<1> QED
  BY <1>4, <1>5

\* NothingStaleLeft: after a clean that ends well nothing is left of a workspace
\* that was unused from its beginning on.
THEOREM CleanLeavesNothingStale == Spec => []NothingStaleLeft
<1>1. Init => StaleInv
  BY InitSpare DEF Init, StaleInv, Unnamed, Chased, NoClean
<1>2. StaleInv => NothingStaleLeft
  BY DEF StaleInv, Chased, NothingStaleLeft
<1>3. Spec => []StaleInv
  BY <1>1, StaleStep, PTL DEF Spec
<1> QED
  BY <1>2, <1>3, PTL
=============================================================================
