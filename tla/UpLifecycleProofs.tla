------------------------- MODULE UpLifecycleProofs -------------------------
(***************************************************************************)
(* For any number of sessions, stages, containers, plans and faults:        *)
(* UpLifecycle is type correct, its state file tells the truth about the    *)
(* container that exists, and exec only ever finds a ready container.       *)
(* With one command at a time the creation stages keep the promise of       *)
(* CreationLedger, the state file is not lost, and without faults an up is  *)
(* neither refused without a reason nor skips postStart.                    *)
(***************************************************************************)
EXTENDS UpLifecycle, TLAPS

\* There is a plan.
LEMMA AnyPlanType == AnyPlan \in Plan
<1>1. \E p \in Plan : TRUE
  <2>1. PICK h \in Hashes : TRUE
    BY PlanAssumption
  <2>2. PICK m \in Mounts : TRUE
    BY PlanAssumption
  <2>3. [hash |-> h, mounts |-> m] \in Plan
    BY <2>1, <2>2 DEF Plan
  <2> QED
    BY <2>3
<1> QED
  BY <1>1 DEF AnyPlan

\* No flags are flags.
LEMMA NoFlagsType == NoFlags \in LifecycleFlags
BY DEF NoFlags, LifecycleFlags

\* Syncing a state gives a state.
LEMMA SyncStateType ==
  ASSUME NEW st \in MaybeState, NEW c \in Ids, NEW h \in Hashes
  PROVE  SyncState(st, c, h) \in WorkspaceState
<1>1. CASE Matches(st, c, h)
  <2>1. st.lifecycle \in LifecycleFlags
    BY <1>1 DEF Matches, MaybeState, WorkspaceState
  <2>2. ExecContextFor(st, c) \in {0} \cup Ids
    BY DEF ExecContextFor
  <2> QED
    BY <1>1, <2>1, <2>2 DEF SyncState, WorkspaceState
<1>2. CASE ~Matches(st, c, h)
  BY <1>2, NoFlagsType DEF SyncState, WorkspaceState
<1> QED
  BY <1>1, <1>2

\* The process states in which a session knows its container, and those in
\* which it holds a copy of the state.
Targeted == {"persistRead", "persistWrite", "start", "startOld", "verify", "syncRead",
             "syncWrite", "stage", "saveCommand", "saveAfter", "use", "shell"}
Holding == {"stage", "saveCommand", "saveAfter", "use", "shell"}

Targets == \A s \in Sessions :
    /\ pc[s] \in Targeted => target[s] \in Ids
    /\ pc[s] \in Holding => mem[s] \in WorkspaceState /\ mem[s].container = target[s]

TypeInv == TypeOK /\ Targets

\* The type invariant holds at first.
LEMMA InitTypeInv == Init => TypeInv
<1> SUFFICES ASSUME Init PROVE TypeInv
  OBVIOUS
<1>1. DockerTypeOK
  <2>1. running \in BOOLEAN /\ label \in Plan
    BY AnyPlanType DEF Init
  <2> QED
    BY <2>1, BoundsAssumption DEF Init, DockerTypeOK
<1>2. CopyTypeOK
  BY DEF Init, CopyTypeOK, MaybeState
<1>3. SessionTypeOK
  <2>1. plan \in [Sessions -> Plan] /\ seen \in [Sessions -> SUBSET Summary]
    BY AnyPlanType DEF Init
  <2>2. pending \in [Sessions -> BOOLEAN]
    BY DEF Init
  <2> QED
    BY <2>1, <2>2 DEF Init, SessionTypeOK, Pcs
<1>4. HistoryTypeOK
  <2>1. postStarted \in BOOLEAN
    BY DEF Init
  <2> QED
    BY <2>1, BoundsAssumption DEF Init, HistoryTypeOK
<1>5. Targets
  BY DEF Init, Targets, Targeted, Holding
<1> QED
  BY <1>1, <1>2, <1>3, <1>4, <1>5 DEF TypeInv, TypeOK

\* A session that ends leaves its local variables as they were at first.
LEMMA EndFromType ==
  ASSUME TypeInv, NEW s \in Sessions, EndFrom(s)
  PROVE  /\ found' \in [Sessions -> MaybeState] /\ mem' \in [Sessions -> MaybeState]
         /\ SessionTypeOK' /\ Targets'
<1>1. /\ pc' \in [Sessions -> Pcs]
      /\ kind' \in [Sessions -> {"up", "rebuild", "down", "remove"}]
      /\ plan' \in [Sessions -> Plan]
      /\ ending' \in [Sessions -> {"detach", "keep", "stop"}]
      /\ path' \in [Sessions -> {"New", "Started", "Running"}]
  BY AnyPlanType DEF TypeInv, TypeOK, SessionTypeOK, EndFrom, Pcs
<1>2. /\ seen' \in [Sessions -> SUBSET Summary]
      /\ target' \in [Sessions -> {0} \cup Ids]
      /\ pending' \in [Sessions -> BOOLEAN]
  BY DEF TypeInv, TypeOK, SessionTypeOK, EndFrom
<1>3. found' \in [Sessions -> MaybeState] /\ mem' \in [Sessions -> MaybeState]
  BY DEF TypeInv, TypeOK, CopyTypeOK, EndFrom, MaybeState
<1>4. Targets'
  BY DEF TypeInv, TypeOK, SessionTypeOK, CopyTypeOK, Targets, EndFrom, Targeted, Holding
<1> QED
  BY <1>1, <1>2, <1>3, <1>4 DEF SessionTypeOK

\* What a session with a container would write is a state.
LEMMA SessionSyncType ==
  ASSUME TypeInv, NEW s \in Sessions, pc[s] \in Targeted
  PROVE  SyncState(found[s], target[s], plan[s].hash) \in WorkspaceState
<1>1. found[s] \in MaybeState /\ target[s] \in Ids /\ plan[s].hash \in Hashes
  BY DEF TypeInv, TypeOK, CopyTypeOK, SessionTypeOK, Targets, Plan
<1> QED
  BY <1>1, SyncStateType

\* What a write adds to the history.
LEMMA WriteStateType ==
  ASSUME HistoryTypeOK, NEW st \in WorkspaceState, WriteState(st)
  PROVE  known' \subseteq Ids \X Stage
BY DEF HistoryTypeOK, WriteState, WorkspaceState, LifecycleFlags

-----------------------------------------------------------------------------
(* Each action preserves the type invariant, if it may count its fault.      *)

\* Steps that move one session on and keep its copy of the state.
PlainStep(s) ==
    \/ ReconcileLoad(s) \/ ReconcileRemove(s) \/ StopOld(s) \/ RemoveOld(s)
    \/ PersistRead(s) \/ StartContainer(s) \/ VerifyRunning(s) \/ StartFails(s)
    \/ SyncRead(s) \/ PostStart(s)

\* Steps that end a session.
EndingStep(s) ==
    \/ ReconcileEnd(s) \/ RefuseChangedConfig(s) \/ CreateConflict(s) \/ PersistFails(s)
    \/ RefuseWithoutState(s) \/ ShellExits(s) \/ StopListed(s) \/ RemoveState(s) \/ Crash(s)

\* Begin keeps every variable in its type.
LEMMA BeginType ==
  ASSUME TypeInv, NEW s \in Sessions, StartUp(s) \/ StartDown(s)
  PROVE  (faults' \in 0 .. MaxFaults) => TypeInv'
<1>1. PICK k \in Kinds, p \in Plan, e \in {"detach", "keep", "stop"} : Begin(s, k, p, e)
  BY AnyPlanType, EndingsAssumption DEF StartUp, StartDown
<1>2. DockerTypeOK' /\ CopyTypeOK'
  BY <1>1 DEF Begin, TypeInv, TypeOK, DockerTypeOK, CopyTypeOK, dockerVars, localVars
<1>3. SessionTypeOK'
  BY <1>1, KindsAssumption
  DEF Begin, TypeInv, TypeOK, SessionTypeOK, Goto, Pcs, localVars
<1>4. (faults' \in 0 .. MaxFaults) => HistoryTypeOK'
  BY <1>1 DEF Begin, TypeInv, TypeOK, HistoryTypeOK, historyVars, runVars
<1>5. Targets'
  BY <1>1 DEF Begin, TypeInv, TypeOK, SessionTypeOK, Targets, Targeted, Holding, Goto,
      localVars
<1> QED
  BY <1>2, <1>3, <1>4, <1>5 DEF TypeInv, TypeOK

\* List keeps every variable in its type.
LEMMA ListType ==
  ASSUME TypeInv, NEW s \in Sessions, List(s)
  PROVE  (faults' \in 0 .. MaxFaults) => TypeInv'
<1>1. DockerTypeOK'
  BY DEF List, TypeInv, TypeOK, DockerTypeOK, dockerVars
<1>2. CopyTypeOK'
  BY DEF List, TypeInv, TypeOK, CopyTypeOK, MaybeState, localVars
<1>4. (faults' \in 0 .. MaxFaults) => HistoryTypeOK'
  BY DEF List, TypeInv, TypeOK, HistoryTypeOK, historyVars, runVars
<1>3. AfterList(kind[s]) \in {"stop", "stopOld", "reconcile", "decide"}
  BY DEF AfterList
<1>5. current # 0 => [id |-> current, running |-> running, plan |-> label] \in Summary
  <2>1. SUFFICES ASSUME current # 0
                 PROVE  current \in Ids /\ running \in BOOLEAN /\ label \in Plan
    BY Zenon DEF Summary
  <2> QED
    BY <2>1 DEF TypeInv, TypeOK, DockerTypeOK
<1>6. seen' \in [Sessions -> SUBSET Summary]
  BY <1>5 DEF List, TypeInv, TypeOK, SessionTypeOK
<1>7. SessionTypeOK'
  BY <1>3, <1>6 DEF List, TypeInv, TypeOK, SessionTypeOK, Goto, Pcs, optionVars
<1>8. Targets'
  BY <1>3 DEF List, TypeInv, TypeOK, SessionTypeOK, Targets, Targeted, Holding, Goto
<1> QED
  BY <1>1, <1>2, <1>4, <1>7, <1>8 DEF TypeInv, TypeOK

\* Decide keeps every variable in its type.
LEMMA DecideType ==
  ASSUME TypeInv, NEW s \in Sessions, Decide(s)
  PROVE  (faults' \in 0 .. MaxFaults) => TypeInv'
<1>1. DockerTypeOK'
  BY DEF Decide, TypeInv, TypeOK, DockerTypeOK, dockerVars
<1>2. CopyTypeOK'
  BY DEF Decide, TypeInv, TypeOK, CopyTypeOK, MaybeState, localVars
<1>4. (faults' \in 0 .. MaxFaults) => HistoryTypeOK'
  BY DEF Decide, TypeInv, TypeOK, HistoryTypeOK, historyVars, runVars
<1>3. SessionTypeOK' /\ Targets'
  <2>1. CASE /\ Goto(s, "decide", "create") \/ Goto(s, "decide", "stopOld")
             /\ UNCHANGED <<seen, path, target>>
    BY <2>1 DEF Decide, TypeInv, TypeOK, SessionTypeOK, Targets, Targeted, Holding,
        Goto, Pcs,
                optionVars
  <2>2. ASSUME NEW c \in seen[s],
               Goto(s, "decide", "syncRead"),
               path' = [path EXCEPT ![s] = IF c.running THEN "Running" ELSE "Started"],
               target' = [target EXCEPT ![s] = c.id],
               seen' = [seen EXCEPT ![s] = {}]
        PROVE  SessionTypeOK' /\ Targets'
    <3>1. c.id \in Ids
      BY DEF TypeInv, TypeOK, SessionTypeOK, Summary
    <3>2. SessionTypeOK'
      BY <2>2, <3>1 DEF Decide, TypeInv, TypeOK, SessionTypeOK, Goto, Pcs, optionVars
    <3>3. Targets'
      BY <2>2, <3>1 DEF Decide, TypeInv, TypeOK, SessionTypeOK, Targets, Targeted,
          Holding, Goto
    <3> QED
      BY <3>2, <3>3
  <2> QED
    BY <2>1, <2>2 DEF Decide
<1> QED
  BY <1>1, <1>2, <1>3, <1>4 DEF TypeInv, TypeOK

\* CreateContainer keeps every variable in its type.
LEMMA CreateContainerType ==
  ASSUME TypeInv, NEW s \in Sessions, CreateContainer(s)
  PROVE  (faults' \in 0 .. MaxFaults) => TypeInv'
<1>1. made + 1 \in Ids /\ made + 1 \in 0 .. MaxContainers
  BY BoundsAssumption DEF CreateContainer, TypeInv, TypeOK, DockerTypeOK, Ids
<1>2. plan[s] \in Plan
  BY DEF TypeInv, TypeOK, SessionTypeOK
<1>3. DockerTypeOK' /\ CopyTypeOK'
  BY <1>1, <1>2 DEF CreateContainer, TypeInv, TypeOK, DockerTypeOK, CopyTypeOK
<1>4. SessionTypeOK'
  BY <1>1 DEF CreateContainer, TypeInv, TypeOK, SessionTypeOK, Goto, Pcs, optionVars
<1>5. Targets'
  BY <1>1 DEF CreateContainer, TypeInv, TypeOK, SessionTypeOK, Targets, Targeted,
      Holding, Goto
<1>6. (faults' \in 0 .. MaxFaults) => HistoryTypeOK'
  BY DEF CreateContainer, TypeInv, TypeOK, HistoryTypeOK, historyVars, runVars
<1> QED
  BY <1>3, <1>4, <1>5, <1>6 DEF TypeInv, TypeOK

\* PersistWrite keeps every variable in its type.
LEMMA PersistWriteType ==
  ASSUME TypeInv, NEW s \in Sessions, PersistWrite(s)
  PROVE  (faults' \in 0 .. MaxFaults) => TypeInv'
<1>1. DockerTypeOK'
  BY DEF PersistWrite, TypeInv, TypeOK, DockerTypeOK, dockerVars
<1>3. SessionTypeOK'
  BY DEF PersistWrite, TypeInv, TypeOK, SessionTypeOK, Goto, Pcs, optionVars, localVars
<1>5. Targets'
  BY DEF PersistWrite, TypeInv, TypeOK, SessionTypeOK, CopyTypeOK, Targets, Targeted,
      Holding, Goto, localVars
<1>6. SyncState(found[s], target[s], plan[s].hash) \in WorkspaceState
  BY SessionSyncType DEF PersistWrite, Targeted, Goto
<1>2. CopyTypeOK'
  BY <1>6 DEF PersistWrite, WriteState, TypeInv, TypeOK, CopyTypeOK, MaybeState
<1>4. (faults' \in 0 .. MaxFaults) => HistoryTypeOK'
  BY <1>6, WriteStateType DEF PersistWrite, TypeInv, TypeOK, HistoryTypeOK, runVars
<1> QED
  BY <1>1, <1>2, <1>3, <1>4, <1>5 DEF TypeInv, TypeOK

\* SyncWrite keeps every variable in its type.
LEMMA SyncWriteType ==
  ASSUME TypeInv, NEW s \in Sessions, SyncWrite(s)
  PROVE  (faults' \in 0 .. MaxFaults) => TypeInv'
<1> DEFINE st == SyncState(found[s], target[s], plan[s].hash)
<1>1. st \in WorkspaceState /\ st.container = target[s]
  BY SessionSyncType DEF SyncWrite, Targeted, Goto, SyncState
<1>2. WriteState(st) /\ mem' = [mem EXCEPT ![s] = st]
  BY DEF SyncWrite
<1>3. pending' = [pending EXCEPT ![s] = HasPendingCreation(st.lifecycle)]
  BY DEF SyncWrite
<1> HIDE DEF st
<1>4. HasPendingCreation(st.lifecycle) \in BOOLEAN
  BY DEF HasPendingCreation
<1>5. pending' \in [Sessions -> BOOLEAN]
  BY <1>3, <1>4 DEF TypeInv, TypeOK, SessionTypeOK
<1>6. DockerTypeOK'
  BY DEF SyncWrite, TypeInv, TypeOK, DockerTypeOK, dockerVars
<1>7. CopyTypeOK'
  BY <1>1, <1>2 DEF SyncWrite, WriteState, TypeInv, TypeOK, CopyTypeOK, MaybeState
<1>8. SessionTypeOK'
  BY <1>5 DEF SyncWrite, TypeInv, TypeOK, SessionTypeOK, Goto, Pcs, optionVars
<1>9. (faults' \in 0 .. MaxFaults) => HistoryTypeOK'
  BY <1>1, <1>2, WriteStateType DEF SyncWrite, TypeInv, TypeOK, HistoryTypeOK, runVars
<1>10. Targets'
  BY <1>1, <1>2
  DEF SyncWrite, TypeInv, TypeOK, SessionTypeOK, CopyTypeOK, Targets, Targeted,
      Holding, Goto
<1> QED
  BY <1>6, <1>7, <1>8, <1>9, <1>10 DEF TypeInv, TypeOK

\* RunCommand keeps every variable in its type.
LEMMA RunCommandType ==
  ASSUME TypeInv, NEW s \in Sessions, RunCommand(s)
  PROVE  (faults' \in 0 .. MaxFaults) => TypeInv'
<1>1. DockerTypeOK'
  BY DEF RunCommand, TypeInv, TypeOK, DockerTypeOK, dockerVars
<1>3. SessionTypeOK'
  BY DEF RunCommand, TypeInv, TypeOK, SessionTypeOK, Goto, Pcs, optionVars, localVars
<1>6. pc[s] = "stage" /\ mem[s] \in WorkspaceState /\ mem[s].container = target[s]
  BY DEF RunCommand, Goto, TypeInv, Targets, Holding
<1>7. PICK i \in Stage :
        /\ ran' = ran \cup {<<current, i>>}
        /\ mem' = [mem EXCEPT ![s].lifecycle.command = @ \cup {i}]
  BY DEF RunCommand
<1> DEFINE st == [mem[s] EXCEPT !.lifecycle.command = @ \cup {i}]
<1>8. st \in WorkspaceState /\ st.container = target[s]
  BY <1>6 DEF WorkspaceState, LifecycleFlags
<1>9. mem' = [mem EXCEPT ![s] = st]
  BY <1>7
<1> HIDE DEF st
<1>2. CopyTypeOK'
  BY <1>8, <1>9 DEF RunCommand, TypeInv, TypeOK, CopyTypeOK, MaybeState
<1>4. (faults' \in 0 .. MaxFaults) => HistoryTypeOK'
  BY <1>7 DEF RunCommand, TypeInv, TypeOK, DockerTypeOK, HistoryTypeOK
<1>5. Targets'
  BY <1>6, <1>8, <1>9
  DEF RunCommand, TypeInv, TypeOK, SessionTypeOK, CopyTypeOK, Targets, Targeted,
      Holding, Goto
<1> QED
  BY <1>1, <1>2, <1>3, <1>4, <1>5 DEF TypeInv, TypeOK

\* RunAfterHook keeps every variable in its type.
LEMMA RunAfterHookType ==
  ASSUME TypeInv, NEW s \in Sessions, RunAfterHook(s)
  PROVE  (faults' \in 0 .. MaxFaults) => TypeInv'
<1>1. DockerTypeOK'
  BY DEF RunAfterHook, TypeInv, TypeOK, DockerTypeOK, dockerVars
<1>3. SessionTypeOK'
  BY DEF RunAfterHook, TypeInv, TypeOK, SessionTypeOK, Goto, Pcs, optionVars, localVars
<1>6. pc[s] = "stage" /\ mem[s] \in WorkspaceState /\ mem[s].container = target[s]
  BY DEF RunAfterHook, Goto, TypeInv, Targets, Holding
<1>7. PICK i \in Stage :
        /\ ranAfter' = ranAfter \cup {<<current, i>>}
        /\ mem' = [mem EXCEPT ![s].lifecycle.after = @ \cup {i}]
  BY DEF RunAfterHook
<1> DEFINE st == [mem[s] EXCEPT !.lifecycle.after = @ \cup {i}]
<1>8. st \in WorkspaceState /\ st.container = target[s]
  BY <1>6 DEF WorkspaceState, LifecycleFlags
<1>9. mem' = [mem EXCEPT ![s] = st]
  BY <1>7
<1> HIDE DEF st
<1>2. CopyTypeOK'
  BY <1>8, <1>9 DEF RunAfterHook, TypeInv, TypeOK, CopyTypeOK, MaybeState
<1>4. (faults' \in 0 .. MaxFaults) => HistoryTypeOK'
  BY <1>7 DEF RunAfterHook, TypeInv, TypeOK, DockerTypeOK, HistoryTypeOK
<1>5. Targets'
  BY <1>6, <1>8, <1>9
  DEF RunAfterHook, TypeInv, TypeOK, SessionTypeOK, CopyTypeOK, Targets, Targeted,
      Holding, Goto
<1> QED
  BY <1>1, <1>2, <1>3, <1>4, <1>5 DEF TypeInv, TypeOK

\* SaveProgress keeps every variable in its type.
LEMMA SaveProgressType ==
  ASSUME TypeInv, NEW s \in Sessions, SaveProgress(s)
  PROVE  (faults' \in 0 .. MaxFaults) => TypeInv'
<1>1. DockerTypeOK'
  BY DEF SaveProgress, TypeInv, TypeOK, DockerTypeOK, dockerVars
<1>3. SessionTypeOK'
  BY DEF SaveProgress, TypeInv, TypeOK, SessionTypeOK, Goto, Pcs, optionVars, localVars
<1>5. Targets'
  BY DEF SaveProgress, TypeInv, TypeOK, SessionTypeOK, CopyTypeOK, Targets, Targeted,
      Holding, Goto, localVars
<1>6. mem[s] \in WorkspaceState
  BY DEF SaveProgress, Goto, TypeInv, Targets, Holding
<1>2. CopyTypeOK'
  BY <1>6 DEF SaveProgress, WriteState, TypeInv, TypeOK, CopyTypeOK, MaybeState, localVars
<1>4. (faults' \in 0 .. MaxFaults) => HistoryTypeOK'
  BY <1>6, WriteStateType DEF SaveProgress, TypeInv, TypeOK, HistoryTypeOK, runVars
<1> QED
  BY <1>1, <1>2, <1>3, <1>4, <1>5 DEF TypeInv, TypeOK

\* MarkUsed keeps every variable in its type.
LEMMA MarkUsedType ==
  ASSUME TypeInv, NEW s \in Sessions, MarkUsed(s)
  PROVE  (faults' \in 0 .. MaxFaults) => TypeInv'
<1> DEFINE st == [mem[s] EXCEPT !.exec = target[s]]
<1>1. pc[s] = "use" /\ target[s] \in Ids /\ mem[s] \in WorkspaceState
      /\ mem[s].container = target[s]
  BY DEF MarkUsed, TypeInv, Targets, Targeted, Holding
<1>2. st \in WorkspaceState /\ st.container = target[s]
  BY <1>1 DEF WorkspaceState
<1>3. DockerTypeOK' /\ stateFile' \in MaybeState
  BY <1>2 DEF MarkUsed, WriteState, TypeInv, TypeOK, DockerTypeOK, MaybeState, dockerVars
<1>4. (faults' \in 0 .. MaxFaults) => HistoryTypeOK'
  BY <1>2, WriteStateType DEF MarkUsed, TypeInv, TypeOK, HistoryTypeOK, runVars
<1>5. CASE EndFrom(s)
  BY <1>3, <1>4, <1>5, EndFromType DEF TypeInv, TypeOK, CopyTypeOK
<1>6. CASE /\ pc' = [pc EXCEPT ![s] = "shell"] /\ mem' = [mem EXCEPT ![s] = st]
           /\ UNCHANGED <<optionVars, seen, path, target, found, pending>>
  <2> HIDE DEF st
  <2>1. CopyTypeOK'
    BY <1>2, <1>3, <1>6 DEF TypeInv, TypeOK, CopyTypeOK, MaybeState
  <2>2. SessionTypeOK'
    BY <1>6 DEF TypeInv, TypeOK, SessionTypeOK, Pcs, optionVars
  <2>3. Targets'
    BY <1>1, <1>2, <1>6
    DEF TypeInv, TypeOK, SessionTypeOK, CopyTypeOK, Targets, Targeted, Holding
  <2> QED
    BY <1>3, <1>4, <2>1, <2>2, <2>3 DEF TypeInv, TypeOK
<1> QED
  BY <1>5, <1>6 DEF MarkUsed

\* PlainStep keeps every variable in its type.
LEMMA PlainStepType ==
  ASSUME TypeInv, NEW s \in Sessions, PlainStep(s)
  PROVE  (faults' \in 0 .. MaxFaults) => TypeInv'
<1>1. DockerTypeOK'
  BY DEF PlainStep, ReconcileLoad, ReconcileRemove, StopOld, RemoveOld, PersistRead,
      StartContainer, VerifyRunning, StartFails, SyncRead, PostStart, TypeInv, TypeOK,
          DockerTypeOK, dockerVars
<1>2. CopyTypeOK'
  BY DEF PlainStep, ReconcileLoad, ReconcileRemove, StopOld, RemoveOld, PersistRead,
      StartContainer, VerifyRunning, StartFails, SyncRead, PostStart, TypeInv, TypeOK,
          CopyTypeOK, MaybeState, localVars
<1>3. SessionTypeOK'
  BY DEF PlainStep, ReconcileLoad, ReconcileRemove, StopOld, RemoveOld, PersistRead,
      StartContainer, VerifyRunning, StartFails, SyncRead, PostStart, TypeInv, TypeOK,
          SessionTypeOK, Goto, Pcs, optionVars, localVars
<1>4. (faults' \in 0 .. MaxFaults) => HistoryTypeOK'
  BY DEF PlainStep, ReconcileLoad, ReconcileRemove, StopOld, RemoveOld, PersistRead,
      StartContainer, VerifyRunning, StartFails, SyncRead, PostStart, TypeInv, TypeOK,
          HistoryTypeOK, historyVars, runVars
<1>5. Targets'
  BY DEF PlainStep, ReconcileLoad, ReconcileRemove, StopOld, RemoveOld, PersistRead,
      StartContainer, VerifyRunning, StartFails, SyncRead, PostStart, TypeInv, TypeOK,
          SessionTypeOK, CopyTypeOK, Targets, Targeted, Holding, Goto, localVars
<1> QED
  BY <1>1, <1>2, <1>3, <1>4, <1>5 DEF TypeInv, TypeOK

\* EndingStep keeps every variable in its type.
LEMMA EndingStepType ==
  ASSUME TypeInv, NEW s \in Sessions, EndingStep(s)
  PROVE  (faults' \in 0 .. MaxFaults) => TypeInv'
<1>1. EndFrom(s) /\ DockerTypeOK' /\ stateFile' \in MaybeState
  BY DEF EndingStep, ReconcileEnd, RefuseChangedConfig, CreateConflict, PersistFails,
      RefuseWithoutState, ShellExits, StopListed, RemoveState, Crash, TypeInv, TypeOK,
          DockerTypeOK, CopyTypeOK, MaybeState, dockerVars
<1>2. (faults' \in 0 .. MaxFaults) => HistoryTypeOK'
  BY DEF EndingStep, ReconcileEnd, RefuseChangedConfig, CreateConflict, PersistFails,
      RefuseWithoutState, ShellExits, StopListed, RemoveState, Crash, TypeInv, TypeOK,
          HistoryTypeOK, historyVars, runVars
<1> QED
  BY <1>1, <1>2, EndFromType DEF TypeInv, TypeOK, CopyTypeOK

\* What happens to the container without decune.
LEMMA OutsideType ==
  ASSUME TypeInv, ContainerExits \/ RemovedOutside
  PROVE  (faults' \in 0 .. MaxFaults) => TypeInv'
<1>1. DockerTypeOK'
  BY DEF ContainerExits, RemovedOutside, TypeInv, TypeOK, DockerTypeOK
<1>2. CopyTypeOK' /\ SessionTypeOK' /\ Targets'
  BY DEF ContainerExits, RemovedOutside, TypeInv, TypeOK, CopyTypeOK, SessionTypeOK,
      Targets,
         optionVars, localVars
<1>3. (faults' \in 0 .. MaxFaults) => HistoryTypeOK'
  BY DEF ContainerExits, RemovedOutside, TypeInv, TypeOK, HistoryTypeOK, historyVars,
      runVars
<1> QED
  BY <1>1, <1>2, <1>3 DEF TypeInv, TypeOK

\* A step that changes nothing.
LEMMA StutterType ==
  ASSUME TypeInv, UNCHANGED vars
  PROVE  TypeInv'
<1>1. DockerTypeOK' /\ CopyTypeOK' /\ SessionTypeOK' /\ Targets'
  BY DEF TypeInv, TypeOK, DockerTypeOK, CopyTypeOK, SessionTypeOK, Targets, vars,
      dockerVars,
         optionVars, localVars
<1>2. HistoryTypeOK'
  BY DEF TypeInv, TypeOK, HistoryTypeOK, vars, historyVars, runVars
<1> QED
  BY <1>1, <1>2 DEF TypeInv, TypeOK

\* Every step preserves the type invariant.
LEMMA NextTypeInv == TypeInv /\ [Next]_vars => TypeInv'
<1> SUFFICES ASSUME TypeInv, [Next]_vars PROVE TypeInv'
  OBVIOUS
<1>1. CASE UNCHANGED vars
  BY <1>1, StutterType
<1>2. ASSUME NEW s \in Sessions, StartUp(s) \/ StartDown(s) \/ Progress(s), UNCHANGED faults
      PROVE  TypeInv'
  <2>1. faults' \in 0 .. MaxFaults
    BY <1>2 DEF TypeInv, TypeOK, HistoryTypeOK
  <2> QED
    BY <1>2, <2>1, BeginType, ListType, DecideType, CreateContainerType, PersistWriteType,
       SyncWriteType, RunCommandType, RunAfterHookType, SaveProgressType, MarkUsedType,
       PlainStepType, EndingStepType
    DEF Progress, PlainStep, EndingStep
<1>3. ASSUME faults < MaxFaults, faults' = faults + 1,
             (\E s \in Sessions : Fault(s)) \/ ContainerExits \/ RemovedOutside
      PROVE  TypeInv'
  <2>1. faults' \in 0 .. MaxFaults
    BY <1>3, BoundsAssumption DEF TypeInv, TypeOK, HistoryTypeOK
  <2> QED
    BY <1>3, <2>1, PlainStepType, EndingStepType, OutsideType
    DEF Fault, PlainStep, EndingStep
<1> QED
  BY <1>1, <1>2, <1>3 DEF Next

\* The type invariant holds for any number of sessions, stages, containers,
\* plans and faults.
THEOREM TypeCorrect == Spec => []TypeOK
<1>1. Spec => []TypeInv
  BY InitTypeInv, NextTypeInv, PTL DEF Spec
<1>2. TypeInv => TypeOK
  BY DEF TypeInv
<1> QED
  BY <1>1, <1>2, PTL

-----------------------------------------------------------------------------
(* The truth of the state file.  Every copy of the state, on disk, just read *)
(* or in a session's memory, claims of the container it names only what      *)
(* happened there; and as names of containers are not given twice, a copy    *)
(* that names a container of the past never comes to speak of a new one.     *)

FaithfulIn(st, c, m, r, ra) ==
    st # NoState =>
        /\ st.container <= m
        /\ st.exec \in {0, st.container}
        /\ st.exec # 0 => ~HasPendingCreation(st.lifecycle)
        /\ st.container = c => /\ \A i \in st.lifecycle.command : <<c, i>> \in r
                               /\ \A i \in st.lifecycle.after : <<c, i>> \in ra

Faithful(st) == FaithfulIn(st, current, made, ran, ranAfter)

SessionTruth(s) ==
    /\ Faithful(found[s]) /\ Faithful(mem[s])
    /\ target[s] <= made
    /\ \A c \in seen[s] : c.id <= made
    /\ pc[s] = "use" => ~HasPendingCreation(mem[s].lifecycle)

Truth == current <= made /\ Faithful(stateFile) /\ \A s \in Sessions : SessionTruth(s)

\* What a step may do to the container and to what ran in it.
Advance ==
    /\ made <= made' /\ ran \subseteq ran' /\ ranAfter \subseteq ranAfter'
    /\ current' <= made'
    /\ current' = current \/ current' = 0 \/ current' > made

\* A faithful copy stays faithful when the world advances.
LEMMA Carried ==
  ASSUME TypeInv, TypeInv', Advance, NEW st \in MaybeState, Faithful(st)
  PROVE  FaithfulIn(st, current', made', ran', ranAfter')
<1>1. CASE st = NoState
  BY <1>1 DEF FaithfulIn
<1>2. CASE st # NoState
  <2>1. st.container \in Ids /\ st.container <= made /\ made \in Nat /\ made' \in Nat
    BY <1>2, BoundsAssumption
    DEF Faithful, FaithfulIn, MaybeState, WorkspaceState, TypeInv, TypeOK, DockerTypeOK
  <2>2. st.container = current' => current' = current
    BY <2>1 DEF Advance, Ids
  <2> QED
    BY <1>2, <2>1, <2>2, BoundsAssumption DEF Faithful, FaithfulIn, Advance, Ids
<1> QED
  BY <1>1, <1>2

\* A state synced for the session's container is faithful if what it read was.
LEMMA SyncFaithful ==
  ASSUME TypeInv, Truth, NEW s \in Sessions, pc[s] \in Targeted
  PROVE  Faithful(SyncState(found[s], target[s], plan[s].hash))
<1> DEFINE c == target[s]
           h == plan[s].hash
<1>1. c \in Ids /\ c <= made /\ found[s] \in MaybeState /\ Faithful(found[s])
  BY DEF TypeInv, TypeOK, CopyTypeOK, Targets, Truth, SessionTruth
<1>2. CASE Matches(found[s], c, h)
  BY <1>1, <1>2 DEF SyncState, Matches, ExecContextFor, Faithful, FaithfulIn
<1>3. CASE ~Matches(found[s], c, h)
  BY <1>1, <1>3 DEF SyncState, NoFlags, Faithful, FaithfulIn
<1> QED
  BY <1>2, <1>3

\* A missing state claims nothing.
LEMMA NoStateFaithful == \A c, m, r, ra : FaithfulIn(NoState, c, m, r, ra)
BY DEF FaithfulIn

\* Nothing is claimed at first.
LEMMA InitTruth == Init => Truth
BY NoStateFaithful DEF Init, Truth, SessionTruth, Faithful

\* The copies of a session that takes no part in a step stay faithful.
LEMMA OtherTruth ==
  ASSUME TypeInv, TypeInv', Truth, Advance, NEW r \in Sessions,
         found'[r] = found[r], mem'[r] = mem[r], target'[r] = target[r],
         seen'[r] = seen[r], pc'[r] = pc[r]
  PROVE  SessionTruth(r)'
<1>1. SessionTruth(r) /\ found[r] \in MaybeState /\ mem[r] \in MaybeState
  BY DEF Truth, TypeInv, TypeOK, CopyTypeOK
<1>2. Faithful(found[r])' /\ Faithful(mem[r])'
  BY <1>1, Carried DEF SessionTruth, Faithful
<1>3. target[r] \in Nat /\ made \in Nat /\ made' \in Nat /\ \A c \in seen[r] : c.id \in Nat
  BY BoundsAssumption DEF TypeInv, TypeOK, DockerTypeOK, SessionTypeOK, Summary, Ids
<1> QED
  BY <1>1, <1>2, <1>3 DEF SessionTruth, Advance

\* A session that ends keeps no copy, and the others keep theirs.
LEMMA EndFromTruth ==
  ASSUME TypeInv, TypeInv', Truth, Advance, NEW s \in Sessions, EndFrom(s)
  PROVE  \A r \in Sessions : SessionTruth(r)'
<1> SUFFICES ASSUME NEW r \in Sessions PROVE SessionTruth(r)'
  OBVIOUS
<1>0. made \in Nat /\ made' \in Nat
  BY BoundsAssumption DEF TypeInv, TypeOK, DockerTypeOK
<1>1. CASE r = s
  BY <1>0, <1>1, NoStateFaithful
  DEF EndFrom, SessionTruth, Faithful, TypeInv, TypeOK, SessionTypeOK, CopyTypeOK
<1>2. CASE r # s
  <2>1. /\ found'[r] = found[r] /\ mem'[r] = mem[r] /\ target'[r] = target[r]
        /\ seen'[r] = seen[r] /\ pc'[r] = pc[r]
    BY <1>2 DEF EndFrom, TypeInv, TypeOK, SessionTypeOK, CopyTypeOK
  <2> QED
    BY <2>1, OtherTruth
<1> QED
  BY <1>1, <1>2

SessionStep(s) == StartUp(s) \/ StartDown(s) \/ Progress(s) \/ Fault(s)

\* A session's step only moves the world forward.
LEMMA StepAdvance ==
  ASSUME TypeInv, Truth, NEW s \in Sessions, SessionStep(s)
  PROVE  Advance
BY BoundsAssumption
DEF SessionStep, StartUp, StartDown, Progress, Fault, Begin, List, ReconcileLoad,
    ReconcileRemove, ReconcileEnd, Decide, RefuseChangedConfig, StopOld, RemoveOld,
    CreateContainer, CreateConflict, PersistRead, PersistWrite, PersistFails,
    StartContainer, VerifyRunning, StartFails, SyncRead, RefuseWithoutState, SyncWrite,
    RunCommand, RunAfterHook, SaveProgress, PostStart, MarkUsed, ShellExits, StopListed,
    RemoveState, Crash, TypeInv, TypeOK, DockerTypeOK, Truth, Advance, dockerVars,
    historyVars, runVars, Ids

\* A session's step leaves the other sessions alone.
LEMMA StepOthers ==
  ASSUME TypeInv, NEW s \in Sessions, SessionStep(s), NEW r \in Sessions, r # s
  PROVE  /\ found'[r] = found[r] /\ mem'[r] = mem[r] /\ target'[r] = target[r]
         /\ seen'[r] = seen[r] /\ pc'[r] = pc[r]
BY DEF SessionStep, StartUp, StartDown, Progress, Fault, Begin, List, ReconcileLoad,
    ReconcileRemove, ReconcileEnd, Decide, RefuseChangedConfig, StopOld, RemoveOld,
    CreateContainer, CreateConflict, PersistRead, PersistWrite, PersistFails,
    StartContainer, VerifyRunning, StartFails, SyncRead, RefuseWithoutState, SyncWrite,
    RunCommand, RunAfterHook, SaveProgress, PostStart, MarkUsed, ShellExits, StopListed,
    RemoveState, Crash, TypeInv, TypeOK, SessionTypeOK, CopyTypeOK, Goto, EndFrom,
    localVars

\* What Truth speaks of.
LEMMA UnchangedTruth ==
  ASSUME Truth,
         UNCHANGED <<current, made, ran, ranAfter, stateFile, found, mem, target, seen>>,
         \A r \in Sessions : pc'[r] = "use" => pc[r] = "use"
  PROVE  Truth'
BY DEF Truth, SessionTruth, Faithful

\* Begin keeps every copy of the state faithful.
LEMMA BeginTruth ==
  ASSUME TypeInv, TypeInv', Truth, NEW s \in Sessions, StartUp(s) \/ StartDown(s)
  PROVE  Truth'
<1>1. PICK k \in Kinds, p \in Plan, e \in {"detach", "keep", "stop"} : Begin(s, k, p, e)
  BY AnyPlanType, EndingsAssumption DEF StartUp, StartDown
<1>2. /\ UNCHANGED <<current, made, ran, ranAfter, stateFile, found, mem, target, seen>>
      /\ \A r \in Sessions : pc'[r] = "use" => pc[r] = "use"
  BY <1>1 DEF Begin, Goto, TypeInv, TypeOK, SessionTypeOK, dockerVars, localVars,
      historyVars,
              runVars
<1> QED
  BY <1>2, UnchangedTruth

\* List keeps every copy of the state faithful.
LEMMA ListTruth ==
  ASSUME TypeInv, TypeInv', Truth, NEW s \in Sessions, List(s)
  PROVE  Truth'
<1>1. Advance
  BY StepAdvance DEF SessionStep, Progress
<1>2. ASSUME NEW r \in Sessions, r # s PROVE SessionTruth(r)'
  BY <1>1, <1>2, StepOthers, OtherTruth DEF SessionStep, Progress
<1>3. Faithful(stateFile)'
  BY <1>1, Carried, NoStateFaithful DEF List, Truth, Faithful, TypeInv, TypeOK, CopyTypeOK
<1>4. SessionTruth(s)'
  <2>1. SessionTruth(s) /\ found[s] \in MaybeState /\ mem[s] \in MaybeState
    BY DEF Truth, TypeInv, TypeOK, CopyTypeOK
  <2>2. Faithful(found[s])' /\ Faithful(mem[s])'
    BY <1>1, <2>1, Carried, NoStateFaithful
    DEF List, SessionTruth, Faithful, TypeInv, TypeOK, CopyTypeOK, localVars
  <2>3. target'[s] <= made' /\ \A c \in seen'[s] : c.id <= made'
    <3>1. target'[s] = target[s] /\ made' = made /\ current <= made
      BY DEF List, Truth, dockerVars
    <3>2. \A c \in seen'[s] : c.id = current
      BY DEF List, TypeInv, TypeOK, SessionTypeOK
    <3> QED
      BY <2>1, <3>1, <3>2 DEF SessionTruth
  <2>4. pc'[s] # "use"
    BY DEF List, Goto, TypeInv, TypeOK, SessionTypeOK, AfterList
  <2> QED
    BY <2>2, <2>3, <2>4 DEF SessionTruth
<1> QED
  BY <1>1, <1>2, <1>3, <1>4 DEF Truth, Advance

\* Decide keeps every copy of the state faithful.
LEMMA DecideTruth ==
  ASSUME TypeInv, TypeInv', Truth, NEW s \in Sessions, Decide(s)
  PROVE  Truth'
<1>1. Advance
  BY StepAdvance DEF SessionStep, Progress
<1>2. ASSUME NEW r \in Sessions, r # s PROVE SessionTruth(r)'
  BY <1>1, <1>2, StepOthers, OtherTruth DEF SessionStep, Progress
<1>3. Faithful(stateFile)'
  BY <1>1, Carried, NoStateFaithful DEF Decide, Truth, Faithful, TypeInv, TypeOK, CopyTypeOK
<1>4. SessionTruth(s)'
  <2>1. SessionTruth(s) /\ found[s] \in MaybeState /\ mem[s] \in MaybeState
    BY DEF Truth, TypeInv, TypeOK, CopyTypeOK
  <2>2. Faithful(found[s])' /\ Faithful(mem[s])'
    BY <1>1, <2>1, Carried, NoStateFaithful
    DEF Decide, SessionTruth, Faithful, TypeInv, TypeOK, CopyTypeOK, localVars
  <2>3. target'[s] <= made' /\ \A c \in seen'[s] : c.id <= made'
    BY <1>1, <2>1, BoundsAssumption
    DEF Decide, SessionTruth, TypeInv, TypeOK, DockerTypeOK, SessionTypeOK, Summary,
        Ids, Advance,
        localVars
  <2>4. pc'[s] # "use"
    BY DEF Decide, Goto, TypeInv, TypeOK, SessionTypeOK
  <2> QED
    BY <2>2, <2>3, <2>4 DEF SessionTruth
<1> QED
  BY <1>1, <1>2, <1>3, <1>4 DEF Truth, Advance

\* CreateContainer keeps every copy of the state faithful.
LEMMA CreateContainerTruth ==
  ASSUME TypeInv, TypeInv', Truth, NEW s \in Sessions, CreateContainer(s)
  PROVE  Truth'
<1>1. Advance
  BY StepAdvance DEF SessionStep, Progress
<1>2. ASSUME NEW r \in Sessions, r # s PROVE SessionTruth(r)'
  BY <1>1, <1>2, StepOthers, OtherTruth DEF SessionStep, Progress
<1>3. Faithful(stateFile)'
  BY <1>1, Carried, NoStateFaithful DEF CreateContainer, Truth, Faithful, TypeInv,
      TypeOK, CopyTypeOK
<1>4. SessionTruth(s)'
  <2>1. SessionTruth(s) /\ found[s] \in MaybeState /\ mem[s] \in MaybeState
    BY DEF Truth, TypeInv, TypeOK, CopyTypeOK
  <2>2. Faithful(found[s])' /\ Faithful(mem[s])'
    BY <1>1, <2>1, Carried, NoStateFaithful
    DEF CreateContainer, SessionTruth, Faithful, TypeInv, TypeOK, CopyTypeOK, localVars
  <2>3. target'[s] <= made' /\ \A c \in seen'[s] : c.id <= made'
    BY <1>1, <2>1, BoundsAssumption
    DEF CreateContainer, SessionTruth, TypeInv, TypeOK, DockerTypeOK, SessionTypeOK,
        Summary, Ids, Advance,
        localVars
  <2>4. pc'[s] # "use"
    BY DEF CreateContainer, Goto, TypeInv, TypeOK, SessionTypeOK
  <2> QED
    BY <2>2, <2>3, <2>4 DEF SessionTruth
<1> QED
  BY <1>1, <1>2, <1>3, <1>4 DEF Truth, Advance

\* PersistWrite keeps every copy of the state faithful.
LEMMA PersistWriteTruth ==
  ASSUME TypeInv, TypeInv', Truth, NEW s \in Sessions, PersistWrite(s)
  PROVE  Truth'
<1>1. Advance
  BY StepAdvance DEF SessionStep, Progress
<1>2. ASSUME NEW r \in Sessions, r # s PROVE SessionTruth(r)'
  BY <1>1, <1>2, StepOthers, OtherTruth DEF SessionStep, Progress
<1> DEFINE st == SyncState(found[s], target[s], plan[s].hash)
<1>5. pc[s] \in Targeted
  BY DEF PersistWrite, Goto, Targeted
<1>6. st \in WorkspaceState /\ Faithful(st)
  BY <1>5, SessionSyncType, SyncFaithful
<1>7. Faithful(stateFile)'
  <2>1. stateFile' = st
    BY DEF PersistWrite, WriteState, TypeInv, TypeOK, CopyTypeOK
  <2> HIDE DEF st
  <2> QED
    BY <1>1, <1>6, <2>1, Carried DEF Faithful, MaybeState
<1>3. Faithful(stateFile)'
  BY <1>7
<1>4. SessionTruth(s)'
  <2>1. SessionTruth(s) /\ found[s] \in MaybeState /\ mem[s] \in MaybeState
    BY DEF Truth, TypeInv, TypeOK, CopyTypeOK
  <2>2. Faithful(found[s])' /\ Faithful(mem[s])'
    BY <1>1, <2>1, Carried, NoStateFaithful
    DEF PersistWrite, SessionTruth, Faithful, TypeInv, TypeOK, CopyTypeOK, localVars
  <2>3. target'[s] <= made' /\ \A c \in seen'[s] : c.id <= made'
    BY <1>1, <2>1, BoundsAssumption
    DEF PersistWrite, SessionTruth, TypeInv, TypeOK, DockerTypeOK, SessionTypeOK,
        Summary, Ids, Advance,
        localVars
  <2>4. pc'[s] # "use"
    BY DEF PersistWrite, Goto, TypeInv, TypeOK, SessionTypeOK
  <2> QED
    BY <2>2, <2>3, <2>4 DEF SessionTruth
<1> QED
  BY <1>1, <1>2, <1>3, <1>4 DEF Truth, Advance

\* SyncWrite keeps every copy of the state faithful.
LEMMA SyncWriteTruth ==
  ASSUME TypeInv, TypeInv', Truth, NEW s \in Sessions, SyncWrite(s)
  PROVE  Truth'
<1>1. Advance
  BY StepAdvance DEF SessionStep, Progress
<1>2. ASSUME NEW r \in Sessions, r # s PROVE SessionTruth(r)'
  BY <1>1, <1>2, StepOthers, OtherTruth DEF SessionStep, Progress
<1> DEFINE st == SyncState(found[s], target[s], plan[s].hash)
<1>5. pc[s] \in Targeted
  BY DEF SyncWrite, Goto, Targeted
<1>6. st \in WorkspaceState /\ Faithful(st)
  BY <1>5, SessionSyncType, SyncFaithful
<1>7. Faithful(stateFile)' /\ Faithful(mem[s])'
  <2>1. stateFile' = st /\ mem'[s] = st
    BY DEF SyncWrite, WriteState, TypeInv, TypeOK, CopyTypeOK
  <2> HIDE DEF st
  <2> QED
    BY <1>1, <1>6, <2>1, Carried DEF Faithful, MaybeState
<1>3. Faithful(stateFile)'
  BY <1>7
<1>4. SessionTruth(s)'
  <2>1. SessionTruth(s) /\ found[s] \in MaybeState /\ mem[s] \in MaybeState
    BY DEF Truth, TypeInv, TypeOK, CopyTypeOK
  <2>2. Faithful(found[s])' /\ Faithful(mem[s])'
    BY <1>1, <1>7, <2>1, NoStateFaithful
    DEF SyncWrite, SessionTruth, Faithful, TypeInv, TypeOK, CopyTypeOK, localVars
  <2>3. target'[s] <= made' /\ \A c \in seen'[s] : c.id <= made'
    BY <1>1, <2>1, BoundsAssumption
    DEF SyncWrite, SessionTruth, TypeInv, TypeOK, DockerTypeOK, SessionTypeOK,
        Summary, Ids, Advance,
        localVars
  <2>4. pc'[s] # "use"
    BY DEF SyncWrite, Goto, TypeInv, TypeOK, SessionTypeOK
  <2> QED
    BY <2>2, <2>3, <2>4 DEF SessionTruth
<1> QED
  BY <1>1, <1>2, <1>3, <1>4 DEF Truth, Advance

\* RunCommand keeps every copy of the state faithful.
LEMMA RunCommandTruth ==
  ASSUME TypeInv, TypeInv', Truth, NEW s \in Sessions, RunCommand(s)
  PROVE  Truth'
<1>1. Advance
  BY StepAdvance DEF SessionStep, Progress
<1>2. ASSUME NEW r \in Sessions, r # s PROVE SessionTruth(r)'
  BY <1>1, <1>2, StepOthers, OtherTruth DEF SessionStep, Progress
<1>3. Faithful(stateFile)'
  BY <1>1, Carried, NoStateFaithful DEF RunCommand, Truth, Faithful, TypeInv, TypeOK,
      CopyTypeOK
<1>5. SessionTruth(s) /\ mem[s] \in WorkspaceState
  BY DEF RunCommand, Goto, TypeInv, Targets, Holding, Truth
<1>6. PICK i \in Stage :
        /\ ran' = ran \cup {<<current, i>>}
        /\ mem' = [mem EXCEPT ![s].lifecycle.command = @ \cup {i}]
  BY DEF RunCommand
<1> DEFINE st == [mem[s] EXCEPT !.lifecycle.command = @ \cup {i}]
<1>7. st \in WorkspaceState
  BY <1>5 DEF WorkspaceState, LifecycleFlags
<1>8. FaithfulIn(st, current', made', ran', ranAfter')
  <2>1. FaithfulIn(mem[s], current', made', ran', ranAfter')
    BY <1>1, <1>5, Carried DEF SessionTruth, MaybeState
  <2>2. HasPendingCreation(st.lifecycle) => HasPendingCreation(mem[s].lifecycle)
    BY <1>5 DEF HasPendingCreation, Completed, WorkspaceState, LifecycleFlags
  <2>3. st.container = mem[s].container /\ st.exec = mem[s].exec /\ mem[s] # NoState
    BY <1>5, NoStateAssumption DEF WorkspaceState
  <2>4. st.container = current' =>
          /\ \A j \in st.lifecycle.command : <<current', j>> \in ran'
          /\ \A j \in st.lifecycle.after : <<current', j>> \in ranAfter'
    <3>1. st.lifecycle = [mem[s].lifecycle EXCEPT !.command = @ \cup {i}]
      BY <1>5 DEF WorkspaceState
    <3>2. /\ st.lifecycle.command = mem[s].lifecycle.command \cup {i}
          /\ st.lifecycle.after = mem[s].lifecycle.after
      BY <1>5, <3>1 DEF WorkspaceState, LifecycleFlags
    <3>3. current' = current
      BY DEF RunCommand, dockerVars
    <3> HIDE DEF st
    <3> QED
      BY <1>6, <2>1, <2>3, <3>2, <3>3 DEF FaithfulIn
  <2> QED
    BY <2>1, <2>2, <2>3, <2>4 DEF FaithfulIn
<1>9. Faithful(mem[s])'
  BY <1>6, <1>8 DEF Faithful, TypeInv, TypeOK, CopyTypeOK
<1>4. SessionTruth(s)'
  <2>1. SessionTruth(s) /\ found[s] \in MaybeState /\ mem[s] \in MaybeState
    BY DEF Truth, TypeInv, TypeOK, CopyTypeOK
  <2>2. Faithful(found[s])' /\ Faithful(mem[s])'
    BY <1>1, <1>9, <2>1, Carried, NoStateFaithful
    DEF RunCommand, SessionTruth, Faithful, TypeInv, TypeOK, CopyTypeOK, localVars
  <2>3. target'[s] <= made' /\ \A c \in seen'[s] : c.id <= made'
    BY <1>1, <2>1, BoundsAssumption
    DEF RunCommand, SessionTruth, TypeInv, TypeOK, DockerTypeOK, SessionTypeOK,
        Summary, Ids, Advance,
        localVars
  <2>4. pc'[s] # "use"
    BY DEF RunCommand, Goto, TypeInv, TypeOK, SessionTypeOK
  <2> QED
    BY <2>2, <2>3, <2>4 DEF SessionTruth
<1> QED
  BY <1>1, <1>2, <1>3, <1>4 DEF Truth, Advance

\* RunAfterHook keeps every copy of the state faithful.
LEMMA RunAfterHookTruth ==
  ASSUME TypeInv, TypeInv', Truth, NEW s \in Sessions, RunAfterHook(s)
  PROVE  Truth'
<1>1. Advance
  BY StepAdvance DEF SessionStep, Progress
<1>2. ASSUME NEW r \in Sessions, r # s PROVE SessionTruth(r)'
  BY <1>1, <1>2, StepOthers, OtherTruth DEF SessionStep, Progress
<1>3. Faithful(stateFile)'
  BY <1>1, Carried, NoStateFaithful DEF RunAfterHook, Truth, Faithful, TypeInv,
      TypeOK, CopyTypeOK
<1>5. SessionTruth(s) /\ mem[s] \in WorkspaceState
  BY DEF RunAfterHook, Goto, TypeInv, Targets, Holding, Truth
<1>6. PICK i \in Stage :
        /\ ranAfter' = ranAfter \cup {<<current, i>>}
        /\ mem' = [mem EXCEPT ![s].lifecycle.after = @ \cup {i}]
  BY DEF RunAfterHook
<1> DEFINE st == [mem[s] EXCEPT !.lifecycle.after = @ \cup {i}]
<1>7. st \in WorkspaceState
  BY <1>5 DEF WorkspaceState, LifecycleFlags
<1>8. FaithfulIn(st, current', made', ran', ranAfter')
  <2>1. FaithfulIn(mem[s], current', made', ran', ranAfter')
    BY <1>1, <1>5, Carried DEF SessionTruth, MaybeState
  <2>2. HasPendingCreation(st.lifecycle) => HasPendingCreation(mem[s].lifecycle)
    BY <1>5 DEF HasPendingCreation, Completed, WorkspaceState, LifecycleFlags
  <2>3. st.container = mem[s].container /\ st.exec = mem[s].exec /\ mem[s] # NoState
    BY <1>5, NoStateAssumption DEF WorkspaceState
  <2>4. st.container = current' =>
          /\ \A j \in st.lifecycle.command : <<current', j>> \in ran'
          /\ \A j \in st.lifecycle.after : <<current', j>> \in ranAfter'
    <3>1. st.lifecycle = [mem[s].lifecycle EXCEPT !.after = @ \cup {i}]
      BY <1>5 DEF WorkspaceState
    <3>2. /\ st.lifecycle.after = mem[s].lifecycle.after \cup {i}
          /\ st.lifecycle.command = mem[s].lifecycle.command
      BY <1>5, <3>1 DEF WorkspaceState, LifecycleFlags
    <3>3. current' = current
      BY DEF RunAfterHook, dockerVars
    <3> HIDE DEF st
    <3> QED
      BY <1>6, <2>1, <2>3, <3>2, <3>3 DEF FaithfulIn
  <2> QED
    BY <2>1, <2>2, <2>3, <2>4 DEF FaithfulIn
<1>9. Faithful(mem[s])'
  BY <1>6, <1>8 DEF Faithful, TypeInv, TypeOK, CopyTypeOK
<1>4. SessionTruth(s)'
  <2>1. SessionTruth(s) /\ found[s] \in MaybeState /\ mem[s] \in MaybeState
    BY DEF Truth, TypeInv, TypeOK, CopyTypeOK
  <2>2. Faithful(found[s])' /\ Faithful(mem[s])'
    BY <1>1, <1>9, <2>1, Carried, NoStateFaithful
    DEF RunAfterHook, SessionTruth, Faithful, TypeInv, TypeOK, CopyTypeOK, localVars
  <2>3. target'[s] <= made' /\ \A c \in seen'[s] : c.id <= made'
    BY <1>1, <2>1, BoundsAssumption
    DEF RunAfterHook, SessionTruth, TypeInv, TypeOK, DockerTypeOK, SessionTypeOK,
        Summary, Ids, Advance,
        localVars
  <2>4. pc'[s] # "use"
    BY DEF RunAfterHook, Goto, TypeInv, TypeOK, SessionTypeOK
  <2> QED
    BY <2>2, <2>3, <2>4 DEF SessionTruth
<1> QED
  BY <1>1, <1>2, <1>3, <1>4 DEF Truth, Advance

\* SaveProgress keeps every copy of the state faithful.
LEMMA SaveProgressTruth ==
  ASSUME TypeInv, TypeInv', Truth, NEW s \in Sessions, SaveProgress(s)
  PROVE  Truth'
<1>1. Advance
  BY StepAdvance DEF SessionStep, Progress
<1>2. ASSUME NEW r \in Sessions, r # s PROVE SessionTruth(r)'
  BY <1>1, <1>2, StepOthers, OtherTruth DEF SessionStep, Progress
<1>3. Faithful(stateFile)'
  BY <1>1, Carried, NoStateFaithful DEF SaveProgress, WriteState, Truth, SessionTruth,
      Faithful, TypeInv, TypeOK, CopyTypeOK
<1>4. SessionTruth(s)'
  <2>1. SessionTruth(s) /\ found[s] \in MaybeState /\ mem[s] \in MaybeState
    BY DEF Truth, TypeInv, TypeOK, CopyTypeOK
  <2>2. Faithful(found[s])' /\ Faithful(mem[s])'
    BY <1>1, <2>1, Carried, NoStateFaithful
    DEF SaveProgress, SessionTruth, Faithful, TypeInv, TypeOK, CopyTypeOK, localVars
  <2>3. target'[s] <= made' /\ \A c \in seen'[s] : c.id <= made'
    BY <1>1, <2>1, BoundsAssumption
    DEF SaveProgress, SessionTruth, TypeInv, TypeOK, DockerTypeOK, SessionTypeOK,
        Summary, Ids, Advance,
        localVars
  <2>4. pc'[s] # "use"
    BY DEF SaveProgress, Goto, TypeInv, TypeOK, SessionTypeOK
  <2> QED
    BY <2>2, <2>3, <2>4 DEF SessionTruth
<1> QED
  BY <1>1, <1>2, <1>3, <1>4 DEF Truth, Advance

\* MarkUsed keeps every copy of the state faithful.
LEMMA MarkUsedTruth ==
  ASSUME TypeInv, TypeInv', Truth, NEW s \in Sessions, MarkUsed(s)
  PROVE  Truth'
<1>1. Advance
  BY StepAdvance DEF SessionStep, Progress
<1> DEFINE st == [mem[s] EXCEPT !.exec = target[s]]
<1>2. /\ pc[s] = "use" /\ SessionTruth(s) /\ target[s] \in Ids
      /\ mem[s] \in WorkspaceState /\ mem[s].container = target[s]
  BY DEF MarkUsed, TypeInv, Targets, Targeted, Holding, Truth
<1>3. st \in WorkspaceState /\ Faithful(st)
  BY <1>2, NoStateAssumption DEF WorkspaceState, SessionTruth, Faithful, FaithfulIn
<1>4. stateFile' = st
  BY DEF MarkUsed, WriteState
<1>5. FaithfulIn(st, current', made', ran', ranAfter')
  <2> HIDE DEF st
  <2> QED
    BY <1>1, <1>3, Carried DEF MaybeState
<1>6. CASE EndFrom(s)
  BY <1>1, <1>4, <1>5, <1>6, EndFromTruth DEF Truth, Faithful, Advance
<1>7. CASE /\ pc' = [pc EXCEPT ![s] = "shell"] /\ mem' = [mem EXCEPT ![s] = st]
           /\ UNCHANGED <<optionVars, seen, path, target, found, pending>>
  <2> HIDE DEF st
  <2>1. ASSUME NEW r \in Sessions, r # s PROVE SessionTruth(r)'
    <3>1. /\ found'[r] = found[r] /\ mem'[r] = mem[r] /\ target'[r] = target[r]
          /\ seen'[r] = seen[r] /\ pc'[r] = pc[r]
      BY <1>7, <2>1 DEF TypeInv, TypeOK, SessionTypeOK, CopyTypeOK
    <3> QED
      BY <1>1, <3>1, OtherTruth
  <2>2. SessionTruth(s)'
    <3>1. pc'[s] = "shell" /\ mem'[s] = st /\ UNCHANGED <<seen, target, found, made>>
      BY <1>7 DEF TypeInv, TypeOK, SessionTypeOK, CopyTypeOK, MarkUsed, dockerVars
    <3>2. Faithful(found[s])' /\ Faithful(mem[s])'
      BY <1>1, <1>2, <1>5, <3>1, Carried
      DEF SessionTruth, Faithful, TypeInv, TypeOK, CopyTypeOK
    <3> QED
      BY <1>2, <3>1, <3>2 DEF SessionTruth
  <2> QED
    BY <1>1, <1>4, <1>5, <2>1, <2>2 DEF Truth, Faithful, Advance
<1> QED
  BY <1>6, <1>7 DEF MarkUsed

\* PlainStep keeps every copy of the state faithful.
LEMMA PlainStepTruth ==
  ASSUME TypeInv, TypeInv', Truth, NEW s \in Sessions, PlainStep(s)
  PROVE  Truth'
<1>1. Advance
  BY StepAdvance DEF SessionStep, Progress, Fault, PlainStep
<1>2. ASSUME NEW r \in Sessions, r # s PROVE SessionTruth(r)'
  BY <1>1, <1>2, StepOthers, OtherTruth DEF SessionStep, Progress, Fault, PlainStep
<1>3. Faithful(stateFile)'
  BY <1>1, Carried, NoStateFaithful DEF PlainStep, ReconcileLoad, ReconcileRemove,
      StopOld, RemoveOld, PersistRead,
      StartContainer, VerifyRunning, StartFails, SyncRead, PostStart, Truth, Faithful,
          TypeInv, TypeOK, CopyTypeOK
<1>4. SessionTruth(s)'
  <2>1. SessionTruth(s) /\ found[s] \in MaybeState /\ mem[s] \in MaybeState
    BY DEF Truth, TypeInv, TypeOK, CopyTypeOK
  <2>2. Faithful(found[s])' /\ Faithful(mem[s])'
    BY <1>1, <1>3, <2>1, Carried, NoStateFaithful
    DEF PlainStep, ReconcileLoad, ReconcileRemove, StopOld, RemoveOld, PersistRead,
      StartContainer, VerifyRunning, StartFails, SyncRead, PostStart, SessionTruth,
          Faithful, TypeInv, TypeOK, CopyTypeOK, localVars
  <2>3. target'[s] <= made' /\ \A c \in seen'[s] : c.id <= made'
    BY <1>1, <2>1, BoundsAssumption
    DEF PlainStep, ReconcileLoad, ReconcileRemove, StopOld, RemoveOld, PersistRead,
      StartContainer, VerifyRunning, StartFails, SyncRead, PostStart, SessionTruth,
          TypeInv, TypeOK, DockerTypeOK, SessionTypeOK, Summary, Ids, Advance,
        localVars
  <2>4. pc'[s] # "use" \/ ~HasPendingCreation(mem'[s].lifecycle)
    BY DEF PlainStep, ReconcileLoad, ReconcileRemove, StopOld, RemoveOld, PersistRead,
      StartContainer, VerifyRunning, StartFails, SyncRead, PostStart, Goto, TypeInv,
          TypeOK, SessionTypeOK, localVars
  <2> QED
    BY <2>2, <2>3, <2>4 DEF SessionTruth
<1> QED
  BY <1>1, <1>2, <1>3, <1>4 DEF Truth, Advance

\* EndingStep keeps every copy of the state faithful.
LEMMA EndingStepTruth ==
  ASSUME TypeInv, TypeInv', Truth, NEW s \in Sessions, EndingStep(s)
  PROVE  Truth'
<1>1. Advance
  BY StepAdvance DEF SessionStep, Progress, Fault, EndingStep, ReconcileEnd,
      RefuseChangedConfig, CreateConflict, PersistFails,
      RefuseWithoutState, ShellExits, StopListed, RemoveState, Crash
<1>2. EndFrom(s) /\ (stateFile' = stateFile \/ stateFile' = NoState)
  BY DEF EndingStep, ReconcileEnd, RefuseChangedConfig, CreateConflict, PersistFails,
      RefuseWithoutState, ShellExits, StopListed, RemoveState, Crash
<1>3. Faithful(stateFile)'
  BY <1>1, <1>2, Carried, NoStateFaithful DEF Truth, Faithful, TypeInv, TypeOK, CopyTypeOK
<1>4. \A r \in Sessions : SessionTruth(r)'
  BY <1>1, <1>2, EndFromTruth
<1> QED
  BY <1>1, <1>3, <1>4 DEF Truth, Advance

\* Neither does the end of the container make a copy false.
LEMMA OutsideTruth ==
  ASSUME TypeInv, TypeInv', Truth, ContainerExits \/ RemovedOutside
  PROVE  Truth'
<1>1. Advance
  BY BoundsAssumption
  DEF ContainerExits, RemovedOutside, TypeInv, TypeOK, DockerTypeOK, Truth, Advance,
      dockerVars,
      historyVars, runVars, Ids
<1>2. UNCHANGED <<stateFile, found, mem, target, seen, pc>>
  BY DEF ContainerExits, RemovedOutside, localVars
<1>3. Faithful(stateFile)'
  BY <1>1, <1>2, Carried DEF Truth, Faithful, TypeInv, TypeOK, CopyTypeOK
<1>4. \A r \in Sessions : SessionTruth(r)'
  BY <1>1, <1>2, OtherTruth
<1> QED
  BY <1>1, <1>3, <1>4 DEF Truth, Advance

\* Every step keeps every copy faithful.
LEMMA NextTruth == TypeInv /\ Truth /\ [Next]_vars => Truth'
<1> SUFFICES ASSUME TypeInv, Truth, [Next]_vars PROVE Truth'
  OBVIOUS
<1>0. TypeInv'
  BY NextTypeInv
<1>1. CASE UNCHANGED vars
  BY <1>1, UnchangedTruth DEF vars, dockerVars, localVars, historyVars, runVars
<1>2. ASSUME NEW s \in Sessions, StartUp(s) \/ StartDown(s) \/ Progress(s)
      PROVE  Truth'
  BY <1>0, <1>2, BeginTruth, ListTruth, DecideTruth, CreateContainerTruth,
      PersistWriteTruth,
     SyncWriteTruth, RunCommandTruth, RunAfterHookTruth, SaveProgressTruth,
     MarkUsedTruth, PlainStepTruth, EndingStepTruth
  DEF Progress, PlainStep, EndingStep
<1>3. ASSUME NEW s \in Sessions, Fault(s)
      PROVE  Truth'
  BY <1>0, <1>3, PlainStepTruth, EndingStepTruth DEF Fault, PlainStep, EndingStep
<1> QED
  BY <1>0, <1>1, <1>2, <1>3, OutsideTruth DEF Next

\* The two invariants together are inductive.
LEMMA TruthInvariant == Spec => [](TypeInv /\ Truth)
<1>1. Init => TypeInv /\ Truth
  BY InitTypeInv, InitTruth
<1>2. TypeInv /\ Truth /\ [Next]_vars => (TypeInv /\ Truth)'
  BY NextTypeInv, NextTruth
<1> QED
  BY <1>1, <1>2, PTL DEF Spec

\* Whatever the sessions do and wherever they die, the state file claims a
\* creation stage of the container that exists only if it succeeded there.
THEOREM StateFileTellsTheTruth == Spec => []RecordedStagesRan
<1>1. TypeInv /\ Truth => RecordedStagesRan
  BY DEF Truth, Faithful, FaithfulIn, RecordedStagesRan
<1> QED
  BY <1>1, TruthInvariant, PTL

\* The container that `decune exec` finds recorded has completed its creation.
THEOREM ExecFindsReady == Spec => []ExecFindsReadyContainer
<1>1. TypeInv /\ Truth => ExecFindsReadyContainer
  <2> SUFFICES ASSUME TypeInv, Truth, stateFile # NoState, stateFile.exec # 0,
                      stateFile.exec = current, NEW i \in Stage
               PROVE  <<current, i>> \in ran /\ <<current, i>> \in ranAfter
    BY DEF ExecFindsReadyContainer
  <2>1. stateFile.container = current /\ Completed(stateFile.lifecycle, i)
    BY DEF Truth, Faithful, FaithfulIn, HasPendingCreation
  <2> QED
    BY <2>1 DEF Truth, Faithful, FaithfulIn, Completed
<1> QED
  BY <1>1, TruthInvariant, PTL

-----------------------------------------------------------------------------
(* One command at a time.                                                    *)

\* What the session has listed is what there is, or was.
Seen(s) ==
    /\ seen[s] = {} => current = 0
    /\ \A c \in seen[s] : current = 0 \/ (current = c.id /\ label = c.plan)

\* What a session that works alone knows of the container.
AloneIn(s) ==
    /\ pc[s] \in {"idle", "list", "reconcile", "reconcileRemove"} => seen[s] = {}
    /\ pc[s] \in {"decide", "stopOld", "removeOld", "stop"} => Seen(s)
    /\ pc[s] \in {"reconcile", "reconcileRemove", "cleanup", "cleanupRemove", "create",
                  "removeState"} => current = 0
    /\ pc[s] \in Targeted => current = 0 \/ (current = target[s] /\ label = plan[s])
    /\ (pc[s] \notin Targeted \/ pc[s] \in {"persistRead", "persistWrite", "start"})
         => path[s] = "New"
    /\ pc[s] = "startOld" => path[s] = "Started"
    /\ pc[s] = "verify" => path[s] # "Running"

\* A session that ends forgets what it knew.
LEMMA EndingEnds == \A s : EndingStep(s) => EndFrom(s)
BY DEF EndingStep, ReconcileEnd, RefuseChangedConfig, CreateConflict, PersistFails,
    RefuseWithoutState, ShellExits, StopListed, RemoveState, Crash

\* Every step of the session keeps it so.
LEMMA StepAlone ==
  ASSUME TypeInv, NEW s \in Sessions, AloneIn(s), SessionStep(s)
  PROVE  AloneIn(s)'
<1> USE DEF TypeInv, TypeOK, SessionTypeOK, Goto, AloneIn, Seen, Targeted, dockerVars, optionVars,
           localVars
<1>1. CASE StartUp(s) \/ StartDown(s)
  <2>1. PICK k \in Kinds, p \in Plan, e \in {"detach", "keep", "stop"} : Begin(s, k, p, e)
    BY <1>1, AnyPlanType, EndingsAssumption DEF StartUp, StartDown
  <2> QED
    BY <2>1 DEF Begin
<1>2. CASE EndFrom(s)
  BY <1>2 DEF EndFrom
<1>3. CASE List(s)
  <2>1. /\ pc'[s] \in {"stop", "stopOld", "reconcile", "decide"} /\ path'[s] = path[s]
        /\ pc'[s] = "reconcile" => current = 0 /\ pc[s] = "list"
    BY <1>3 DEF List, AfterList
  <2>2. /\ current' = current /\ label' = label /\ pc[s] = "list"
        /\ seen'[s] = IF current = 0 THEN {}
                       ELSE {[id |-> current, running |-> running, plan |-> label]}
    BY <1>3 DEF List
  <2>3. Seen(s)'
    <3>1. CASE current = 0
      BY <2>2, <3>1
    <3>2. CASE current # 0
      <4> DEFINE line == [id |-> current, running |-> running, plan |-> label]
      <4>1. seen'[s] = {line} /\ line.id = current /\ line.plan = label
        BY <2>2, <3>2
      <4> HIDE DEF line
      <4> QED
        BY <2>2, <4>1
    <3> QED
      BY <3>1, <3>2
  <2> QED
    BY <2>1, <2>2, <2>3
<1>4. CASE ReconcileLoad(s)
  BY <1>4 DEF ReconcileLoad
<1>5. CASE ReconcileRemove(s)
  BY <1>5 DEF ReconcileRemove
<1>6. CASE Decide(s)
  BY <1>6 DEF Decide
<1>7. CASE StopOld(s)
  BY <1>7 DEF StopOld
<1>8. CASE RemoveOld(s)
  BY <1>8 DEF RemoveOld
<1>9. CASE CreateContainer(s)
  BY <1>9 DEF CreateContainer
<1>10. CASE PersistRead(s)
  BY <1>10 DEF PersistRead
<1>11. CASE PersistWrite(s)
  BY <1>11 DEF PersistWrite, WriteState
<1>12. CASE StartContainer(s)
  BY <1>12 DEF StartContainer
<1>13. CASE VerifyRunning(s)
  BY <1>13 DEF VerifyRunning
<1>14. CASE StartFails(s)
  BY <1>14 DEF StartFails
<1>15. CASE SyncRead(s)
  BY <1>15 DEF SyncRead
<1>16. CASE SyncWrite(s)
  BY <1>16 DEF SyncWrite
<1>17. CASE RunCommand(s)
  BY <1>17 DEF RunCommand
<1>18. CASE RunAfterHook(s)
  BY <1>18 DEF RunAfterHook
<1>19. CASE SaveProgress(s)
  BY <1>19 DEF SaveProgress
<1>20. CASE PostStart(s)
  BY <1>20 DEF PostStart
<1>21. CASE MarkUsed(s)
  BY <1>21 DEF MarkUsed, EndFrom
<1> QED
  BY <1>1, <1>2, <1>3, <1>4, <1>5, <1>6, <1>7, <1>8, <1>9, <1>10, <1>11, <1>12, <1>13,
     <1>14, <1>15, <1>16, <1>17, <1>18, <1>19, <1>20, <1>21, EndingEnds
  DEF SessionStep, Progress, Fault, EndingStep

\* Only the stages add to what ran.
LEMMA StepRan ==
  ASSUME NEW s \in Sessions, SessionStep(s), ~RunCommand(s), ~RunAfterHook(s)
  PROVE  UNCHANGED <<ran, ranAfter>>
BY DEF SessionStep, StartUp, StartDown, Progress, Fault, Begin, List, ReconcileLoad,
    ReconcileRemove, ReconcileEnd, Decide, RefuseChangedConfig, StopOld, RemoveOld,
    CreateContainer, CreateConflict, PersistRead, PersistWrite, PersistFails, StartContainer,
    VerifyRunning, StartFails, SyncRead, RefuseWithoutState, SyncWrite, SaveProgress,
    PostStart, MarkUsed, ShellExits, StopListed, RemoveState, Crash, historyVars, runVars

\* One decune command at a time.
OneSession == \A s, t \in Sessions : s = t

Alone == \A s \in Sessions : AloneIn(s)

\* Nothing has been listed at first.
LEMMA InitAlone == Init => Alone
BY DEF Init, Alone, AloneIn, Targeted

\* What happens to the container without decune takes at most the container away.
LEMMA OutsideAlone ==
  ASSUME Alone, ContainerExits \/ RemovedOutside
  PROVE  Alone'
<1>1. /\ UNCHANGED <<label, pc, seen, target, path, plan>>
      /\ current' = current \/ current' = 0
  BY DEF ContainerExits, RemovedOutside, optionVars, localVars
<1> QED
  BY <1>1 DEF Alone, AloneIn, Seen, Targeted

\* One command at a time keeps what the session knows of the container true.
LEMMA NextAlone ==
  ASSUME OneSession, TypeInv, Alone, [Next]_vars
  PROVE  Alone'
<1>1. CASE UNCHANGED vars
  BY <1>1 DEF Alone, AloneIn, Seen, vars, dockerVars, optionVars, localVars
<1>2. ASSUME NEW s \in Sessions, SessionStep(s) PROVE Alone'
  <2>1. AloneIn(s)'
    BY <1>2, StepAlone DEF Alone
  <2>2. \A r \in Sessions : r = s
    BY DEF OneSession
  <2> QED
    BY <2>1, <2>2 DEF Alone
<1> QED
  BY <1>1, <1>2, OutsideAlone DEF Next, SessionStep

\* The command of a stage runs only when the stage before it is completed: the
\* copy of the state that says so is about the container that exists.
LEMMA NextInOrder ==
  ASSUME TypeInv, Truth, Alone, StagesInOrder, [Next]_vars
  PROVE  StagesInOrder'
<1>1. ran' = ran /\ ranAfter \subseteq ranAfter' => StagesInOrder'
  BY DEF StagesInOrder
<1>2. ASSUME NEW s \in Sessions, RunCommand(s) PROVE StagesInOrder'
  <2>1. PICK i \in Stage :
          /\ IsNextStage(mem[s].lifecycle, i)
          /\ ran' = ran \cup {<<current, i>>} /\ ranAfter' = ranAfter
    BY <1>2 DEF RunCommand
  <2>2. /\ current # 0 /\ pc[s] = "stage"
        /\ mem[s] \in WorkspaceState /\ mem[s].container = target[s]
    BY <1>2 DEF RunCommand, Goto, TypeInv, Targets, Holding
  <2>3. mem[s].container = current /\ Faithful(mem[s]) /\ mem[s] # NoState
    BY <2>2, NoStateAssumption DEF Alone, AloneIn, Targeted, Truth, SessionTruth
  <2>4. \A j \in mem[s].lifecycle.after : <<current, j>> \in ranAfter
    BY <2>3 DEF Faithful, FaithfulIn
  <2>5. i > 1 => i - 1 \in Stage /\ i - 1 < i
    BY NumStagesAssumption DEF Stage
  <2>6. i > 1 => <<current, i - 1>> \in ranAfter
    BY <2>1, <2>4, <2>5 DEF IsNextStage, Completed
  <2> QED
    BY <2>1, <2>6 DEF StagesInOrder
<1>3. ASSUME NEW s \in Sessions, RunAfterHook(s) PROVE StagesInOrder'
  BY <1>1, <1>3 DEF RunAfterHook
<1>4. CASE UNCHANGED vars
  BY <1>1, <1>4 DEF vars, historyVars, runVars
<1>5. ASSUME NEW s \in Sessions, SessionStep(s), ~RunCommand(s), ~RunAfterHook(s)
      PROVE  StagesInOrder'
  <2>1. UNCHANGED <<ran, ranAfter>>
    BY <1>5, StepRan
  <2> QED
    BY <1>1, <2>1
<1>6. CASE ContainerExits \/ RemovedOutside
  BY <1>1, <1>6 DEF ContainerExits, RemovedOutside, historyVars, runVars
<1> QED
  BY <1>2, <1>3, <1>4, <1>5, <1>6 DEF Next, SessionStep

-----------------------------------------------------------------------------
(* The state file when nobody else writes it.                                *)

Describes(st, c) == st # NoState /\ st.container = c

\* A copy of the state that has one more command, or hook, of the next stage.
SameButFlags(st, old) ==
    st.container = old.container /\ st.hash = old.hash /\ st.exec = old.exec
CommandAdded(st, old, i) ==
    /\ SameButFlags(st, old)
    /\ IsNextStage(old.lifecycle, i) /\ i \notin old.lifecycle.command
    /\ st.lifecycle.command = old.lifecycle.command \cup {i}
    /\ st.lifecycle.after = old.lifecycle.after
HookAdded(st, old, i) ==
    /\ SameButFlags(st, old)
    /\ IsNextStage(old.lifecycle, i) /\ i \in old.lifecycle.command
    /\ st.lifecycle.command = old.lifecycle.command
    /\ st.lifecycle.after = old.lifecycle.after \cup {i}

\* Nothing is known yet of the container the session has just created.
FirstWrite(s) ==
    ~Describes(stateFile, target[s]) /\ \A i \in Stage : <<target[s], i>> \notin known

\* How the copies of a session that works alone differ from the state file.
CopyingIn(s) ==
    /\ (pc[s] \in {"persistWrite", "startOld", "syncWrite"}
         \/ (pc[s] = "verify" /\ path[s] = "Started")) => found[s] = stateFile
    /\ pc[s] \in {"persistRead", "persistWrite"} => FirstWrite(s)
    /\ (pc[s] \in {"start", "verify", "startOld", "syncWrite"}
         \/ (pc[s] = "syncRead" /\ path[s] = "New"))
         => Matches(stateFile, target[s], plan[s].hash)
    /\ pc[s] \in {"stage", "use"} => mem[s] = stateFile
    /\ pc[s] = "saveCommand" =>
         stateFile # NoState /\ \E i \in Stage : CommandAdded(mem[s], stateFile, i)
    /\ pc[s] = "saveAfter" =>
         stateFile # NoState /\ \E i \in Stage : HookAdded(mem[s], stateFile, i)

\* The state file has not lost what it once recorded of the container.
Recorded ==
    \A i \in Stage : (current # 0 /\ <<current, i>> \in known) =>
        Describes(stateFile, current) /\ i \in stateFile.lifecycle.command

\* Only what exists, or existed, has a history.
Past ==
    \A c \in Ids, i \in Stage :
        (<<c, i>> \in ran \/ <<c, i>> \in ranAfter \/ <<c, i>> \in known) => c <= made

\* A write of the state file adds what the state claims to the history.
LEMMA WriteRecords ==
  ASSUME NEW st, WriteState(st), NEW c, NEW i \in Stage
  PROVE  /\ stateFile' = st
         /\ <<c, i>> \in known'
              => <<c, i>> \in known \/ (st.container = c /\ i \in st.lifecycle.command)
BY DEF WriteState

\* The steps that write the state file.
WritingStep(s) == PersistWrite(s) \/ SyncWrite(s) \/ SaveProgress(s) \/ MarkUsed(s)

\* The other steps leave what is known as it is.
LEMMA StepKnown ==
  ASSUME NEW s \in Sessions, SessionStep(s), ~WritingStep(s)
  PROVE  known' = known
BY DEF SessionStep, StartUp, StartDown, Progress, Fault, Begin, List, ReconcileLoad,
    ReconcileRemove, ReconcileEnd, Decide, RefuseChangedConfig, StopOld, RemoveOld,
    CreateContainer, CreateConflict, PersistRead, PersistFails, StartContainer, VerifyRunning,
    StartFails, SyncRead, RefuseWithoutState, RunCommand, RunAfterHook, PostStart, ShellExits,
    StopListed, RemoveState, Crash, WritingStep, historyVars, runVars

\* Every other step keeps the state file, or removes it when there is no container.
LEMMA StepFile ==
  ASSUME NEW s \in Sessions, AloneIn(s), SessionStep(s), ~WritingStep(s)
  PROVE  \/ stateFile' = stateFile
         \/ current = 0 /\ current' = 0 /\ stateFile' = NoState
BY DEF SessionStep, StartUp, StartDown, Progress, Fault, Begin, List, ReconcileLoad,
    ReconcileRemove, ReconcileEnd, Decide, RefuseChangedConfig, StopOld, RemoveOld,
    CreateContainer, CreateConflict, PersistRead, PersistFails, StartContainer, VerifyRunning,
    StartFails, SyncRead, RefuseWithoutState, RunCommand, RunAfterHook, PostStart, ShellExits,
    StopListed, RemoveState, Crash, WritingStep, AloneIn, Goto, dockerVars

\* Only a creation changes the container to another one.
LEMMA StepCurrent ==
  ASSUME NEW s \in Sessions, SessionStep(s)
  PROVE  \/ current' \in {0, current} /\ made' = made
         \/ CreateContainer(s)
BY DEF SessionStep, StartUp, StartDown, Progress, Fault, Begin, List, ReconcileLoad,
    ReconcileRemove, ReconcileEnd, Decide, RefuseChangedConfig, StopOld, RemoveOld,
    CreateConflict, PersistRead, PersistWrite, PersistFails, StartContainer, VerifyRunning,
    StartFails, SyncRead, RefuseWithoutState, SyncWrite, RunCommand, RunAfterHook,
    SaveProgress, PostStart, MarkUsed, ShellExits, StopListed, RemoveState, Crash, dockerVars

\* A state that describes the container is synced to itself.
LEMMA SyncChangesNothing ==
  ASSUME NEW st \in WorkspaceState, NEW c \in Ids, NEW h \in Hashes,
         Matches(st, c, h), st.exec \in {0, st.container}
  PROVE  SyncState(st, c, h) = st
<1>1. /\ SyncState(st, c, h) = [container |-> c, hash |-> h, lifecycle |-> st.lifecycle,
                                exec |-> ExecContextFor(st, c)]
      /\ st.container = c /\ st.hash = h
  BY DEF SyncState, Matches
<1>2. ExecContextFor(st, c) = st.exec
  BY <1>1 DEF ExecContextFor, Ids
<1> QED
  BY <1>1, <1>2 DEF WorkspaceState

\* The first write of a session that works alone claims nothing.
LEMMA FirstWriteIs ==
  ASSUME TypeInv, NEW s \in Sessions, CopyingIn(s), PersistWrite(s)
  PROVE  /\ stateFile' # NoState /\ stateFile'.container = target[s]
         /\ stateFile'.hash = plan[s].hash /\ stateFile'.lifecycle = NoFlags
         /\ known' = known
<1>1. /\ WriteState(SyncState(found[s], target[s], plan[s].hash))
      /\ found[s] = stateFile /\ ~Describes(stateFile, target[s]) /\ pc[s] \in Targeted
  BY DEF PersistWrite, Goto, CopyingIn, FirstWrite, Targeted
<1> DEFINE st == SyncState(found[s], target[s], plan[s].hash)
<1>2. /\ st.container = target[s] /\ st.hash = plan[s].hash
      /\ st.lifecycle = NoFlags
  BY <1>1 DEF SyncState, Matches, Describes
<1>3. st # NoState
  BY <1>1, SessionSyncType, NoStateAssumption
<1> HIDE DEF st
<1>4. stateFile' = st /\ known' = known \cup {<<st.container, i>> : i \in st.lifecycle.command}
  BY <1>1 DEF WriteState, st
<1>5. {<<st.container, i>> : i \in st.lifecycle.command} = {}
  BY <1>2 DEF NoFlags
<1> QED
  BY <1>2, <1>3, <1>4, <1>5

\* Its second write changes nothing.
LEMMA SecondWriteIs ==
  ASSUME TypeInv, Truth, NEW s \in Sessions, CopyingIn(s), SyncWrite(s)
  PROVE  /\ WriteState(stateFile) /\ mem'[s] = stateFile
         /\ Matches(stateFile, target[s], plan[s].hash)
<1>1. /\ found[s] = stateFile /\ Matches(stateFile, target[s], plan[s].hash)
      /\ pc[s] \in Targeted
  BY DEF SyncWrite, Goto, CopyingIn, Targeted
<1>2. /\ stateFile \in WorkspaceState /\ stateFile.exec \in {0, stateFile.container}
      /\ target[s] \in Ids /\ plan[s].hash \in Hashes
  BY <1>1
  DEF Truth, Faithful, FaithfulIn, Matches, TypeInv, TypeOK, CopyTypeOK, SessionTypeOK,
      MaybeState, Targets, Plan
<1>3. SyncState(found[s], target[s], plan[s].hash) = stateFile
  BY <1>1, <1>2, SyncChangesNothing
<1> QED
  BY <1>1, <1>3 DEF SyncWrite, TypeInv, TypeOK, CopyTypeOK

\* The container just created is a new one.
LEMMA CreateContainerCopies ==
  ASSUME TypeInv, Truth, Past, NEW s \in Sessions, CreateContainer(s)
  PROVE  CopyingIn(s)'
<1>1. /\ pc'[s] = "persistRead" /\ target'[s] = made + 1
      /\ stateFile' = stateFile /\ known' = known
  BY DEF CreateContainer, Goto, TypeInv, TypeOK, SessionTypeOK, historyVars
<1>2. made \in Nat /\ made + 1 \in Ids
  BY BoundsAssumption DEF CreateContainer, TypeInv, TypeOK, DockerTypeOK, Ids
<1>3. \A i \in Stage : <<made + 1, i>> \notin known
  BY <1>2 DEF Past
<1>4. ~Describes(stateFile, made + 1)
  <2>1. stateFile # NoState => stateFile.container \in Ids /\ stateFile.container <= made
    BY DEF Truth, Faithful, FaithfulIn, TypeInv, TypeOK, CopyTypeOK, MaybeState, WorkspaceState
  <2> QED
    BY <1>2, <2>1 DEF Describes, Ids
<1>5. FirstWrite(s)'
  BY <1>1, <1>3, <1>4 DEF FirstWrite, Describes
<1> QED
  BY <1>1, <1>5 DEF CopyingIn

\* What RunCommand adds to the session's copy.
LEMMA RunCommandCopies ==
  ASSUME TypeInv, NEW s \in Sessions, CopyingIn(s), RunCommand(s)
  PROVE  CopyingIn(s)'
<1>1. /\ pc[s] = "stage" /\ pc'[s] = "saveCommand" /\ mem[s] \in WorkspaceState
      /\ stateFile' = stateFile
  BY DEF RunCommand, Goto, TypeInv, TypeOK, SessionTypeOK, Targets, Holding
<1>2. PICK i \in Stage :
        /\ IsNextStage(mem[s].lifecycle, i) /\ i \notin mem[s].lifecycle.command
        /\ mem' = [mem EXCEPT ![s].lifecycle.command = @ \cup {i}]
  BY DEF RunCommand
<1> DEFINE st == [mem[s] EXCEPT !.lifecycle.command = @ \cup {i}]
<1>3. mem' = [mem EXCEPT ![s] = st]
  BY <1>2
<1>4. mem'[s] = st
  BY <1>3 DEF TypeInv, TypeOK, CopyTypeOK
<1>5. SameButFlags(st, mem[s]) /\ st.lifecycle = [mem[s].lifecycle EXCEPT !.command = @ \cup {i}]
  BY <1>1 DEF WorkspaceState, SameButFlags
<1>6. /\ st.lifecycle.command = mem[s].lifecycle.command \cup {i}
      /\ st.lifecycle.after = mem[s].lifecycle.after
  BY <1>1, <1>5 DEF WorkspaceState, LifecycleFlags
<1> HIDE DEF st
<1>7. CommandAdded(mem'[s], mem[s], i) /\ mem[s] = stateFile /\ stateFile # NoState
  BY <1>1, <1>2, <1>4, <1>5, <1>6, NoStateAssumption DEF CommandAdded, CopyingIn
<1> QED
  BY <1>1, <1>7 DEF CopyingIn

\* What RunAfterHook adds to the session's copy.
LEMMA RunAfterHookCopies ==
  ASSUME TypeInv, NEW s \in Sessions, CopyingIn(s), RunAfterHook(s)
  PROVE  CopyingIn(s)'
<1>1. /\ pc[s] = "stage" /\ pc'[s] = "saveAfter" /\ mem[s] \in WorkspaceState
      /\ stateFile' = stateFile
  BY DEF RunAfterHook, Goto, TypeInv, TypeOK, SessionTypeOK, Targets, Holding
<1>2. PICK i \in Stage :
        /\ IsNextStage(mem[s].lifecycle, i) /\ i \in mem[s].lifecycle.command
        /\ mem' = [mem EXCEPT ![s].lifecycle.after = @ \cup {i}]
  BY DEF RunAfterHook
<1> DEFINE st == [mem[s] EXCEPT !.lifecycle.after = @ \cup {i}]
<1>3. mem' = [mem EXCEPT ![s] = st]
  BY <1>2
<1>4. mem'[s] = st
  BY <1>3 DEF TypeInv, TypeOK, CopyTypeOK
<1>5. SameButFlags(st, mem[s]) /\ st.lifecycle = [mem[s].lifecycle EXCEPT !.after = @ \cup {i}]
  BY <1>1 DEF WorkspaceState, SameButFlags
<1>6. /\ st.lifecycle.after = mem[s].lifecycle.after \cup {i}
      /\ st.lifecycle.command = mem[s].lifecycle.command
  BY <1>1, <1>5 DEF WorkspaceState, LifecycleFlags
<1> HIDE DEF st
<1>7. HookAdded(mem'[s], mem[s], i) /\ mem[s] = stateFile /\ stateFile # NoState
  BY <1>1, <1>2, <1>4, <1>5, <1>6, NoStateAssumption DEF HookAdded, CopyingIn
<1> QED
  BY <1>1, <1>7 DEF CopyingIn

\* Every step of the session that does not write keeps the copies so.
LEMMA StepCopying ==
  ASSUME TypeInv, Truth, Past, NEW s \in Sessions, AloneIn(s), CopyingIn(s),
         SessionStep(s), ~WritingStep(s)
  PROVE  CopyingIn(s)'
<1> USE DEF TypeInv, TypeOK, SessionTypeOK, CopyTypeOK, Goto, CopyingIn, AloneIn, Targeted,
           FirstWrite, dockerVars, optionVars, localVars, historyVars
<1>1. CASE StartUp(s) \/ StartDown(s)
  <2>1. PICK k \in Kinds, p \in Plan, e \in {"detach", "keep", "stop"} : Begin(s, k, p, e)
    BY <1>1, AnyPlanType, EndingsAssumption DEF StartUp, StartDown
  <2> QED
    BY <2>1 DEF Begin
<1>2. CASE EndFrom(s)
  BY <1>2 DEF EndFrom
<1>3. CASE List(s)
  BY <1>3 DEF List, AfterList
<1>4. CASE ReconcileLoad(s)
  BY <1>4 DEF ReconcileLoad
<1>5. CASE ReconcileRemove(s)
  BY <1>5 DEF ReconcileRemove
<1>6. CASE Decide(s)
  BY <1>6 DEF Decide
<1>7. CASE StopOld(s)
  BY <1>7 DEF StopOld
<1>8. CASE RemoveOld(s)
  BY <1>8 DEF RemoveOld
<1>9. CASE CreateContainer(s)
  BY <1>9, CreateContainerCopies
<1>10. CASE PersistRead(s)
  BY <1>10 DEF PersistRead
<1>11. CASE StartContainer(s)
  BY <1>11 DEF StartContainer
<1>12. CASE VerifyRunning(s)
  BY <1>12 DEF VerifyRunning
<1>13. CASE StartFails(s)
  BY <1>13 DEF StartFails
<1>14. CASE SyncRead(s)
  BY <1>14 DEF SyncRead
<1>15. CASE RunCommand(s)
  BY <1>15, RunCommandCopies
<1>16. CASE RunAfterHook(s)
  BY <1>16, RunAfterHookCopies
<1>17. CASE PostStart(s)
  BY <1>17 DEF PostStart
<1> QED
  BY <1>1, <1>2, <1>3, <1>4, <1>5, <1>6, <1>7, <1>8, <1>9, <1>10, <1>11, <1>12, <1>13,
     <1>14, <1>15, <1>16, <1>17, EndingEnds
  DEF SessionStep, Progress, Fault, WritingStep, EndingStep

\* The writes keep the copies as the session's next steps expect them.
LEMMA WriteCopying ==
  ASSUME TypeInv, Truth, NEW s \in Sessions, AloneIn(s), CopyingIn(s), WritingStep(s)
  PROVE  CopyingIn(s)'
<1>1. CASE PersistWrite(s)
  <2>1. /\ pc[s] = "persistWrite" /\ pc'[s] = "start" /\ path'[s] = path[s]
        /\ target'[s] = target[s] /\ plan'[s] = plan[s]
    BY <1>1 DEF PersistWrite, Goto, TypeInv, TypeOK, SessionTypeOK, optionVars
  <2>2. Matches(stateFile, target[s], plan[s].hash)'
    BY <1>1, <2>1, FirstWriteIs DEF Matches
  <2> QED
    BY <2>1, <2>2 DEF CopyingIn
<1>2. CASE SyncWrite(s)
  <2>1. pc'[s] = "stage"
    BY <1>2 DEF SyncWrite, Goto, TypeInv, TypeOK, SessionTypeOK
  <2>2. mem'[s] = stateFile'
    BY <1>2, SecondWriteIs DEF WriteState
  <2> QED
    BY <2>1, <2>2 DEF CopyingIn
<1>3. CASE SaveProgress(s)
  <2>1. pc'[s] = "stage" /\ mem'[s] = stateFile'
    BY <1>3
    DEF SaveProgress, WriteState, Goto, TypeInv, TypeOK, SessionTypeOK, CopyTypeOK, localVars
  <2> QED
    BY <2>1 DEF CopyingIn
<1>4. CASE MarkUsed(s)
  <2>1. pc'[s] \in {"idle", "shell"}
    BY <1>4 DEF MarkUsed, EndFrom, TypeInv, TypeOK, SessionTypeOK
  <2> QED
    BY <2>1 DEF CopyingIn
<1> QED
  BY <1>1, <1>2, <1>3, <1>4 DEF WritingStep

\* The writes lose nothing that was recorded of the container that exists.
LEMMA WriteRecorded ==
  ASSUME TypeInv, Truth, NEW s \in Sessions, AloneIn(s), CopyingIn(s), Recorded,
         WritingStep(s)
  PROVE  Recorded'
<1>1. /\ current' = current /\ pc[s] \in Targeted
      /\ current # 0 => current = target[s]
  BY DEF WritingStep, PersistWrite, SyncWrite, SaveProgress, MarkUsed, Goto, AloneIn, Targeted,
      dockerVars
<1> SUFFICES ASSUME NEW i \in Stage, current # 0, <<current, i>> \in known'
             PROVE  Describes(stateFile', current) /\ i \in stateFile'.lifecycle.command
  BY <1>1 DEF Recorded, Describes
<1>2. <<current, i>> \in known =>
        Describes(stateFile, current) /\ i \in stateFile.lifecycle.command
  BY DEF Recorded
<1>3. CASE PersistWrite(s)
  <2>1. <<current, i>> \notin known
    BY <1>1, <1>3 DEF PersistWrite, Goto, CopyingIn, FirstWrite
  <2> QED
    BY <1>3, <2>1, FirstWriteIs
<1>4. CASE SyncWrite(s)
  BY <1>1, <1>2, <1>4, SecondWriteIs, WriteRecords DEF Describes, Matches
<1>5. CASE SaveProgress(s)
  <2>1. /\ WriteState(mem[s]) /\ mem[s] # NoState /\ mem[s].container = target[s]
        /\ stateFile.lifecycle.command \subseteq mem[s].lifecycle.command
    BY <1>5, NoStateAssumption
    DEF SaveProgress, Goto, CopyingIn, CommandAdded, HookAdded, TypeInv, Targets, Holding
  <2> QED
    BY <1>1, <1>2, <2>1, WriteRecords DEF Describes
<1>6. CASE MarkUsed(s)
  <2> DEFINE st == [mem[s] EXCEPT !.exec = target[s]]
  <2>1. WriteState(st) /\ mem[s] = stateFile
    BY <1>6 DEF MarkUsed, CopyingIn
  <2>2. mem[s] \in WorkspaceState /\ mem[s].container = target[s]
    BY <1>6 DEF MarkUsed, TypeInv, Targets, Holding
  <2>3. st \in WorkspaceState /\ st.container = target[s] /\ st.lifecycle = mem[s].lifecycle
    BY <1>1, <2>2 DEF WorkspaceState, TypeInv, Targets
  <2> HIDE DEF st
  <2> QED
    BY <1>1, <1>2, <2>1, <2>3, WriteRecords, NoStateAssumption DEF Describes
<1> QED
  BY <1>3, <1>4, <1>5, <1>6 DEF WritingStep

\* Every other step loses nothing either.
LEMMA StepRecorded ==
  ASSUME TypeInv, Past, NEW s \in Sessions, AloneIn(s), Recorded,
         SessionStep(s), ~WritingStep(s)
  PROVE  Recorded'
<1>1. /\ known' = known
      /\ stateFile' = stateFile \/ current' = 0
  BY StepFile, StepKnown
<1>2. CASE current' \in {0, current}
  BY <1>1, <1>2 DEF Recorded, Describes
<1>3. CASE CreateContainer(s)
  <2>1. current' = made + 1 /\ made \in Nat /\ made + 1 \in Ids
    BY <1>3, BoundsAssumption DEF CreateContainer, TypeInv, TypeOK, DockerTypeOK, Ids
  <2>2. \A i \in Stage : <<made + 1, i>> \notin known
    BY <2>1 DEF Past
  <2> QED
    BY <1>1, <2>1, <2>2 DEF Recorded
<1> QED
  BY <1>2, <1>3, StepCurrent

\* A write is about the session's container.
LEMMA WrittenState ==
  ASSUME TypeInv, NEW s \in Sessions, WritingStep(s)
  PROVE  \E st \in WorkspaceState : WriteState(st) /\ st.container = target[s]
<1>1. CASE PersistWrite(s) \/ SyncWrite(s)
  <2>1. /\ WriteState(SyncState(found[s], target[s], plan[s].hash))
        /\ pc[s] \in Targeted
    BY <1>1 DEF PersistWrite, SyncWrite, Goto, Targeted
  <2>2. SyncState(found[s], target[s], plan[s].hash).container = target[s]
    BY DEF SyncState
  <2> QED
    BY <2>1, <2>2, SessionSyncType
<1>2. CASE SaveProgress(s)
  BY <1>2 DEF SaveProgress, Goto, TypeInv, Targets, Holding
<1>3. CASE MarkUsed(s)
  <2> DEFINE st == [mem[s] EXCEPT !.exec = target[s]]
  <2>1. WriteState(st) /\ mem[s] \in WorkspaceState /\ mem[s].container = target[s]
        /\ target[s] \in Ids
    BY <1>3 DEF MarkUsed, TypeInv, Targets, Holding, Targeted
  <2>2. st \in WorkspaceState /\ st.container = target[s]
    BY <2>1 DEF WorkspaceState
  <2> QED
    BY <2>1, <2>2
<1> QED
  BY <1>1, <1>2, <1>3 DEF WritingStep

\* Only what exists makes history.
LEMMA StepPast ==
  ASSUME TypeInv, TypeInv', Truth, Past, NEW s \in Sessions, SessionStep(s)
  PROVE  Past'
<1>1. /\ made \in Nat /\ made' \in Nat /\ made <= made'
      /\ current <= made /\ target[s] <= made /\ target[s] \in Nat /\ current \in Nat
  BY StepAdvance, BoundsAssumption
  DEF Advance, TypeInv, TypeOK, DockerTypeOK, SessionTypeOK, Truth, SessionTruth, Ids
<1> SUFFICES ASSUME NEW c \in Ids, NEW i \in Stage,
                    <<c, i>> \in ran' \/ <<c, i>> \in ranAfter' \/ <<c, i>> \in known'
             PROVE  c <= made'
  BY DEF Past
<1>2. c \in Nat
  BY BoundsAssumption DEF Ids
<1>3. (<<c, i>> \in ran \/ <<c, i>> \in ranAfter \/ <<c, i>> \in known) => c <= made
  BY DEF Past
<1>4. <<c, i>> \in ran' => <<c, i>> \in ran \/ c = current
  BY StepRan DEF RunCommand, RunAfterHook
<1>5. <<c, i>> \in ranAfter' => <<c, i>> \in ranAfter \/ c = current
  BY StepRan DEF RunCommand, RunAfterHook
<1>6. <<c, i>> \in known' => <<c, i>> \in known \/ c = target[s]
  <2>1. CASE WritingStep(s)
    BY <2>1, WrittenState, WriteRecords
  <2>2. CASE ~WritingStep(s)
    BY <2>2, StepKnown
  <2> QED
    BY <2>1, <2>2
<1> QED
  BY <1>1, <1>2, <1>3, <1>4, <1>5, <1>6

\* The invariant of a session that works alone.
Solo == Alone /\ StagesInOrder /\ (\A s \in Sessions : CopyingIn(s)) /\ Recorded /\ Past

\* There is nothing to describe and nothing to know at first.
LEMMA InitSolo == Init => Solo
BY InitAlone DEF Init, Solo, StagesInOrder, CopyingIn, Recorded, Past

\* The container's end without decune touches neither the file nor the copies.
LEMMA OutsideSolo ==
  ASSUME Solo, ContainerExits \/ RemovedOutside
  PROVE  (\A s \in Sessions : CopyingIn(s))' /\ Recorded' /\ Past'
<1>1. /\ UNCHANGED <<stateFile, known, ran, ranAfter, made, pc, plan, path, target, found, mem>>
      /\ current' = current \/ current' = 0
  BY DEF ContainerExits, RemovedOutside, optionVars, localVars, historyVars, runVars
<1>2. (\A s \in Sessions : CopyingIn(s))'
  BY <1>1 DEF Solo, CopyingIn, FirstWrite
<1>3. Recorded' /\ Past'
  BY <1>1 DEF Solo, Recorded, Past
<1> QED
  BY <1>2, <1>3

\* Every step keeps the invariant of one command at a time.
LEMMA NextSolo ==
  ASSUME OneSession, TypeInv, Truth, Solo, [Next]_vars
  PROVE  Solo'
<1>1. Alone' /\ StagesInOrder'
  BY NextAlone, NextInOrder DEF Solo
<1>2. TypeInv'
  BY NextTypeInv
<1>3. CASE UNCHANGED vars
  <2>1. (\A s \in Sessions : CopyingIn(s))' /\ Recorded' /\ Past'
    BY <1>3
    DEF Solo, CopyingIn, FirstWrite, Recorded, Past, vars, dockerVars, optionVars, localVars,
        historyVars, runVars
  <2> QED
    BY <1>1, <2>1 DEF Solo
<1>4. ASSUME NEW s \in Sessions, SessionStep(s) PROVE Solo'
  <2>1. AloneIn(s) /\ CopyingIn(s) /\ Recorded /\ Past
    BY DEF Solo, Alone
  <2>2. CopyingIn(s)'
    BY <1>4, <2>1, StepCopying, WriteCopying
  <2>3. Recorded'
    BY <1>4, <2>1, StepRecorded, WriteRecorded
  <2>4. Past'
    BY <1>2, <1>4, <2>1, StepPast
  <2>5. \A r \in Sessions : r = s
    BY DEF OneSession
  <2> QED
    BY <1>1, <2>2, <2>3, <2>4, <2>5 DEF Solo
<1>5. CASE ContainerExits \/ RemovedOutside
  BY <1>1, <1>5, OutsideSolo DEF Solo
<1> QED
  BY <1>3, <1>4, <1>5 DEF Next, SessionStep

\* The three invariants together are inductive for one command at a time.
LEMMA SoloInvariant == ASSUME OneSession PROVE Spec => [](TypeInv /\ Truth /\ Solo)
<1>1. TypeInv /\ Truth /\ Solo /\ [Next]_vars => Solo'
  BY NextSolo
<1> QED
  BY <1>1, InitSolo, TruthInvariant, PTL DEF Spec

\* With one command at a time, the command of a creation stage runs in a
\* container only after the stage before it and its hook succeeded there.
THEOREM StagesRunInOrder == ASSUME OneSession PROVE Spec => []StagesInOrder
<1>1. Solo => StagesInOrder
  BY DEF Solo
<1> QED
  BY <1>1, SoloInvariant, PTL

\* With one command at a time, a creation command that state.toml has recorded
\* for a container does not run there again, whatever crashed or was reused since.
THEOREM NoRecordedStageReruns == ASSUME OneSession PROVE Spec => RecordedStageNotRerun
<1>1. ASSUME Solo, NEW s \in Sessions, NEW c \in Ids, NEW i \in Stage, RunsCommand(s, c, i)
      PROVE  <<c, i>> \notin known
  <2>1. mem[s] = stateFile /\ i \notin mem[s].lifecycle.command /\ c = current /\ c # 0
    BY <1>1 DEF RunsCommand, Solo, CopyingIn, Ids
  <2> QED
    BY <1>1, <2>1 DEF Solo, Recorded
<1>2. Solo => [\A s \in Sessions, c \in Ids, i \in Stage :
                 RunsCommand(s, c, i) => <<c, i>> \notin known]_vars
  BY <1>1
<1> QED
  BY <1>2, SoloInvariant, PTL DEF RecordedStageNotRerun

\* With one command at a time, the state file is removed only when there is no
\* container.
THEOREM StateIsKeptForContainer == ASSUME OneSession PROVE Spec => StateOutlivesContainer
<1>1. ASSUME TypeInv, Truth, Solo, [Next]_vars, stateFile # NoState, stateFile' = NoState
      PROVE  current = 0
  <2>1. stateFile' # stateFile
    BY <1>1
  <2>2. PICK s \in Sessions : SessionStep(s)
    BY <1>1, <2>1 DEF Next, SessionStep, ContainerExits, RemovedOutside, vars
  <2>3. ~WritingStep(s)
    BY <1>1, WrittenState, NoStateAssumption DEF WriteState
  <2> QED
    BY <1>1, <2>1, <2>2, <2>3, StepFile DEF Solo, Alone
<1>2. TypeInv /\ Truth /\ Solo /\ [Next]_vars
        => [(stateFile # NoState /\ stateFile' = NoState) => current = 0]_vars
  BY <1>1
<1> QED
  BY <1>2, SoloInvariant, PTL DEF Spec, StateOutlivesContainer

\* With one command at a time, no write drops the exec context of the container
\* that exists.
THEOREM ExecContextIsKept == ASSUME OneSession PROVE Spec => ExecContextKept
<1>1. ASSUME TypeInv, Truth, Solo, NEW s \in Sessions, SessionStep(s),
             stateFile # NoState, stateFile.exec = current, current # 0,
             stateFile' # NoState
      PROVE  stateFile'.exec = current
  <2>1. AloneIn(s) /\ CopyingIn(s) /\ stateFile.container = current
    BY <1>1 DEF Solo, Alone, Truth, Faithful, FaithfulIn
  <2>2. CASE ~WritingStep(s)
    BY <1>1, <2>1, <2>2, StepFile
  <2>3. CASE PersistWrite(s)
    BY <1>1, <2>1, <2>3
    DEF PersistWrite, Goto, CopyingIn, FirstWrite, Describes, AloneIn, Targeted
  <2>4. CASE SyncWrite(s)
    BY <1>1, <2>1, <2>4, SecondWriteIs DEF WriteState
  <2>5. CASE SaveProgress(s)
    BY <1>1, <2>1, <2>5
    DEF SaveProgress, WriteState, Goto, CopyingIn, CommandAdded, HookAdded, SameButFlags
  <2>6. CASE MarkUsed(s)
    <3>1. /\ stateFile' = [mem[s] EXCEPT !.exec = target[s]]
          /\ current = target[s] /\ mem[s] \in WorkspaceState
      BY <1>1, <2>1, <2>6
      DEF MarkUsed, WriteState, AloneIn, Targeted, TypeInv, Targets, Holding
    <3> QED
      BY <3>1 DEF WorkspaceState
  <2> QED
    BY <2>2, <2>3, <2>4, <2>5, <2>6 DEF WritingStep
<1>2. ASSUME TypeInv, Truth, Solo, [Next]_vars, stateFile # NoState,
             stateFile.exec = current, current # 0, stateFile' # NoState
      PROVE  stateFile'.exec = current
  <2>1. CASE \E s \in Sessions : SessionStep(s)
    BY <1>1, <1>2, <2>1
  <2>2. CASE ~\E s \in Sessions : SessionStep(s)
    <3>1. stateFile' = stateFile
      BY <1>2, <2>2 DEF Next, SessionStep, ContainerExits, RemovedOutside, vars
    <3> QED
      BY <1>2, <3>1
  <2> QED
    BY <2>1, <2>2
<1>3. TypeInv /\ Truth /\ Solo /\ [Next]_vars
        => [(/\ stateFile # NoState /\ stateFile.exec = current /\ current # 0
             /\ stateFile' # NoState /\ current' = current)
              => stateFile'.exec = current]_vars
  BY <1>2
<1> QED
  BY <1>3, SoloInvariant, PTL DEF Spec, ExecContextKept

-----------------------------------------------------------------------------
(* CreationLedger: the box is the container, and its units are the commands  *)
(* and after hooks of the creation stages, in order.                         *)

DoneUnits == Units({i \in Stage : <<current, i>> \in ran},
                   {i \in Stage : <<current, i>> \in ranAfter})
RecordedUnits == IF stateFile # NoState /\ stateFile.container = current
                 THEN Units(stateFile.lifecycle.command, stateFile.lifecycle.after)
                 ELSE {}

\* The units of a command and of a hook are told apart.
LEMMA UnitsOf ==
  ASSUME NEW A \in SUBSET Stage, NEW B \in SUBSET Stage, NEW i \in Stage
  PROVE  /\ (2 * i - 1 \in Units(A, B)) = (i \in A)
         /\ (2 * i \in Units(A, B)) = (i \in B)
<1>1. /\ \A j \in Stage : 2 * j - 1 = 2 * i - 1 => j = i
      /\ \A j \in Stage : 2 * j = 2 * i => j = i
      /\ \A j \in Stage : 2 * j # 2 * i - 1 /\ 2 * j - 1 # 2 * i
  BY NumStagesAssumption DEF Stage
<1>2. (2 * i - 1 \in Units(A, B)) = (i \in A)
  BY <1>1 DEF Units
<1>3. (2 * i \in Units(A, B)) = (i \in B)
  BY <1>1 DEF Units
<1> QED
  BY <1>2, <1>3

\* Every unit is that of a command or of a hook.
LEMMA UnitIs ==
  ASSUME NEW u \in 1 .. 2 * NumStages
  PROVE  \E i \in Stage : u = 2 * i - 1 \/ u = 2 * i
<1> DEFINE i == (u + 1) \div 2
<1>1. i \in Stage /\ (u = 2 * i - 1 \/ u = 2 * i)
  BY NumStagesAssumption DEF Stage
<1> QED
  BY <1>1

\* One more command is one more unit.
LEMMA CommandUnitAdded ==
  ASSUME NEW A, NEW B, NEW i \in Stage
  PROVE  Units(A \cup {i}, B) = Units(A, B) \cup {2 * i - 1}
BY DEF Units

\* One more hook is one more unit.
LEMMA HookUnitAdded ==
  ASSUME NEW A, NEW B, NEW i \in Stage
  PROVE  Units(A, B \cup {i}) = Units(A, B) \cup {2 * i}
BY DEF Units

\* No stages, no units.
LEMMA NoUnits == Units({}, {}) = {}
BY DEF Units

\* Nothing is done in no container or in a container that does not exist yet.
LEMMA NothingDone ==
  ASSUME TypeInv, Truth, Past, NEW b \in Nat, b = 0 \/ b > made
  PROVE  /\ {i \in Stage : <<b, i>> \in ran} = {}
         /\ {i \in Stage : <<b, i>> \in ranAfter} = {}
         /\ stateFile # NoState => stateFile.container # b
<1>1. made \in Nat
  BY DEF TypeInv, TypeOK, DockerTypeOK
<1>2. \A c \in Ids : c <= made => c # b
  BY <1>1, BoundsAssumption DEF Ids
<1>3. \A i \in Stage : <<b, i>> \notin ran /\ <<b, i>> \notin ranAfter
  BY <1>2 DEF Past, TypeInv, TypeOK, HistoryTypeOK
<1>4. stateFile # NoState => stateFile.container \in Ids /\ stateFile.container <= made
  BY DEF Truth, Faithful, FaithfulIn, TypeInv, TypeOK, CopyTypeOK, MaybeState, WorkspaceState
<1> QED
  BY <1>2, <1>3, <1>4

\* Without a container nothing is done or recorded after a step.
LEMMA NoContainer ==
  ASSUME TypeInv', current' = 0
  PROVE  DoneUnits' = {} /\ RecordedUnits' = {}
<1>1. /\ \A i \in Stage : <<0, i>> \notin ran' /\ <<0, i>> \notin ranAfter'
      /\ stateFile' # NoState => stateFile'.container # 0
  BY DEF TypeInv, TypeOK, HistoryTypeOK, CopyTypeOK, MaybeState, WorkspaceState, Ids
<1> QED
  BY <1>1, NoUnits DEF DoneUnits, RecordedUnits

\* So the ledger of another container, or of none, is empty.
LEMMA RenewedLedger ==
  ASSUME TypeInv, TypeInv', Truth, Past, NEW s \in Sessions,
         SessionStep(s), current' # current
  PROVE  DoneUnits' = {} /\ RecordedUnits' = {}
<1>1. CASE current' = 0
  BY <1>1, NoContainer
<1>2. CASE CreateContainer(s)
  <2>1. /\ current' = made + 1 /\ made \in Nat
        /\ ran' = ran /\ ranAfter' = ranAfter /\ stateFile' = stateFile
    BY <1>2 DEF CreateContainer, TypeInv, TypeOK, DockerTypeOK, historyVars, runVars
  <2>2. /\ {i \in Stage : <<made + 1, i>> \in ran} = {}
        /\ {i \in Stage : <<made + 1, i>> \in ranAfter} = {}
        /\ stateFile # NoState => stateFile.container # made + 1
    BY <2>1, NothingDone
  <2> QED
    BY <2>1, <2>2, NoUnits DEF DoneUnits, RecordedUnits
<1> QED
  BY <1>1, <1>2, StepCurrent

\* A unit runs only when exactly the units before it are recorded.
LEMMA NextUnit ==
  ASSUME NEW A \in SUBSET Stage, NEW B \in SUBSET Stage, NEW i \in Stage,
         \A j \in Stage : j < i => j \in A /\ j \in B
  PROVE  /\ \A v \in 1 .. 2 * NumStages : v < 2 * i - 1 => v \in Units(A, B)
         /\ i \in A => \A v \in 1 .. 2 * NumStages : v < 2 * i => v \in Units(A, B)
<1>1. ASSUME NEW v \in 1 .. 2 * NumStages, v < 2 * i, i \in A \/ v # 2 * i - 1
      PROVE  v \in Units(A, B)
  <2>1. PICK j \in Stage : v = 2 * j - 1 \/ v = 2 * j
    BY UnitIs
  <2>2. j < i \/ (j = i /\ v = 2 * j - 1)
    BY <1>1, <2>1, NumStagesAssumption DEF Stage
  <2>3. j \in A /\ (v = 2 * j => j \in B)
    <3>1. CASE j < i
      BY <3>1
    <3>2. CASE j = i /\ v = 2 * j - 1
      <4>1. 2 * j - 1 # 2 * j
        BY NumStagesAssumption DEF Stage
      <4> QED
        BY <1>1, <3>2, <4>1
    <3> QED
      BY <2>2, <3>1, <3>2
  <2> QED
    BY <2>1, <2>3, UnitsOf
<1>2. ASSUME NEW v \in 1 .. 2 * NumStages, v < 2 * i - 1
      PROVE  v < 2 * i /\ v # 2 * i - 1
  BY <1>2, NumStagesAssumption DEF Stage
<1> QED
  BY <1>1, <1>2
\* A command that runs is the first unit that is not recorded.
LEMMA RunCommandUnit ==
  ASSUME TypeInv, NEW s \in Sessions, AloneIn(s), CopyingIn(s), RunCommand(s)
  PROVE  \E u \in Ledger!Unit : Ledger!Run(u)
<1>1. /\ current # 0 /\ pc[s] = "stage" /\ UNCHANGED <<current, stateFile, ranAfter>>
      /\ mem[s] = stateFile /\ stateFile \in WorkspaceState
      /\ stateFile.container = current
  BY DEF RunCommand, Goto, CopyingIn, AloneIn, TypeInv, Targets, Holding, Targeted, dockerVars
<1>2. PICK i \in Stage :
        /\ IsNextStage(stateFile.lifecycle, i) /\ i \notin stateFile.lifecycle.command
        /\ ran' = ran \cup {<<current, i>>}
  BY <1>1 DEF RunCommand
<1> DEFINE A == stateFile.lifecycle.command
           B == stateFile.lifecycle.after
<1>3. /\ A \in SUBSET Stage /\ B \in SUBSET Stage /\ RecordedUnits = Units(A, B)
      /\ RecordedUnits' = RecordedUnits
  BY <1>1, NoStateAssumption DEF WorkspaceState, LifecycleFlags, RecordedUnits
<1>4. i \notin A /\ \A j \in Stage : j < i => j \in A /\ j \in B
  BY <1>2 DEF IsNextStage, Completed
<1> HIDE DEF A, B
<1>5. /\ 2 * i - 1 \notin RecordedUnits
      /\ \A v \in 1 .. 2 * NumStages : v < 2 * i - 1 => v \in RecordedUnits
  BY <1>3, <1>4, UnitsOf, NextUnit
<1>6. 2 * i - 1 \in 1 .. 2 * NumStages
  BY NumStagesAssumption DEF Stage
<1> DEFINE C == {j \in Stage : <<current, j>> \in ran}
           H == {j \in Stage : <<current, j>> \in ranAfter}
<1>7. {j \in Stage : <<current, j>> \in ran'} = C \cup {i}
  BY <1>2
<1>8. DoneUnits' = DoneUnits \cup {2 * i - 1}
  <2>1. DoneUnits' = Units(C \cup {i}, H) /\ DoneUnits = Units(C, H)
    BY <1>1, <1>7 DEF DoneUnits
  <2> HIDE DEF C, H
  <2> QED
    <3>1. Units(C \cup {i}, H) = Units(C, H) \cup {2 * i - 1}
      BY CommandUnitAdded
    <3> QED
      BY <2>1, <3>1
<1>9. Ledger!Run(2 * i - 1)
  BY <1>1, <1>3, <1>5, <1>8 DEF Ledger!Run, Ledger!Unit, DoneUnits, RecordedUnits
<1> QED
  BY <1>6, <1>9 DEF Ledger!Unit

\* So is an after hook.
LEMMA RunAfterHookUnit ==
  ASSUME TypeInv, NEW s \in Sessions, AloneIn(s), CopyingIn(s), RunAfterHook(s)
  PROVE  \E u \in Ledger!Unit : Ledger!Run(u)
<1>1. /\ current # 0 /\ pc[s] = "stage" /\ UNCHANGED <<current, stateFile, ran>>
      /\ mem[s] = stateFile /\ stateFile \in WorkspaceState
      /\ stateFile.container = current
  BY DEF RunAfterHook, Goto, CopyingIn, AloneIn, TypeInv, Targets, Holding, Targeted,
      dockerVars
<1>2. PICK i \in Stage :
        /\ IsNextStage(stateFile.lifecycle, i) /\ i \in stateFile.lifecycle.command
        /\ ranAfter' = ranAfter \cup {<<current, i>>}
  BY <1>1 DEF RunAfterHook
<1> DEFINE A == stateFile.lifecycle.command
           B == stateFile.lifecycle.after
<1>3. /\ A \in SUBSET Stage /\ B \in SUBSET Stage /\ RecordedUnits = Units(A, B)
      /\ RecordedUnits' = RecordedUnits
  BY <1>1, NoStateAssumption DEF WorkspaceState, LifecycleFlags, RecordedUnits
<1>4. i \in A /\ i \notin B /\ \A j \in Stage : j < i => j \in A /\ j \in B
  BY <1>2 DEF IsNextStage, Completed
<1> HIDE DEF A, B
<1>5. /\ 2 * i \notin RecordedUnits
      /\ \A v \in 1 .. 2 * NumStages : v < 2 * i => v \in RecordedUnits
  BY <1>3, <1>4, UnitsOf, NextUnit
<1>6. 2 * i \in 1 .. 2 * NumStages
  BY NumStagesAssumption DEF Stage
<1> DEFINE C == {j \in Stage : <<current, j>> \in ran}
           H == {j \in Stage : <<current, j>> \in ranAfter}
<1>7. {j \in Stage : <<current, j>> \in ranAfter'} = H \cup {i}
  BY <1>2
<1>8. DoneUnits' = DoneUnits \cup {2 * i}
  <2>1. DoneUnits' = Units(C, H \cup {i}) /\ DoneUnits = Units(C, H)
    BY <1>1, <1>7 DEF DoneUnits
  <2> HIDE DEF C, H
  <2> QED
    <3>1. Units(C, H \cup {i}) = Units(C, H) \cup {2 * i}
      BY HookUnitAdded
    <3> QED
      BY <2>1, <3>1
<1>9. Ledger!Run(2 * i)
  BY <1>1, <1>3, <1>5, <1>8 DEF Ledger!Run, Ledger!Unit, DoneUnits, RecordedUnits
<1> QED
  BY <1>6, <1>9 DEF Ledger!Unit

\* A save of the container that exists records one unit, which is done.
LEMMA SaveUnit ==
  ASSUME TypeInv, Truth, NEW s \in Sessions, AloneIn(s), CopyingIn(s), SaveProgress(s),
         current # 0
  PROVE  \E u \in Ledger!Unit : Ledger!Record(u)
<1>1. /\ UNCHANGED <<current, ran, ranAfter>> /\ stateFile' = mem[s]
      /\ mem[s] \in WorkspaceState /\ mem[s].container = current
      /\ pc[s] \in {"saveCommand", "saveAfter"} /\ Faithful(mem[s])
  BY DEF SaveProgress, WriteState, Goto, AloneIn, TypeInv, Targets, Holding, Targeted, Truth,
      SessionTruth, dockerVars, runVars
<1> DEFINE A == stateFile.lifecycle.command
           B == stateFile.lifecycle.after
<1>2. PICK i \in Stage :
        /\ stateFile # NoState
        /\ CommandAdded(mem[s], stateFile, i) \/ HookAdded(mem[s], stateFile, i)
  BY <1>1 DEF CopyingIn
<1>3. stateFile \in WorkspaceState /\ stateFile.container = current
  BY <1>1, <1>2
  DEF CommandAdded, HookAdded, SameButFlags, TypeInv, TypeOK, CopyTypeOK, MaybeState
<1>4. A \in SUBSET Stage /\ B \in SUBSET Stage /\ RecordedUnits = Units(A, B)
  BY <1>2, <1>3 DEF WorkspaceState, LifecycleFlags, RecordedUnits
<1>5. RecordedUnits' = Units(mem[s].lifecycle.command, mem[s].lifecycle.after)
  BY <1>1, NoStateAssumption DEF RecordedUnits
<1>6. DoneUnits' = DoneUnits
  BY <1>1 DEF DoneUnits
<1>7. /\ \A j \in mem[s].lifecycle.command : <<current, j>> \in ran
      /\ \A j \in mem[s].lifecycle.after : <<current, j>> \in ranAfter
  BY <1>1, NoStateAssumption DEF Faithful, FaithfulIn
<1> DEFINE C == {j \in Stage : <<current, j>> \in ran}
           H == {j \in Stage : <<current, j>> \in ranAfter}
<1>8. C \in SUBSET Stage /\ H \in SUBSET Stage /\ DoneUnits = Units(C, H)
  BY DEF DoneUnits
<1>9. CASE CommandAdded(mem[s], stateFile, i)
  <2>1. /\ i \notin A /\ i \in C
        /\ mem[s].lifecycle.command = A \cup {i} /\ mem[s].lifecycle.after = B
    BY <1>7, <1>9 DEF CommandAdded
  <2> HIDE DEF A, B, C, H
  <2>2. /\ 2 * i - 1 \in DoneUnits \ RecordedUnits
        /\ RecordedUnits' = RecordedUnits \cup {2 * i - 1}
    <3>1. 2 * i - 1 \in DoneUnits /\ 2 * i - 1 \notin RecordedUnits
      BY <1>4, <1>8, <2>1, UnitsOf
    <3>2. RecordedUnits' = Units(A \cup {i}, B)
      BY <1>5, <2>1
    <3> QED
      BY <1>4, <3>1, <3>2, CommandUnitAdded
  <2>3. 2 * i - 1 \in 1 .. 2 * NumStages
    BY NumStagesAssumption DEF Stage
  <2>4. Ledger!Record(2 * i - 1)
    BY <1>1, <1>6, <2>2 DEF Ledger!Record, DoneUnits, RecordedUnits
  <2> QED
    BY <2>3, <2>4 DEF Ledger!Unit
<1>10. CASE HookAdded(mem[s], stateFile, i)
  <2>1. /\ i \in H /\ mem[s].lifecycle.command = A /\ mem[s].lifecycle.after = B \cup {i}
        /\ i \notin B
    BY <1>7, <1>10 DEF HookAdded, IsNextStage, Completed
  <2> HIDE DEF A, B, C, H
  <2>2. /\ 2 * i \in DoneUnits \ RecordedUnits
        /\ RecordedUnits' = RecordedUnits \cup {2 * i}
    <3>1. 2 * i \in DoneUnits /\ 2 * i \notin RecordedUnits
      BY <1>4, <1>8, <2>1, UnitsOf
    <3>2. RecordedUnits' = Units(A, B \cup {i})
      BY <1>5, <2>1
    <3> QED
      BY <1>4, <3>1, <3>2, HookUnitAdded
  <2>3. 2 * i \in 1 .. 2 * NumStages
    BY NumStagesAssumption DEF Stage
  <2>4. Ledger!Record(2 * i)
    BY <1>1, <1>6, <2>2 DEF Ledger!Record, DoneUnits, RecordedUnits
  <2> QED
    BY <2>3, <2>4 DEF Ledger!Unit
<1> QED
  BY <1>2, <1>9, <1>10

\* Without a container there is nothing recorded.
LEMMA NoBoxNothingRecorded ==
  ASSUME TypeInv, current = 0
  PROVE  RecordedUnits = {}
BY DEF RecordedUnits, TypeInv, TypeOK, CopyTypeOK, MaybeState, WorkspaceState, Ids
\* Any other step of the session leaves the ledger of the container as it is.
LEMMA OtherLedger ==
  ASSUME TypeInv, TypeInv', Truth, NEW s \in Sessions, AloneIn(s), CopyingIn(s),
         SessionStep(s), current' = current, ~RunCommand(s), ~RunAfterHook(s),
         SaveProgress(s) => current = 0
  PROVE  DoneUnits' = DoneUnits /\ RecordedUnits' = RecordedUnits
<1>1. DoneUnits' = DoneUnits
  BY StepRan DEF DoneUnits
<1>2. CASE current = 0
  <2>1. RecordedUnits' = {}
    BY <1>2 DEF RecordedUnits, TypeInv, TypeOK, CopyTypeOK, MaybeState, WorkspaceState, Ids
  <2> QED
    BY <1>1, <1>2, <2>1, NoBoxNothingRecorded
<1>3. CASE current # 0 /\ ~WritingStep(s)
  BY <1>1, <1>3, StepFile DEF RecordedUnits
<1>4. CASE current # 0 /\ WritingStep(s)
  <2>1. current = target[s]
    BY <1>4
    DEF WritingStep, PersistWrite, SyncWrite, SaveProgress, MarkUsed, Goto, AloneIn, Targeted
  <2>2. CASE PersistWrite(s)
    <3>1. RecordedUnits = {}
      BY <2>1, <2>2
      DEF PersistWrite, Goto, CopyingIn, FirstWrite, Describes, RecordedUnits
    <3>2. RecordedUnits' = Units({}, {})
      <4>1. /\ stateFile' # NoState /\ stateFile'.container = current'
            /\ stateFile'.lifecycle = [command |-> {}, after |-> {}]
        BY <1>1, <2>1, <2>2, FirstWriteIs DEF NoFlags
      <4>2. stateFile'.lifecycle.command = {} /\ stateFile'.lifecycle.after = {}
        BY <4>1
      <4> QED
        BY <4>1, <4>2 DEF RecordedUnits
    <3> QED
      BY <1>1, <3>1, <3>2, NoUnits
  <2>3. CASE SyncWrite(s)
    BY <1>1, <2>3, SecondWriteIs DEF WriteState, RecordedUnits
  <2>4. CASE MarkUsed(s)
    <3>1. /\ mem[s] = stateFile /\ stateFile \in WorkspaceState
          /\ stateFile' = [stateFile EXCEPT !.exec = target[s]]
      BY <2>4 DEF MarkUsed, WriteState, CopyingIn, TypeInv, Targets, Holding
    <3>2. /\ stateFile'.container = stateFile.container
          /\ stateFile'.lifecycle = stateFile.lifecycle
          /\ stateFile' # NoState /\ stateFile # NoState
      BY <2>1, <3>1, NoStateAssumption
      DEF WorkspaceState, TypeInv, TypeOK, DockerTypeOK, SessionTypeOK, CopyTypeOK, MaybeState
    <3> QED
      BY <1>1, <3>2 DEF RecordedUnits
  <2> QED
    BY <1>4, <2>2, <2>3, <2>4 DEF WritingStep
<1> QED
  BY <1>2, <1>3, <1>4

\* Every step is one of the ledger's, or leaves it as it is.
LEMMA NextLedger ==
  ASSUME TypeInv, Truth, Solo, [Next]_vars
  PROVE  [Ledger!Next]_(Ledger!vars)
<1>0. TypeInv'
  BY NextTypeInv
<1>1. ASSUME DoneUnits' = {}, RecordedUnits' = {}, current' # current
      PROVE  Ledger!Renew
  <2>1. current' \in (0 .. MaxContainers) \ {current}
    BY <1>0, <1>1, BoundsAssumption DEF TypeInv, TypeOK, DockerTypeOK, Ids
  <2> QED
    BY <1>1, <2>1 DEF Ledger!Renew, DoneUnits, RecordedUnits
<1>2. ASSUME DoneUnits' = DoneUnits, RecordedUnits' = RecordedUnits, current' = current
      PROVE  UNCHANGED Ledger!vars
  BY <1>2 DEF Ledger!vars, DoneUnits, RecordedUnits
<1>3. ASSUME NEW s \in Sessions, SessionStep(s)
      PROVE  [Ledger!Next]_(Ledger!vars)
  <2>1. AloneIn(s) /\ CopyingIn(s)
    BY DEF Solo, Alone
  <2>2. CASE current' # current
    BY <1>0, <1>1, <1>3, <2>2, RenewedLedger DEF Solo, Ledger!Next
  <2>3. CASE RunCommand(s)
    BY <2>1, <2>3, RunCommandUnit DEF Ledger!Next
  <2>4. CASE RunAfterHook(s)
    BY <2>1, <2>4, RunAfterHookUnit DEF Ledger!Next
  <2>5. CASE SaveProgress(s) /\ current # 0
    BY <2>1, <2>5, SaveUnit DEF Ledger!Next
  <2>6. CASE /\ current' = current /\ ~RunCommand(s) /\ ~RunAfterHook(s)
             /\ SaveProgress(s) => current = 0
    BY <1>0, <1>2, <1>3, <2>1, <2>6, OtherLedger
  <2> QED
    BY <2>2, <2>3, <2>4, <2>5, <2>6
<1>4. CASE ContainerExits \/ RemovedOutside
  <2>1. CASE current' = current
    <3>1. UNCHANGED <<stateFile, ran, ranAfter>>
      BY <1>4 DEF ContainerExits, RemovedOutside, historyVars, runVars
    <3> QED
      BY <1>2, <2>1, <3>1 DEF DoneUnits, RecordedUnits
  <2>2. CASE current' # current
    <3>1. current' = 0
      BY <1>4, <2>2 DEF ContainerExits, RemovedOutside
    <3>2. DoneUnits' = {} /\ RecordedUnits' = {}
      BY <1>0, <3>1, NoContainer
    <3> QED
      BY <1>1, <2>2, <3>2 DEF Ledger!Next
  <2> QED
    BY <2>1, <2>2
<1>5. CASE UNCHANGED vars
  BY <1>2, <1>5 DEF vars, dockerVars, historyVars, runVars, DoneUnits, RecordedUnits
<1> QED
  BY <1>3, <1>4, <1>5 DEF Next, SessionStep

\* With one command at a time the code keeps the promise of CreationLedger:
\* creation commands and hooks run in order, are recorded only after they
\* succeeded, and never run again in a container where they are recorded.
THEOREM KeepsTheLedger == ASSUME OneSession PROVE Spec => LedgerSpec
<1>1. Init => Ledger!Init
  BY NoUnits DEF Init, Ledger!Init
<1>2. TypeInv /\ Truth /\ Solo /\ [Next]_vars => [Ledger!Next]_(Ledger!vars)
  BY NextLedger
<1> QED
  BY <1>1, <1>2, SoloInvariant, PTL DEF Spec, LedgerSpec, Ledger!Spec

-----------------------------------------------------------------------------
(* One command at a time, and no faults.                                     *)

QuietStep(s) == StartUp(s) \/ StartDown(s) \/ Progress(s)

\* Between the start of a container and the end of its up, postStart may be due.
Starting == {"start", "startOld", "verify", "syncRead", "syncWrite", "stage", "saveCommand",
             "saveAfter"}

\* What then is known of the container and its state file.
UndisturbedIn(s) ==
    /\ pc[s] \in Targeted => current = target[s]
    /\ pc[s] = "decide" => \A c \in seen[s] : c.id = current /\ (c.running => running)
    /\ (current # 0 /\ pc[s] \notin {"persistRead", "persistWrite"})
         => Matches(stateFile, current, label.hash)
    /\ running => current # 0
    /\ (pc[s] \in Targeted /\ path[s] = "Running") => running
    /\ (running /\ ~(pc[s] \in Starting /\ path[s] # "Running")) => postStarted
    /\ pc[s] = "use" => postStarted

\* The state file goes on describing the container that exists.
LEMMA UndisturbedFile ==
  ASSUME TypeInv, Truth, NEW s \in Sessions, AloneIn(s), CopyingIn(s), UndisturbedIn(s),
         QuietStep(s)
  PROVE  (current' # 0 /\ pc'[s] \notin {"persistRead", "persistWrite"})
           => Matches(stateFile', current', label'.hash)
<1> SUFFICES ASSUME current' # 0, pc'[s] \notin {"persistRead", "persistWrite"}
             PROVE  Matches(stateFile', current', label'.hash)
  OBVIOUS
<1>0. SessionStep(s)
  BY DEF QuietStep, SessionStep
<1>1. ~CreateContainer(s)
  BY DEF CreateContainer, Goto, TypeInv, TypeOK, SessionTypeOK
<1>2. current' = current /\ label' = label
  <2>1. label' = label
    BY <1>1
    DEF QuietStep, Progress, PersistWrite, dockerVars, StartUp, StartDown, Begin, List,
        ReconcileLoad, ReconcileRemove, ReconcileEnd, Decide, RefuseChangedConfig, StopOld,
        RemoveOld, CreateContainer, CreateConflict, PersistRead, StartContainer, VerifyRunning,
        SyncRead, RefuseWithoutState, SyncWrite, RunCommand, RunAfterHook, SaveProgress,
        PostStart, MarkUsed, ShellExits, StopListed, RemoveState
  <2> QED
    BY <1>0, <1>1, <2>1, StepCurrent
<1>3. CASE PersistWrite(s)
  <2>1. label = plan[s] /\ current = target[s]
    BY <1>2, <1>3 DEF PersistWrite, Goto, AloneIn, UndisturbedIn, Targeted
  <2> QED
    BY <1>2, <1>3, <2>1, FirstWriteIs DEF Matches
<1>4. CASE ~PersistWrite(s)
  <2>1. pc[s] \notin {"persistRead", "persistWrite"}
    BY <1>4
    DEF QuietStep, Progress, Goto, TypeInv, TypeOK, SessionTypeOK, StartUp, StartDown, Begin,
        List, ReconcileLoad, ReconcileRemove, ReconcileEnd, Decide, RefuseChangedConfig,
        StopOld, RemoveOld, CreateContainer, CreateConflict, PersistRead, StartContainer,
        VerifyRunning, SyncRead, RefuseWithoutState, SyncWrite, RunCommand, RunAfterHook,
        SaveProgress, PostStart, MarkUsed, ShellExits, StopListed, RemoveState
  <2>2. Matches(stateFile, current, label.hash)
    BY <1>2, <2>1 DEF UndisturbedIn
  <2>3. CASE ~WritingStep(s)
    BY <1>0, <1>2, <2>2, <2>3, StepFile
  <2>4. CASE SyncWrite(s)
    BY <1>2, <2>2, <2>4, SecondWriteIs DEF WriteState
  <2>5. CASE SaveProgress(s)
    <3>1. /\ stateFile' = mem[s] /\ mem[s] \in WorkspaceState
          /\ SameButFlags(mem[s], stateFile)
      BY <2>5
      DEF SaveProgress, WriteState, Goto, CopyingIn, CommandAdded, HookAdded, TypeInv, Targets,
          Holding
    <3> QED
      BY <1>2, <2>2, <3>1, NoStateAssumption DEF SameButFlags, Matches
  <2>6. CASE MarkUsed(s)
    <3>1. /\ stateFile' = [mem[s] EXCEPT !.exec = target[s]]
          /\ mem[s] = stateFile /\ mem[s] \in WorkspaceState /\ target[s] \in Ids
      BY <2>6
      DEF MarkUsed, WriteState, CopyingIn, TypeInv, Targets, Targeted, Holding
    <3>2. stateFile' \in WorkspaceState /\ stateFile'.container = stateFile.container
          /\ stateFile'.hash = stateFile.hash
      BY <3>1 DEF WorkspaceState
    <3> QED
      BY <1>2, <2>2, <3>2, NoStateAssumption DEF Matches
  <2> QED
    BY <1>4, <2>3, <2>4, <2>5, <2>6 DEF WritingStep
<1> QED
  BY <1>3, <1>4

\* Every step without a fault keeps the rest of it.
LEMMA StepUndisturbed ==
  ASSUME TypeInv, Truth, NEW s \in Sessions, AloneIn(s), CopyingIn(s), UndisturbedIn(s),
         QuietStep(s)
  PROVE  UndisturbedIn(s)'
<1>0. (current' # 0 /\ pc'[s] \notin {"persistRead", "persistWrite"})
        => Matches(stateFile', current', label'.hash)
  BY UndisturbedFile
<1> USE DEF TypeInv, TypeOK, DockerTypeOK, SessionTypeOK, Goto, EndFrom, AloneIn, Seen, Targeted,
           Starting, UndisturbedIn, dockerVars, optionVars, localVars, historyVars, runVars
<1>1. CASE StartUp(s) \/ StartDown(s)
  <2>1. PICK k \in Kinds, p \in Plan, e \in {"detach", "keep", "stop"} : Begin(s, k, p, e)
    BY <1>1, AnyPlanType, EndingsAssumption DEF StartUp, StartDown
  <2> QED
    BY <1>0, <2>1 DEF Begin
<1>2. CASE List(s)
  BY <1>0, <1>2 DEF List, AfterList
<1>3. CASE ReconcileLoad(s)
  BY <1>0, <1>3 DEF ReconcileLoad
<1>4. CASE ReconcileRemove(s)
  BY <1>0, <1>4 DEF ReconcileRemove
<1>5. CASE ReconcileEnd(s)
  BY <1>0, <1>5 DEF ReconcileEnd
<1>6. CASE Decide(s)
  BY <1>0, <1>6 DEF Decide
<1>7. CASE RefuseChangedConfig(s)
  BY <1>0, <1>7 DEF RefuseChangedConfig
<1>8. CASE StopOld(s)
  BY <1>0, <1>8 DEF StopOld
<1>9. CASE RemoveOld(s)
  BY <1>0, <1>9 DEF RemoveOld
<1>10. CASE CreateContainer(s)
  BY <1>0, <1>10 DEF CreateContainer
<1>11. CASE CreateConflict(s)
  BY <1>0, <1>11 DEF CreateConflict
<1>12. CASE PersistRead(s)
  BY <1>0, <1>12 DEF PersistRead
<1>13. CASE PersistWrite(s)
  BY <1>0, <1>13 DEF PersistWrite
<1>14. CASE StartContainer(s)
  BY <1>0, <1>14 DEF StartContainer
<1>15. CASE VerifyRunning(s)
  BY <1>0, <1>15 DEF VerifyRunning
<1>16. CASE SyncRead(s)
  BY <1>0, <1>16 DEF SyncRead
<1>17. CASE RefuseWithoutState(s)
  BY <1>0, <1>17 DEF RefuseWithoutState
<1>18. CASE SyncWrite(s)
  BY <1>0, <1>18 DEF SyncWrite
<1>19. CASE RunCommand(s)
  BY <1>0, <1>19 DEF RunCommand
<1>20. CASE RunAfterHook(s)
  BY <1>0, <1>20 DEF RunAfterHook
<1>21. CASE SaveProgress(s)
  BY <1>0, <1>21 DEF SaveProgress
<1>22. CASE PostStart(s)
  BY <1>0, <1>22 DEF PostStart, RunsPostStart
<1>23. CASE MarkUsed(s)
  BY <1>0, <1>23 DEF MarkUsed
<1>24. CASE ShellExits(s)
  BY <1>0, <1>24 DEF ShellExits
<1>25. CASE StopListed(s)
  BY <1>0, <1>25 DEF StopListed
<1>26. CASE RemoveState(s)
  BY <1>0, <1>26 DEF RemoveState
<1> QED
  BY <1>1, <1>2, <1>3, <1>4, <1>5, <1>6, <1>7, <1>8, <1>9, <1>10, <1>11, <1>12, <1>13,
     <1>14, <1>15, <1>16, <1>17, <1>18, <1>19, <1>20, <1>21, <1>22, <1>23, <1>24, <1>25,
     <1>26
  DEF QuietStep, Progress

Undisturbed == faults = 0 => \A s \in Sessions : UndisturbedIn(s)

\* There is no container at first.
LEMMA InitUndisturbed == Init => Undisturbed
BY DEF Init, Undisturbed, UndisturbedIn, Targeted, Starting

\* Every step keeps it: a fault is counted.
LEMMA NextUndisturbed ==
  ASSUME OneSession, TypeInv, Truth, Solo, Undisturbed, [Next]_vars
  PROVE  Undisturbed'
<1>1. CASE UNCHANGED vars
  BY <1>1
  DEF Undisturbed, UndisturbedIn, vars, dockerVars, optionVars, localVars, historyVars, runVars
<1>2. ASSUME NEW s \in Sessions, QuietStep(s), UNCHANGED faults PROVE Undisturbed'
  <2>1. AloneIn(s) /\ CopyingIn(s) /\ \A r \in Sessions : r = s
    BY DEF Solo, Alone, OneSession
  <2>2. faults = 0 => UndisturbedIn(s)'
    BY <1>2, <2>1, StepUndisturbed DEF Undisturbed
  <2> QED
    BY <1>2, <2>1, <2>2 DEF Undisturbed
<1>3. CASE faults' = faults + 1
  <2>1. faults' # 0
    BY <1>3, BoundsAssumption DEF TypeInv, TypeOK, HistoryTypeOK
  <2> QED
    BY <2>1 DEF Undisturbed
<1> QED
  BY <1>1, <1>2, <1>3 DEF Next, QuietStep

\* Without faults too the invariant is inductive for one command at a time.
LEMMA UndisturbedInvariant ==
  ASSUME OneSession PROVE Spec => [](TypeInv /\ Truth /\ Solo /\ Undisturbed)
<1>1. TypeInv /\ Truth /\ Solo /\ Undisturbed /\ [Next]_vars => Undisturbed'
  BY NextUndisturbed
<1> QED
  BY <1>1, InitUndisturbed, SoloInvariant, PTL DEF Spec

\* With one command at a time and without faults, an up of the plan the
\* container was created from always finds the state file it needs.
THEOREM UpIsNotRefused == ASSUME OneSession PROVE Spec => []NoSpuriousRefusal
<1>1. ASSUME TypeInv, Truth, Solo, Undisturbed PROVE NoSpuriousRefusal
  <2> SUFFICES ASSUME faults = 0, NEW s \in Sessions, pc[s] = "syncRead"
               PROVE  Matches(stateFile, target[s], plan[s].hash)
    BY DEF NoSpuriousRefusal
  <2>1. current = target[s] /\ current # 0
    BY <1>1 DEF Undisturbed, UndisturbedIn, Targeted, TypeInv, Targets, Ids
  <2>2. label = plan[s]
    BY <1>1, <2>1 DEF Solo, Alone, AloneIn, Targeted
  <2> QED
    BY <1>1, <2>1, <2>2 DEF Undisturbed, UndisturbedIn
<1> QED
  BY <1>1, UndisturbedInvariant, PTL

\* With one command at a time and without faults, an up that reports the
\* workspace usable has run postStart since the last start, or found it run.
THEOREM PostStartIsCovered == ASSUME OneSession PROVE Spec => []PostStartCoversStart
<1>1. Undisturbed => PostStartCoversStart
  BY DEF Undisturbed, UndisturbedIn, PostStartCoversStart
<1> QED
  BY <1>1, UndisturbedInvariant, PTL

=============================================================================
