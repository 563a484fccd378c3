---------------------------- MODULE UpLifecycle ----------------------------
(***************************************************************************)
(* `decune up`, `rebuild`, `down` and `remove` on ONE workspace in image or *)
(* Dockerfile mode: the container with the workspace's name, the state file *)
(* state.toml, and any number of decune processes ("sessions") that work on *)
(* both without a common lock.  A step is one call to Docker or one access  *)
(* to the state file; sessions interleave between steps and may die at any. *)
(***************************************************************************)
EXTENDS Integers, FiniteSets

CONSTANTS Sessions,       \* decune processes that may run at the same time
          NumStages,      \* creation stages; the code has 3 (onCreate ...)
          MaxContainers,  \* bound: containers created in a behaviour
          Hashes,         \* reuse hashes a plan can resolve to
          Mounts,         \* credential mount policies a plan can resolve to
          Kinds,          \* bound: the commands that are used
          Endings,        \* bound: how an up ends
          MaxFaults,      \* bound: crashes, failures and outside interference
          NoState         \* the state file does not exist

ASSUME NumStagesAssumption == NumStages \in Nat \ {0}
ASSUME BoundsAssumption == MaxContainers \in Nat /\ MaxFaults \in Nat
ASSUME PlanAssumption == Hashes # {} /\ Mounts # {}
ASSUME KindsAssumption == Kinds \subseteq {"up", "rebuild", "down", "remove"}
\* Detached, or attached with shutdownAction none or stopContainer.
ASSUME EndingsAssumption == Endings \subseteq {"detach", "keep", "stop"}

\* Docker gives ids in creation order; 0 stands for "no container".
Ids == 1 .. MaxContainers
Stage == 1 .. NumStages

Plan == [hash : Hashes, mounts : Mounts]

AnyPlan == CHOOSE p \in Plan : TRUE

LifecycleFlags == [command : SUBSET Stage, after : SUBSET Stage]

(* What state.toml holds, as far as the control depends on it; exec is the  *)
(* container of the recorded exec context, 0 when there is none.            *)
WorkspaceState ==
    [container : Ids, hash : Hashes, lifecycle : LifecycleFlags, exec : {0} \cup Ids]

ASSUME NoStateAssumption == NoState \notin WorkspaceState

\* A line of `docker ps` with the labels of the container.
Summary == [id : Ids, running : BOOLEAN, plan : Plan]

VARIABLES
    current,    \* the container that has the workspace's name, or 0
    running,    \* is it running?
    label,      \* the plan in its labels
    made,       \* containers created so far
    stateFile,  \* state.toml: a WorkspaceState or NoState
    pc,         \* where each session is
    kind, plan, ending,     \* what each session was asked to do
    seen,       \* the container list it works from: {} or one Summary
    path,       \* LifecycleRunPath
    target,     \* UpOutcome.container_id, or 0
    found,      \* the state file as it read it last
    mem,        \* StartedUpContainer.state, its copy of the state
    pending,    \* did it find pending creation stages?
    faults,     \* faults so far
    postStarted,\* history: postStart ran since the container was last started
    ran,        \* history: <<c, i>>, the command of stage i succeeded in c
    ranAfter,   \* history: <<c, i>>, the after hook of stage i succeeded in c
    known       \* history: <<c, i>>, state.toml has recorded that command

dockerVars == <<current, running, label, made>>
optionVars == <<kind, plan, ending>>
localVars == <<seen, path, target, found, mem, pending>>
runVars == <<postStarted, ran, ranAfter>>
historyVars == <<runVars, known>>
vars == <<dockerVars, stateFile, pc, optionVars, localVars, faults, historyVars>>

-----------------------------------------------------------------------------
(* The state file.                                                          *)

\* Mutated form: stages counted from 0.
NoFlagsOffByOne == [command |-> {0}, after |-> {}]
NoFlags == [command |-> {}, after |-> {}]

Matches(st, c, h) == st # NoState /\ st.container = c /\ st.hash = h

\* Mutated form: every sync drops the exec context.
ExecContextDropped(st, c) == 0
ExecContextFor(st, c) == IF st.exec = c THEN c ELSE 0

\* Mutated forms: the flags of any container are taken over; the flags are
\* reset even for the same container; the id of the first container stays.
SyncStateAnyContainer(st, c, h) ==
    [container |-> c, hash |-> h,
     lifecycle |-> IF st = NoState THEN NoFlags ELSE st.lifecycle, exec |-> 0]
SyncStateForgets(st, c, h) ==
    [container |-> c, hash |-> h, lifecycle |-> NoFlags, exec |-> 0]
SyncStateKeepsId(st, c, h) ==
    [container |-> IF st = NoState THEN c ELSE st.container, hash |-> h,
     lifecycle |-> NoFlags, exec |-> 0]

\* The state of container c, taking over what a matching state records.
SyncState(st, c, h) ==
    [container |-> c, hash |-> h,
     lifecycle |-> IF Matches(st, c, h) THEN st.lifecycle ELSE NoFlags,
     exec |-> IF Matches(st, c, h) THEN ExecContextFor(st, c) ELSE 0]

\* Mutated forms: after hooks are not waited for; stages run in any order.
CompletedWithoutHook(l, i) == i \in l.command
HasPendingCommand(l) == \E i \in Stage : i \notin l.command
IsAnyOpenStage(l, i) == ~(i \in l.command /\ i \in l.after)

Completed(l, i) == i \in l.command /\ i \in l.after
HasPendingCreation(l) == \E i \in Stage : ~Completed(l, i)
\* The stages run in order, so i is next when it is the first open one.
IsNextStage(l, i) == ~Completed(l, i) /\ \A j \in Stage : j < i => Completed(l, j)

\* Every write replaces the whole file by a rename.
WriteState(st) ==
    /\ stateFile' = st
    /\ known' = known \cup {<<st.container, i>> : i \in st.lifecycle.command}

-----------------------------------------------------------------------------
(* What an up decides.                                                      *)

\* Mutated form: a rebuild reconciles the state before it removes the container.
AfterListReconciling(k) ==
    CASE k = "down" -> "stop" [] k = "remove" -> "stopOld"
      [] OTHER -> IF current = 0 \/ k = "rebuild" THEN "reconcile" ELSE "decide"
AfterList(k) ==
    CASE k = "down" -> "stop" [] k = "remove" -> "stopOld"
      [] OTHER -> IF current = 0 THEN "reconcile" ELSE "decide"

\* A container with other mounts is replaced silently, one with another hash
\* only on request.  Mutated form: rebuild obeys the same rule as up.
MustRecreateAsUp(k, have, want) == have.hash = want.hash /\ have.mounts # want.mounts
MustRecreate(k, have, want) ==
    k = "rebuild" \/ (have.hash = want.hash /\ have.mounts # want.mounts)

\* postStart is skipped for a running container without open stages.
\* Mutated form: it runs only after creation stages.
RunsPostStartIfPending(p, open) == open
RunsPostStart(p, open) == p # "Running" \/ open

-----------------------------------------------------------------------------
(* Sessions.                                                                *)

Goto(s, from, to) == pc[s] = from /\ pc' = [pc EXCEPT ![s] = to]

\* A process that ends, in whatever way, forgets its local state.
EndFrom(s) ==
    /\ pc' = [pc EXCEPT ![s] = "idle"]
    /\ seen' = [seen EXCEPT ![s] = {}]
    /\ path' = [path EXCEPT ![s] = "New"]
    /\ target' = [target EXCEPT ![s] = 0]
    /\ found' = [found EXCEPT ![s] = NoState]
    /\ mem' = [mem EXCEPT ![s] = NoState]
    /\ pending' = [pending EXCEPT ![s] = FALSE]
    /\ kind' = [kind EXCEPT ![s] = "up"]
    /\ plan' = [plan EXCEPT ![s] = AnyPlan]
    /\ ending' = [ending EXCEPT ![s] = "detach"]

Init ==
    /\ current = 0 /\ running = FALSE /\ made = 0
    /\ label = AnyPlan
    /\ stateFile = NoState
    /\ pc = [s \in Sessions |-> "idle"]
    /\ kind = [s \in Sessions |-> "up"]
    /\ ending = [s \in Sessions |-> "detach"]
    /\ plan = [s \in Sessions |-> AnyPlan]
    /\ seen = [s \in Sessions |-> {}]
    /\ path = [s \in Sessions |-> "New"]
    /\ target = [s \in Sessions |-> 0]
    /\ found = [s \in Sessions |-> NoState]
    /\ mem = [s \in Sessions |-> NoState]
    /\ pending = [s \in Sessions |-> FALSE]
    /\ faults = 0
    /\ postStarted = FALSE /\ ran = {} /\ ranAfter = {} /\ known = {}

\* A command starts; its plan is resolved and its initializeCommand has run.
Begin(s, k, p, e) ==
    /\ Goto(s, "idle", "list")
    /\ kind' = [kind EXCEPT ![s] = k]
    /\ plan' = [plan EXCEPT ![s] = p]
    /\ ending' = [ending EXCEPT ![s] = e]
    /\ UNCHANGED <<dockerVars, stateFile, localVars, historyVars>>

\* `docker ps` for the workspace's labels.
List(s) ==
    /\ seen' = [seen EXCEPT ![s] =
          IF current = 0 THEN {}
          ELSE {[id |-> current, running |-> running, plan |-> label]}]
    /\ Goto(s, "list", AfterList(kind[s]))
    /\ UNCHANGED <<dockerVars, stateFile, optionVars, path, target, found, mem, pending,
                   historyVars>>

\* reconcile_state_without_container: load the file, then remove it.  It runs
\* before a create ("reconcile") and after a failed first start ("cleanup").
ReconcileLoad(s) ==
    /\ \/ Goto(s, "reconcile", IF stateFile = NoState THEN "decide" ELSE "reconcileRemove")
       \/ stateFile # NoState /\ Goto(s, "cleanup", "cleanupRemove")
    /\ UNCHANGED <<dockerVars, stateFile, optionVars, localVars, historyVars>>

ReconcileRemove(s) ==
    /\ Goto(s, "reconcileRemove", "decide")
    /\ stateFile # NoState
    /\ stateFile' = NoState
    /\ UNCHANGED <<dockerVars, optionVars, localVars, historyVars>>

\* The failed session ends here; so does one whose file another one removed.
ReconcileEnd(s) ==
    /\ \/ pc[s] = "cleanup" /\ stateFile = NoState
       \/ pc[s] = "cleanupRemove"
       \/ pc[s] = "reconcileRemove" /\ stateFile = NoState
    /\ stateFile' = NoState
    /\ EndFrom(s)
    /\ UNCHANGED <<dockerVars, historyVars>>

\* decide_existing_container on the list, which may be minutes old: the plan
\* was finalized and images were pulled and built in between.
Decide(s) ==
    /\ \/ /\ seen[s] = {} /\ Goto(s, "decide", "create")
          /\ UNCHANGED <<seen, path, target>>
       \/ \E c \in seen[s] :
            \/ /\ MustRecreate(kind[s], c.plan, plan[s])
               /\ Goto(s, "decide", "stopOld")
               /\ UNCHANGED <<seen, path, target>>
            \/ /\ kind[s] = "up" /\ c.plan = plan[s]
               /\ Goto(s, "decide", "syncRead")
               /\ path' = [path EXCEPT ![s] = IF c.running THEN "Running" ELSE "Started"]
               /\ target' = [target EXCEPT ![s] = c.id]
               /\ seen' = [seen EXCEPT ![s] = {}]
    /\ UNCHANGED <<dockerVars, stateFile, optionVars, found, mem, pending, historyVars>>

\* "Dev container configuration changed. Run decune rebuild to recreate it."
RefuseChangedConfig(s) ==
    /\ pc[s] = "decide" /\ kind[s] = "up"
    /\ \E c \in seen[s] : c.plan.hash # plan[s].hash
    /\ EndFrom(s)
    /\ UNCHANGED <<dockerVars, stateFile, historyVars>>

\* recreate_existing_containers and remove: by id, "not found" is success.
StopOld(s) ==
    /\ Goto(s, "stopOld", "removeOld")
    /\ running' = (running /\ \A c \in seen[s] : c.id # current)
    /\ UNCHANGED <<current, label, made, stateFile, optionVars, localVars, historyVars>>

RemoveOld(s) ==
    /\ Goto(s, "removeOld", IF kind[s] = "remove" THEN "removeState" ELSE "create")
    /\ IF \E c \in seen[s] : c.id = current
         THEN current' = 0 /\ running' = FALSE
         ELSE UNCHANGED <<current, running>>
    /\ seen' = [seen EXCEPT ![s] = {}]
    /\ UNCHANGED <<label, made, stateFile, optionVars, path, target, found, mem, pending,
                   historyVars>>

\* `docker create` fails when the name is taken.
CreateContainer(s) ==
    /\ Goto(s, "create", "persistRead")
    /\ current = 0 /\ made < MaxContainers
    /\ current' = made + 1 /\ made' = made + 1
    /\ running' = FALSE
    /\ label' = plan[s]
    /\ target' = [target EXCEPT ![s] = made + 1]
    /\ UNCHANGED <<stateFile, optionVars, seen, path, found, mem, pending, historyVars>>

CreateConflict(s) ==
    /\ pc[s] = "create" /\ current # 0
    /\ EndFrom(s)
    /\ UNCHANGED <<dockerVars, stateFile, historyVars>>

\* persist_initial_container_state reads the file, then writes it.
PersistRead(s) ==
    /\ Goto(s, "persistRead", "persistWrite")
    /\ found' = [found EXCEPT ![s] = stateFile]
    /\ UNCHANGED <<dockerVars, stateFile, optionVars, seen, path, target, mem, pending,
                   historyVars>>

PersistWrite(s) ==
    /\ Goto(s, "persistWrite", "start")
    /\ WriteState(SyncState(found[s], target[s], plan[s].hash))
    /\ found' = [found EXCEPT ![s] = NoState]
    /\ UNCHANGED <<dockerVars, optionVars, seen, path, target, mem, pending, runVars>>

\* The container just created is removed again, by NAME.
PersistFails(s) ==
    /\ pc[s] = "persistWrite"
    /\ current' = 0 /\ running' = FALSE
    /\ EndFrom(s)
    /\ UNCHANGED <<label, made, stateFile, historyVars>>

\* `docker start` by NAME: it starts whichever container has the name now.
StartContainer(s) ==
    /\ \/ Goto(s, "start", "verify")
       \/ Goto(s, "startOld", "verify")
    /\ current # 0
    /\ running' = TRUE
    /\ postStarted' = (postStarted /\ running)
    /\ UNCHANGED <<current, label, made, stateFile, optionVars, localVars, ran, ranAfter, known>>

\* ensure_container_running_after_start
VerifyRunning(s) ==
    /\ Goto(s, "verify", IF path[s] = "New" THEN "syncRead" ELSE "syncWrite")
    /\ current # 0 /\ running
    /\ UNCHANGED <<dockerVars, stateFile, optionVars, localVars, historyVars>>

\* A new container that does not start or stay up is removed, by NAME, and the
\* state is reconciled; a container that already existed is left as it is.
StartFails(s) ==
    /\ pc[s] \in {"start", "verify"} /\ path[s] = "New"
    /\ pc' = [pc EXCEPT ![s] = "cleanup"]
    /\ current' = 0 /\ running' = FALSE
    /\ UNCHANGED <<label, made, stateFile, optionVars, localVars, historyVars>>

\* sync_started_state, first half: read, and refuse to reuse a container that
\* the state file does not describe.
SyncRead(s) ==
    /\ path[s] # "New" => Matches(stateFile, target[s], plan[s].hash)
    /\ found' = [found EXCEPT ![s] = stateFile]
    /\ Goto(s, "syncRead", IF path[s] = "Started" THEN "startOld" ELSE "syncWrite")
    /\ UNCHANGED <<dockerVars, stateFile, optionVars, seen, path, target, mem, pending,
                   historyVars>>

RefuseWithoutState(s) ==
    /\ pc[s] = "syncRead" /\ path[s] # "New"
    /\ ~Matches(stateFile, target[s], plan[s].hash)
    /\ EndFrom(s)
    /\ UNCHANGED <<dockerVars, stateFile, historyVars>>

\* Second half: the state it will keep in memory from now on.
SyncWrite(s) ==
    LET st == SyncState(found[s], target[s], plan[s].hash) IN
    /\ Goto(s, "syncWrite", "stage")
    /\ WriteState(st)
    /\ mem' = [mem EXCEPT ![s] = st]
    /\ pending' = [pending EXCEPT ![s] = HasPendingCreation(st.lifecycle)]
    /\ found' = [found EXCEPT ![s] = NoState]
    /\ UNCHANGED <<dockerVars, optionVars, seen, path, target, runVars>>

\* The before hook and the command of the first open stage, by container NAME.
RunCommand(s) ==
    /\ current # 0 /\ running
    /\ Goto(s, "stage", "saveCommand")
    /\ \E i \in Stage :
         /\ IsNextStage(mem[s].lifecycle, i) /\ i \notin mem[s].lifecycle.command
         /\ ran' = ran \cup {<<current, i>>}
         /\ mem' = [mem EXCEPT ![s].lifecycle.command = @ \cup {i}]
    /\ UNCHANGED <<dockerVars, stateFile, optionVars, seen, path, target, found, pending,
                   postStarted, ranAfter, known>>

RunAfterHook(s) ==
    /\ current # 0 /\ running
    /\ Goto(s, "stage", "saveAfter")
    /\ \E i \in Stage :
         /\ IsNextStage(mem[s].lifecycle, i) /\ i \in mem[s].lifecycle.command
         /\ ranAfter' = ranAfter \cup {<<current, i>>}
         /\ mem' = [mem EXCEPT ![s].lifecycle.after = @ \cup {i}]
    /\ UNCHANGED <<dockerVars, stateFile, optionVars, seen, path, target, found, pending,
                   postStarted, ran, known>>

\* The save closure writes the session's whole copy of the state.
SaveProgress(s) ==
    /\ Goto(s, "saveCommand", "stage") \/ Goto(s, "saveAfter", "stage")
    /\ WriteState(mem[s])
    /\ UNCHANGED <<dockerVars, optionVars, localVars, runVars>>

\* postStart runs unless a running container had no stage to catch up on.
PostStart(s) ==
    /\ Goto(s, "stage", "use")
    /\ ~HasPendingCreation(mem[s].lifecycle)
    /\ IF RunsPostStart(path[s], pending[s])
         THEN current # 0 /\ running /\ postStarted' = TRUE
         ELSE UNCHANGED postStarted
    /\ UNCHANGED <<dockerVars, stateFile, optionVars, localVars, ran, ranAfter, known>>

\* mark_started_workspace_used: exec context and last_used_at, in one write.
MarkUsed(s) ==
    LET st == [mem[s] EXCEPT !.exec = target[s]] IN
    /\ pc[s] = "use"
    /\ WriteState(st)
    /\ IF ending[s] = "detach"
         THEN EndFrom(s)
         ELSE /\ pc' = [pc EXCEPT ![s] = "shell"]
              /\ mem' = [mem EXCEPT ![s] = st]
              /\ UNCHANGED <<optionVars, seen, path, target, found, pending>>
    /\ UNCHANGED <<dockerVars, runVars>>

\* The attached shell ends with an exit code; shutdownAction stops by id.
ShellExits(s) ==
    /\ pc[s] = "shell"
    /\ running' = (running /\ ~(ending[s] = "stop" /\ current = target[s]))
    /\ EndFrom(s)
    /\ UNCHANGED <<current, label, made, stateFile, historyVars>>

\* run_down: stop what was listed.
StopListed(s) ==
    /\ pc[s] = "stop"
    /\ running' = (running /\ \A c \in seen[s] : c.id # current)
    /\ EndFrom(s)
    /\ UNCHANGED <<current, label, made, stateFile, historyVars>>

\* remove_state_runtime_dirs: the last step of run_remove_workspace.
RemoveState(s) ==
    /\ pc[s] = "removeState"
    /\ stateFile' = NoState
    /\ EndFrom(s)
    /\ UNCHANGED <<dockerVars, historyVars>>

\* The process is killed, or the call it is at fails and ends it: a docker
\* call, a state write, a lifecycle command, the daemon, the forwarding.
Crash(s) ==
    /\ pc[s] # "idle"
    /\ EndFrom(s)
    /\ UNCHANGED <<dockerVars, stateFile, historyVars>>

\* The main process of the container ends, or someone stops the container.
ContainerExits ==
    /\ running /\ running' = FALSE
    /\ UNCHANGED <<current, label, made, stateFile, pc, optionVars, localVars, historyVars>>

\* `docker rm` by someone else than decune.
RemovedOutside ==
    /\ current # 0 /\ current' = 0 /\ running' = FALSE
    /\ UNCHANGED <<label, made, stateFile, pc, optionVars, localVars, historyVars>>

StartUp(s) ==
    \E k \in Kinds \cap {"up", "rebuild"}, p \in Plan, e \in Endings : Begin(s, k, p, e)
StartDown(s) ==
    \E k \in Kinds \cap {"down", "remove"} : Begin(s, k, AnyPlan, "detach")

Progress(s) ==
    \/ List(s) \/ ReconcileLoad(s) \/ ReconcileRemove(s) \/ ReconcileEnd(s)
    \/ Decide(s) \/ RefuseChangedConfig(s) \/ StopOld(s) \/ RemoveOld(s)
    \/ CreateContainer(s) \/ CreateConflict(s)
    \/ PersistRead(s) \/ PersistWrite(s)
    \/ StartContainer(s) \/ VerifyRunning(s)
    \/ SyncRead(s) \/ RefuseWithoutState(s) \/ SyncWrite(s)
    \/ RunCommand(s) \/ RunAfterHook(s) \/ SaveProgress(s) \/ PostStart(s)
    \/ MarkUsed(s) \/ ShellExits(s) \/ StopListed(s) \/ RemoveState(s)

Fault(s) == PersistFails(s) \/ StartFails(s) \/ Crash(s)

Next ==
    \/ /\ \E s \in Sessions : StartUp(s) \/ StartDown(s) \/ Progress(s)
       /\ UNCHANGED faults
    \/ /\ faults < MaxFaults /\ faults' = faults + 1
       /\ (\E s \in Sessions : Fault(s)) \/ ContainerExits \/ RemovedOutside

Spec == Init /\ [][Next]_vars

\* A running process keeps going; nothing says when the user starts one.
FairSpec == Spec /\ \A s \in Sessions : WF_vars(Progress(s) /\ UNCHANGED faults)

-----------------------------------------------------------------------------
(* Properties.                                                              *)

Pcs == {"idle", "list", "reconcile", "reconcileRemove", "cleanup", "cleanupRemove", "decide",
        "stopOld", "removeOld", "removeState", "stop", "create", "persistRead", "persistWrite",
        "start", "startOld", "verify", "syncRead", "syncWrite", "stage", "saveCommand",
        "saveAfter", "use", "shell"}

MaybeState == WorkspaceState \cup {NoState}

DockerTypeOK ==
    /\ current \in {0} \cup Ids /\ made \in 0 .. MaxContainers /\ label \in Plan
    /\ running \in BOOLEAN
CopyTypeOK ==
    /\ stateFile \in MaybeState
    /\ found \in [Sessions -> MaybeState] /\ mem \in [Sessions -> MaybeState]
SessionTypeOK ==
    /\ pc \in [Sessions -> Pcs]
    /\ kind \in [Sessions -> {"up", "rebuild", "down", "remove"}] /\ plan \in [Sessions -> Plan]
    /\ ending \in [Sessions -> {"detach", "keep", "stop"}]
    /\ seen \in [Sessions -> SUBSET Summary]
    /\ path \in [Sessions -> {"New", "Started", "Running"}]
    /\ target \in [Sessions -> {0} \cup Ids]
    /\ pending \in [Sessions -> BOOLEAN]
HistoryTypeOK ==
    /\ faults \in 0 .. MaxFaults /\ postStarted \in BOOLEAN
    /\ ran \subseteq Ids \X Stage /\ ranAfter \subseteq Ids \X Stage
    /\ known \subseteq Ids \X Stage

\* Every variable has the type its declaration in the code gives it.
TypeOK == DockerTypeOK /\ CopyTypeOK /\ SessionTypeOK /\ HistoryTypeOK

\* The state file never claims a creation stage for the container that exists
\* unless its command (its after hook) succeeded in that container, however
\* sessions overlap and wherever they die: a claimed stage is never run again.
RecordedStagesRan ==
    (stateFile # NoState /\ stateFile.container = current) =>
        /\ \A i \in stateFile.lifecycle.command : <<current, i>> \in ran
        /\ \A i \in stateFile.lifecycle.after : <<current, i>> \in ranAfter

\* `decune exec` accepts the recorded container only while it exists, and then
\* every creation stage and hook has succeeded in it.
ExecFindsReadyContainer ==
    (stateFile # NoState /\ stateFile.exec # 0 /\ stateFile.exec = current) =>
        \A i \in Stage : <<current, i>> \in ran /\ <<current, i>> \in ranAfter

\* The command of a creation stage runs in a container only after the command
\* and the after hook of the stage before it succeeded there.
StagesInOrder ==
    \A c \in Ids, i \in Stage : (i > 1 /\ <<c, i>> \in ran) => <<c, i - 1>> \in ranAfter

\* A stage that state.toml has recorded as done in a container is not run in it
\* again: after the container is stopped, started, reused, or a crash.
RunsCommand(s, c, i) ==
    /\ pc[s] = "stage" /\ pc'[s] = "saveCommand" /\ c = current
    /\ i \in mem'[s].lifecycle.command \ mem[s].lifecycle.command
RecordedStageNotRerun ==
    [][\A s \in Sessions, c \in Ids, i \in Stage : RunsCommand(s, c, i) => <<c, i>> \notin known]_vars

\* While the recorded container exists, no write of an up that works on it drops
\* the exec context that `decune exec` would use.
ExecContextKept ==
    [][(/\ stateFile # NoState /\ stateFile.exec = current /\ current # 0
        /\ stateFile' # NoState /\ current' = current)
         => stateFile'.exec = current]_vars

\* The state file is removed only when there is no container it could describe.
StateOutlivesContainer ==
    [][(stateFile # NoState /\ stateFile' = NoState) => current = 0]_vars

\* Without faults an up of the plan the container was created from is never
\* refused for want of a matching state file.
NoSpuriousRefusal ==
    faults = 0 => \A s \in Sessions :
        (pc[s] = "syncRead" /\ path[s] # "New") => Matches(stateFile, target[s], plan[s].hash)

\* Without faults an up reports the workspace usable only when postStart has
\* run since the container was last started, by it or by an earlier up.
PostStartCoversStart ==
    faults = 0 => \A s \in Sessions : pc[s] = "use" => postStarted

\* Whatever crashes left behind, a rebuild that runs undisturbed gets as far
\* as a usable workspace.
RebuildRecovers ==
    \A s \in Sessions :
        (pc[s] = "list" /\ kind[s] = "rebuild" /\ faults = MaxFaults /\ made < MaxContainers)
            ~> pc[s] = "use"

-----------------------------------------------------------------------------
(* One command at a time keeps the promise of CreationLedger: the units are  *)
(* the command of stage i, 2i - 1, and its after hook, 2i.                  *)

Units(commands, hooks) == {2 * i - 1 : i \in commands} \cup {2 * i : i \in hooks}

Ledger == INSTANCE CreationLedger WITH
    NumUnits <- 2 * NumStages,
    box <- current,
    done <- Units({i \in Stage : <<current, i>> \in ran},
                  {i \in Stage : <<current, i>> \in ranAfter}),
    recorded <- IF stateFile # NoState /\ stateFile.container = current
                THEN Units(stateFile.lifecycle.command, stateFile.lifecycle.after)
                ELSE {}

\* Every creation command and hook runs in order, is recorded only after it
\* succeeded, and never runs again in a container where it is recorded.
LedgerSpec == Ledger!Spec
=============================================================================
