# decune in TLA+

decune starts development containers described by `devcontainer.json`. The
commands `up`, `rebuild`, `down`, `remove`, `exec`, `status`, `ports` and `clean`
are processes that share Docker objects and files and have no common lock. During
an attached `up` the process also serves the container: a host daemon on a Unix
socket (Git credentials, `status` and `ports` from inside), and port forwarding.

This directory models that sharing. Paths below are relative to the
repository's `src/` directory unless they begin with `docs/` or `crates/`.

## Inventory

| Component | State | Operations | What is hard | What makes it correct |
|---|---|---|---|---|
| up and rebuild (`up.rs`, `up/`, `state.rs`, `devcontainer/lifecycle/`) | container, `state.toml` | list, decide, create, persist, start, sync, creation stages, postStart, record use | no lock; stale list; read-modify-write of `state.toml`; death between two calls | stages in order and once per container; `state.toml` is true; a rebuild recovers |
| down, remove (`down.rs`) | the same, and runtime files | stop, remove, clean up | overlaps with an up | a state goes only with its container |
| host daemon lifecycle (`host/daemon.rs`, `up/lifecycle/host_daemon.rs`) | socket, metadata, listeners | bind, probe, unlink, reuse, monitor, restart, drop | file operations by path; check then act; crashes | who begins while a daemon answers leaves it its files; no socket is left behind; a lone start succeeds; a monitor takes over |
| host daemon connections (`host/daemon.rs`, `host/protocol.rs`) | connection and query permits, backlog, worker threads | accept, read, dispatch, answer, drain | permits at their limit, three timeouts, a host git that blocks a thread, the end of the daemon under its connections | no permit is lost; a command ends and gets an answer |
| query cache (`host/query.rs`) | cache entries, load tasks, query permits | admit, join, hit, load, expire, time out | single flight, two timeouts, closed channels | one load per kind; a dead load is forgotten |
| container tools (`crates/decune-container-tools`, `host/container_tools.rs`) | none | connect with retries, parse | retry against hand-over | a command survives a hand-over |
| forwarding (`host/forward/`, `up/forwarding.rs`) | agent and its binary, listeners, status registry | plan ports, stage, start, scan, bind, stop | probe then bind, partial start, stop during a scan, port search at 65535 | every reported port is served, an open port is forwarded, nothing is left behind |
| credentials (`host/credentials/`) | token file, temporary files | prepare, scrub | a file shared by sessions | a token lives as long as a session needs it |
| Compose ports (`runtime/compose_ports/`, `up/start/compose.rs`) | plan; the ports of containers | list, plan, relocate, reuse or recreate, bind, explain a failure | probe, then bind; stopped containers; u16 limits | no socket is given out twice; a published port stays; a running project is left alone |
| clone isolation (`runtime/compose_isolation/`) | Docker's networks, the assignment in `state.toml` | list, plan, allocate a slot, remove, create, record | wrap-around, edges of intervals, networks that come and go in between, a state that is deleted before its networks are made | a free slot is found when there is one; a planned subnet clashes only with what came later; a clone keeps its subnets |
| Features (`devcontainer/features/`) | archive cache, extracted copies, lock file | resolve, order, pull, extract | cycles, concurrent fills and `clean` | dependencies first; what was pulled is there when it is opened |
| clean (`clean.rs`) | the directories of workspaces | list, scan, confirm, revalidate, remove | check then act, a user who takes long, a death half-way | only unused data goes, and all of it |
| configuration (`config/`) | none | load, merge, hash | merge order | the hash tells equal plans from unequal |
| Docker and Compose command lines (`docker/`, `runtime/`) | none | one process for each call | failing calls | seen by their callers |
| reports and user interface (`status/`, `ports/`, `ui.rs`, ...) | none | aggregate, render | - | - |

How they interact: an `up` process (1) lists containers, (2) decides with the
plan and `state.toml`, (3) creates, starts or reuses, (4) starts or reuses the host
daemon, and (5) runs the lifecycle in the container. In the container, git and
`decune` call the daemon through the socket; the daemon answers status queries
through the query cache, which reads `state.toml`, asks the forwarding status
socket and asks Docker. `down` and `remove` clean up what processes that have died
left; `clean` removes what no workspace uses any more. Commands of different clones of
one repository meet in Docker's networks.

## Modules

| Module | Models | Runs | Proofs |
|---|---|---|---|
| `UpLifecycle` | up, rebuild, down, remove on one workspace in image or Dockerfile mode | `up_sequential` | `UpLifecycleProofs` |
| `CreationLedger` | abstract: a box in which units of work are done in order and recorded | as `LedgerSpec` in `up_sequential` | implemented: `UpLifecycleProofs` |
| `QueryCache` | the query coordinator and its evidence cache | `query_cache` | `QueryCacheProofs` |
| `HostDaemon` | socket, metadata, ownership, reuse, monitor, cleanup | `host_daemon*` | `HostDaemonProofs` |
| `PortForwarding` | agent, listeners, automatic loop and status of the `up` sessions | `forwarding*` | `PortForwardingProofs` |
| `ComposePorts` | the published ports of one Compose project through up, rebuild, down and remove | `compose_*` | `ComposePortsProofs` |
| `DaemonConnections` | the connections of a daemon, the clients in the container, the hand-over to a monitor | `daemon_connections` | `DaemonConnectionsProofs` |
| `HostData` | the Feature cache and the directories of workspaces under ups and `clean` | `host_data` | `HostDataProofs` |
| `CloneIsolation` | the subnets of the Compose networks of clones | `clone_isolation` | `CloneIsolationProofs` |
| `MC...` | constants and symmetry for TLC | | |

Definitions marked "Mutated form" are faulty versions of the definition that
follows them. Nothing uses them; each shows that a property notices the fault
when it is put in.

### UpLifecycle

One workspace. `current`, `running` and `label` are what Docker knows of the
container with the workspace's name; `stateFile` is `state.toml`; everything else
is local to a process ("session") or history. One action is one Docker call or one
access to the file, so everything between two calls can be interrupted by
another session or by the death of the process:

| Code | Actions |
|---|---|
| `ensure_container_started` | `Begin`, `List`, `ReconcileLoad/Remove/End`, `Decide`, `RefuseChangedConfig`, `StopOld`, `RemoveOld` |
| `create_and_start_container_inner` | `CreateContainer`, `CreateConflict`, `PersistRead/Write/Fails`, `StartContainer`, `VerifyRunning`, `StartFails` |
| `started_up_container`, `sync_started_state` | `SyncRead`, `RefuseWithoutState`, `SyncWrite` |
| `run_container_start_lifecycle` | `RunCommand`, `RunAfterHook`, `SaveProgress`, `PostStart` |
| `mark_started_workspace_used`, attached shell | `MarkUsed`, `ShellExits` |
| `run_down`, `run_remove_workspace` | `StopListed`, `RemoveState` with the list and remove actions |
| Docker, the user, the kernel | `ContainerExits`, `RemovedOutside`, `Crash` |

Ids matter: some calls take the container's id and act only on the container that
was listed, others take its name and act on whichever container has it now.
`target` and `current` keep the two apart. A stage is its before hook, command and
after hook; the code records the command and the after hook separately, and so
does the model.

Abstracted: the plan is a reuse hash and a credential mount policy; the image
build and pull happen inside `Decide`; timestamps, names, labels and messages are
left out. Compose mode, which starts through `docker compose up`, is in
`ComposePorts` and `CloneIsolation` as far as its ports and subnets decide.

### QueryCache

Each query needs the evidence of every kind (containers, volumes). `entry` is the
cache, `load` the task behind each watch channel, `query` and `wait` the queries
that hold a permit. Time is discrete; `Tick` is the only action that takes time,
and timers fire when they are due. Local reads and Docker may take arbitrarily
long; the steps that need no I/O happen at once, except for `MaxLag` ticks in
which the scheduler is late. A channel is reused once neither the cache nor a task
nor a query refers to it, which is when the real one is dropped.

### HostDaemon

`sock` is the inode at `host-daemon.sock`, `meta` the metadata file and `listen`
who listens on each inode. That inode is what the code compares
(`host/daemon.rs:493`); unlinking the path does not close the listener, and the
lowest free inode is used next, as file systems that recycle inodes do. A
profile is what a session requires: `git` stands for everything that must be equal
for reuse (peer uid, Git HTTPS mode, protocol version), `query` for the query
policy and context, whose mismatch is an error, and `group` for the remote gid,
whose mismatch makes the reusing session write the metadata again.

| Code | Actions |
|---|---|
| `bind_host_daemon_socket`, `remove_stale_socket` | `Bind`, `Listen`, `AddrInUse`, `Inspect`, `ProbeRefused/Answered`, `UnlinkStale`, `Rebind`, `RebindFails` |
| `start_with_access_and_cli_query_runtime`, `write_host_daemon_metadata` | `Chmod`, `Stat`, `Write`, `Seal`, and their failures |
| `ensure_host_daemon_access_for_remote_user` | `ReuseStat`, `Reuse`, `ReuseChmod`, `RefuseQuery`, `DeclineReuse`, `Restat`, `Rewrite`, `Reseal` |
| `monitor_reused_host_daemon` | `Tick`, `Connect`, then the actions of a start, `ReplaceSock` |
| `HostDaemon::drop` | `DropMeta`, `DropSock`, `CloseListener` |
| `cleanup_host_daemon_socket` | `StartCleanup`, `Inspect`, ..., `CleanMeta` |

`Bind` is bind(2) and `Listen` is listen(2): between them the file exists and who connects
is refused. Writing the metadata (`Write`, `Rewrite`) and changing its mode (`Seal`,
`Reseal`) are two steps. `met` is history: which daemon answered at the path when an operation of
a session began, as long as that one answers and the operation lasts. A metadata file that is read
half-written is not modelled, and the two removals of a start that fails are one step.

### PortForwarding

`host` says who listens on each host port, `open` on which ports the primary
container has a server, `tool` where the agent binary is staged. `agent`, `allowed`
and `queue` are the agent of a session in a target container, the ports it may
connect to and the requests it has not read. Target 1 is the primary container,
the others are Compose sidecars, which have no automatic loop. A probe and a bind
are steps of their own, so any other program may come between; one search for a
free port is one step.

| Code | Actions |
|---|---|
| `resolve_forward_ports_with_host_reservations` | `Plan` |
| `prepare_forward_runtime`, `ForwardRuntime::drop` | `Stage`, `Exit` |
| `start_forward_status_server`, its `stop` | `StartStatusServer`, `StatusMetadata(Fails)`, `StopStatus` |
| `start_forwarding_target`, `wait_for_forward_agent_with_status` | `ExecAgent(Fails)`, `AgentAnswers`, `AgentTimesOut` |
| `start_forward_session_with_auto`, `start_forward_listeners` | `Listen`, `ListenFails`, `TargetServed` |
| `run_auto_forward_loop`, `scan_and_add_auto_forwards` | `Scan(Fails)`, `AddDetected`, `ListenAuto(Fails)`, `AutoServed` |
| `ForwardSession::stop` | `StopTarget` |
| the agent (`decune-forward-agent.rs`) | `AgentStarts`, `AgentScans`, `AgentScanFails`, `AgentShutsDown` |
| programs of the host and the container | `Takes`, `Releases`, `Opens`, `Closes` |

Abstracted: 65535 is `MaxPort`; host addresses are one (the code lets two
addresses share a port number); the streams of forwarded connections, secrets and
per-port attributes are left out. The agent in the model is the one that is
shipped in `crates/`; the copy in `host/forward/agent.rs` serves tests. The kernel
hands out no port that needs a privilege when asked for port 0.

### ComposePorts

`container` and `published` are what Docker has of the project: whether each
service's container exists and runs, and the endpoint that each entry of the Compose
file was created with. `foreign` are the sockets of everybody else, other
containers (which Docker lists) and plain programs (which only a probe finds).
An up reads, in this order, the project's containers, the primary one, the
project's bindings and those of other containers; what it read is kept in
`stale`, `primary`, `hash`, `seen` and `external` and may be out of date from the next
step on. Each entry is a step of the planner.

| Code | Actions |
|---|---|
| `prepare_compose_startup_context` | `Start`, `ListContainers`, `ListPrimary`, `ListBindings`, `ListExternal` |
| `compose_running_reuse_fast_path_enabled`, `try_reuse_running_compose_container_before_image_prepare` | `Listed`, `PrepareImages` |
| `resolve_forward_ports_with_host_reservations` | `ResolveForwards`, `ForwardsFail` |
| `plan_explicit_mappings`, `plan_unmapped_entries` | `PlanEntry`, `PlanFails` |
| `decide_existing_compose_container`, `compose_start_run_options` | `ConfigChanged`, `ReuseRunning`, `CallCompose` |
| `docker compose up` | `ComposeService`, `ComposeFails` |
| `ensure_container_running_after_start`, `sync_started_compose_state` | `Verify`, `VerifyFails`, `Sync` |
| `stop_compose_project_containers`, `remove_compose_project_resources` | `Down`, `Remove` |
| other programs and containers | `Takes`, `Releases`, `Dies` |

`docker compose up` is external: it recreates a container when told to or when its
ports differ from the configuration, starts the services in any order, and leaves a
container it could not bind for created and stopped. A host address is one
of three, with the code's rule of which conflict; an omitted one is
`0.0.0.0` for the planner and both wildcards for Docker. The reuse hash is the
explicit mappings (relocations are not part of it,
`up/metadata/compose_override_hash.rs:20`). One search for a port is one step; a forward
for which it finds none goes on with host port 0, which conflicts with nothing. Only one
up at a time is modelled. UDP, ranges, container-only ports, `runServices`, `--pull` and
the record of the published ports in `state.toml` are left out.

### DaemonConnections

Daemon 1 belongs to the session that started it, each later one to the session that monitors
it (`monitor.held` is the one that its variable holds, `monitor.new` the last that it has bound). `path`
says whose socket the path names, `backlog` which connections the kernel
holds, `free` and `queries` how many permits are left. A client is a command of the
container CLI, which tries again, or any other process that connects: the Git credential helper, or one that never
sends anything. A credential request runs the host git inside the asynchronous
task (`host/credentials/git.rs:498`), so it occupies a worker thread; `Runs` says whether
one is left for everything else.

| Code | Actions |
|---|---|
| `query_with`, `connect_with_retry` | `Begin`, `Connects`, `FindsNobody`, `IsDenied` |
| `run_host_daemon` | `AcquirePermit`, `Accept`, `AcceptFails`, `Drained` |
| `handle_connection`, `read_host_daemon_request` | `ReadTimesOut`, `RequestRefused`, `RequestsCredential`, `RequestsQuery`, `Close` |
| `bounded_cli_query_response` | `EndQuery`: `QueryReturns`, `QueryTimesOut` |
| `run_host_git_credential` | `GitReturns` |
| `write_host_daemon_response` | `Written`, `WriteTimesOut` |
| `HostDaemon::drop`, the end of its runtime | `OwnerEnds`, `OwnerRemoves`, `Abort` |
| `monitor_reused_host_daemon` | `MonitorProbes`, `RemovesStale`, `Binds`, `Listens`, `Opens`, `StartFails`, `Spawns`, `RemovesHeld` |
| time | `Tick`, which passes only when nothing is due |

The owner may end at any moment, also after a takeover, and removes whatever socket the path
names; so does the monitor when a second restart drops its previous daemon. A start of the monitor is one step
per system call: a command that comes before listen(2) is refused and tries again, one
that comes before the chmod is denied and does not. `RestartFails` is the bound on daemons: past it a restart of the monitor fails. How a query finds its answer is `QueryCache`; who owns the files is `HostDaemon`. Frames,
versions and policies of the protocol are one alternative: a request is served or refused.

### HostData

`archive` is what the shared Feature cache holds, `extracted` the copy that a
workspace unpacks for its image build, `dirs` the four directories of each
workspace, `managed` the workspaces with a container or volume. `clean` is one
process whose knowledge (`listed`, `todo`, `ws`) ages from step to step.

| Code | Actions |
|---|---|
| `prepare_feature_metadata_for_plan`, `pull_oci_feature_with_client` | `BeginUp`, `LockShared`, `Check`, `Fetch`, `WriteArchive`, `DescribeArchive` |
| `extract_cached_feature`, `extract_feature_archive` | `OpenArchive`, `Unpack`, `Verify` |
| the rest of an up, as far as it makes directories, containers and sockets | `Build`, `Stage`, `Create`, `Record`, `Serve`, `EndUp` |
| `build_clean_report`, `confirm_clean` | `BeginClean`, `ListManaged`, `Scan`, `Confirm` |
| `apply_clean_report`, `apply_workspace_clean_target` | `NextTarget`, `Revalidate`, `Recheck`, `RemoveDir`, `LockExclusive`, `RemoveArchive`, `RemovedArchives` |
| the user, the kernel | `Unmanage`, `EndClean`, and `EndUp` at every step |

Every process may fail or die at each of its steps; the lock of a process that dies
is released. Dry runs, the report, and directories that hold links are left out.

### CloneIsolation

`nets` are Docker's networks, each with its project, its subnet and the version of the
Compose file it was made from; `container` and `label` are the containers of a clone;
`saved` is the assignment in `state.toml`. `seen`, `attached`, `plan`, `doomed` and `listed` are what
an up knows, each as old as the step that read it. Subnets are intervals of
addresses. The slot search is modelled as the code does it: occupied intervals are
clipped to the pool, merged in the order of their starts and passed one by one, first from the hash to the top and
then from the bottom to the hash.

| Code | Actions |
|---|---|
| `compose_isolation_daemon_snapshot` | `StartUp`, `Snapshot` |
| `plan_compose_isolation_subnets` | `PlanNetwork`, `PoolExhausted` |
| `finalize_compose_isolation_plan`, `networks_to_recreate` | `Finalize`, `StillAttached` |
| `decide_existing_compose_container`, `compose_start_run_options` | `ConfigChanged`, `ReuseRunning`, `ProceedAnew`, `ProceedWith` |
| `remove_stale_compose_isolation_networks` | `RemoveNetwork`, `RemoveFails` |
| `docker compose up` | `CallCompose`, `CreateNetwork`, `SubnetRefused`, `StartContainers` |
| `sync_started_compose_state` | `Sync` |
| `run_down`, `run_remove_workspace` | `Down`, `RemoveProject`, `Forget` |
| Docker, users, other clones | `Crash`, `ContainerExits`, `ContainerRemoved`, `Prune`, `OtherNetwork` |

Clones know of each other only through Docker's networks, so `OtherNetwork` stands for
every other clone as well. There is one address space and one IPAM driver; gateway, range
and auxiliary addresses are offsets that the file determines. One command at a time works on a
clone. A clone may have been up before: it then has its networks and a stopped container, and
no two networks that exist overlap (`Apart`), which Docker sees to. Addresses that do not fit a slot, endpoint placeholders, rewritten names, fixed
resource names and a project without relocation are left out; what Docker Compose does with a
stopped container whose network was pruned is external.

## Runs

| Run | Question | Bounds |
|---|---|---|
| `up_sequential` | Does one command at a time keep every promise, with two faults anywhere (crash, failing call, container stopped or removed by someone else)? | 3 stages as in the code, 2 containers, 2 hashes, 2 mount policies |
| `query_cache` | Do overlapping queries share loads under timeouts, failures, expiry, a panic and a late scheduler? | 2 queries, 2 kinds, 5 channels |
| `host_daemon` | Do overlapping starts, reuses, cleanups and ends leave a sound directory? | 2 sessions, 4 profiles, 3 inodes, 1 fault; 3.9 million states |
| `host_daemon_recovery` | Whatever was left behind, does a lone start or monitor get its daemon? | 2 sessions, 1 profile, 1 fault |
| `host_daemon_monitor_flap` | See Findings | 2 sessions, no fault |
| `forwarding` | Is what a session reports served, what is open forwarded, and everything gone at its end, while host ports come and go? | 1 session, 2 targets, 4 ports, 2 foreign ports at a time, 1 fault |
| `forwarding_binary_race` | See Findings | 2 sessions, no fault |
| `compose_ports` | Do planning, reuse and binding agree while ports are taken and released and containers stop? | 2 services, 3 entries, 4 ports, 8 kinds of up, 1 foreign listener at a time, 2 outside events in an up |
| `compose_rebuild_moves_ports` | See Findings | 1 entry, nobody else |
| `daemon_connections` | Does a command end and get its answer, and are the permits right, while others hold connections, queries and threads and the daemon changes hands? | 1 command, 2 others, 2 connection permits, 1 query permit, 2 threads, 3 daemons; 1 million states |
| `host_data` | Does `clean` leave alone what is used and remove what is not, and does a pull keep its archive, whoever dies where? | 2 ups of a workspace, another unused workspace, any number of cleans |
| `clone_isolation` | Is a subnet found, free and kept, while networks come and go and commands die? | 1 clone, 2 networks, a pool of 4 slots, foreign subnets of half a slot, two slots and more than the pool, 2 files |

Why the bounds suffice for the questions. Two containers are the one a session
knows and the one that took its name; a third would be a second replacement of the
same kind. Two sessions are a reader and a disturber. Two stages are needed to see
an order; sequentially all three are used. Two queries are one that starts a load
and one that joins it or finds it dead; more of them only join. Five channels are
more than two queries and two entries can refer to, so a load never waits for a
channel. In time, what matters is the order 0.5 s < 2 s (failure and success
expiry) and 10 s < 15 s (load and query timeout), which the small numbers keep; a
query that came after slow local reads still overlaps with both ends of a load.
Three inodes are a socket for each session and one for a restart. In
`forwarding` the four host ports are one that may not be bound, one that is
reserved, the upper end of the automatic range and the last port; with two
of them in other hands searches run past the end and find nothing. One session is enough
there: another one is, to it, one more program that holds ports, except for the
binary, which has its own run.

In `compose_ports` two entries of two services want the same port and one entry a
privileged port; four ports are two requested, the next and the last. One foreign listener takes
the requested port, the port to which it would be moved, or the IPv6 half of one. Two outside events in an up let one
thing change between listing and planning and another between planning and binding;
between ups there may be any number. A third event has been checked without a change in the result.

In `daemon_connections` three daemons are the owner's, the one that takes over and one for which the
monitor drops that one; a fourth would meet the third as the third met the second. The two others can take both permits, or both threads, or the query
permit while the command waits. Its times keep the order of the code: the retries of a command
(4 tries) outlast the monitor's interval (2 ticks) and its lag (1), which
`HandoffAssumption` states, and a query may take longer than a read or a write. In `host_data` one Feature stands for all, since
one lock guards them all. In `clone_isolation` two networks are needed for one to be in the
way of the other; four slots let the search start in the middle and wrap, with an occupied
interval below, at and above its start; the half slot, the upper half and the pool with its
surroundings are the three ways an interval can meet the edges. The counters of `clone_isolation` and
`host_data` need no cap: their states are finite.

`UpLifecycle` runs are bounded in the containers they create and in faults; at the
bound a session has to stop, so those configurations do not check for
deadlock. Every other run checks it. `UpLifecycle` is run
with one session; that overlapping sessions leave the state file true is proved for any number of them.

Faults are counted because with any number of them liveness says nothing:
`RebuildRecovers`, `LoneStartSucceeds` and `MonitorTakesOver` begin when the faults
are used up.

### Fairness

`FairSpec` of `UpLifecycle` and `HostDaemon` makes `Progress(s)` without a fault (`GoesOn(s)`) weakly fair for
each session: a process that is running takes its next step, since each call
either returns or fails, and the monitor's interval ticks
(`up/lifecycle/host_daemon.rs:186`). Nothing is assumed of users: no session needs
to start or end. Faults are never fair. In `PortForwarding` a session's start, loop
and stop and each agent are weakly fair: the loop sleeps for a fixed interval, the
agent serves one request after the other, and a wait for the agent ends after a
number of retries (`host/forward/agent.rs:102`). In `DaemonConnections` time goes on,
passing only when nothing is due, so weak fairness of `Next` is progress of the clock and of every timer
and I/O step; each host git returns, which nothing in the code enforces
(`host/credentials/git.rs:529`), and no client needs to send, read or close. `QueryCache`, `HostData` and
`CloneIsolation` have safety and action properties only and need none.

### The properties

In `UpLifecycle`: `RecordedStagesRan` (the state never claims a stage of the
existing container that has not succeeded in it), `ExecFindsReadyContainer`,
`StagesInOrder`, `RecordedStageNotRerun`, `ExecContextKept`,
`StateOutlivesContainer`, `NoSpuriousRefusal`, `PostStartCoversStart` (both without
faults: a crash between the container's start and postStart does lead to an up that
skips it), `RebuildRecovers`, and `LedgerSpec`: with one command at a time the
protocol implements `CreationLedger`, where a unit is done in order, recorded only
after it was done, and never done again once recorded.

In `QueryCache`: `SingleFlight`, `LoadsNeverQueue`, `TimeoutOnlyForSlowReads`
(the wait for Docker ends through the load's own timeout, with a warning, and not
through the query's), `DeadLoadForgotten`.

In `HostDaemon`: `NewcomersSpare` (an operation that begins while a daemon answers, be it a start, a
check of the monitor or a cleanup, leaves that daemon its socket, and its metadata unless to write
them again for the same socket; with faults, stale files and overlapping ends. Nothing holds
of one that began before the daemon answered, see Known), `NoSocketLeft` (when sessions
end without a fault), `LoneStartSucceeds`, `MonitorTakesOver`.

In `PortForwarding`: `ReportedIsServed` (what `decune ports` shows has its listener and
an agent that lets the port through; while a session stops the listeners go first,
so the report is late for a moment), `AutoForwardsOnce`, `NothingLeftBehind`
(except the agent whose start timed out, which is told nothing, and the
status socket whose metadata could not be written), `AgentsEnd`, `OpenPortForwarded`.

In `ComposePorts`: `PlanDisjoint` (no decision conflicts with another one, with a
forward or with a container of others; without relocation this holds of the explicit
mappings), `KeepsPorts` (a container that was listed running and has run since keeps its
sockets, recreated or not), `BlamesRacesOnly` (a bind race is reported only if
somebody came after the listing, except for the IPv6 half of an omitted address, at
which the planner does not look), `RunningIsReused`, `StartedIsKept`. The last one is
stated for automatic relocation: without it and without mappings nothing is
planned, so the stopped container of a project that had been relocated is recreated by Docker Compose while decune goes
on with the id it listed (`up/start/compose.rs:1509`).

In `DaemonConnections`: `PermitsAccounted` (however a connection or query ends, its permit
comes back once), `CommandsAnswered` (while a session monitors, and as long as no daemon but the
owner's has lost its listener or its socket, a command finds a
daemon within its retries and is not closed on without an answer; it may lose the connection when its daemon
goes under it, and is denied between bind and chmod), `EveryCommandEnds` (with every permit in the hands of clients that stay silent).

In `HostData`: `PulledArchiveStays`, `CleanSparesUsed` (an action property: nothing of
a workspace is removed that had a container or a live session ever since the user
confirmed), `NothingStaleLeft` (what earlier deaths left is found too, also when only the last
of the four directories is left).

In `CloneIsolation`: `ExhaustedMeansFull`, `ClashIsARace` (Docker refuses a planned subnet only because
of a network that was not there at the listing), `AssignmentKept` (a regular up returns to the
subnets that its clone had, unless somebody else is in them; an up of a running clone whose
file has not changed moves nothing).

`QueryCache`, `PortForwarding`, `DaemonConnections`, `HostData` and `CloneIsolation` have a `TypeOK` that says
what their variables hold; it is not among the properties of their runs.

## Findings

1. `host_daemon_monitor_flap`: when a monitor that already owns a daemon restarts
   it, `_daemon = Some(restarted)` (`up/lifecycle/host_daemon.rs:230`) drops the old
   daemon after the new one has bound, and the drop removes the files of the new
   one by path. From then on every tick starts a daemon and deletes its socket
   (`docs/specification.md:1575`). It needs no fault: an owner whose end
   overlaps the monitor's first restart suffices.
2. `forwarding_binary_race`: every up, a detached one too, stages the agent binary at
   one path of the workspace (`up/start/credentials.rs:78`) and removes that path when it
   ends (`host/forward/runtime.rs:75`). A detached up that ends while an attached
   one runs its creation commands takes the binary from it, and starting the agent
   fails (`docs/specification.md:132`).
3. `compose_rebuild_moves_ports`: a rebuild plans as if the project had no ports
   (`up/start/compose.rs:1135`) but does not stop it first. With automatic
   relocation the probe of the requested port therefore meets the project's own container, and
   the rebuild moves the project to the next port; the one after it moves it back
   (`tests/cli/compose_integration.rs:896`, `docs/specification.md:1217` and `1222`).

Known, without a run of their own:

* Host daemons of one workspace start without a lock. Between bind(2) and listen(2) another start or a `down`
  is refused by the fresh socket, takes it for stale and unlinks it (`host/daemon.rs:615`); of two starts that
  found one stale socket the slower unlinks what the faster has bound. Two owners, or one that
  nobody reaches, are the result, without a fault. `HostDaemon` has each of these steps, and no property
  denies them: `NewcomersSpare` says what is left. A command that connects between bind and chmod gets EACCES, which
  `transport.rs:95` does not retry.
* A session stats the path, then writes the metadata (`host/daemon.rs:445`). When the socket has been
  replaced in between, or its inode is used again, the metadata describe a daemon with the profile of another
  session, and an up can share a daemon whose query policy is not its own
  (`docs/specification.md:1575`). An up that meets an owner before it has written its metadata fails. A
  `down` whose probe was refused removes the metadata of a daemon started since (`host/daemon.rs:664`).
* An owner that ends after a monitor has taken over removes the socket of the monitor's daemon
  (`host/daemon.rs:376`), and from then on Finding 1 applies: while the monitor flaps, commands may use up
  their retries. `CommandsAnswered` therefore ends where a daemon of the monitor has lost its socket.
* An up that dies between the container's start and postStart leaves a running container, for which no
  later up runs postStart (`devcontainer/lifecycle/run.rs:46`); nothing records the start.
* Two overlapping commands of one workspace. The lifecycle addresses the container by name
  (`up/exec_context.rs:28`), so a rebuild that replaces the container between two stages makes
  the first up run its later stage in the new container, before that one's earlier stages
  (`docs/specification.md:1062`). Every up works on its own copy of the lifecycle flags
  (`up/lifecycle.rs:72`), so two ups of one container run a stage again that is already recorded
  (`docs/specification.md:1075`). The reuse path writes back the state it read
  (`state.rs:426`), so an exec context that another up recorded in between is lost
  (`docs/specification.md:420`). An up that listed no container removes the
  state of one that another up has created since. With `Sessions = {s1, s2}` TLC finds all of these, and
  counterexamples to `NoSpuriousRefusal`, `PostStartCoversStart` and `LedgerSpec`; these seven
  properties are therefore checked, and proved, for one command at a time.
* An up that finds no container deletes `state.toml` (`up/start/compose.rs:1287`) before it creates
  its networks. If it dies in between and the networks are gone, the next up takes the slot of
  the hash, although `docs/specification.md` §8.9.3 has a regular up return to the assignment
  it had. `AssignmentKept` asks nothing after such a death (`ProceedAnew` clears `kept`).
* Two concurrent ups of one workspace unpack a Feature into one directory under a shared lock, so
  that one may build from what the other has half unpacked, or fail. `clean` does not see a first up
  that has neither a container nor a socket yet, and may remove its directories; `CleanSparesUsed` begins with
  the container.
* The first attached session of a workspace to end truncates the GitHub token file of the others
  (`host/credentials/github.rs:92`).

## Proofs

Checked by TLAPS for all values of the constants that satisfy the named `ASSUME`s:

* `UpLifecycleProofs`. `TypeCorrect` proves `[]TypeOK`, from `TypeInv`: `TypeOK`
  and what is known of a session that works on a container (it has a target, and
  its copy of the state names it). `StateFileTellsTheTruth` proves
  `[]RecordedStagesRan` and `ExecFindsReady` proves `[]ExecFindsReadyContainer`, both
  for any number of overlapping sessions and faults. Neither is inductive: a
  session can write what it read long ago. `Truth` therefore says of EVERY copy of
  the state, in the file, read or held by a session, that what it claims of the
  current container happened there (`FaithfulIn`), and that no copy names a
  container that does not exist yet (`made`). `Carried` is the heart: a faithful
  copy stays faithful when histories grow, the container disappears or a new one
  with a fresh id appears.
* `UpLifecycleProofs`, one command at a time. Seven more theorems have the hypothesis
  `OneSession`, as the run has: the code takes no lock, and with two sessions TLC
  refutes each of them (see Findings). Crashes and faults stay. `Solo` adds to `Truth` that the
  copy of a working session is the state file and that histories are in order; from it
  follow `StagesRunInOrder` (`[]StagesInOrder`), `NoRecordedStageReruns`,
  `StateIsKeptForContainer` and `ExecContextIsKept` (the three action properties), and
  `KeepsTheLedger` (`LedgerSpec`): every step of the protocol is a step of
  `CreationLedger` or a stutter. `Undisturbed` says what holds as long as there was no
  fault, and gives `UpIsNotRefused` and `PostStartIsCovered`
  (`[]NoSpuriousRefusal`, `[]PostStartCoversStart`).
* `QueryCacheProofs`. `OneLoadPerKind` proves `[]SingleFlight`, with `Owned`: the
  cache entry of the kind of an active load is loading and names that load's channel.
  `PermitsSuffice` proves `[]LoadsNeverQueue`: active loads inject into the kinds
  and there is a permit for each kind. `DeadLoadIsForgotten` proves `DeadLoadForgotten`.
  `OnlySlowReadsTimeOut` proves `TimeoutOnlyForSlowReads` for any times in the code's
  order. Its `TimeInv` relates the clocks: a channel that a query waits on belongs to a load
  that is in the cache or has ended (`Tracked`), and no load and no query is older than its timeout
  and the host's lag allow (`InTime`).
* `HostDaemonProofs`. `TypeCorrect` proves `[]TypeOK` (with `StatSeen`: what is about to
  be written as the metadata's inode is one). `NewcomersAlwaysSpare`
  proves `NewcomersSpare` for any number of sessions, faults and leftovers. Its invariant `Newcomers` says that a
  session that has met a daemon which still answers is at a step that only looks, or that writes
  metadata for the inode it has seen, which is that daemon's: its probe cannot be refused, so it
  never comes to remove the socket. `NoSocketIsLeft` proves `[]NoSocketLeft`: whoever
  still has a socket at the path has its removal before it.
* `PortForwardingProofs`, for any number of sessions, targets, ports and forwards. `InvHolds`
  proves the invariant `Inv` of every session: a listener that a session has is one of its live
  targets or of the one it starts, and what it has planned, asked its agents to
  allow and reported agrees with it at each of its steps. From it follow `ReportIsTrue`
  (`[]ReportedIsServed`), `OncePerPort` (`[]AutoForwardsOnce`) and `NothingLeft`
  (`[]NothingLeftBehind`).
* `ComposePortsProofs`. `TypeCorrect` proves `[]TypeOK`: in particular a decision never
  names a port that a probe found occupied, nor one beyond the last.
  `PlanIsDisjoint` proves `[]PlanDisjoint` for any Compose file and neighbours. Its
  invariant `PlanInv` adds that nothing is planned before planning begins, that
  mappings are planned as asked (without relocation, an entry that is not mapped is
  compared with the mappings only) and that Docker names the address of every
  binding; then each way to a decision avoids the reservations, which hold every
  earlier decision, and conflicts are symmetric. `BlamesOnlyRaces` proves
  `BlamesRacesOnly`: `RaceInv` adds that a socket in use was there when
  Docker was listed, or came `late`, or is the project's own, and that what was planned was free
  of the first. `RunsAreReused` and `StoppedIsKept` prove `RunningIsReused` and
  `StartedIsKept`: with `KeepInv`, what was listed stays true of the primary container until
  Docker Compose comes to it, its label names the mappings it was made with, and a plan
  that forces nothing keeps each of its endpoints. They have the hypothesis `OneEntryPerTarget`: no
  service publishes one container port twice. The planner finds an
  entry's own binding by service and container port alone, so that two entries of one port may swap theirs.
* `ComposePortsProofs`, `PortsAreKept`. `KeepsPorts` is not true of every Compose file. A stopped
  container keeps a port that cannot be probed without a comparison with the containers that run
  (`runtime/compose_ports/planning.rs:670`), so an entry that is planned before a running one can be
  given its port: TLC finds it with four services, two of which ask for one privileged port. An
  entry that a mapping has moved to the other address family, or to both, can lose a socket as
  well. The theorem therefore assumes, beside `OneEntryPerTarget`, `UnprobeableApart` (no two
  services ask for the same port that cannot be probed) and `MappingsKeepFamily`; the file and the mappings of the
  run satisfy all three, with a privileged port in it. `StayInv` adds to `KeepInv` that ports
  that cannot be probed come from the file or a mapping only (`ModestInv`: the search finds no such
  port), that a listed binding is still there while its container runs and Docker Compose has not
  come to it (`ListedInv`), and that no decision takes it (`StaysInv`). `DecisionSparesOthers` and
  `DecisionKeepsOwn` are the two halves of the planner's step.
* `DaemonConnectionsProofs`. `PermitsNeverLost` proves `[]PermitsAccounted` for any number
  of clients, permits and threads and any times. Its `Inv` adds what accepting needs: the backlog
  of a daemon holds connections to it, each once (`Queued`), a client that does
  not wait has no connection (`Linked`), and how far the monitor is in starting its latest daemon (`Started`). `Moves` and `Closes` say what the steps of a connection
  have in common. `CommandsFindADaemon` proves `[]CommandsAnswered`. As
  long as nothing but the owner's daemon is lost, there are two phases. Until the first daemon of the monitor
  listens, the tries of a command are at most what the monitor's clock shows since
  the path was last served (`Patient`, `Waited`), so that `HandoffAssumption` leaves it one. From then on that daemon can be
  reached, or it is in `Lost`, which only grows (`LostGrows`).
* `HostDataProofs`. `TypeCorrect` proves `[]TypeOK`. `PullsKeepTheirArchive` proves
  `[]PulledArchiveStays` from `Locked` (the shared lock excludes the exclusive one) and `Archived`.
  `CleanLeavesUsedAlone` proves the action property `CleanSparesUsed` for any number of ups
  and workspaces, from what `clean` knew at each of its steps (`Current`, `Asked`, `Condemned`).
  `CleanLeavesNothingStale` proves `[]NothingStaleLeft`: Docker never names a workspace that is
  unused all the while (`Unnamed`), so such a one is empty, still a target or being removed (`Chased`).
* `CloneIsolationProofs`. `TypeCorrect` proves `[]TypeOK`, `AssignmentIsKept` proves
  `[]AssignmentKept`, for any number of clones, networks and files and any pool. `IInv` says that
  Docker's networks are apart and, of each clone, where the subnets of its last finished up
  are while nobody holds them back: in Docker or in the state (`KeptPlace`), in what an up has read
  (`SeenPlace`), and in the networks of a container that stopped or runs (`Placed`, `RunningPlace`);
  `PlanKeeps` and `PlanStays` then speak of the plan itself.
* `CloneIsolationProofs`, the slot search. `ExhaustionMeansFull` proves `[]ExhaustedMeansFull` and
  `RefusalIsARace` proves `[]ClashIsARace`, for any pool, slot size, hash, neighbours and networks.
  Both rest on what `allocate_ipv4_subnet_slot` returns (`AllocateFinds`): a slot that nothing overlaps, and
  none only if every slot is overlapped. `MergedOf` says of a list of intervals that it is in
  order, with a gap between neighbours, and covers the same slots as the intervals it was merged
  from (`MergedStep`, `OccupiedMerges`); `WalkSound` says that the walk past them stands at the
  lowest slot that those it has passed leave free. The loops are folds. A fold is not
  unfolded by an induction theorem here: `FoldExists` shows by a least counterexample among the subsets of a
  finite set (`SubsetInduction`) that the recursive function behind it exists. `FreeInv` says that
  Docker has finitely many networks and that every planned subnet is apart from what was listed and
  from the rest of the plan.

The assumptions are of the size the code suggests: limits are positive, times have
their order, constants that name nothing are none of the values beside them, and in
`DaemonConnections` there are finitely many clients.

Not proved, model-checked only:

* Liveness, which is out of the prover's reach: `RebuildRecovers`, `LoneStartSucceeds`,
  `MonitorTakesOver`, `AgentsEnd`, `OpenPortForwarded`, `EveryCommandEnds`.

Every other property of a passing run is stated by a theorem.

## Not modelled

Compose mode apart from its ports and subnets, image builds, dotfiles, volumes and uid remapping (calls without
effect on the shared state above), and everything in the inventory that has no
module: the GitHub token file and the SSH agent, the placement of the container tools, the order in which
Features are installed, the members of a parallel lifecycle command, and the configuration with its
hash. Parsing, rendering and messages have no state and stay out.

## Plan

In the order of importance:

1. `FeatureInstall`: the order of installation against the dependency relation, and cycles.
2. A composition of `ComposePorts`, `CloneIsolation` and `UpLifecycle` (two ups of one Compose project,
   stages of a recreated container), the record of published ports.
3. The members of a parallel lifecycle command; the token file, a secret shared by sessions.
4. Configuration layers and the reuse hash as pure operators.
