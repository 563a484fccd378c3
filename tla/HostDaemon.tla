----------------------------- MODULE HostDaemon -----------------------------
(***************************************************************************)
(* The host daemon of ONE workspace (host/daemon.rs) as the `decune up`     *)
(* sessions that share it see it: a socket file, a metadata file, and the   *)
(* listeners behind the inodes of sockets.  A session owns a daemon, or it   *)
(* reuses the one it finds and monitors it (up/lifecycle/host_daemon.rs).   *)
(* No lock is taken: a step is one access to the files or the socket.       *)
(***************************************************************************)
EXTENDS Integers

CONSTANTS Sessions,
          Inos,        \* inodes for sockets; the lowest free one is used
          Profiles,    \* what sessions may need of a daemon
          NoMeta, NoSession,
          MaxFaults    \* bound: crashes and failures

ASSUME InosAssumption == Inos \subseteq Nat \ {0}
ASSUME AbsentAssumption == NoSession \notin Sessions
ASSUME BoundsAssumption == MaxFaults \in Nat

\* git stands for peer uid, Git HTTPS mode and protocol version, query for the
\* query policy with its context, group for the remote gid.
ASSUME ProfilesAssumption ==
    Profiles # {} /\ Profiles \subseteq [git : Nat, query : Nat, group : Nat]
AnyProfile == CHOOSE p \in Profiles : TRUE

HostDaemonMetadata == [ino : Inos, profile : Profiles]

ASSUME NoMetaAssumption == NoMeta \notin HostDaemonMetadata

VARIABLES
    sock,     \* the inode that host-daemon.sock names, 0 if there is no file
    meta,     \* host-daemon.json
    listen,   \* who listens on each inode
    pc,       \* where each session is
    call,     \* on whose behalf: up, the monitor's check or retry, down
    profile,  \* what it needs
    daemon,   \* the inode of the HostDaemon it owns, 0 if none
    fresh,    \* the inode it has just bound, 0 if none
    stat,     \* the inode it has seen at the path
    faults,
    met       \* history: what has answered at the path since its operation began

files == <<sock, meta>>
local == <<call, profile, daemon, fresh, stat>>
vars == <<files, listen, pc, local, faults, met>>

Listening(i) == listen[i] # NoSession
\* Neither at the path nor open in a process, bound or listening.
Free == {i \in Inos : i # sock /\ ~Listening(i) /\ \A s \in Sessions : fresh[s] # i}
\* Mutated form: an inode that nobody listens on belongs to session 0.
SilenceZero(i) == [j \in Inos |-> IF j = i THEN 0 ELSE listen[j]]
Silence(i) == [j \in Inos |-> IF j = i THEN NoSession ELSE listen[j]]
SilenceAll(s) == [j \in Inos |-> IF listen[j] = s THEN NoSession ELSE listen[j]]

Goto(s, from, to) == pc[s] = from /\ pc' = [pc EXCEPT ![s] = to]

\* The process or the command ends.
Forget(s) ==
    /\ pc' = [pc EXCEPT ![s] = "idle"]
    /\ call' = [call EXCEPT ![s] = "up"]
    /\ profile' = [profile EXCEPT ![s] = AnyProfile]
    /\ daemon' = [daemon EXCEPT ![s] = 0]
    /\ fresh' = [fresh EXCEPT ![s] = 0]
    /\ stat' = [stat EXCEPT ![s] = 0]

\* An error ends `up`; the monitor warns and waits for its next tick.
FailFrom(s) ==
    IF call[s] = "up" THEN Forget(s)
    ELSE /\ pc' = [pc EXCEPT ![s] = "monitor"]
         /\ call' = [call EXCEPT ![s] = "check"]
         /\ fresh' = [fresh EXCEPT ![s] = 0]
         /\ stat' = [stat EXCEPT ![s] = 0]
         /\ UNCHANGED <<profile, daemon>>

\* The metadata describes the socket that was seen, and a daemon for p.
Reusable(m, i, p) == i # 0 /\ m # NoMeta /\ m.ino = i /\ m.profile.git = p.git

\* Mutated forms: every socket file is a live one; every one is stale.
InUseAlways(i) == TRUE
InUseNever(i) == FALSE
\* The probe can connect.
InUse(i) == i # 0 /\ Listening(i)

-----------------------------------------------------------------------------
Init ==
    /\ sock = 0 /\ meta = NoMeta
    /\ listen = [i \in Inos |-> NoSession]
    /\ pc = [s \in Sessions |-> "idle"]
    /\ call = [s \in Sessions |-> "up"]
    /\ profile = [s \in Sessions |-> AnyProfile]
    /\ daemon = [s \in Sessions |-> 0]
    /\ fresh = [s \in Sessions |-> 0]
    /\ stat = [s \in Sessions |-> 0]
    /\ faults = 0
    /\ met = [s \in Sessions |-> 0]

\* start_host_daemon_for_up
StartUp(s, p) ==
    /\ Goto(s, "idle", "bind")
    /\ profile' = [profile EXCEPT ![s] = p]
    /\ UNCHANGED <<files, listen, call, daemon, fresh, stat>>

\* run_down and run_remove: cleanup_host_daemon_socket.
StartCleanup(s) ==
    /\ Goto(s, "idle", "inspect")
    /\ call' = [call EXCEPT ![s] = "down"]
    /\ UNCHANGED <<files, listen, profile, daemon, fresh, stat>>

(* Binding.                                                                 *)

\* bind(2) creates the file; who connects is refused until listen(2).
CreateSocket(s) ==
    /\ sock = 0
    /\ \E i \in Free :
         /\ \A j \in Free : i <= j
         /\ sock' = i
         /\ fresh' = [fresh EXCEPT ![s] = i]
    /\ pc' = [pc EXCEPT ![s] = "listen"]
    /\ UNCHANGED <<meta, listen, call, profile, daemon, stat>>

Bind(s) == pc[s] = "bind" /\ CreateSocket(s)

Listen(s) ==
    /\ Goto(s, "listen", "chmod")
    /\ listen' = [listen EXCEPT ![fresh[s]] = s]
    /\ UNCHANGED <<files, local>>

AddrInUse(s) ==
    /\ sock # 0
    /\ Goto(s, "bind", "inspect")
    /\ UNCHANGED <<files, listen, local>>

\* Where remove_stale_socket returns to.
AfterStale(s) == IF call[s] = "down" THEN "cleanMeta" ELSE "rebind"

\* remove_stale_socket: is there a file, does it answer, remove it.
Inspect(s) ==
    /\ Goto(s, "inspect", IF sock = 0 THEN AfterStale(s) ELSE "probe")
    /\ UNCHANGED <<files, listen, local>>

ProbeRefused(s) ==
    /\ ~InUse(sock)
    /\ Goto(s, "probe", "unlink")
    /\ UNCHANGED <<files, listen, local>>

\* SocketAlreadyInUse: cleanup warns; a start looks whether it can reuse it.
ProbeAnswered(s) ==
    /\ pc[s] = "probe" /\ InUse(sock)
    /\ IF call[s] = "down"
         THEN Forget(s)
         ELSE /\ pc' = [pc EXCEPT ![s] = "reuseStat"]
              /\ call' = [call EXCEPT ![s] = IF @ = "check" THEN "retry" ELSE @]
              /\ UNCHANGED <<profile, daemon, fresh, stat>>
    /\ UNCHANGED <<files, listen>>

\* Whatever the path names by now.
UnlinkStale(s) ==
    /\ Goto(s, "unlink", AfterStale(s))
    /\ sock' = 0
    /\ UNCHANGED <<meta, listen, local>>

CleanMeta(s) ==
    /\ pc[s] = "cleanMeta"
    /\ meta' = NoMeta
    /\ Forget(s)
    /\ UNCHANGED <<sock, listen>>

Rebind(s) == pc[s] = "rebind" /\ CreateSocket(s)

RebindFails(s) ==
    /\ pc[s] = "rebind" /\ sock # 0
    /\ FailFrom(s)
    /\ UNCHANGED <<files, listen>>

\* set_permissions on the path: it may be gone, or another socket.
Chmod(s) ==
    /\ sock # 0
    /\ Goto(s, "chmod", "stat")
    /\ UNCHANGED <<files, listen, local>>

\* Whatever is at the path stays there.
ChmodFails(s) ==
    /\ pc[s] = "chmod"
    /\ listen' = Silence(fresh[s])
    /\ FailFrom(s)
    /\ UNCHANGED files

\* write_host_daemon_metadata: the inode at the path, the file, its mode.
Stat(s) ==
    /\ sock # 0
    /\ Goto(s, "stat", "write")
    /\ stat' = [stat EXCEPT ![s] = sock]
    /\ UNCHANGED <<files, listen, call, profile, daemon, fresh>>

\* On an error both files are removed and the listener is dropped.
StartFails(s) ==
    /\ meta' = NoMeta /\ sock' = 0
    /\ listen' = Silence(fresh[s])
    /\ FailFrom(s)

StatFails(s) == pc[s] = "stat" /\ sock = 0 /\ StartFails(s)

Write(s) ==
    /\ Goto(s, "write", "seal")
    /\ meta' = [ino |-> stat[s], profile |-> profile[s]]
    /\ stat' = [stat EXCEPT ![s] = 0]
    /\ UNCHANGED <<sock, listen, call, profile, daemon, fresh>>

\* The daemon is up: `up` holds it, the monitor puts it in place of its last one.
Seal(s) ==
    /\ meta # NoMeta
    /\ Goto(s, "seal", IF call[s] = "up" THEN "hold"
                       ELSE IF daemon[s] = 0 THEN "monitor" ELSE "replaceMeta")
    /\ IF call[s] # "up" /\ daemon[s] # 0
         THEN UNCHANGED <<daemon, fresh>>
         ELSE /\ daemon' = [daemon EXCEPT ![s] = fresh[s]]
              /\ fresh' = [fresh EXCEPT ![s] = 0]
    /\ UNCHANGED <<files, listen, call, profile, stat>>

SealFails(s) == pc[s] = "seal" /\ meta = NoMeta /\ StartFails(s)

(* Dropping a HostDaemon: abort the listener, remove the two files by path.  *)

DropMeta(s) ==
    /\ Goto(s, "dropMeta", "dropSock") \/ Goto(s, "replaceMeta", "replaceSock")
    /\ meta' = NoMeta
    /\ UNCHANGED <<sock, listen, local>>

\* The aborted task lets go of its listener at some point.
CloseListener(s) ==
    /\ pc[s] \in {"dropMeta", "dropSock", "replaceMeta", "replaceSock"}
    /\ daemon[s] # 0 /\ listen[daemon[s]] = s
    /\ listen' = Silence(daemon[s])
    /\ UNCHANGED <<files, pc, local>>

\* Mutated form: the socket file is left for the next start to clean up.
AfterDropKept == sock
AfterDrop == 0

DropSock(s) ==
    /\ pc[s] = "dropSock"
    /\ sock' = AfterDrop
    /\ listen' = Silence(daemon[s])
    /\ Forget(s)
    /\ UNCHANGED meta

\* `_daemon = Some(restarted)`: the value it had is dropped now.
ReplaceSock(s) ==
    /\ Goto(s, "replaceSock", "monitor")
    /\ sock' = AfterDrop
    /\ listen' = Silence(daemon[s])
    /\ daemon' = [daemon EXCEPT ![s] = fresh[s]]
    /\ fresh' = [fresh EXCEPT ![s] = 0]
    /\ UNCHANGED <<meta, call, profile, stat>>

(* Reuse: ensure_host_daemon_access_for_remote_user.                         *)

ReuseStat(s) ==
    /\ Goto(s, "reuseStat", "reuseRead")
    /\ stat' = [stat EXCEPT ![s] = sock]
    /\ UNCHANGED <<files, listen, call, profile, daemon, fresh>>

\* A reused daemon is monitored; the monitor's check goes on to connect.
\* Mutated form: the check trusts the files.
AcceptUnprobed(s) ==
    /\ pc' = [pc EXCEPT ![s] = "monitor"]
    /\ call' = [call EXCEPT ![s] = "check"]
    /\ stat' = [stat EXCEPT ![s] = 0]
    /\ UNCHANGED <<profile, daemon, fresh>>
AcceptFrom(s) ==
    /\ pc' = [pc EXCEPT ![s] = IF call[s] = "check" THEN "connect" ELSE "monitor"]
    /\ call' = [call EXCEPT ![s] = "check"]
    /\ stat' = [stat EXCEPT ![s] = 0]
    /\ UNCHANGED <<profile, daemon, fresh>>

Matching(s) == Reusable(meta, stat[s], profile[s])

Reuse(s) ==
    /\ pc[s] = "reuseRead" /\ Matching(s)
    /\ meta.profile.query = profile[s].query
    /\ pc' = [pc EXCEPT ![s] =
                 IF meta.profile.group = profile[s].group THEN "reuseChmod" ELSE "regroup"]
    /\ UNCHANGED <<files, listen, local>>

\* set_permissions on the path, whatever it names by now; for another gid the
\* metadata is written again.
ReuseChmod(s) ==
    /\ pc[s] \in {"reuseChmod", "regroup"}
    /\ \/ sock = 0 /\ FailFrom(s)
       \/ sock # 0 /\ pc[s] = "reuseChmod" /\ AcceptFrom(s)
       \/ sock # 0 /\ pc[s] = "regroup" /\ pc' = [pc EXCEPT ![s] = "restat"] /\ UNCHANGED local
    /\ UNCHANGED <<files, listen>>

\* HOST_DAEMON_QUERY_IDENTITY_MISMATCH, an error.
RefuseQuery(s) ==
    /\ pc[s] = "reuseRead" /\ Matching(s)
    /\ meta.profile.query # profile[s].query
    /\ FailFrom(s)
    /\ UNCHANGED <<files, listen>>

\* Ok(false): `up` fails, a check starts a daemon, a retry waits.
DeclineReuse(s) ==
    /\ pc[s] = "reuseRead" /\ ~Matching(s)
    /\ IF call[s] = "check"
         THEN /\ pc' = [pc EXCEPT ![s] = "bind"]
              /\ stat' = [stat EXCEPT ![s] = 0]
              /\ UNCHANGED <<call, profile, daemon, fresh>>
         ELSE FailFrom(s)
    /\ UNCHANGED <<files, listen>>

\* write_host_daemon_metadata once more, for the inode at the path now.
Restat(s) ==
    /\ pc[s] = "restat"
    /\ IF sock = 0
         THEN FailFrom(s)
         ELSE /\ pc' = [pc EXCEPT ![s] = "rewrite"]
              /\ stat' = [stat EXCEPT ![s] = sock]
              /\ UNCHANGED <<call, profile, daemon, fresh>>
    /\ UNCHANGED <<files, listen>>

Rewrite(s) ==
    /\ Goto(s, "rewrite", "reseal")
    /\ meta' = [ino |-> stat[s], profile |-> profile[s]]
    /\ UNCHANGED <<sock, listen, local>>

Reseal(s) ==
    /\ pc[s] = "reseal"
    /\ IF meta = NoMeta THEN FailFrom(s) ELSE AcceptFrom(s)
    /\ UNCHANGED <<files, listen>>

(* The monitor of a reused daemon.                                           *)

Tick(s) ==
    /\ Goto(s, "monitor", "reuseStat")
    /\ UNCHANGED <<files, listen, local>>

Connect(s) ==
    /\ Goto(s, "connect", IF InUse(sock) THEN "monitor" ELSE "bind")
    /\ UNCHANGED <<files, listen, local>>

\* `up` ends and its guard is dropped; a monitor is aborted where it awaits.
EndUp(s) ==
    /\ \/ pc[s] \in {"hold", "monitor", "connect"}
       \/ pc[s] = "probe" /\ call[s] = "check"
    /\ IF daemon[s] = 0 THEN Forget(s)
                        ELSE pc' = [pc EXCEPT ![s] = "dropMeta"] /\ UNCHANGED local
    /\ UNCHANGED <<files, listen>>

(* Faults.                                                                  *)

\* The process is killed: the kernel closes its listeners, the files stay.
Crash(s) ==
    /\ pc[s] # "idle"
    /\ listen' = SilenceAll(s)
    /\ Forget(s)
    /\ UNCHANGED files

\* accept() fails: the accept loop ends, its owner does not notice.
AcceptFails(s) ==
    /\ daemon[s] # 0 /\ listen[daemon[s]] = s
    /\ listen' = Silence(daemon[s])
    /\ UNCHANGED <<files, pc, local>>

WriteFails(s) == pc[s] \in {"write", "seal"} /\ StartFails(s)

Progress(s) ==
    \/ Bind(s) \/ Listen(s) \/ AddrInUse(s) \/ Inspect(s) \/ ProbeRefused(s) \/ ProbeAnswered(s)
    \/ UnlinkStale(s) \/ CleanMeta(s) \/ Rebind(s) \/ RebindFails(s)
    \/ Chmod(s) \/ (sock = 0 /\ ChmodFails(s)) \/ Stat(s) \/ StatFails(s)
    \/ Write(s) \/ Seal(s) \/ SealFails(s)
    \/ DropMeta(s) \/ CloseListener(s) \/ DropSock(s) \/ ReplaceSock(s)
    \/ ReuseStat(s) \/ Reuse(s) \/ ReuseChmod(s) \/ RefuseQuery(s) \/ DeclineReuse(s)
    \/ Restat(s) \/ Rewrite(s) \/ Reseal(s) \/ Tick(s) \/ Connect(s)

UserStep(s) == StartCleanup(s) \/ EndUp(s) \/ \E p \in Profiles : StartUp(s, p)

Fault(s) == Crash(s) \/ AcceptFails(s) \/ ChmodFails(s) \/ WriteFails(s)

\* The inode at the path if a client that connects is answered, else 0.
Answering == IF sock # 0 /\ Listening(sock) THEN sock ELSE 0

Begins(s) == pc[s] \in {"idle", "monitor"} /\ pc'[s] \in {"bind", "inspect", "reuseStat"}
Ended == {"idle", "monitor", "hold", "dropMeta"}

\* A start, a check of the monitor or a cleanup has met the daemon that answered
\* when it began, as long as that one still does.
Track ==
    met' = [s \in Sessions |->
              IF Begins(s) THEN Answering
              ELSE IF pc'[s] \notin Ended /\ Answering' = met[s] THEN met[s] ELSE 0]

GoesOn(s) == Progress(s) /\ UNCHANGED faults /\ Track

Next ==
    \/ \E s \in Sessions : GoesOn(s)
    \/ \E s \in Sessions : UserStep(s) /\ UNCHANGED faults /\ Track
    \/ faults < MaxFaults /\ faults' = faults + 1 /\ (\E s \in Sessions : Fault(s)) /\ Track

Spec == Init /\ [][Next]_vars

\* A live process goes on, and the monitor's interval ticks; nothing says that
\* users start or end sessions.
FairSpec == Spec /\ \A s \in Sessions : WF_vars(GoesOn(s))

-----------------------------------------------------------------------------
Pcs == {"idle", "bind", "inspect", "probe", "unlink", "cleanMeta", "rebind", "listen", "chmod",
        "stat", "write", "seal", "hold", "dropMeta", "dropSock", "replaceMeta", "replaceSock",
        "reuseStat", "reuseRead", "reuseChmod", "regroup", "restat", "rewrite", "reseal",
        "monitor", "connect"}

\* Every variable has the type its declaration in the code gives it.
TypeOK ==
    /\ sock \in {0} \cup Inos /\ meta \in HostDaemonMetadata \cup {NoMeta}
    /\ listen \in [Inos -> Sessions \cup {NoSession}]
    /\ pc \in [Sessions -> Pcs]
    /\ call \in [Sessions -> {"up", "check", "retry", "down"}]
    /\ profile \in [Sessions -> Profiles]
    /\ daemon \in [Sessions -> {0} \cup Inos] /\ fresh \in [Sessions -> {0} \cup Inos]
    /\ stat \in [Sessions -> {0} \cup Inos]
    /\ faults \in 0 .. MaxFaults /\ met \in [Sessions -> {0} \cup Inos]

\* A client that opens the socket file reaches the daemon that s owns.
Reachable(s) == daemon[s] # 0 /\ sock = daemon[s] /\ listen[sock] = s

\* A start, a check or a cleanup that begins while a daemon answers takes
\* neither the socket nor the metadata away from it, whatever came before and
\* whatever others do meanwhile: only one that began earlier can, whose probe
\* was refused before the daemon listened.
NewcomersSpare ==
    [][\A s \in Sessions : met[s] # 0 /\ pc'[s] # pc[s] =>
          /\ sock' = sock
          /\ meta' = meta \/ (meta' # NoMeta /\ meta'.ino = met[s])]_vars

\* Sessions that end, rather than crash, leave no socket file behind.
NoSocketLeft ==
    (faults = 0 /\ \A s \in Sessions : pc[s] = "idle") => sock = 0

Alone(s) == faults = MaxFaults /\ \A t \in Sessions \ {s} : pc[t] = "idle"

Serving(s) == Reachable(s) /\ meta = [ino |-> sock, profile |-> profile[s]]

\* Whatever crashes left in the runtime directory, an up that nobody disturbs
\* gets its daemon.
LoneStartSucceeds ==
    \A s \in Sessions :
        (pc[s] = "bind" /\ call[s] = "up" /\ Alone(s)) ~> (Serving(s) \/ ~Alone(s))

\* Alone and waiting for its tick, with a daemon of its own to offer.
Settled(s) == pc[s] = "monitor" /\ Serving(s)
Disturbed(s) == ~Alone(s) \/ pc[s] \in {"idle", "dropMeta"}

\* A session that monitors a daemon of another session starts one of its own
\* when the other has ended; the metadata of a crashed daemon with another
\* query policy is the one thing that keeps it from doing so.
MonitorTakesOver ==
    \A s \in Sessions :
        (/\ pc[s] = "monitor" /\ daemon[s] = 0 /\ Alone(s)
         /\ meta = NoMeta \/ meta.profile.query = profile[s].query)
            ~> (Settled(s) \/ Disturbed(s))

\* The same for a monitor that has started a daemon before.
MonitorKeepsDaemon ==
    \A s \in Sessions :
        (pc[s] = "monitor" /\ Alone(s)) ~> (Settled(s) \/ Disturbed(s))
=============================================================================
