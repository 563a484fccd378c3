------------------------- MODULE DaemonConnections -------------------------
(***************************************************************************)
(* How the host daemon serves connections (host/daemon.rs, host/query.rs)   *)
(* and how the commands in the container reach it (transport.rs): the       *)
(* accept loop with its permits, the timeouts of a connection, the permits  *)
(* for queries, and the retries of a command while the daemon of one        *)
(* session goes and the monitor of another session starts the next ones.    *)
(* The metadata, of which the sessions here need the same, is in HostDaemon. *)
(*                                                                         *)
(* A tick is RETRY_INTERVAL.  A step that is due takes no time, except the  *)
(* monitor's probe and restart, which take up to MonitorLag.  Worker        *)
(* threads matter: a credential request runs the host's git in one of them  *)
(* and keeps it until git returns.                                          *)
(***************************************************************************)
EXTENDS Integers, Sequences, FiniteSets

CONSTANTS Commands,           \* uses of the container CLI: query, read the answer
          Others,             \* other processes in the container: they may do anything
          ConnectionPermits,  \* ACTIVE_HOST_DAEMON_CONNECTIONS
          QueryPermits,       \* ACTIVE_CONTAINER_CLI_QUERIES
          Workers,            \* worker threads of the daemon's process
          ReadTimeout, QueryTimeout, WriteTimeout,
          HandoffRetries, MonitorInterval, MonitorLag,
          MaxDaemons          \* bound: the owner's daemon and those of the monitor

ASSUME ClientsAssumption == Commands \cap Others = {} /\ IsFiniteSet(Commands \cup Others)
ASSUME PermitsAssumption ==
    /\ ConnectionPermits \in Nat \ {0} /\ QueryPermits \in Nat \ {0} /\ Workers \in Nat \ {0}
ASSUME TimesAssumption ==
    /\ ReadTimeout \in Nat \ {0} /\ QueryTimeout \in Nat \ {0} /\ WriteTimeout \in Nat \ {0}
    /\ HandoffRetries \in Nat /\ MonitorInterval \in Nat \ {0} /\ MonitorLag \in Nat
\* The retries outlast the monitor: 4 * 100 ms against 200 ms and its probe.
ASSUME HandoffAssumption == MonitorInterval + MonitorLag < HandoffRetries
ASSUME DaemonsAssumption == MaxDaemons \in Nat /\ MaxDaemons >= 2

Clients == Commands \cup Others
\* The daemon of the owning session; the later ones are the monitoring session's.
Owner == 1
Daemons == 1 .. MaxDaemons
NoPath == 0

VARIABLES
    loop,     \* run_host_daemon of each daemon
    path,     \* whose socket is at host-daemon.sock
    free,     \* free connection permits of each daemon
    queries,  \* free query permits of each daemon
    backlog,  \* connections that the kernel holds for each daemon
    conn,     \* the connection of each client
    client,
    owner,    \* the owning session
    monitor   \* monitor_reused_host_daemon: its new daemon, and the one it holds

vars == <<loop, path, free, queries, backlog, conn, client, owner, monitor>>
sessions == <<owner, monitor>>

NoConn == [pc |-> "none", daemon |-> Owner, age |-> 0]
Conn == [pc : {"none", "backlog", "read", "git", "query", "write"}, daemon : Daemons,
         age : 0 .. (ReadTimeout + QueryTimeout + WriteTimeout)]
NoClient == [pc |-> "idle", tries |-> 0, result |-> "none"]
\* What another process than a command gets is not recorded.
Done(c, result) ==
    [NoClient EXCEPT !.pc = "done", !.result = IF c \in Commands THEN result ELSE "none"]
Client == [pc : {"idle", "connect", "done", "sleep", "wait"}, tries : 0 .. HandoffRetries,
           result : {"none", "answered", "closed", "lost", "unavailable", "denied"}]
Monitor == [pc : {"sleep", "bind", "listen", "open", "spawn", "remove"},
            since : 0 .. MonitorInterval, lag : 0 .. MonitorLag,
            new : Daemons, held : Daemons \cup {NoPath}]

\* A task of the daemon holds a connection permit while its connection is open.
Open == {"read", "git", "query", "write"}
Of(d) == {c \in Clients : conn[c].daemon = d}
Serving(d) == {c \in Of(d) : conn[c].pc \in Open}
Querying(d) == {c \in Of(d) : conn[c].pc = "query"}
\* Asynchronous steps need a worker thread of the process that no git occupies.
SameProcess(d, e) == (d = Owner) = (e = Owner)
Runs(d) ==
    Cardinality({c \in Clients : conn[c].pc = "git" /\ SameProcess(conn[c].daemon, d)}) < Workers
\* An aborted task keeps its listener until a worker drops it.
Listening(d) == loop[d] \in {"private", "public", "acquire", "accept", "aborted"}
Reachable == path # NoPath /\ Listening(path)

Limit(pc) == CASE pc = "read" -> ReadTimeout
               [] pc = "query" -> QueryTimeout
               [] pc = "write" -> WriteTimeout
Timed == {"read", "query", "write"}
\* Mutated form: a request may take for ever.
ExpiredNoReadTimeout(c) ==
    conn[c].pc \in {"query", "write"} /\ conn[c].age >= Limit(conn[c].pc)

Expired(c) == conn[c].pc \in Timed /\ conn[c].age >= Limit(conn[c].pc)

Loops == {"none", "bound", "private", "public", "acquire", "accept", "drain",
          "aborted", "cut", "gone"}

TypeOK ==
    /\ loop \in [Daemons -> Loops]
    /\ path \in Daemons \cup {NoPath}
    /\ free \in [Daemons -> 0 .. ConnectionPermits]
    /\ queries \in [Daemons -> 0 .. QueryPermits]
    /\ backlog \in [Daemons -> Seq(Clients)]
    /\ conn \in [Clients -> Conn] /\ client \in [Clients -> Client]
    /\ owner \in {"up", "ending", "ended"} /\ monitor \in Monitor

Init ==
    /\ loop = [d \in Daemons |-> IF d = Owner THEN "acquire" ELSE "none"]
    /\ path = Owner
    /\ free = [d \in Daemons |-> ConnectionPermits]
    /\ queries = [d \in Daemons |-> QueryPermits]
    /\ backlog = [d \in Daemons |-> <<>>]
    /\ conn = [c \in Clients |-> NoConn]
    /\ client = [c \in Clients |-> NoClient]
    /\ owner = "up"
    /\ monitor \in [pc : {"sleep"}, since : 0 .. MonitorInterval, lag : {0},
                    new : {Owner}, held : {NoPath}]

-----------------------------------------------------------------------------
(* Clients *)

\* A client begins once per tick at most, so that time goes on.
Begin(c) ==
    /\ client[c].pc = "idle"
    /\ client' = [client EXCEPT ![c] = [NoClient EXCEPT !.pc = "connect"]]
    /\ UNCHANGED <<loop, path, free, queries, backlog, conn, sessions>>

\* connect_with_retry: the kernel queues the connection until it is accepted.
Connects(c) ==
    /\ client[c].pc = "connect" /\ Reachable
    /\ client' = [client EXCEPT ![c] = [NoClient EXCEPT !.pc = "wait"]]
    /\ conn' = [conn EXCEPT ![c] = [NoConn EXCEPT !.pc = "backlog", !.daemon = path]]
    /\ backlog' = [backlog EXCEPT ![path] = Append(@, c)]
    /\ UNCHANGED <<loop, path, free, queries, sessions>>

\* Until its mode is set, the socket has that of the umask: a peer of another
\* uid is denied, which is no handoff.
IsDenied(c) ==
    /\ client[c].pc = "connect" /\ Reachable /\ loop[path] = "private"
    /\ client' = [client EXCEPT ![c] = Done(c, "denied")]
    /\ UNCHANGED <<loop, path, free, queries, backlog, conn, sessions>>

\* Mutated form: only a missing socket counts as a handoff, not a refused one.
RetriesUnlessRefused(c) == IF c \in Commands /\ path = NoPath THEN HandoffRetries ELSE 0

\* Only the container CLI tries again.
Retries(c) == IF c \in Commands THEN HandoffRetries ELSE 0

FindsNobody(c) ==
    LET tries == client[c].tries IN
    /\ client[c].pc = "connect" /\ ~Reachable
    /\ client' = [client EXCEPT ![c] =
                    IF tries < Retries(c)
                    THEN [NoClient EXCEPT !.pc = "sleep", !.tries = tries + 1]
                    ELSE Done(c, "unavailable")]
    /\ UNCHANGED <<loop, path, free, queries, backlog, conn, sessions>>

-----------------------------------------------------------------------------
(* The daemon *)

\* The clients in S see their connections end.
End(S, result) ==
    /\ conn' = [c \in Clients |-> IF c \in S THEN NoConn ELSE conn[c]]
    /\ client' = [c \in Clients |->
                    IF c \in S THEN Done(c, result) ELSE client[c]]

AcquirePermit(d) ==
    /\ loop[d] = "acquire" /\ free[d] > 0 /\ Runs(d)
    /\ loop' = [loop EXCEPT ![d] = "accept"]
    /\ free' = [free EXCEPT ![d] = @ - 1]
    /\ UNCHANGED <<path, queries, backlog, conn, client, sessions>>

\* listener.accept: the task gets the permit; a peer with another uid is
\* dropped, and the permit with it.
Accept(d, allowed) ==
    /\ loop[d] = "accept" /\ backlog[d] # <<>> /\ Runs(d)
    /\ LET c == Head(backlog[d]) IN
         /\ c \in Commands => allowed
         /\ IF allowed
            THEN /\ conn' = [conn EXCEPT ![c].pc = "read", ![c].age = 0]
                 /\ UNCHANGED <<client, free>>
            ELSE /\ End({c}, "closed")
                 /\ free' = [free EXCEPT ![d] = @ + 1]
    /\ backlog' = [backlog EXCEPT ![d] = Tail(@)]
    /\ loop' = [loop EXCEPT ![d] = "acquire"]
    /\ UNCHANGED <<path, queries, sessions>>

\* The loop ends and closes the listener; its tasks finish.
AcceptFails(d) ==
    /\ loop[d] = "accept" /\ Runs(d)
    /\ loop' = [loop EXCEPT ![d] = "drain"]
    /\ free' = [free EXCEPT ![d] = @ + 1]
    /\ End({c \in Of(d) : conn[c].pc = "backlog"}, "lost")
    /\ backlog' = [backlog EXCEPT ![d] = <<>>]
    /\ UNCHANGED <<path, queries, sessions>>

\* The task ends: its permit is dropped and the stream closed.
Close(c, result) ==
    /\ free' = [free EXCEPT ![conn[c].daemon] = @ + 1]
    /\ End({c}, result)
    /\ UNCHANGED <<loop, path, queries, backlog, sessions>>

\* The timeout looks at the stream first, and a command writes its whole
\* request at once: only another process can be too slow.
ReadTimesOut(c) ==
    /\ c \in Others
    /\ conn[c].pc = "read" /\ Expired(c) /\ Runs(conn[c].daemon)
    /\ Close(c, "closed")

\* Whatever the response says.
Respond(c) == conn' = [conn EXCEPT ![c].pc = "write", ![c].age = 0]

\* handle_host_daemon_request, for a request that needs no work: malformed,
\* unsupported, disabled, or cut short by a peer that hangs up, as a probe does.
RequestRefused(c) ==
    /\ c \in Others /\ conn[c].pc = "read" /\ Runs(conn[c].daemon)
    /\ Respond(c)
    /\ UNCHANGED <<loop, path, free, queries, backlog, client, sessions>>

\* A credential request runs the host's git in the task itself.
RequestsCredential(c) ==
    /\ c \in Others /\ conn[c].pc = "read" /\ Runs(conn[c].daemon)
    /\ conn' = [conn EXCEPT ![c].pc = "git", ![c].age = 0]
    /\ UNCHANGED <<loop, path, free, queries, backlog, client, sessions>>

GitReturns(c) ==
    /\ conn[c].pc = "git"
    /\ IF loop[conn[c].daemon] = "gone"
       THEN Close(c, "lost")
       ELSE /\ Respond(c)
            /\ UNCHANGED <<loop, path, free, queries, backlog, client, sessions>>

\* bounded_cli_query_response: try_acquire.
RequestsQuery(c) ==
    LET d == conn[c].daemon IN
    /\ conn[c].pc = "read" /\ Runs(d)
    /\ IF queries[d] > 0
       THEN /\ queries' = [queries EXCEPT ![d] = @ - 1]
            /\ conn' = [conn EXCEPT ![c].pc = "query", ![c].age = 0]
       ELSE Respond(c) /\ UNCHANGED queries
    /\ UNCHANGED <<loop, path, free, backlog, client, sessions>>

\* Mutated form: the permit of a query that times out is lost.
EndQueryLeaksPermit(c, timedOut) ==
    /\ conn[c].pc = "query" /\ Runs(conn[c].daemon)
    /\ queries' = [queries EXCEPT ![conn[c].daemon] = IF timedOut THEN @ ELSE @ + 1]
    /\ Respond(c)
    /\ UNCHANGED <<loop, path, free, backlog, client, sessions>>

\* The query's future is done or has timed out; the permit is dropped either way.
EndQuery(c, timedOut) ==
    /\ conn[c].pc = "query" /\ Runs(conn[c].daemon)
    /\ queries' = [queries EXCEPT ![conn[c].daemon] = @ + 1]
    /\ Respond(c)
    /\ UNCHANGED <<loop, path, free, backlog, client, sessions>>

QueryReturns(c) == EndQuery(c, FALSE)
QueryTimesOut(c) == Expired(c) /\ EndQuery(c, TRUE)

\* write_host_daemon_response; its end closes the connection.
Written(c) ==
    /\ conn[c].pc = "write" /\ Runs(conn[c].daemon)
    /\ Close(c, "answered")

WriteTimesOut(c) ==
    /\ c \in Others /\ conn[c].pc = "write" /\ Expired(c) /\ Runs(conn[c].daemon)
    /\ Close(c, "closed")

Drained(d) ==
    /\ loop[d] = "drain" /\ Serving(d) = {} /\ Runs(d)
    /\ loop' = [loop EXCEPT ![d] = "gone"]
    /\ UNCHANGED <<path, free, queries, backlog, conn, client, sessions>>

-----------------------------------------------------------------------------
(* Handoff *)

\* HostDaemon::drop aborts the task, then removes the socket by its path,
\* whoever's it is by now.
Aborted(l, d) ==
    [l EXCEPT ![d] = CASE @ \in {"acquire", "accept"} -> "aborted"
                       [] @ = "drain" -> "cut"
                       [] OTHER -> @]

OwnerEnds ==
    /\ owner = "up"
    /\ owner' = "ending"
    /\ loop' = Aborted(loop, Owner)
    /\ UNCHANGED <<path, free, queries, backlog, conn, client, monitor>>

OwnerRemoves ==
    /\ owner = "ending"
    /\ owner' = "ended"
    /\ path' = NoPath
    /\ UNCHANGED <<loop, free, queries, backlog, conn, client, monitor>>

\* An aborted task drops its listener and the JoinSet of its connections: all
\* of them end but those that a worker is inside git for.
Abort(d) ==
    LET S == {c \in Of(d) : conn[c].pc \in {"backlog", "read", "query", "write"}} IN
    /\ loop[d] \in {"aborted", "cut"} /\ Runs(d)
    /\ loop' = [loop EXCEPT ![d] = "gone"]
    /\ End(S, "lost")
    /\ backlog' = [backlog EXCEPT ![d] = <<>>]
    /\ free' = [free EXCEPT ![d] = ConnectionPermits - Cardinality(Serving(d) \ S)]
    /\ queries' = [queries EXCEPT ![d] = QueryPermits]
    /\ UNCHANGED <<path, sessions>>

(* monitor_reused_host_daemon: its interval ticks whatever it does meanwhile. *)

\* It is a task of the process that serves the daemons it starts.
MonitorRuns == Runs(MaxDaemons)
MonitorGoes(from, to) ==
    /\ monitor.pc = from /\ MonitorRuns
    /\ monitor' = [monitor EXCEPT !.pc = to, !.lag = IF to = "sleep" THEN 0 ELSE @]

\* ensure_host_daemon_available: connect to the socket.
MonitorProbes ==
    /\ monitor.pc = "sleep" /\ monitor.since = MonitorInterval /\ MonitorRuns
    /\ monitor' = [monitor EXCEPT !.pc = IF Reachable THEN "sleep" ELSE "bind", !.since = 0]
    /\ UNCHANGED <<loop, path, free, queries, backlog, conn, client, owner>>

\* bind_host_daemon_socket: a socket that refused the probe is removed.
RemovesStale ==
    /\ path # NoPath /\ MonitorGoes("bind", "bind")
    /\ path' = NoPath
    /\ UNCHANGED <<loop, free, queries, backlog, conn, client, owner>>

\* bind(2); who connects is refused until listen(2).
Binds ==
    LET d == monitor.new + 1 IN
    /\ monitor.pc = "bind" /\ MonitorRuns /\ path = NoPath /\ d \in Daemons
    /\ monitor' = [monitor EXCEPT !.pc = "listen", !.new = d]
    /\ path' = d
    /\ loop' = [loop EXCEPT ![d] = "bound"]
    /\ UNCHANGED <<free, queries, backlog, conn, client, owner>>

\* Bound of the model: the monitor's further restarts fail.
RestartFails ==
    /\ path = NoPath /\ monitor.new = MaxDaemons /\ MonitorGoes("bind", "sleep")
    /\ UNCHANGED <<loop, path, free, queries, backlog, conn, client, owner>>

Listens ==
    /\ MonitorGoes("listen", "open")
    /\ loop' = [loop EXCEPT ![monitor.new] = "private"]
    /\ UNCHANGED <<path, free, queries, backlog, conn, client, owner>>

\* set_permissions, or later the metadata, finds no socket at the path.
StartFails ==
    /\ path = NoPath /\ (MonitorGoes("open", "sleep") \/ MonitorGoes("spawn", "sleep"))
    /\ loop' = [loop EXCEPT ![monitor.new] = "gone"]
    /\ End({c \in Of(monitor.new) : conn[c].pc = "backlog"}, "lost")
    /\ backlog' = [backlog EXCEPT ![monitor.new] = <<>>]
    /\ UNCHANGED <<path, free, queries, owner>>

Opens ==
    /\ path # NoPath /\ MonitorGoes("open", "spawn")
    /\ loop' = [loop EXCEPT ![monitor.new] = "public"]
    /\ UNCHANGED <<path, free, queries, backlog, conn, client, owner>>

\* The accept loop starts; `_daemon = Some(restarted)` drops the previous one,
\* which aborts its task and removes the socket by its path.
Spawns ==
    LET start == [loop EXCEPT ![monitor.new] = "acquire"] IN
    /\ monitor.pc = "spawn" /\ MonitorRuns /\ path # NoPath
    /\ IF monitor.held = NoPath
       THEN /\ monitor' = [monitor EXCEPT !.pc = "sleep", !.lag = 0, !.held = monitor.new]
            /\ loop' = start
       ELSE /\ monitor' = [monitor EXCEPT !.pc = "remove"]
            /\ loop' = Aborted(start, monitor.held)
    /\ UNCHANGED <<path, free, queries, backlog, conn, client, owner>>

RemovesHeld ==
    /\ monitor.pc = "remove" /\ MonitorRuns
    /\ monitor' = [monitor EXCEPT !.pc = "sleep", !.lag = 0, !.held = monitor.new]
    /\ path' = NoPath
    /\ UNCHANGED <<loop, free, queries, backlog, conn, client, owner>>

-----------------------------------------------------------------------------
(* Time *)

DaemonDue(d) ==
    /\ Runs(d)
    /\ \/ loop[d] = "acquire" /\ free[d] > 0
       \/ loop[d] = "accept" /\ backlog[d] # <<>>
       \/ loop[d] = "drain" /\ Serving(d) = {}
       \/ loop[d] \in {"aborted", "cut"}
ConnectionDue(c) ==
    /\ Runs(conn[c].daemon)
    /\ \/ Expired(c)
       \/ c \in Commands /\ conn[c].pc \in {"read", "write"}
MonitorDue ==
    /\ MonitorRuns
    /\ CASE monitor.pc = "sleep" -> monitor.since = MonitorInterval
         [] monitor.pc = "remove" -> TRUE
         [] OTHER -> monitor.lag = MonitorLag
Due ==
    \/ \E d \in Daemons : DaemonDue(d)
    \/ \E c \in Clients : client[c].pc = "connect" \/ ConnectionDue(c)
    \/ owner = "ending"
    \/ MonitorDue

Tick ==
    /\ ~Due
    /\ conn' = [c \in Clients |->
                  IF conn[c].pc \in Timed /\ conn[c].age < Limit(conn[c].pc)
                  THEN [conn[c] EXCEPT !.age = @ + 1] ELSE conn[c]]
    /\ client' = [c \in Clients |->
                    CASE client[c].pc = "sleep" -> [client[c] EXCEPT !.pc = "connect"]
                      [] client[c].pc = "done" -> NoClient
                      [] OTHER -> client[c]]
    /\ monitor' = [monitor EXCEPT
                     !.since = IF @ < MonitorInterval THEN @ + 1 ELSE @,
                     !.lag = IF monitor.pc # "sleep" /\ @ < MonitorLag THEN @ + 1 ELSE @]
    /\ UNCHANGED <<loop, path, free, queries, backlog, owner>>

-----------------------------------------------------------------------------
ClientStep(c) ==
    \/ Begin(c) \/ Connects(c) \/ IsDenied(c) \/ FindsNobody(c)
    \/ RequestRefused(c) \/ RequestsCredential(c) \/ RequestsQuery(c)
    \/ ReadTimesOut(c) \/ GitReturns(c) \/ QueryReturns(c) \/ QueryTimesOut(c)
    \/ Written(c) \/ WriteTimesOut(c)
DaemonStep(d) ==
    \/ AcquirePermit(d) \/ (\E allowed \in BOOLEAN : Accept(d, allowed))
    \/ AcceptFails(d) \/ Drained(d) \/ Abort(d)
MonitorStep ==
    \/ MonitorProbes \/ RemovesStale \/ Binds \/ RestartFails \/ Listens \/ Opens
    \/ StartFails \/ Spawns \/ RemovesHeld

Next ==
    \/ \E c \in Clients : ClientStep(c)
    \/ \E d \in Daemons : DaemonStep(d)
    \/ OwnerEnds \/ OwnerRemoves \/ MonitorStep
    \/ Tick

\* Time does not stop, and it passes only when nothing is due: with a client
\* beginning once per tick, WF of Next is progress of the clock and of every
\* due step before it.  Host git returns.  Other processes need not do
\* anything.
Fairness == WF_vars(Next) /\ \A c \in Others : WF_vars(GitReturns(c))

Spec == Init /\ [][Next]_vars /\ Fairness

-----------------------------------------------------------------------------
(* Properties *)

\* Every permit is free, or held by the accept loop, by a task or by a query:
\* however a connection or a query ends, none is lost, none is given twice and
\* there are never more connections or queries than permits.
PermitsAccounted ==
    \A d \in Daemons : loop[d] \in {"acquire", "accept", "drain"} =>
        /\ free[d] + (IF loop[d] = "accept" THEN 1 ELSE 0) + Cardinality(Serving(d))
             = ConnectionPermits
        /\ free[d] >= 0 /\ queries[d] >= 0
        /\ queries[d] + Cardinality(Querying(d)) = QueryPermits

\* Who connects at the path, from now on, does not reach the daemon d.
Lost == {d \in Daemons : loop[d] \notin {"none", "bound"} /\ ~(path = d /\ Listening(d))}

\* While a session monitors the daemon, and for as long as only the owner's
\* daemon has gone, a command finds one in time, whatever the other processes
\* hold; it gets an answer unless its daemon goes under it or it comes between
\* the bind and the chmod.  Once the monitor's own daemon has lost its socket,
\* as it does when the owner ends after a takeover, nothing is promised: the
\* monitor then removes the socket of every daemon it starts (MonitorKeepsDaemon
\* of HostDaemon).
CommandsAnswered ==
    Lost \subseteq {Owner} =>
        \A c \in Commands : client[c].result \notin {"unavailable", "closed"}

\* A command ends, however many connections stay open without a request.
EveryCommandEnds ==
    \A c \in Commands : client[c].pc = "connect" ~> client[c].pc = "done"

=============================================================================
