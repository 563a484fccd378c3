--------------------------- MODULE PortForwarding ---------------------------
(***************************************************************************)
(* Port forwarding of the `up` sessions of ONE workspace (up/forwarding.rs, *)
(* host/forward/).  A session starts an agent in each target container,     *)
(* listens on the host for each forwarded port, adds listeners for ports    *)
(* that the agent detects, and reports them over a status socket.  Sessions *)
(* share the host's ports and the staged agent binary, and take no lock.    *)
(* Target 1 is the primary container, the others are sidecar services.      *)
(***************************************************************************)
EXTENDS Integers, Sequences, FiniteSets, FiniteSetsExt, Functions

CONSTANTS Sessions,
          MaxPort,       \* the highest port, 65535 in the code
          Targets,
          Requests,      \* what an `up` may be asked for
          Unbindable,    \* host ports this user may not bind
          AutoMin, AutoMax, Ignored,    \* [ports.auto]
          Servers,       \* the container ports on which programs may listen
          Published,     \* container ports that Docker publishes
          Reserved,      \* host ports of published ports
          NoOne, Foreign,
          MaxForeign,    \* bound: host ports other programs hold at a time
          MaxFaults      \* bound: crashes and failures

HostPorts == 1..MaxPort

ASSUME PortsAssumption == MaxPort \in Nat \ {0}
ASSUME ServersAssumption == Servers \subseteq HostPorts
ASSUME TargetsAssumption == 1 \in Targets /\ Targets \subseteq Nat \ {0}
ASSUME RequestsAssumption ==
    Requests \subseteq
        [attached : BOOLEAN, auto : BOOLEAN,
         ports : Seq([t : Targets, c : HostPorts, h : HostPorts])]
\* Who listens on a port: nobody, another program, or a session for one of its
\* forwards.
L(s, t, c) == [s |-> s, t |-> t, c |-> c]
Holders == {NoOne, Foreign} \cup {L(s, t, c) : s \in Sessions, t \in Targets, c \in HostPorts}
ASSUME HoldersAssumption ==
    /\ NoOne # Foreign
    /\ \A s \in Sessions, t \in Targets, c \in HostPorts : L(s, t, c) \notin {NoOne, Foreign}
ASSUME BoundsAssumption == MaxForeign \in Nat /\ MaxFaults \in Nat

VARIABLES
    tool,      \* is the agent binary in the runtime directory of a target
    host,      \* who listens on each host port
    open,      \* the ports the primary container listens on
    agent,     \* of each session in each target: none, starting, up, gone
    allowed,   \* the ports an agent may connect to
    queue,     \* the requests it has not read
    status,    \* the files of a session's status server: none, sock, both
    pc,
    auto,      \* the loop: no, off, asleep, asked, answered, bind
    plan,      \* the forwards of a session as planned
    todo,      \* the places in the plan it has still to listen for
    adds,      \* the loop's: the host ports planned for container ports
    live,      \* its targets whose ForwardSession is running
    registry,  \* what its status server reports
    found,     \* what the last scan detected
    lost,      \* history: targets whose agent was given up
    faults

shared == <<tool, host, status>>
agents == <<agent, allowed, queue>>
local == <<auto, plan, todo, adds, live, registry, found, lost>>
vars == <<shared, open, agents, pc, local, faults>>

Goto(s, from, to) == pc[s] = from /\ pc' = [pc EXCEPT ![s] = to]
Set(f, s, x) == [f EXCEPT ![s] = x]
SetAt(f, s, t, x) == [f EXCEPT ![s][t] = x]

NoAdds == [c \in {} |-> 0]

\* The forwards of a target, as places in the plan.
Ports(s, t) == {i \in DOMAIN plan[s] : plan[s][i].t = t}

\* plan_forwarding_agent_targets_with_host_reservations
AgentTargets(s) ==
    {t \in Targets : Ports(s, t) # {} \/ (t = 1 /\ auto[s] # "no")}
Rest(s) == AgentTargets(s) \ live[s]
NextTarget(s, t) == t \in Rest(s) /\ \A u \in Rest(s) : t <= u

(* Host ports.                                                              *)

\* The first port from start upwards at which the search ends: one that can be
\* bound, or one where the probe fails with an error.
Ends(start, taken) ==
    {p \in HostPorts : p >= start /\ p \notin taken /\ (host[p] = NoOne \/ p \in Unbindable)}

\* resolve_host_port: 0 when the search runs past the last port.
ResolveHostPort(start, taken) ==
    IF Ends(start, taken) = {} THEN 0 ELSE Min(Ends(start, taken))

\* resolve_forward_ports_inner: each of the wanted ports avoids the earlier ones.
Resolved(want, taken) ==
    LET port[i \in DOMAIN want] ==
          ResolveHostPort(want[i], taken \cup {port[j] : j \in {k \in DOMAIN want : k < i}})
    IN  port
\* The probe of the port at which a search ended fails.
ProbeFails(port) == \E i \in DOMAIN port : port[i] \in Unbindable

\* bind_forward_listener: where a listener may end up; none if it fails.
BindForwardListener(h) ==
    LET upwards == IF h = 0 THEN {} ELSE Ends(h, {})
    IN  IF upwards = {} THEN {p \in HostPorts \ Unbindable : host[p] = NoOne}
        ELSE {p \in upwards : \A q \in upwards : p <= q} \ Unbindable

\* The listeners of a session for some of its targets.
Listeners(s, ts) ==
    {p \in HostPorts : \E t \in ts, c \in HostPorts : host[p] = L(s, t, c)}
Unlisten(ports) == [p \in HostPorts |-> IF p \in ports THEN NoOne ELSE host[p]]

Reported(s) == {r.h : r \in registry[s]}
\* Mutated form: the port that was planned is reported, not the one bound.
RecordPlanned(s, t, src) ==
    Set(registry, s, registry[s] \cup
        {[t |-> t, c |-> r.c, h |-> r.h, src |-> src] :
            r \in {plan[s][i] : i \in Ports(s, t)}})
\* ForwardStatusRegistry::record of the listeners that are not yet reported.
Record(s, t, src) ==
    Set(registry, s, registry[s] \cup
        {[t |-> t, c |-> host[p].c, h |-> p, src |-> src] :
            p \in Listeners(s, {t}) \ Reported(s)})

-----------------------------------------------------------------------------
Init ==
    /\ tool = [t \in Targets |-> FALSE]
    /\ host = [p \in HostPorts |-> NoOne]
    /\ open = {}
    /\ agent = [s \in Sessions |-> [t \in Targets |-> "none"]]
    /\ allowed = [s \in Sessions |-> [t \in Targets |-> {}]]
    /\ queue = [s \in Sessions |-> [t \in Targets |-> <<>>]]
    /\ status = [s \in Sessions |-> "none"]
    /\ pc = [s \in Sessions |-> "idle"]
    /\ auto = [s \in Sessions |-> "no"]
    /\ plan = [s \in Sessions |-> <<>>]
    /\ todo = [s \in Sessions |-> {}]
    /\ adds = [s \in Sessions |-> NoAdds]
    /\ live = [s \in Sessions |-> {}]
    /\ registry = [s \in Sessions |-> {}]
    /\ found = [s \in Sessions |-> {}]
    /\ lost = [s \in Sessions |-> {}]
    /\ faults = 0

(* Starting.                                                                *)

\* resolve_forward_ports: a detached session ignores the forwards.
Plan(s, req) ==
    LET port == Resolved([i \in DOMAIN req.ports |-> req.ports[i].h], Reserved)
    IN  /\ req.attached => ~ProbeFails(port)
        /\ Goto(s, "idle", IF req.attached THEN "planned" ELSE "detached")
        /\ plan' = Set(plan, s, IF req.attached
                               THEN [i \in DOMAIN req.ports |-> [req.ports[i] EXCEPT !.h = port[i]]]
                               ELSE <<>>)
        /\ auto' = Set(auto, s, IF req.attached /\ req.auto THEN "off" ELSE "no")
        /\ UNCHANGED <<shared, open, agents, todo, adds, live, registry, found, lost, faults>>

\* prepare_forward_runtime stages the binary even if nothing is forwarded.
Staged(s) == {1} \cup {t \in Targets : Ports(s, t) # {}}
Stage(s) ==
    /\ \/ Goto(s, "planned", "start")
       \/ Goto(s, "detached", "exit")
    /\ tool' = [t \in Targets |-> t \in Staged(s) \/ tool[t]]
    /\ UNCHANGED <<host, status, open, agents, local, faults>>

\* start_forwarding_for_up: the status server, unless there is no target.
\* Without forwards the agent starts only where its platform is supported.
StartStatusServer(s, supported) ==
    LET off == ~supported /\ Ports(s, 1) = {} /\ auto[s] = "off"
        none == \A t \in Targets : Ports(s, t) = {}
                                   /\ (t # 1 \/ auto[s] = "no" \/ off)
    IN  /\ auto' = IF off THEN Set(auto, s, "no") ELSE auto
        /\ Goto(s, "start", IF none THEN "serve" ELSE "metadata")
        /\ status' = IF none THEN status ELSE Set(status, s, "sock")
        /\ UNCHANGED <<tool, host, open, agents, plan, todo, adds, live, registry, found, lost, faults>>

StatusMetadata(s) ==
    /\ Goto(s, "metadata", "exec")
    /\ status' = Set(status, s, "both")
    /\ UNCHANGED <<tool, host, open, agents, local, faults>>

\* An error leaves the socket: nothing owns it yet.
StatusMetadataFails(s) ==
    /\ faults < MaxFaults /\ faults' = faults + 1
    /\ Goto(s, "metadata", "exit")
    /\ UNCHANGED <<shared, open, agents, local>>

\* exec_detached of the staged binary.
ExecAgent(s, t) ==
    /\ NextTarget(s, t) /\ Goto(s, "exec", "wait")
    /\ tool[t]
    /\ agent' = SetAt(agent, s, t, "starting")
    /\ allowed' = SetAt(allowed, s, t, {plan[s][i].c : i \in Ports(s, t)})
    /\ UNCHANGED <<shared, open, queue, local, faults>>

\* There is no binary, or the call fails.
ExecAgentFails(s, t) ==
    /\ NextTarget(s, t) /\ Goto(s, "exec", "stop")
    /\ IF tool[t] THEN faults < MaxFaults /\ faults' = faults + 1 ELSE UNCHANGED faults
    /\ UNCHANGED <<shared, open, agents, local>>

\* wait_for_forward_agent_with_status
AgentAnswers(s, t) ==
    /\ NextTarget(s, t) /\ Goto(s, "wait", "listen")
    /\ agent[s][t] = "up"
    /\ todo' = Set(todo, s, Ports(s, t))
    /\ UNCHANGED <<shared, open, agents, auto, plan, adds, live, registry, found, lost, faults>>

\* The retries are used up.  The agent may still be on its way.
AgentTimesOut(s, t) ==
    /\ NextTarget(s, t) /\ Goto(s, "wait", "stop")
    /\ agent[s][t] # "up"
    /\ lost' = Set(lost, s, lost[s] \cup {t})
    /\ UNCHANGED <<shared, open, agents, auto, plan, todo, adds, live, registry, found, faults>>

\* start_forward_listeners, one port.
Listen(s, t) ==
    /\ NextTarget(s, t) /\ pc[s] = "listen"
    /\ \E i \in todo[s] :
         /\ \A j \in todo[s] : i <= j
         /\ \E p \in BindForwardListener(plan[s][i].h) :
              host' = [host EXCEPT ![p] = L(s, t, plan[s][i].c)]
         /\ todo' = Set(todo, s, todo[s] \ {i})
    /\ UNCHANGED <<tool, status, open, agents, pc, auto, plan, adds, live, registry, found, lost, faults>>

\* send_agent_shutdown; nobody reads it if the agent is gone.
Shutdown(s, t) ==
    queue' = IF agent[s][t] = "up"
             THEN SetAt(queue, s, t, Append(queue[s][t], "shutdown"))
             ELSE queue

\* The listeners so far are dropped and the agent is told to end.
ListenFails(s, t) ==
    /\ NextTarget(s, t) /\ Goto(s, "listen", "stop")
    /\ \E i \in todo[s] :
         /\ \A j \in todo[s] : i <= j
         /\ BindForwardListener(plan[s][i].h) = {}
    /\ host' = Unlisten(Listeners(s, {t}))
    /\ todo' = Set(todo, s, {})
    /\ Shutdown(s, t)
    /\ UNCHANGED <<tool, status, open, agent, allowed, auto, plan, adds, live, registry, found, lost, faults>>

\* start_forward_session_with_auto: report, start the loop, next target.
TargetServed(s, t) ==
    /\ NextTarget(s, t) /\ todo[s] = {}
    /\ Goto(s, "listen", IF Rest(s) = {t} THEN "serve" ELSE "exec")
    /\ live' = Set(live, s, live[s] \cup {t})
    /\ registry' = Record(s, t, "configured")
    /\ auto' = IF t = 1 /\ auto[s] = "off" THEN Set(auto, s, "asleep") ELSE auto
    /\ UNCHANGED <<shared, open, agents, plan, todo, adds, found, lost, faults>>

(* The loop that forwards what the agent detects.                           *)

\* request_auto_forward_ports
Scan(s) ==
    /\ auto[s] = "asleep" /\ agent[s][1] = "up"
    /\ auto' = Set(auto, s, "asked")
    /\ queue' = SetAt(queue, s, 1, Append(queue[s][1], "scan"))
    /\ UNCHANGED <<shared, open, agent, allowed, pc, plan, todo, adds, live, registry, found, lost, faults>>

\* The agent has gone: the connection ends without an answer.
ScanFails(s) ==
    /\ auto[s] = "asked" /\ agent[s][1] = "gone"
    /\ auto' = Set(auto, s, "asleep")
    /\ UNCHANGED <<shared, open, agents, pc, plan, todo, adds, live, registry, found, lost, faults>>

Forwarded(s) == {r.c : r \in {x \in registry[s] : x.t = 1}}
\* Mutated form: what is forwarded already is not left out.
NewPortsRepeated(s) == found[s] \ Published
NewPorts(s) == found[s] \ (Published \cup Forwarded(s))

\* resolve_auto_forward_ports_inner, in the order of the container ports.
Additions(s) ==
    Resolved([c \in NewPorts(s) |-> c], Reserved \cup {r.h : r \in {x \in registry[s] : x.t = 1}})

\* One failing probe ends the scan.
AddDetected(s) ==
    LET port == Additions(s)
    IN  /\ auto[s] = "answered"
        /\ IF NewPorts(s) = {} \/ ProbeFails(port)
           THEN /\ auto' = Set(auto, s, "asleep")
                /\ UNCHANGED adds
           ELSE /\ auto' = Set(auto, s, "bind")
                /\ adds' = Set(adds, s, [c \in NewPorts(s) |-> port[c]])
        /\ found' = Set(found, s, {})
        /\ UNCHANGED <<shared, open, agents, pc, plan, todo, live, registry, lost, faults>>

\* start_forward_listeners, one port.
ListenAuto(s) ==
    /\ auto[s] = "bind"
    /\ \E c \in DOMAIN adds[s] :
         /\ \A d \in DOMAIN adds[s] : c <= d
         /\ \E p \in BindForwardListener(adds[s][c]) : host' = [host EXCEPT ![p] = L(s, 1, c)]
         /\ adds' = Set(adds, s, [d \in DOMAIN adds[s] \ {c} |-> adds[s][d]])
    /\ UNCHANGED <<tool, status, open, agents, pc, auto, plan, todo, live, registry, found, lost, faults>>

\* The new listeners are dropped; the next scan tries again.
ListenAutoFails(s) ==
    /\ auto[s] = "bind"
    /\ \E c \in DOMAIN adds[s] :
         /\ \A d \in DOMAIN adds[s] : c <= d
         /\ BindForwardListener(adds[s][c]) = {}
    /\ host' = Unlisten(Listeners(s, {1}) \ Reported(s))
    /\ adds' = Set(adds, s, NoAdds)
    /\ auto' = Set(auto, s, "asleep")
    /\ UNCHANGED <<tool, status, open, agents, pc, plan, todo, live, registry, found, lost, faults>>

AutoServed(s) ==
    /\ auto[s] = "bind" /\ DOMAIN adds[s] = {}
    /\ registry' = Record(s, 1, "auto")
    /\ auto' = Set(auto, s, "asleep")
    /\ UNCHANGED <<shared, open, agents, pc, plan, todo, adds, live, found, lost, faults>>

(* Stopping.                                                                *)

\* The attached shell ends.
ShellEnds(s) ==
    /\ Goto(s, "serve", "stop")
    /\ UNCHANGED <<shared, open, agents, local, faults>>

\* Mutated form: the automatic listeners outlive the session.
StoppedManual(s, t) == {p \in Listeners(s, {t}) :
    \E r \in registry[s] : r.h = p /\ r.src = "configured"}
Stopped(s, t) == Listeners(s, {t})

\* ForwardSession::stop: listeners, loop, agent.
StopTarget(s, t) ==
    /\ pc[s] = "stop" /\ t \in live[s] /\ \A u \in live[s] : t <= u
    /\ live' = Set(live, s, live[s] \ {t})
    /\ host' = Unlisten(Stopped(s, t))
    /\ auto' = IF t = 1 THEN Set(auto, s, "no") ELSE auto
    /\ adds' = Set(adds, s, NoAdds)
    /\ found' = Set(found, s, {})
    /\ Shutdown(s, t)
    /\ UNCHANGED <<tool, status, open, agent, allowed, pc, plan, todo, registry, lost, faults>>

\* ForwardStatusServer::stop and its Drop on an error.
StopStatus(s) ==
    /\ live[s] = {}
    /\ Goto(s, "stop", "exit")
    /\ status' = Set(status, s, "none")
    /\ registry' = Set(registry, s, {})
    /\ UNCHANGED <<tool, host, open, agents, auto, plan, todo, adds, live, found, lost, faults>>

\* ForwardRuntime::drop and ServiceForwardRuntime::drop
Exit(s) ==
    /\ Goto(s, "exit", "done")
    /\ tool' = [t \in Targets |-> t \notin Staged(s) /\ tool[t]]
    /\ auto' = Set(auto, s, "no")
    /\ UNCHANGED <<host, status, open, agents, plan, todo, adds, live, registry, found, lost, faults>>

(* The agent.                                                               *)

\* run_forward_agent_at_with_access: its socket is its own.
AgentStarts(s, t) ==
    /\ agent[s][t] = "starting"
    /\ agent' = SetAt(agent, s, t, "up")
    /\ UNCHANGED <<shared, open, allowed, queue, pc, local, faults>>

\* Mutated form: the lower end of the range is left out.
DetectedAboveMin == {c \in open : AutoMin < c /\ c < AutoMax /\ c \notin Ignored}
\* listen_ports_from_proc_contents
Detected == {c \in open : AutoMin <= c /\ c < AutoMax /\ c \notin Ignored}

\* Mutated form: the agent waits until somebody reads its answer.
AgentScansForReader(s, t) ==
    /\ agent[s][t] = "up" /\ queue[s][t] # <<>> /\ Head(queue[s][t]) = "scan"
    /\ auto[s] = "asked"
    /\ queue' = SetAt(queue, s, t, Tail(queue[s][t]))
    /\ allowed' = SetAt(allowed, s, t, allowed[s][t] \cup Detected)
    /\ found' = Set(found, s, Detected) /\ auto' = Set(auto, s, "answered")
    /\ UNCHANGED <<shared, open, agent, pc, plan, todo, adds, live, registry, lost, faults>>
\* One request at a time; the answer is lost if the session has stopped.
AgentScans(s, t) ==
    /\ agent[s][t] = "up" /\ queue[s][t] # <<>> /\ Head(queue[s][t]) = "scan"
    /\ queue' = SetAt(queue, s, t, Tail(queue[s][t]))
    /\ allowed' = SetAt(allowed, s, t, allowed[s][t] \cup Detected)
    /\ IF auto[s] = "asked"
       THEN found' = Set(found, s, Detected) /\ auto' = Set(auto, s, "answered")
       ELSE UNCHANGED <<found, auto>>
    /\ UNCHANGED <<shared, open, agent, pc, plan, todo, adds, live, registry, lost, faults>>

\* detect_listen_ports fails: the connection is closed without an answer.
AgentScanFails(s, t) ==
    /\ agent[s][t] = "up" /\ queue[s][t] # <<>> /\ Head(queue[s][t]) = "scan"
    /\ faults < MaxFaults /\ faults' = faults + 1
    /\ queue' = SetAt(queue, s, t, Tail(queue[s][t]))
    /\ auto' = IF auto[s] = "asked" THEN Set(auto, s, "asleep") ELSE auto
    /\ UNCHANGED <<shared, open, agent, allowed, pc, plan, todo, adds, live, registry, found, lost>>

AgentShutsDown(s, t) ==
    /\ agent[s][t] = "up" /\ queue[s][t] # <<>> /\ Head(queue[s][t]) = "shutdown"
    /\ agent' = SetAt(agent, s, t, "gone")
    /\ queue' = SetAt(queue, s, t, <<>>)
    /\ UNCHANGED <<shared, open, allowed, pc, local, faults>>

(* The rest of the world.                                                   *)

\* A server in the primary container starts or stops to listen.
Opens(c) == open' = open \cup {c}
Closes(c) == open' = open \ {c}

ForeignPorts == {p \in HostPorts : host[p] = Foreign}
Takes(p) ==
    /\ host[p] = NoOne /\ Cardinality(ForeignPorts) < MaxForeign
    /\ host' = [host EXCEPT ![p] = Foreign]
Releases(p) == host[p] = Foreign /\ host' = [host EXCEPT ![p] = NoOne]

\* The process is killed: the kernel closes its sockets, files and agents stay.
Crash(s) ==
    /\ pc[s] \notin {"idle", "done"}
    /\ faults < MaxFaults /\ faults' = faults + 1
    /\ pc' = Set(pc, s, "killed")
    /\ host' = Unlisten(Listeners(s, Targets))
    /\ auto' = Set(auto, s, "no")
    /\ todo' = Set(todo, s, {})
    /\ adds' = Set(adds, s, NoAdds)
    /\ live' = Set(live, s, {})
    /\ registry' = Set(registry, s, {})
    /\ found' = Set(found, s, {})
    /\ UNCHANGED <<tool, status, open, agents, plan, lost>>

\* An agent dies, or its container stops.
AgentDies(s, t) ==
    /\ agent[s][t] \in {"starting", "up"}
    /\ faults < MaxFaults /\ faults' = faults + 1
    /\ agent' = SetAt(agent, s, t, "gone")
    /\ queue' = SetAt(queue, s, t, <<>>)
    /\ UNCHANGED <<shared, open, allowed, pc, local>>

-----------------------------------------------------------------------------
Startup(s) ==
    \/ Stage(s)
    \/ \E b \in BOOLEAN : StartStatusServer(s, b)
    \/ StatusMetadata(s)
    \/ \E t \in Targets :
         \/ ExecAgent(s, t) \/ ExecAgentFails(s, t)
         \/ AgentAnswers(s, t) \/ AgentTimesOut(s, t)
         \/ Listen(s, t) \/ ListenFails(s, t) \/ TargetServed(s, t)

Loop(s) ==
    \/ Scan(s) \/ ScanFails(s) \/ AddDetected(s)
    \/ ListenAuto(s) \/ ListenAutoFails(s) \/ AutoServed(s)

Stop(s) == (\E t \in Targets : StopTarget(s, t)) \/ StopStatus(s) \/ Exit(s)

Serve(s, t) == AgentStarts(s, t) \/ AgentScans(s, t) \/ AgentShutsDown(s, t)

Outside ==
    /\ \E c \in Servers : Opens(c) \/ Closes(c)
    /\ UNCHANGED <<shared, agents, pc, local, faults>>

OtherPrograms ==
    /\ \E p \in HostPorts : Takes(p) \/ Releases(p)
    /\ UNCHANGED <<tool, status, open, agents, pc, local, faults>>

Next ==
    \/ \E s \in Sessions :
         \/ \E req \in Requests : Plan(s, req)
         \/ Startup(s) \/ StatusMetadataFails(s)
         \/ Loop(s) \/ ShellEnds(s) \/ Stop(s) \/ Crash(s)
         \/ \E t \in Targets : Serve(s, t) \/ AgentScanFails(s, t) \/ AgentDies(s, t)
    \/ Outside \/ OtherPrograms

Spec == Init /\ [][Next]_vars

\* A running process takes its next step, and so does an agent.
FairSpec ==
    /\ Spec
    /\ \A s \in Sessions :
         /\ WF_vars(Startup(s)) /\ WF_vars(Loop(s)) /\ WF_vars(Stop(s))
         /\ \A t \in Targets : WF_vars(Serve(s, t))

-----------------------------------------------------------------------------
Kinds == [t : Targets, c : HostPorts, h : HostPorts, src : {"configured", "auto"}]

\* Types of the host's ports, the sessions and their agents.
TypeOK ==
    /\ tool \in [Targets -> BOOLEAN]
    /\ host \in [HostPorts -> Holders]
    /\ open \subseteq HostPorts
    /\ \A s \in Sessions :
         /\ \A t \in Targets :
              /\ agent[s][t] \in {"none", "starting", "up", "gone"}
              /\ allowed[s][t] \subseteq HostPorts
              /\ queue[s][t] \in {<<>>, <<"scan">>, <<"shutdown">>, <<"scan", "shutdown">>}
         /\ status[s] \in {"none", "sock", "both"}
         /\ pc[s] \in {"idle", "planned", "detached", "start", "metadata", "exec", "wait",
                       "listen", "serve", "stop", "exit", "done", "killed"}
         /\ auto[s] \in {"no", "off", "asleep", "asked", "answered", "bind"}
         /\ todo[s] \subseteq DOMAIN plan[s]
         /\ \A i \in DOMAIN plan[s] : plan[s][i].h \in HostPorts \cup {0}
         /\ live[s] \cup lost[s] \subseteq Targets
         /\ registry[s] \subseteq Kinds
    /\ faults \in 0..MaxFaults

\* What a session reports as forwarded (decune ports) is forwarded: it listens
\* at that host port for that container port, and its agent will connect there.
\* While it stops, the listeners go before the report does.
ReportedIsServed ==
    \A s \in Sessions : pc[s] # "stop" =>
        \A r \in registry[s] :
            /\ host[r.h] = L(s, r.t, r.c)
            /\ agent[s][r.t] # "gone" => agent[s][r.t] = "up" /\ r.c \in allowed[s][r.t]

\* The loop forwards a port of the primary container at most once, and not at
\* all if the configuration forwards it, however scans, failures and other
\* programs' ports fall.
AutoForwardsOnce ==
    \A s \in Sessions : \A r1, r2 \in registry[s] :
        r1.t = r2.t /\ r1.c = r2.c /\ r1.src = "auto" => r1 = r2

\* A session that ended, with success or an error, holds no host port, reports
\* nothing, and has told every agent to end but those it gave up waiting for.
NothingLeftBehind ==
    \A s \in Sessions : pc[s] = "done" =>
        /\ Listeners(s, Targets) = {}
        /\ status[s] # "both"
        /\ \A t \in Targets \ lost[s] :
             agent[s][t] \in {"starting", "up"} => "shutdown" \in Range(queue[s][t])

\* Such an agent does end, even if a scan was waiting when the session stopped.
AgentsEnd ==
    \A s \in Sessions, t \in Targets :
        pc[s] = "done" /\ t \notin lost[s] ~> agent[s][t] \in {"none", "gone"}

\* A port that the primary container keeps open is forwarded in the end, though
\* other programs take the host ports that the loop has chosen, unless the host
\* runs out of ports.
OutOfPorts == \A p \in HostPorts \ Unbindable : host[p] # NoOne
OpenPortForwarded ==
    \A s \in Sessions, c \in {x \in AutoMin..(AutoMax - 1) : x \notin Ignored \cup Published} :
        pc[s] = "serve" /\ auto[s] # "no" /\ c \in open
            ~> \/ c \in Forwarded(s) \/ c \notin open \/ OutOfPorts
               \/ pc[s] # "serve" \/ agent[s][1] = "gone"

\* Violated: from its staging until the agent has started, nobody removes the
\* agent binary of a session (specification.md: forwarding works as long as the
\* `up` process lives).
BinaryStaysUntilStarted ==
    \A s \in Sessions : pc[s] \in {"start", "metadata", "exec"} =>
        \A t \in AgentTargets(s) \ live[s] : tool[t]
=============================================================================
