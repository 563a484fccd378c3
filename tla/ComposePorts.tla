---------------------------- MODULE ComposePorts ----------------------------
(***************************************************************************)
(* The published ports of ONE Compose project through `decune up`,          *)
(* `rebuild`, `down` and `remove` (up/start/compose.rs,                     *)
(* runtime/compose_ports/).  An up reads what Docker has, chooses a host    *)
(* port for each entry of the Compose file, decides whether the containers  *)
(* can stay, and lets Docker Compose bind.  Nothing is reserved in between: *)
(* other programs take and release ports, and containers stop, at any step. *)
(***************************************************************************)
EXTENDS Integers, FiniteSets, FiniteSetsExt

CONSTANTS Entry,         \* the fixed TCP entries, numbered in planning order
          Service,       \* the service of an entry
          Target,        \* its port in the container
          Requested,     \* its endpoint in the Compose file
          Primary,       \* the service decune works in
          MaxPort,       \* the highest port, 65535 in the code
          Unprobeable,   \* ports this user may not bind
          Requests,      \* what an `up` may be asked for
          Programs,      \* the listeners of other programs
          MaxPrograms,   \* bound: how many of them at a time
          MaxEvents      \* bound: what others do in the course of one up

Ports == 1..MaxPort
Addresses == {"0.0.0.0", "127.0.0.1", "::"}
Omitted == "omitted"
Lowest(S) == {x \in S : \A y \in S : x <= y}
Socket == [ip : Addresses, port : Ports]
Endpoint == [ip : Addresses \cup {Omitted}, port : Ports]
Services == {Primary} \cup {Service[e] : e \in Entry}

ASSUME EntryAssumption == Entry \subseteq Nat /\ IsFiniteSet(Entry)
ASSUME TargetAssumption == DOMAIN Service = Entry /\ DOMAIN Target = Entry
ASSUME RequestedAssumption == Requested \in [Entry -> Endpoint]
ASSUME MaxPortAssumption == MaxPort \in Nat \ {0}
ASSUME MaxEventsAssumption == MaxEvents \in Nat
ASSUME UnprobeableAssumption == Unprobeable \subseteq Ports
\* maps: explicit mappings; forward: a port to forward from, or 0.
ASSUME RequestsAssumption ==
    \A r \in Requests :
        /\ r.rebuild \in BOOLEAN /\ r.auto \in BOOLEAN
        /\ r.forward \in {0} \cup Ports
        /\ DOMAIN r.maps \subseteq Entry
        /\ \A e \in DOMAIN r.maps : r.maps[e] \in Endpoint
ASSUME ProgramsAssumption ==
    Programs \subseteq [ip : Addresses, port : Ports, docker : BOOLEAN]

NoRequest == [rebuild |-> FALSE, auto |-> FALSE, forward |-> 0, maps |-> <<>>]
Decision == [ep : Endpoint, probe : {"available", "unprobeable"}]
Undecided == [ep |-> [ip |-> Omitted, port |-> 0], probe |-> "none"]
Binding == [service : Services, target : {Target[e] : e \in Entry},
            ip : Addresses, port : Ports, running : BOOLEAN]

VARIABLES
    foreign,    \* the listeners other programs have at the moment
    container,  \* of each service: absent, stopped or running
    published,  \* the endpoint each entry's container was created with
    label,      \* the mappings in the primary container's reuse hash
    pc, req,
    stale,      \* did the list of the project's containers have any?
    primary,    \* the primary container as listed
    hash,       \* its label, as listed
    seen,       \* the bindings of the project's containers, as listed
    external,   \* those of other running containers, as listed
    fast,       \* is this the attempt to reuse before images are prepared?
    forwards,   \* the host sockets planned for forwarding
    plan,       \* the decisions so far
    force,      \* --force-recreate
    todo,       \* the services `docker compose up` has still to see to
    verdict,    \* how the last up ended
    late,       \* history: listeners that appeared since Docker was listed
    events      \* what others have done during this up, bounded by MaxEvents

docker == <<container, published, label>>
listed == <<stale, primary, hash, seen, external>>
planned == <<fast, forwards, plan>>
vars == <<foreign, docker, pc, req, listed, planned, force, todo, verdict, late, events>>

-----------------------------------------------------------------------------
(* Endpoints.                                                               *)

\* reservation_host_ip: what an omitted host ip stands for when planning ...
At(ep) == [ip |-> IF ep.ip = Omitted THEN "0.0.0.0" ELSE ep.ip, port |-> ep.port]
\* ... and the sockets that Docker opens for it.
Sockets(ep) ==
    IF ep.ip = Omitted THEN {[ip |-> a, port |-> ep.port] : a \in {"0.0.0.0", "::"}}
    ELSE {ep}

\* host_ip_bindings_conflict: an address, or all of its family.
IpsConflict(a, b) == a = b \/ {a, b} \subseteq {"0.0.0.0", "127.0.0.1"}
Conflict(s, t) == s.port = t.port /\ IpsConflict(s.ip, t.ip)
Taken(sockets, s) == \E t \in sockets : Conflict(t, s)

SocketOf(x) == [ip |-> x.ip, port |-> x.port]
EntriesOf(v) == {e \in Entry : Service[e] = v}
RunningPorts(vs) ==
    UNION {Sockets(published[e]) :
             e \in {d \in Entry : Service[d] \in vs /\ container[Service[d]] = "running"}}
Held == {SocketOf(f) : f \in foreign} \cup RunningPorts(Services)

\* Mutated form: with SO_REUSEADDR only the very same socket is in the way.
ProbeReusing(s) ==
    IF s.port \in Unprobeable THEN "unprobeable"
    ELSE IF s \in Held THEN "occupied" ELSE "available"
\* host_port_probe: a bind by this user.
Probe(s) ==
    IF s.port \in Unprobeable THEN "unprobeable"
    ELSE IF Taken(Held, s) THEN "occupied" ELSE "available"

-----------------------------------------------------------------------------
(* Planning, one entry at a time (plan_compose_published_ports_inner).      *)

PlanningEnabled == req.auto \/ DOMAIN req.maps # {}
Mapped == DOMAIN req.maps
Decided == {e \in Entry : plan[e] # Undecided}
Entries == IF PlanningEnabled THEN Entry ELSE {}
\* Explicit mappings first.
NextEntry ==
    IF Mapped \ Decided # {} THEN Min(Mapped \ Decided) ELSE Min(Entries \ Decided)

\* Mutated form: what has been decided before is no reservation.
ReservationsOfOthers == forwards \cup external
Reservations == forwards \cup external \cup {At(plan[e].ep) : e \in Decided}

SameTarget(b, e) == b.service = Service[e] /\ b.target = Target[e]
\* Mutated form: only the attempt to reuse a running container reuses.
ReusableWhenFast == IF fast THEN seen ELSE {}
\* ExistingProjectBindings: a rebuild does not reuse.
Reusable == IF req.rebuild /\ ~fast THEN {} ELSE seen
RunningIn(bindings) == {SocketOf(b) : b \in {c \in bindings : c.running}}
AllReservations == Reservations \cup RunningIn(Reusable)

D(ep, probe) == [ep |-> ep, probe |-> probe]

\* decision_for_mapping
MappingDecision(e) ==
    LET want == req.maps[e]
        others == Reservations \cup RunningIn({b \in seen : ~SameTarget(b, e)})
        own == \E b \in seen : b.running /\ SameTarget(b, e) /\ Conflict(b, At(want))
        probe == IF Taken(others, At(want)) THEN "occupied"
                 ELSE IF own THEN "available" ELSE Probe(At(want))
    IN  {D(want, probe)} \cap Decision

\* plan_unmapped_entry_without_automatic_relocation
UnchangedDecision(e) ==
    IF Taken({At(req.maps[m]) : m \in Mapped}, At(Requested[e])) THEN {}
    ELSE {D(Requested[e], "unprobeable")}

\* existing_project_published_port_candidate: the ones it may meet first.
Candidates(e) ==
    {b \in Reusable :
        /\ SameTarget(b, e)
        /\ IpsConflict(b.ip, At(Requested[e]).ip)
        /\ ~Taken(Reservations, SocketOf(b))
        /\ b.running \/ Probe(SocketOf(b)) # "occupied"}
Keep(e, b) ==
    LET r == Requested[e]
    IN  D([ip |-> IF b.ip = At(r).ip THEN r.ip ELSE b.ip, port |-> b.port],
          IF b.running THEN "available" ELSE Probe(SocketOf(b)))

\* Mutated form: the search wraps past the last port, and a bind to port 0 succeeds.
FreeWrapping(e) ==
    LET free == {p \in Requested[e].port + 1 .. MaxPort :
                    LET s == [At(Requested[e]) EXCEPT !.port = p]
                    IN  ~Taken(AllReservations, s) /\ Probe(s) = "available"}
    IN  IF free = {} THEN {0} ELSE free
\* allocate_automatic_relocation_host_port: the next free port upwards.
Free(e) ==
    {p \in Requested[e].port + 1 .. MaxPort :
        LET s == [At(Requested[e]) EXCEPT !.port = p]
        IN  ~Taken(AllReservations, s) /\ Probe(s) = "available"}
Relocate(e) ==
    {D([Requested[e] EXCEPT !.port = p], "available") : p \in Lowest(Free(e))}

\* decision_for_requested_or_relocated_endpoint
Allocate(e) ==
    LET s == At(Requested[e])
    IN  IF Taken(AllReservations, s) \/ Probe(s) = "occupied" THEN Relocate(e)
        ELSE {D(Requested[e], Probe(s))}

\* plan_explicit_mappings, plan_unmapped_entries: none when it is an error.
Decisions(e) ==
    IF e \in Mapped THEN MappingDecision(e)
    ELSE IF ~req.auto THEN UnchangedDecision(e)
    ELSE IF Candidates(e) # {} THEN {Keep(e, b) : b \in Candidates(e)}
    ELSE Allocate(e)

-----------------------------------------------------------------------------
Init ==
    /\ foreign = {}
    /\ container = [v \in Services |-> "absent"]
    /\ published = Requested
    /\ label = <<>>
    /\ pc = "idle" /\ req = NoRequest
    /\ stale = FALSE /\ primary = "absent" /\ hash = <<>> /\ seen = {} /\ external = {}
    /\ fast = FALSE /\ forwards = {} /\ plan = [e \in Entry |-> Undecided]
    /\ force = FALSE /\ todo = {}
    /\ verdict = "none" /\ late = {} /\ events = 0

Goto(from, to) == pc = from /\ pc' = to
NoPlan == [e \in Entry |-> Undecided]

\* The up ends: what it read and planned is forgotten.
Ends(v) ==
    /\ pc' = "idle" /\ req' = NoRequest /\ verdict' = v
    /\ stale' = FALSE /\ primary' = "absent" /\ hash' = <<>>
    /\ seen' = {} /\ external' = {}
    /\ fast' = FALSE /\ forwards' = {} /\ plan' = NoPlan
    /\ force' = FALSE /\ todo' = {} /\ late' = {} /\ events' = 0
Fails(v) == Ends(v) /\ UNCHANGED <<foreign, docker>>

(* Reading what Docker has (prepare_compose_startup_context).               *)

Start(r) ==
    /\ Goto("idle", "containers")
    /\ req' = r /\ verdict' = "none"
    /\ UNCHANGED <<foreign, docker, listed, planned, force, todo, late, events>>

\* list_compose_project_containers
ListContainers ==
    /\ Goto("containers", "primary")
    /\ stale' = \E v \in Services : container[v] # "absent"
    /\ UNCHANGED <<foreign, docker, req, primary, hash, seen, external, planned, force,
                   todo, verdict, late, events>>

\* list_compose_primary_containers
ListPrimary ==
    /\ Goto("primary", IF PlanningEnabled THEN "bindings" ELSE "listed")
    /\ primary' = container[Primary] /\ hash' = label
    /\ UNCHANGED <<foreign, docker, req, stale, seen, external, planned, force, todo,
                   verdict, late, events>>

\* The network settings of a running container, the host config of another.
Bindings(e) ==
    {[service |-> Service[e], target |-> Target[e], ip |-> s.ip, port |-> s.port,
      running |-> container[Service[e]] = "running"] :
        s \in IF container[Service[e]] = "running" THEN Sockets(published[e])
              ELSE {At(published[e])}}
\* list_existing_compose_project_published_ports
ListBindings ==
    /\ Goto("bindings", "external")
    /\ seen' = UNION {Bindings(e) : e \in {d \in Entry : container[Service[d]] # "absent"}}
    /\ UNCHANGED <<foreign, docker, req, stale, primary, hash, external, planned, force,
                   todo, verdict, late, events>>

\* list_external_running_container_published_ports
ListExternal ==
    /\ Goto("external", "listed")
    /\ external' = {SocketOf(f) : f \in {g \in foreign : g.docker}}
    /\ UNCHANGED <<foreign, docker, req, stale, primary, hash, seen, planned, force, todo,
                   verdict, late, events>>

(* Planning (finalize_mounts_and_resources_for_plan).                       *)

\* compose_running_reuse_fast_path_enabled
Listed ==
    /\ Goto("listed", "forwards")
    /\ fast' = (primary = "running" /\ ~req.rebuild)
    /\ UNCHANGED <<foreign, docker, req, listed, forwards, plan, force, todo,
                   verdict, late, events>>

\* resolve_forward_ports_with_host_reservations: upwards past the ports the project
\* has and the occupied ones. Past the last port it is host port 0, which conflicts
\* with nothing; a probe that fails is an error.
Local(p) == [ip |-> "127.0.0.1", port |-> p]
FreeForForward ==
    {p \in req.forward .. MaxPort :
        ~Taken({SocketOf(b) : b \in seen}, Local(p)) /\ Probe(Local(p)) # "occupied"}
ForwardPort == Lowest(FreeForForward) \ Unprobeable
NoForward == req.forward = 0 \/ FreeForForward = {}
ResolveForwards ==
    /\ Goto("forwards", "planning")
    /\ plan' = NoPlan
    /\ IF NoForward THEN forwards' = {}
       ELSE \E p \in ForwardPort : forwards' = {Local(p)}
    /\ UNCHANGED <<foreign, docker, req, listed, fast, force, todo, verdict, late, events>>
ForwardsFail ==
    /\ pc = "forwards" /\ ~NoForward /\ ForwardPort = {}
    /\ Fails("forward")

PlanEntry ==
    /\ pc = "planning" /\ Entries \ Decided # {}
    /\ \E d \in Decisions(NextEntry) : plan' = [plan EXCEPT ![NextEntry] = d]
    /\ UNCHANGED <<foreign, docker, pc, req, listed, fast, forwards, force, todo,
                   verdict, late, events>>
PlanFails ==
    /\ pc = "planning" /\ Entries \ Decided # {} /\ Decisions(NextEntry) = {}
    /\ Fails(IF req.auto /\ NextEntry \notin Mapped THEN "noport" ELSE "mapping")

(* The decision (decide_existing_compose_container).                        *)

\* Mutated form: what a stopped container was created with is not compared.
MovedRunning(e) ==
    /\ \E b \in seen : b.running /\ SameTarget(b, e)
    /\ ~\E b \in seen : SameTarget(b, e) /\ SocketOf(b) = At(plan[e].ep)
\* Mutated form: an omitted address is not seen to be 0.0.0.0.
MovedByText(e) ==
    /\ \E b \in seen : SameTarget(b, e)
    /\ ~\E b \in seen : SameTarget(b, e) /\ SocketOf(b) = plan[e].ep
\* compose_published_port_recreate_change: no binding of the target is the
\* planned one.
Moved(e) ==
    /\ \E b \in seen : SameTarget(b, e)
    /\ ~\E b \in seen : SameTarget(b, e) /\ SocketOf(b) = At(plan[e].ep)
Moves == \E e \in Decided : Moved(e)
Finished == pc = "planning" /\ Entries \subseteq Decided
Changed == ~req.rebuild /\ primary # "absent" /\ hash # req.maps

ConfigChanged == Finished /\ Changed /\ Fails("changed")

\* ReuseRunning: Docker Compose is not called.
ReuseRunning ==
    /\ Finished /\ ~Changed
    /\ ~req.rebuild /\ primary = "running" /\ ~Moves
    /\ pc' = "sync"
    /\ UNCHANGED <<foreign, docker, req, listed, planned, force, todo, verdict, late, events>>

\* The fast attempt leads nowhere: images are prepared and all is planned again.
PrepareImages ==
    /\ Finished /\ ~Changed /\ fast /\ Moves
    /\ pc' = "forwards" /\ fast' = FALSE
    /\ UNCHANGED <<foreign, docker, req, listed, forwards, plan, force, todo,
                   verdict, late, events>>

\* compose_start_run_options
CallCompose ==
    /\ Finished /\ ~Changed /\ ~fast
    /\ req.rebuild \/ primary # "running" \/ Moves
    /\ pc' = "compose" /\ todo' = Services
    /\ force' = (req.rebuild \/ Moves \/ (primary = "absent" /\ stale))
    /\ UNCHANGED <<foreign, docker, req, listed, planned, verdict, late, events>>

-----------------------------------------------------------------------------
(* `docker compose up`: one service after the other, in any order.          *)

\* compose_published_port_override: the Compose file's ports, or the planned.
Wanted(e) == IF e \in Decided THEN plan[e].ep ELSE Requested[e]
Differs(v) == \E e \in EntriesOf(v) : published[e] # Wanted(e)
Recreated(v) == force \/ container[v] = "absent" \/ Differs(v)
\* The sockets of a service that somebody else has, or that it wants twice.
Clashes(v) ==
    {s \in UNION {Sockets(Wanted(e)) : e \in EntriesOf(v)} :
        \/ Taken({SocketOf(f) : f \in foreign} \cup RunningPorts(Services \ {v}), s)
        \/ \E d, e \in EntriesOf(v) : d # e /\ Taken(Sockets(Wanted(d)), s) /\ s \in Sockets(Wanted(e))}
Starts(v) == Recreated(v) \/ container[v] = "stopped"

Create(v) ==
    /\ published' = [e \in Entry |-> IF e \in EntriesOf(v) THEN Wanted(e) ELSE published[e]]
    /\ label' = IF v = Primary /\ Recreated(v) THEN req.maps ELSE label

ComposeService(v) ==
    /\ pc = "compose" /\ v \in todo
    /\ Starts(v) => Clashes(v) = {}
    /\ IF Starts(v)
       THEN container' = [container EXCEPT ![v] = "running"] /\ Create(v)
       ELSE UNCHANGED docker
    /\ todo' = todo \ {v}
    /\ UNCHANGED <<foreign, pc, req, listed, planned, force, verdict, late, events>>

\* classify_compose_published_port_startup_failure
Mentioned(s) ==
    {e \in IF PlanningEnabled THEN Decided ELSE Entry :
        LET w == Wanted(e) IN w.port = s.port /\ w.ip \in {Omitted, s.ip}}
Diagnosis(s) ==
    LET e == Min(Mentioned(s))
    IN  IF ~PlanningEnabled \/ (plan[e].probe = "unprobeable" /\ e \notin Mapped)
        THEN "collision"
        ELSE IF e \in Mapped THEN "mapping" ELSE "race"

\* A container that cannot bind stays, created and stopped.
ComposeFails(v, s) ==
    /\ pc = "compose" /\ v \in todo /\ Starts(v) /\ s \in Clashes(v)
    /\ container' = [container EXCEPT ![v] = "stopped"]
    /\ Create(v)
    /\ Ends(Diagnosis(s))
    /\ UNCHANGED foreign

\* ensure_container_running_after_start
Verify ==
    /\ pc = "compose" /\ todo = {} /\ container[Primary] = "running"
    /\ pc' = "sync"
    /\ UNCHANGED <<foreign, docker, req, listed, planned, force, todo, verdict, late, events>>
VerifyFails ==
    /\ pc = "compose" /\ todo = {} /\ container[Primary] # "running"
    /\ Fails("stopped")

\* sync_started_compose_state
Sync ==
    /\ pc = "sync"
    /\ Ends("ok")
    /\ UNCHANGED <<foreign, docker>>

-----------------------------------------------------------------------------
(* Others.                                                                  *)

Event ==
    IF pc = "idle" THEN UNCHANGED events
    ELSE events < MaxEvents /\ events' = events + 1

\* docker compose stop
Down ==
    /\ Event
    /\ \E v \in Services : container[v] = "running"
    /\ container' = [v \in Services |-> IF container[v] = "running" THEN "stopped" ELSE container[v]]
    /\ UNCHANGED <<foreign, published, label, pc, req, listed, planned, force, todo, verdict, late>>

\* remove_compose_project_resources
Remove ==
    /\ Event
    /\ \E v \in Services : container[v] # "absent"
    /\ container' = [v \in Services |-> "absent"]
    /\ published' = Requested /\ label' = <<>>
    /\ UNCHANGED <<foreign, pc, req, listed, planned, force, todo, verdict, late>>

\* A container ends by itself.
Dies(v) ==
    /\ Event
    /\ container[v] = "running"
    /\ container' = [container EXCEPT ![v] = "stopped"]
    /\ UNCHANGED <<foreign, published, label, pc, req, listed, planned, force, todo, verdict, late>>

\* Another program listens, or another container is started.
Takes(f) ==
    /\ Event
    /\ Cardinality(foreign) < MaxPrograms
    /\ ~Taken(Held, SocketOf(f))
    /\ foreign' = foreign \cup {f}
    /\ late' = IF pc \in {"idle", "containers", "primary", "bindings", "sync"} THEN late
               ELSE late \cup {SocketOf(f)}
    /\ UNCHANGED <<docker, pc, req, listed, planned, force, todo, verdict>>
Releases(f) ==
    /\ Event
    /\ foreign' = foreign \ {f}
    /\ UNCHANGED <<docker, pc, req, listed, planned, force, todo, verdict, late>>

Context == (\E r \in Requests : Start(r)) \/ ListContainers \/ ListPrimary \/ ListBindings \/ ListExternal \/ Listed
Planning == ResolveForwards \/ ForwardsFail \/ PlanEntry \/ PlanFails
Deciding == ConfigChanged \/ ReuseRunning \/ PrepareImages \/ CallCompose
Composing ==
    \/ \E v \in Services : ComposeService(v) \/ \E s \in Clashes(v) : ComposeFails(v, s)
    \/ Verify \/ VerifyFails \/ Sync
Others ==
    \/ Down \/ Remove \/ \E v \in Services : Dies(v)
    \/ (\E f \in Programs \ foreign : Takes(f)) \/ (\E f \in foreign : Releases(f))
Next == Context \/ Planning \/ Deciding \/ Composing \/ Others
Spec == Init /\ [][Next]_vars

-----------------------------------------------------------------------------
TypeOK ==
    /\ foreign \subseteq Programs
    /\ container \in [Services -> {"absent", "stopped", "running"}]
    /\ published \in [Entry -> Endpoint]
    /\ req \in Requests \cup {NoRequest}
    /\ {label, hash} \subseteq {r.maps : r \in Requests \cup {NoRequest}}
    /\ pc \in {"idle", "containers", "primary", "bindings", "external", "listed", "forwards", "planning",
              "compose", "sync"}
    /\ primary \in {"absent", "stopped", "running"} /\ stale \in BOOLEAN
    /\ seen \subseteq Binding /\ external \subseteq Socket
    /\ fast \in BOOLEAN /\ forwards \subseteq Socket
    /\ plan \in [Entry -> Decision \cup {Undecided}]
    /\ force \in BOOLEAN /\ todo \subseteq Services
    /\ verdict \in {"none", "ok", "changed", "forward", "noport", "mapping", "collision",
                    "race", "stopped"}
    /\ late \subseteq Socket /\ events \in 0..MaxEvents

\* No host socket is given out twice: a decision of the planner conflicts with no
\* other one, with no forward of the same up and with no container of others;
\* without relocation this holds of the explicit mappings
\* (specification.md, 8.8: forwarding and published ports never share an endpoint).
PlanDisjoint ==
    \A e \in Decided : req.auto \/ e \in Mapped =>
        /\ ~Taken(forwards \cup external, At(plan[e].ep))
        /\ \A d \in Decided \ {e} : ~Conflict(At(plan[d].ep), At(plan[e].ep))

\* A port that is published stays: an up that is no rebuild leaves a container
\* that it listed running, and that has run since, with the sockets it had,
\* relocated or not and recreated or not, unless a container of others has them
\* or a mapping moves them.
KeepsPorts ==
    [][\A v \in Services :
        ComposeService(v) /\ req.auto /\ ~req.rebuild /\ container[v] = "running" =>
            \A b \in seen :
                b.service = v /\ b.running /\ ~Taken(external, SocketOf(b)) =>
                    \E e \in Entry :
                        /\ SameTarget(b, e)
                        /\ e \in Mapped \/ SocketOf(b) \in Sockets(published'[e])]_vars

\* A bind race is reported only where there was one: an up that planned for
\* an IPv4 socket finds it taken only if somebody came after Docker was listed
\* (the planner does not look at the IPv6 half of an omitted address).
BlamesRacesOnly ==
    [][\A v \in Services : \A s \in Clashes(v) :
        ComposeFails(v, s) /\ verdict' = "race" => s.ip = "::" \/ Taken(late, s)]_vars

\* An up of a project that runs does not disturb it: Docker Compose is only called
\* when a container was not running or another one has its port.
RunningIsReused ==
    [][CallCompose /\ req.auto /\ ~req.rebuild /\ primary = "running" =>
        \E b \in seen : ~b.running \/ Taken(external, SocketOf(b))]_vars

\* An up that reports the stopped container as started again has not had it
\* recreated by Docker Compose (its creation stages would be missing).
StartedIsKept ==
    [][ComposeService(Primary) /\ req.auto /\ primary = "stopped" /\ ~force
          /\ container[Primary] # "absent" =>
        \A e \in EntriesOf(Primary) : published'[e] = published[e]]_vars

\* A rebuild with relocation returns to the Compose file's port unless
\* somebody else has it (tests/cli/compose_integration.rs).
RebuildReturns ==
    [][\A e \in Entry \ Mapped :
        LET s == At(Requested[e])
            others == {SocketOf(f) : f \in foreign} \cup RunningPorts(Services \ {Service[e]})
        IN  PlanEntry /\ req.rebuild /\ req.auto /\ plan'[e] # plan[e]
              /\ ~Taken(Reservations \cup others, s)
            => plan'[e].ep = Requested[e]]_vars
=============================================================================
