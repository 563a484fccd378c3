------------------------- MODULE ComposePortsProofs -------------------------
(***************************************************************************)
(* For any Compose file, requests and neighbours: the planner gives no host *)
(* socket out twice, and a bind race is reported only if there was one.     *)
(* When no service publishes a port twice, what runs is reused and what is  *)
(* stopped is started as it was; what runs keeps its ports, if no two        *)
(* services ask for one that cannot be probed and mappings keep the family.  *)
(***************************************************************************)
EXTENDS ComposePorts, WellFoundedInduction, TLAPS

-----------------------------------------------------------------------------
(* Endpoints and decisions.                                                 *)

\* It does not matter which of two sockets was there first.
LEMMA ConflictSymmetric ==
  ASSUME NEW s, NEW t PROVE Conflict(s, t) <=> Conflict(t, s)
BY DEF Conflict, IpsConflict

\* A requested endpoint is a record of an address and a port.
LEMMA RequestedType ==
  ASSUME NEW e \in Entry
  PROVE  /\ Requested[e] \in Endpoint
         /\ \A p : At([Requested[e] EXCEPT !.port = p]) = [At(Requested[e]) EXCEPT !.port = p]
<1>1. Requested[e] \in Endpoint
  BY RequestedAssumption
<1> QED
  BY <1>1 DEF Endpoint, At

\* Reservations hold whatever the choice of the containers' own ports.
LEMMA TakenGrows ==
  ASSUME NEW S, NEW T, S \subseteq T, NEW s, ~Taken(T, s) PROVE ~Taken(S, s)
BY DEF Taken

\* A mapping is planned as it is, and only where nothing is reserved and no container
\* of another port runs.
LEMMA MappingAvoids ==
  ASSUME NEW e \in Mapped, NEW d \in MappingDecision(e)
  PROVE  /\ d.ep = req.maps[e] /\ ~Taken(Reservations, At(d.ep))
         /\ ~Taken(RunningIn({b \in seen : ~SameTarget(b, e)}), At(d.ep))
<1> DEFINE want == req.maps[e]
           others == Reservations \cup RunningIn({b \in seen : ~SameTarget(b, e)})
           own == \E b \in seen : b.running /\ SameTarget(b, e) /\ Conflict(b, At(want))
           probe == IF Taken(others, At(want)) THEN "occupied"
                    ELSE IF own THEN "available" ELSE Probe(At(want))
<1>1. d = D(want, probe) /\ d \in Decision
  BY DEF MappingDecision
<1>2. d.ep = want /\ d.probe = probe
  BY <1>1 DEF D
<1>3. probe # "occupied"
  <2>1. d.probe \in {"available", "unprobeable"}
    BY <1>1 DEF Decision
  <2> HIDE DEF probe
  <2> QED
    BY <2>1, <1>2
<1>4. ~Taken(others, At(want))
  BY <1>3
<1> QED
  BY <1>2, <1>4, TakenGrows

\* What a container of the project has is kept only where nothing is reserved.
LEMMA KeepAvoids ==
  ASSUME NEW e \in Entry, NEW b \in Candidates(e), b.ip # Omitted
  PROVE  ~Taken(Reservations, At(Keep(e, b).ep))
<1>1. ~Taken(Reservations, SocketOf(b))
  BY DEF Candidates
<1>2. At(Keep(e, b).ep) = SocketOf(b)
  BY RequestedType DEF Keep, D, At, SocketOf, Omitted
<1> QED
  BY <1>1, <1>2

\* A port is requested or allocated only where nothing is reserved.
LEMMA AllocateAvoids ==
  ASSUME NEW e \in Entry, NEW d \in Allocate(e)
  PROVE  ~Taken(Reservations, At(d.ep))
<1>1. CASE d \in Relocate(e)
  <2>1. PICK p \in Free(e) : d = D([Requested[e] EXCEPT !.port = p], "available")
    BY <1>1 DEF Relocate, Lowest
  <2>2. ~Taken(AllReservations, [At(Requested[e]) EXCEPT !.port = p])
    BY <2>1 DEF Free
  <2>3. At(d.ep) = [At(Requested[e]) EXCEPT !.port = p]
    BY <2>1, RequestedType DEF D
  <2> QED
    BY <2>2, <2>3, TakenGrows DEF AllReservations
<1>2. CASE d \notin Relocate(e)
  <2>1. /\ ~Taken(AllReservations, At(Requested[e]))
        /\ d.ep = Requested[e]
    BY <1>2 DEF Allocate, D
  <2> QED
    BY <2>1, TakenGrows DEF AllReservations
<1> QED
  BY <1>1, <1>2

-----------------------------------------------------------------------------
(* The invariant.                                                           *)

\* Nothing is planned until planning begins.
UnplannedBefore ==
    pc \in {"idle", "containers", "primary", "bindings", "external", "listed"} => plan = NoPlan
\* Mapped entries are planned as they are mapped.
MappedAsAsked == \A e \in Decided \cap Mapped : plan[e].ep = req.maps[e]
\* Docker names the address of every binding.
SeenAddresses == \A b \in seen : b.ip # Omitted
PlanInv ==
    /\ plan = [e \in Entry |-> plan[e]]
    /\ UnplannedBefore
    /\ MappedAsAsked
    /\ SeenAddresses
    /\ PlanDisjoint

\* Decisions on nothing are disjoint.
LEMMA NoPlanDisjoint ==
  ASSUME plan = NoPlan
  PROVE  plan = [e \in Entry |-> plan[e]] /\ MappedAsAsked /\ PlanDisjoint
<1>1. Decided = {}
  BY DEF Decided, NoPlan
<1> QED
  BY <1>1 DEF NoPlan, MappedAsAsked, PlanDisjoint

\* The same after a step.
LEMMA NoPlanDisjointAfter ==
  ASSUME plan' = NoPlan
  PROVE  /\ plan' = [e \in Entry |-> plan'[e]] /\ UnplannedBefore'
         /\ MappedAsAsked' /\ PlanDisjoint'
<1>1. Decided' = {}
  BY DEF Decided, NoPlan
<1> QED
  BY <1>1 DEF NoPlan, UnplannedBefore, MappedAsAsked, PlanDisjoint

\* The planner avoids what is reserved, all that was decided included.
LEMMA DecisionAvoids ==
  ASSUME SeenAddresses, NEW n \in Entry, NEW d \in Decisions(n), req.auto \/ n \in Mapped
  PROVE  ~Taken(Reservations, At(d.ep))
<1>1. CASE n \in Mapped
  BY <1>1, MappingAvoids DEF Decisions
<1>2. CASE n \notin Mapped /\ Candidates(n) # {}
  <2>1. PICK b \in Candidates(n) : d = Keep(n, b)
    BY <1>2 DEF Decisions
  <2>2. b.ip # Omitted
    BY <2>1 DEF Candidates, Reusable, SeenAddresses
  <2> QED
    BY <2>1, <2>2, KeepAvoids
<1>3. CASE n \notin Mapped /\ Candidates(n) = {}
  BY <1>3, AllocateAvoids DEF Decisions
<1> QED
  BY <1>1, <1>2, <1>3

\* A further decision leaves the plan disjoint.
LEMMA PlanEntryDisjoint ==
  ASSUME PlanInv, PlanEntry
  PROVE  PlanInv'
<1> DEFINE n == NextEntry
<1>1. PICK d \in Decisions(n) : plan' = [plan EXCEPT ![n] = d]
  BY DEF PlanEntry
<1>2. /\ pc = "planning" /\ pc' = pc /\ req' = req /\ seen' = seen
      /\ external' = external /\ forwards' = forwards
  BY DEF PlanEntry, listed
<1> HIDE DEF n
<1>3. /\ plan' = [e \in Entry |-> plan'[e]]
      /\ \A e \in Entry : plan'[e] = IF e = n THEN d ELSE plan[e]
  BY <1>1 DEF PlanInv
<1>4. Mapped' = Mapped
  BY <1>2 DEF Mapped
<1>5. UnplannedBefore' /\ SeenAddresses'
  BY <1>2 DEF PlanInv, UnplannedBefore, SeenAddresses
<1>6. MappedAsAsked'
  <2> SUFFICES ASSUME NEW e \in Decided', e \in Mapped PROVE plan'[e].ep = req.maps[e]
    BY <1>2, <1>4 DEF MappedAsAsked
  <2>1. CASE e = n
    <3>1. d \in MappingDecision(e)
      BY <1>1, <2>1 DEF Decisions
    <3> QED
      BY <3>1, <2>1, <1>3, MappingAvoids DEF Decided
  <2>2. CASE e # n
    BY <2>2, <1>3 DEF PlanInv, MappedAsAsked, Decided
  <2> QED
    BY <2>1, <2>2
<1>7. PlanDisjoint'
  <2> SUFFICES ASSUME NEW e \in Decided', req.auto \/ e \in Mapped
               PROVE  /\ ~Taken(forwards \cup external, At(plan'[e].ep))
                      /\ \A c \in Decided' \ {e} : ~Conflict(At(plan'[c].ep), At(plan'[e].ep))
    BY <1>2, <1>4 DEF PlanDisjoint
  <2>0. e \in Entry /\ \A c \in Decided' \ {n} : c \in Decided /\ plan'[c] = plan[c]
    BY <1>3 DEF Decided
  <2>1. CASE e = n
    <3>1. ~Taken(Reservations, At(d.ep))
      BY <1>1, <2>0, <2>1, DecisionAvoids DEF PlanInv
    <3>2. \A c \in Decided : ~Conflict(At(plan[c].ep), At(d.ep))
      BY <3>1 DEF Reservations, Taken
    <3>3. ~Taken(forwards \cup external, At(d.ep))
      BY <3>1, TakenGrows DEF Reservations
    <3> QED
      BY <3>2, <3>3, <2>0, <2>1, <1>3
  <2>2. CASE e # n
    <3>1. e \in Decided /\ plan'[e] = plan[e]
      BY <2>0, <2>2
    <3>2. ASSUME NEW c \in Decided' \ {e} PROVE ~Conflict(At(plan'[c].ep), At(plan'[e].ep))
      <4>1. CASE c # n
        <5>1. c \in Decided \ {e} /\ plan'[c] = plan[c]
          BY <4>1, <2>0
        <5> QED
          BY <3>1, <5>1 DEF PlanInv, PlanDisjoint
      <4>2. CASE c = n
        <5>1. c \in Entry /\ plan'[c] = d
          BY <4>2, <1>3 DEF Decided
        <5>2. ~Conflict(At(plan[e].ep), At(d.ep))
          <6>1. CASE req.auto \/ n \in Mapped
            <7>1. ~Taken(Reservations, At(d.ep))
              BY <6>1, <5>1, <4>2, <1>1, DecisionAvoids DEF PlanInv
            <7> QED
              BY <7>1, <3>1 DEF Reservations, Taken
          <6>2. CASE ~req.auto /\ n \notin Mapped
            <7>1. d \in UnchangedDecision(n)
              BY <6>2, <1>1 DEF Decisions
            <7>2. d.ep = Requested[n] /\ ~Taken({At(req.maps[m]) : m \in Mapped}, At(Requested[n]))
              BY <7>1 DEF UnchangedDecision, D
            <7>3. e \in Mapped /\ plan[e].ep = req.maps[e]
              BY <6>2, <3>1 DEF PlanInv, MappedAsAsked
            <7> QED
              BY <7>2, <7>3 DEF Taken
          <6> QED
            BY <6>1, <6>2
        <5> QED
          BY <5>1, <5>2, <3>1, ConflictSymmetric
      <4> QED
        BY <4>1, <4>2
    <3>3. ~Taken(forwards \cup external, At(plan'[e].ep))
      BY <3>1 DEF PlanInv, PlanDisjoint
    <3> QED
      BY <3>2, <3>3
  <2> QED
    BY <2>1, <2>2
<1> QED
  BY <1>3, <1>5, <1>6, <1>7 DEF PlanInv

\* A step that leaves what was listed, asked and planned alone keeps it disjoint.
LEMMA PlanKept ==
  ASSUME PlanInv, UNCHANGED <<req, seen, external, forwards, plan>>,
         UnplannedBefore'
  PROVE  PlanInv'
<1>1. Decided' = Decided /\ Mapped' = Mapped
  BY DEF Decided, Mapped
<1> QED
  BY <1>1 DEF PlanInv, MappedAsAsked, SeenAddresses, PlanDisjoint

\* Every step keeps the invariant.
LEMMA StepPlanInv ==
  ASSUME PlanInv, [Next]_vars
  PROVE  PlanInv'
<1> USE DEF PlanInv, docker, listed, planned
<1>1. CASE Context
  <2>1. CASE \E r \in Requests : Start(r)
    <3>1. plan' = NoPlan /\ seen' = seen
      BY <2>1 DEF Start, Goto, UnplannedBefore
    <3> QED
      BY <3>1, NoPlanDisjointAfter DEF SeenAddresses
  <2>2. CASE ListContainers
    <3>1. plan' = NoPlan /\ seen' = seen
      BY <2>2 DEF ListContainers, Goto, UnplannedBefore
    <3> QED
      BY <3>1, NoPlanDisjointAfter DEF SeenAddresses
  <2>6. CASE ListPrimary
    <3>1. plan' = NoPlan /\ seen' = seen
      BY <2>6 DEF ListPrimary, Goto, UnplannedBefore
    <3> QED
      BY <3>1, NoPlanDisjointAfter DEF SeenAddresses
  <2>3. CASE ListBindings
    <3>1. plan' = NoPlan
      BY <2>3 DEF ListBindings, Goto, UnplannedBefore
    <3>2. ASSUME NEW e \in Entry, NEW b \in Bindings(e) PROVE b.ip # Omitted
      BY <3>2 DEF Bindings, Sockets, At, Omitted
    <3>3. SeenAddresses'
      BY <2>3, <3>2 DEF ListBindings, SeenAddresses
    <3> QED
      BY <3>1, <3>3, NoPlanDisjointAfter
  <2>4. CASE ListExternal
    <3>1. plan' = NoPlan /\ seen' = seen
      BY <2>4 DEF ListExternal, Goto, UnplannedBefore
    <3> QED
      BY <3>1, NoPlanDisjointAfter DEF SeenAddresses
  <2>5. CASE Listed
    BY <2>5, PlanKept DEF Listed, Goto, UnplannedBefore
  <2> QED
    BY <1>1, <2>1, <2>2, <2>6, <2>3, <2>4, <2>5 DEF Context
<1>2. ASSUME NEW v, Fails(v) \/ Ends(v) PROVE PlanInv'
  <2>1. plan' = NoPlan /\ seen' = {}
    BY <1>2 DEF Fails, Ends
  <2> QED
    BY <2>1, NoPlanDisjointAfter DEF SeenAddresses
<1>3. CASE Planning
  <2>1. CASE ResolveForwards
    <3>1. plan' = NoPlan /\ seen' = seen
      BY <2>1 DEF ResolveForwards
    <3> QED
      BY <3>1, NoPlanDisjointAfter DEF SeenAddresses
  <2>2. CASE PlanEntry
    BY <2>2, PlanEntryDisjoint
  <2>3. CASE ForwardsFail \/ PlanFails
    BY <2>3, <1>2 DEF ForwardsFail, PlanFails
  <2> QED
    BY <1>3, <2>1, <2>2, <2>3 DEF Planning
<1>4. CASE Deciding
  <2>1. CASE ConfigChanged
    BY <2>1, <1>2 DEF ConfigChanged
  <2>2. CASE ReuseRunning \/ PrepareImages \/ CallCompose
    BY <2>2, PlanKept DEF ReuseRunning, PrepareImages, CallCompose, UnplannedBefore
  <2> QED
    BY <1>4, <2>1, <2>2 DEF Deciding
<1>5. CASE Composing
  <2>1. CASE \E v \in Services : ComposeService(v)
    BY <2>1, PlanKept DEF ComposeService, UnplannedBefore
  <2>2. CASE \E v \in Services : \E s \in Clashes(v) : ComposeFails(v, s)
    BY <2>2, <1>2 DEF ComposeFails
  <2>3. CASE Verify
    BY <2>3, PlanKept DEF Verify, UnplannedBefore
  <2>4. CASE VerifyFails \/ Sync
    BY <2>4, <1>2 DEF VerifyFails, Sync
  <2> QED
    BY <1>5, <2>1, <2>2, <2>3, <2>4 DEF Composing
<1>6. CASE Others
  <2>1. UNCHANGED <<pc, req, seen, external, forwards, plan>>
    BY <1>6 DEF Others, Down, Remove, Dies, Takes, Releases
  <2> QED
    BY <2>1, PlanKept DEF UnplannedBefore
<1>7. CASE UNCHANGED vars
  BY <1>7, PlanKept DEF vars, UnplannedBefore
<1> QED
  BY <1>1, <1>3, <1>4, <1>5, <1>6, <1>7 DEF Next

LEMMA InitPlanInv == Init => PlanInv
<1> SUFFICES ASSUME Init PROVE PlanInv
  OBVIOUS
<1>1. plan = NoPlan /\ seen = {}
  BY DEF Init, NoPlan
<1> QED
  BY <1>1, NoPlanDisjoint DEF PlanInv, UnplannedBefore, SeenAddresses

\* No host socket is given out twice, in any Compose file, for any requests, with
\* any programs about, and however containers stop and ports are taken meanwhile.
THEOREM PlanIsDisjoint == Spec => []PlanDisjoint
<1>1. PlanInv => PlanDisjoint
  BY DEF PlanInv
<1> QED
  BY <1>1, InitPlanInv, StepPlanInv, PTL DEF Spec

-----------------------------------------------------------------------------
(* Types.                                                                   *)

\* What a request maps, it maps to endpoints.
LEMMA MapsType ==
  ASSUME req \in Requests \cup {NoRequest}, NEW e \in Mapped
  PROVE  e \in Entry /\ req.maps[e] \in Endpoint
<1>1. CASE req = NoRequest
  BY <1>1 DEF Mapped, NoRequest
<1>2. CASE req \in Requests
  BY <1>2, RequestsAssumption DEF Mapped
<1> QED
  BY <1>1, <1>2

\* The sockets of an endpoint are sockets.
LEMMA SocketsType ==
  ASSUME NEW ep \in Endpoint
  PROVE  Sockets(ep) \subseteq Socket /\ At(ep) \in Socket
BY DEF Endpoint, Sockets, At, Socket, Addresses, Omitted

\* A probe has three outcomes.
LEMMA ProbeType ==
  ASSUME NEW s
  PROVE  Probe(s) \in {"available", "unprobeable", "occupied"}
BY DEF Probe

\* A decision is one: the search ends with the highest port.
LEMMA DecisionType ==
  ASSUME TypeOK, NEW e \in Entry, NEW d \in Decisions(e)
  PROVE  d \in Decision
<1>0. Requested[e] \in Endpoint
  BY RequestedAssumption
<1>1. CASE e \in Mapped
  BY <1>1 DEF Decisions, MappingDecision
<1>2. CASE e \notin Mapped /\ ~req.auto
  BY <1>0, <1>2 DEF Decisions, UnchangedDecision, D, Decision
<1>3. CASE e \notin Mapped /\ req.auto /\ Candidates(e) # {}
  <2>1. PICK b \in Candidates(e) : d = Keep(e, b)
    BY <1>3 DEF Decisions
  <2>2. b \in Binding /\ (b.running \/ Probe(SocketOf(b)) # "occupied")
    BY <2>1 DEF Candidates, Reusable, TypeOK
  <2> QED
    BY <1>0, <2>1, <2>2, ProbeType DEF Keep, D, Decision, Endpoint, Binding
<1>4. CASE e \notin Mapped /\ req.auto /\ Candidates(e) = {}
  <2>1. d \in Allocate(e)
    BY <1>4 DEF Decisions
  <2>2. CASE d \in Relocate(e)
    <3>1. PICK p \in Free(e) : d = D([Requested[e] EXCEPT !.port = p], "available")
      BY <2>2 DEF Relocate, Lowest
    <3>2. p \in Ports
      BY <1>0, <3>1, MaxPortAssumption DEF Free, Ports, Endpoint
    <3>3. [Requested[e] EXCEPT !.port = p] \in Endpoint
      BY <1>0, <3>2 DEF Endpoint
    <3> QED
      BY <3>1, <3>3 DEF D, Decision
  <2>3. CASE d \notin Relocate(e)
    <3>1. d = D(Requested[e], Probe(At(Requested[e]))) /\ Probe(At(Requested[e])) # "occupied"
      BY <2>1, <2>3 DEF Allocate
    <3> QED
      BY <1>0, <3>1, ProbeType DEF D, Decision
  <2> QED
    BY <2>2, <2>3
<1> QED
  BY <1>1, <1>2, <1>3, <1>4

\* What Docker has is of the right type.
DockerType ==
    /\ foreign \subseteq Programs
    /\ container \in [Services -> {"absent", "stopped", "running"}]
    /\ published \in [Entry -> Endpoint]
    /\ label \in {r.maps : r \in Requests \cup {NoRequest}}
Verdicts == {"none", "ok", "changed", "forward", "noport", "mapping", "collision", "race",
             "stopped"}

\* The ends of an up.
LEMMA EndsType ==
  ASSUME DockerType', NEW v \in Verdicts, Ends(v)
  PROVE  TypeOK'
<1>1. req' \in Requests \cup {NoRequest} /\ pc' = "idle" /\ verdict' \in Verdicts
  BY DEF Ends
<1>2. plan' \in [Entry -> Decision \cup {Undecided}]
  BY DEF Ends, NoPlan
<1>3. events' \in 0 .. MaxEvents
  BY MaxEventsAssumption DEF Ends
<1>4. /\ primary' = "absent" /\ stale' \in BOOLEAN /\ fast' \in BOOLEAN /\ force' \in BOOLEAN
      /\ seen' = {} /\ external' = {} /\ forwards' = {} /\ todo' = {} /\ late' = {}
  BY DEF Ends
<1>5. hash' \in {r.maps : r \in Requests \cup {NoRequest}}
  BY DEF Ends, NoRequest
<1> QED
  BY <1>1, <1>2, <1>3, <1>4, <1>5 DEF DockerType, TypeOK, Verdicts

\* What others do during an up stays within the bound.
LEMMA EventType ==
  ASSUME TypeOK, Event PROVE events' \in 0 .. MaxEvents
BY MaxEventsAssumption DEF TypeOK, Event

\* The bindings Docker lists of an entry.
LEMMA BindingsType ==
  ASSUME TypeOK, NEW e \in Entry PROVE Bindings(e) \subseteq Binding
<1>1. published[e] \in Endpoint
  BY DEF TypeOK
<1>2. Service[e] \in Services /\ Target[e] \in {Target[d] : d \in Entry}
  BY DEF Services
<1>3. ASSUME NEW s \in Socket
      PROVE  [service |-> Service[e], target |-> Target[e], ip |-> s.ip, port |-> s.port,
              running |-> container[Service[e]] = "running"] \in Binding
  BY <1>2 DEF Socket, Binding
<1> QED
  BY <1>1, <1>3, SocketsType DEF Bindings

\* What Docker Compose creates is what was planned.
LEMMA CreateType ==
  ASSUME TypeOK, NEW v \in Services, Create(v),
         UNCHANGED foreign, container' \in [Services -> {"absent", "stopped", "running"}]
  PROVE  DockerType'
<1>1. ASSUME NEW e \in Entry PROVE Wanted(e) \in Endpoint
  <2>1. CASE e \in Decided
    <3>1. plan[e] \in Decision
      BY <2>1 DEF TypeOK, Decided
    <3> QED
      BY <2>1, <3>1 DEF Wanted, Decision
  <2>2. CASE e \notin Decided
    BY <2>2, RequestedAssumption DEF Wanted
  <2> QED
    BY <2>1, <2>2
<1>2. published' \in [Entry -> Endpoint]
  BY <1>1 DEF TypeOK, Create
<1>3. req.maps \in {r.maps : r \in Requests \cup {NoRequest}}
  BY DEF TypeOK
<1>4. label' \in {r.maps : r \in Requests \cup {NoRequest}}
  BY <1>3 DEF TypeOK, Create
<1> QED
  BY <1>2, <1>4 DEF TypeOK, DockerType

\* Reading what Docker has keeps the types.
LEMMA ContextType ==
  ASSUME TypeOK, Context PROVE TypeOK'
<1> USE DEF TypeOK, docker, listed, planned, Goto
<1>1. CASE \E r \in Requests : Start(r)
  BY <1>1 DEF Start
<1>2. CASE ListContainers
  BY <1>2 DEF ListContainers
<1>6. CASE ListPrimary
  <2>1. primary' \in {"absent", "stopped", "running"}
    BY <1>6 DEF ListPrimary, Services
  <2> QED
    BY <1>6, <2>1 DEF ListPrimary
<1>3. CASE ListBindings
  <2>1. seen' \subseteq Binding
    BY <1>3, BindingsType DEF ListBindings
  <2> QED
    BY <1>3, <2>1 DEF ListBindings
<1>4. CASE ListExternal
  <2>1. external' \subseteq Socket
    BY <1>4, ProgramsAssumption DEF ListExternal, SocketOf, Socket
  <2> QED
    BY <1>4, <2>1 DEF ListExternal
<1>5. CASE Listed
  BY <1>5 DEF Listed
<1> QED
  BY <1>1, <1>2, <1>3, <1>4, <1>5, <1>6 DEF Context

\* Docker has the same after a failure.
LEMMA FailsType ==
  ASSUME TypeOK, NEW v \in Verdicts, Fails(v) PROVE TypeOK'
<1>1. DockerType'
  BY DEF Fails, docker, TypeOK, DockerType
<1> QED
  BY <1>1, EndsType DEF Fails

\* Planning keeps the types.
LEMMA PlanningType ==
  ASSUME TypeOK, Planning PROVE TypeOK'
<1>1. CASE ResolveForwards
  <2>1. plan' \in [Entry -> Decision \cup {Undecided}]
    BY <1>1 DEF ResolveForwards, NoPlan
  <2>2. forwards' \subseteq Socket
    <3>1. CASE NoForward
      BY <1>1, <3>1 DEF ResolveForwards
    <3>2. CASE ~NoForward
      <4>1. req.forward \in Ports
        BY <3>2, RequestsAssumption DEF NoForward, TypeOK, NoRequest
      <4>2. PICK p \in ForwardPort : forwards' = {Local(p)}
        BY <1>1, <3>2 DEF ResolveForwards
      <4>3. p \in Ports
        BY <4>1, <4>2, MaxPortAssumption DEF ForwardPort, Lowest, FreeForForward, Ports
      <4> QED
        BY <4>2, <4>3 DEF Local, Socket, Addresses
    <3> QED
      BY <3>1, <3>2
  <2> QED
    BY <1>1, <2>1, <2>2 DEF ResolveForwards, TypeOK, docker, listed, Goto
<1>2. CASE PlanEntry
  <2>1. PICK d \in Decisions(NextEntry) : plan' = [plan EXCEPT ![NextEntry] = d]
    BY <1>2 DEF PlanEntry
  <2>2. plan' \in [Entry -> Decision \cup {Undecided}]
    <3>1. CASE NextEntry \in Entry
      <4>1. d \in Decision
        BY <3>1, <2>1, DecisionType
      <4> QED
        BY <2>1, <4>1 DEF TypeOK
    <3>2. CASE NextEntry \notin Entry
      BY <2>1, <3>2 DEF TypeOK
    <3> QED
      BY <3>1, <3>2
  <2> QED
    BY <1>2, <2>2 DEF PlanEntry, TypeOK, docker, listed
<1>3. CASE ForwardsFail
  BY <1>3, FailsType DEF ForwardsFail, Verdicts
<1>4. CASE PlanFails
  BY <1>4, FailsType DEF PlanFails, Verdicts
<1> QED
  BY <1>1, <1>2, <1>3, <1>4 DEF Planning

\* The decision keeps the types.
LEMMA DecidingType ==
  ASSUME TypeOK, Deciding PROVE TypeOK'
<1>1. CASE ConfigChanged
  BY <1>1, FailsType DEF ConfigChanged, Verdicts
<1>2. CASE ReuseRunning
  BY <1>2 DEF ReuseRunning, TypeOK, docker, listed, planned
<1>3. CASE PrepareImages
  BY <1>3 DEF PrepareImages, TypeOK, docker, listed
<1>4. CASE CallCompose
  <2>1. force' \in BOOLEAN
    BY <1>4, RequestsAssumption DEF CallCompose, TypeOK, NoRequest, Moves
  <2> QED
    BY <1>4, <2>1 DEF CallCompose, TypeOK, docker, listed, planned
<1> QED
  BY <1>1, <1>2, <1>3, <1>4 DEF Deciding

\* Docker Compose keeps the types.
LEMMA ComposingType ==
  ASSUME TypeOK, Composing PROVE TypeOK'
<1>1. ASSUME NEW v \in Services, ComposeService(v) PROVE TypeOK'
  <2>1. DockerType'
    <3>1. CASE Starts(v)
      <4>1. container' \in [Services -> {"absent", "stopped", "running"}]
        BY <1>1, <3>1 DEF ComposeService, TypeOK
      <4> QED
        BY <1>1, <3>1, <4>1, CreateType DEF ComposeService
    <3>2. CASE ~Starts(v)
      BY <1>1, <3>2 DEF ComposeService, TypeOK, DockerType, docker
    <3> QED
      BY <3>1, <3>2
  <2> QED
    BY <1>1, <2>1 DEF ComposeService, DockerType, TypeOK, listed, planned
<1>2. ASSUME NEW v \in Services, NEW s \in Clashes(v), ComposeFails(v, s) PROVE TypeOK'
  <2>1. container' \in [Services -> {"absent", "stopped", "running"}]
    BY <1>2 DEF ComposeFails, TypeOK
  <2>2. DockerType'
    BY <1>2, <2>1, CreateType DEF ComposeFails
  <2>3. Diagnosis(s) \in Verdicts
    BY DEF Diagnosis, Verdicts
  <2> QED
    BY <1>2, <2>2, <2>3, EndsType DEF ComposeFails
<1>3. CASE Verify
  BY <1>3 DEF Verify, TypeOK, docker, listed, planned
<1>4. CASE VerifyFails
  BY <1>4, FailsType DEF VerifyFails, Verdicts
<1>5. CASE Sync
  <2>1. DockerType'
    BY <1>5 DEF Sync, docker, TypeOK, DockerType
  <2> QED
    BY <1>5, <2>1, EndsType DEF Sync, Verdicts
<1> QED
  BY <1>1, <1>2, <1>3, <1>4, <1>5 DEF Composing

\* So does everybody else.
LEMMA OthersType ==
  ASSUME TypeOK, Others PROVE TypeOK'
<1> USE DEF TypeOK, listed, planned, docker
<1>1. events' \in 0 .. MaxEvents
  BY EventType DEF Others, Down, Remove, Dies, Takes, Releases
<1>2. CASE Down
  BY <1>1, <1>2 DEF Down
<1>3. CASE Remove
  <2>1. <<>> \in {r.maps : r \in Requests \cup {NoRequest}}
    BY DEF NoRequest
  <2> QED
    BY <1>1, <1>3, <2>1, RequestedAssumption DEF Remove
<1>4. CASE \E v \in Services : Dies(v)
  BY <1>1, <1>4 DEF Dies
<1>5. ASSUME NEW f \in Programs, Takes(f) PROVE TypeOK'
  <2>1. SocketOf(f) \in Socket
    BY ProgramsAssumption DEF SocketOf, Socket
  <2>2. late' \subseteq Socket
    BY <1>5, <2>1 DEF Takes
  <2> QED
    BY <1>1, <1>5, <2>2 DEF Takes
<1>6. ASSUME NEW f \in foreign, Releases(f) PROVE TypeOK'
  BY <1>1, <1>6 DEF Releases
<1> QED
  BY <1>2, <1>3, <1>4, <1>5, <1>6 DEF Others

LEMMA InitTypeOK == Init => TypeOK
<1> SUFFICES ASSUME Init PROVE TypeOK
  OBVIOUS
<1>1. {label, hash} \subseteq {r.maps : r \in Requests \cup {NoRequest}}
  BY DEF Init, NoRequest
<1>2. plan \in [Entry -> Decision \cup {Undecided}]
  BY DEF Init
<1>3. published \in [Entry -> Endpoint] /\ events \in 0 .. MaxEvents
  BY RequestedAssumption, MaxEventsAssumption DEF Init
<1> QED
  BY <1>1, <1>2, <1>3 DEF Init, TypeOK

LEMMA NextTypeOK ==
  ASSUME TypeOK, [Next]_vars
  PROVE  TypeOK'
<1>1. CASE UNCHANGED vars
  BY <1>1 DEF TypeOK, vars, docker, listed, planned
<1> QED
  BY <1>1, ContextType, PlanningType, DecidingType, ComposingType, OthersType DEF Next

\* The state is of its type: no decision leaves the ports, and none is made that a
\* probe has found occupied.
THEOREM TypeCorrect == Spec => []TypeOK
BY InitTypeOK, NextTypeOK, PTL DEF Spec

-----------------------------------------------------------------------------
(* Who has a socket.                                                        *)

RunningEntries == {d \in Entry : container[Service[d]] = "running"}
\* Nobody binds what another one has bound.
Bound ==
    \A d \in RunningEntries : \A t \in Sockets(published[d]) :
        /\ \A f \in foreign : ~Conflict(SocketOf(f), t)
        /\ \A c \in RunningEntries \ {d} : \A u \in Sockets(published[c]) : ~Conflict(u, t)

\* Who is in the way of a socket has come since Docker was listed.
Newcomers(s) == \A f \in foreign : Conflict(SocketOf(f), s) => SocketOf(f) \in late
\* Bindings of one port of one service.
SamePort(b, c) == b.service = c.service /\ b.target = c.target
\* The list has what runs; containers in it do not get in each other's way.
SeenInv ==
    /\ pc \in {"idle", "containers", "primary", "bindings"} => seen = {}
    /\ pc \in {"external", "listed", "forwards", "planning"} =>
         /\ \A b \in seen : b.running =>
              /\ Newcomers(SocketOf(b))
              /\ \A c \in seen : c.running /\ ~SamePort(b, c) => ~Conflict(SocketOf(c), SocketOf(b))
         /\ PlanningEnabled => \A d \in RunningEntries : \A t \in Sockets(published[d]) :
              \E b \in seen : b.running /\ b.service = Service[d] /\ SocketOf(b) = t

\* Docker Compose has not come to these yet.
Untouched == {d \in RunningEntries : pc = "compose" => Service[d] \in todo}
\* What the planner found available only newcomers can have: no container that still
\* runs as it did has it, unless it is of the same service.
PlannedInv ==
    pc \in {"forwards", "planning", "compose"} =>
        \A e \in Decided \ Mapped : plan[e].probe = "available" =>
            /\ req.auto
            /\ Newcomers(At(plan[e].ep))
            /\ \A d \in Untouched : Service[d] # Service[e] =>
                 \A t \in Sockets(published[d]) : ~Conflict(t, At(plan[e].ep))
\* What Docker Compose has seen to is as planned.
CreatedInv ==
    pc = "compose" =>
        /\ Entries \subseteq Decided
        /\ \A d \in RunningEntries \ Untouched : published[d] = Wanted(d)

RaceInv == TypeOK /\ PlanInv /\ Bound /\ SeenInv /\ PlannedInv /\ CreatedInv

\* A socket of a running container is held.
LEMMA RunningSockets ==
  ASSUME NEW vs, NEW d \in RunningEntries, Service[d] \in vs, NEW t \in Sockets(published[d])
  PROVE  t \in RunningPorts(vs)
BY DEF RunningEntries, RunningPorts

\* Nobody has what a probe finds available.
LEMMA AvailableIsFree ==
  ASSUME NEW s, Probe(s) = "available"
  PROVE  /\ \A f \in foreign : ~Conflict(SocketOf(f), s)
         /\ \A d \in RunningEntries : \A t \in Sockets(published[d]) : ~Conflict(t, s)
<1>1. ~Taken(Held, s)
  BY DEF Probe
<1>2. \A f \in foreign : SocketOf(f) \in Held
  BY DEF Held
<1>3. ASSUME NEW d \in RunningEntries, NEW t \in Sockets(published[d]) PROVE t \in Held
  <2>1. Service[d] \in Services
    BY DEF RunningEntries, Services
  <2> QED
    BY <2>1, RunningSockets DEF Held
<1> QED
  BY <1>1, <1>2, <1>3 DEF Taken

\* Containers end, programs release what they have.
OnlyLess ==
    /\ foreign' \subseteq foreign
    /\ \A d \in RunningEntries' : d \in RunningEntries /\ published'[d] = published[d]

\* Only two kinds of steps bind anything.
LEMMA WhoBinds ==
  ASSUME TypeOK, [Next]_vars
  PROVE  \/ OnlyLess
         \/ \E f \in Programs : Takes(f)
         \/ \E v \in Services : ComposeService(v) /\ Starts(v)
<1>1. ASSUME UNCHANGED docker, foreign' \subseteq foreign PROVE OnlyLess
  BY <1>1 DEF OnlyLess, RunningEntries, docker
<1>2. CASE UNCHANGED vars \/ Context \/ Deciding
  BY <1>1, <1>2 DEF vars, Context, Start, ListContainers, ListPrimary, ListBindings, ListExternal,
       Listed, Deciding, ConfigChanged, Fails, ReuseRunning, PrepareImages, CallCompose
<1>3. CASE Planning
  BY <1>1, <1>3 DEF Planning, ResolveForwards, ForwardsFail, PlanEntry, PlanFails, Fails
<1>4. CASE \E v \in Services : ComposeService(v) /\ ~Starts(v)
  BY <1>1, <1>4 DEF ComposeService
<1>5. ASSUME NEW v \in Services, NEW s, ComposeFails(v, s) PROVE OnlyLess
  <2>1. foreign' = foreign /\ container' = [container EXCEPT ![v] = "stopped"]
    BY <1>5 DEF ComposeFails
  <2>2. \A d \in Entry : Service[d] # v => published'[d] = published[d]
    BY <1>5 DEF ComposeFails, Create, EntriesOf
  <2> QED
    BY <2>1, <2>2 DEF OnlyLess, RunningEntries, TypeOK
<1>6. CASE Verify \/ VerifyFails \/ Sync
  BY <1>1, <1>6 DEF Verify, VerifyFails, Sync, Fails, docker
<1>7. CASE Down \/ Remove \/ \E v \in Services : Dies(v)
  <2>1. ASSUME NEW d \in Entry, container'[Service[d]] = "running"
        PROVE  container[Service[d]] = "running" /\ published'[d] = published[d]
    <3>1. Service[d] \in Services
      BY DEF Services
    <3> QED
      BY <1>7, <2>1, <3>1 DEF Down, Remove, Dies, TypeOK
  <2> QED
    BY <1>7, <2>1 DEF OnlyLess, RunningEntries, Down, Remove, Dies
<1>8. CASE \E f \in foreign : Releases(f)
  BY <1>1, <1>8 DEF Releases
<1> QED
  BY <1>2, <1>3, <1>4, <1>5, <1>6, <1>7, <1>8 DEF Next, Composing, Others

\* Nobody binds what another one has bound.
LEMMA BoundStep ==
  ASSUME TypeOK, Bound, [Next]_vars
  PROVE  Bound'
<1>1. CASE OnlyLess
  BY <1>1 DEF Bound, OnlyLess
<1>2. ASSUME NEW f \in Programs, Takes(f) PROVE Bound'
  <2>1. foreign' = foreign \cup {f} /\ published' = published /\ RunningEntries' = RunningEntries
    BY <1>2 DEF Takes, docker, RunningEntries
  <2>2. ASSUME NEW d \in RunningEntries, NEW t \in Sockets(published[d])
        PROVE  ~Conflict(SocketOf(f), t)
    <3>1. Service[d] \in Services /\ ~Taken(Held, SocketOf(f))
      BY <1>2 DEF RunningEntries, Services, Takes
    <3>2. t \in Held
      BY <3>1, RunningSockets DEF Held
    <3> QED
      BY <3>1, <3>2, ConflictSymmetric DEF Taken
  <2> QED
    BY <2>1, <2>2 DEF Bound
<1>3. ASSUME NEW v \in Services, ComposeService(v), Starts(v) PROVE Bound'
  <2>1. /\ foreign' = foreign /\ Clashes(v) = {}
        /\ container' = [container EXCEPT ![v] = "running"]
        /\ published' = [e \in Entry |-> IF e \in EntriesOf(v) THEN Wanted(e) ELSE published[e]]
    BY <1>3 DEF ComposeService, Create
  <2>2. ASSUME NEW d \in RunningEntries', Service[d] # v
        PROVE  d \in RunningEntries /\ published'[d] = published[d]
    BY <2>1, <2>2 DEF RunningEntries, EntriesOf, TypeOK
  <2>3. ASSUME NEW d \in RunningEntries', Service[d] = v, NEW t \in Sockets(published'[d])
        PROVE  /\ \A f \in foreign : ~Conflict(SocketOf(f), t)
               /\ \A c \in RunningEntries' \ {d} : \A u \in Sockets(published'[c]) : ~Conflict(u, t)
    <3>1. d \in EntriesOf(v) /\ t \in Sockets(Wanted(d))
      BY <2>1, <2>3 DEF RunningEntries, EntriesOf
    <3>2. /\ ~Taken({SocketOf(f) : f \in foreign} \cup RunningPorts(Services \ {v}), t)
          /\ \A c \in EntriesOf(v) \ {d} : ~Taken(Sockets(Wanted(c)), t)
      BY <2>1, <3>1 DEF Clashes
    <3>3. ASSUME NEW c \in RunningEntries', Service[c] # v, NEW u \in Sockets(published'[c])
          PROVE  u \in RunningPorts(Services \ {v})
      <4>1. c \in RunningEntries /\ u \in Sockets(published[c]) /\ Service[c] \in Services \ {v}
        BY <2>2, <3>3 DEF RunningEntries, Services
      <4> QED
        BY <4>1, RunningSockets
    <3>4. ASSUME NEW c \in RunningEntries' \ {d}, Service[c] = v
          PROVE  c \in EntriesOf(v) \ {d} /\ published'[c] = Wanted(c)
      BY <2>1, <3>4 DEF RunningEntries, EntriesOf
    <3> QED
      BY <3>2, <3>3, <3>4 DEF Taken
  <2>4. ASSUME NEW d \in RunningEntries', NEW t \in Sockets(published'[d]), NEW f \in foreign
        PROVE  ~Conflict(SocketOf(f), t)
    BY <2>2, <2>3 DEF Bound
  <2>5. ASSUME NEW d \in RunningEntries', NEW t \in Sockets(published'[d]),
               NEW c \in RunningEntries' \ {d}, NEW u \in Sockets(published'[c])
        PROVE  ~Conflict(u, t)
    <3>1. CASE Service[d] = v
      BY <2>3, <2>5, <3>1
    <3>2. CASE Service[c] = v
      BY <2>3, <2>5, <3>2, ConflictSymmetric
    <3>3. CASE Service[d] # v /\ Service[c] # v
      BY <2>2, <2>5, <3>3 DEF Bound
    <3> QED
      BY <3>1, <3>2, <3>3
  <2> QED
    BY <2>1, <2>4, <2>5 DEF Bound
<1> QED
  BY <1>1, <1>2, <1>3, WhoBinds

\* Once the containers of others are listed, who comes is noticed.
LEMMA NewcomersStay ==
  ASSUME Others, pc \in {"external", "listed", "forwards", "planning", "compose"},
         NEW s, Newcomers(s)
  PROVE  \A f \in foreign' : Conflict(SocketOf(f), s) => SocketOf(f) \in late'
<1>1. ASSUME NEW f \in Programs, Takes(f)
      PROVE  foreign' = foreign \cup {f} /\ late' = late \cup {SocketOf(f)}
  BY <1>1 DEF Takes
<1>2. CASE \E f \in Programs : Takes(f)
  BY <1>1, <1>2 DEF Newcomers
<1>3. CASE ~\E f \in Programs : Takes(f)
  <2>1. foreign' \subseteq foreign /\ late' = late
    BY <1>3 DEF Others, Down, Remove, Dies, Releases
  <2> QED
    BY <2>1 DEF Newcomers
<1> QED
  BY <1>2, <1>3

\* What others do leaves the up where it is, and binds nothing for a container.
LEMMA OthersAside ==
  ASSUME TypeOK, Others
  PROVE  /\ UNCHANGED <<pc, req, seen, external, forwards, plan, todo>>
         /\ \A d \in RunningEntries' : d \in RunningEntries /\ published'[d] = published[d]
<1>1. UNCHANGED <<pc, req, seen, external, forwards, plan, todo>>
  BY DEF Others, Down, Remove, Dies, Takes, Releases, listed, planned
<1>2. CASE OnlyLess
  BY <1>1, <1>2 DEF OnlyLess
<1>3. CASE \E f \in Programs : Takes(f)
  BY <1>1, <1>3 DEF Takes, docker, RunningEntries
<1>4. CASE \E v \in Services : ComposeService(v) /\ Starts(v)
  <2>1. pc = "compose" /\ \E v \in Services : todo' = todo \ {v} /\ v \in todo
    BY <1>4 DEF ComposeService
  <2> QED
    BY <1>1, <2>1
<1>5. [Next]_vars
  BY DEF Next
<1> QED
  BY <1>2, <1>3, <1>4, <1>5, WhoBinds

\* The list of the bindings has what runs, and Docker has no more than that.
LEMMA ListBindingsSeen ==
  ASSUME TypeOK, Bound, ListBindings
  PROVE  SeenInv'
<1>1. /\ pc' = "external" /\ UNCHANGED <<foreign, docker, req, late>>
      /\ seen' = UNION {Bindings(e) : e \in {d \in Entry : container[Service[d]] # "absent"}}
  BY DEF ListBindings, Goto, planned
<1>2. ASSUME NEW b \in seen', b.running
      PROVE  \E d \in RunningEntries : SameTarget(b, d) /\ SocketOf(b) \in Sockets(published[d])
  <2>1. PICK d \in Entry : b \in Bindings(d)
    BY <1>1
  <2>2. PICK s \in IF container[Service[d]] = "running" THEN Sockets(published[d])
                   ELSE {At(published[d])} :
             b = [service |-> Service[d], target |-> Target[d], ip |-> s.ip, port |-> s.port,
                  running |-> container[Service[d]] = "running"]
    BY <2>1 DEF Bindings
  <2>3. container[Service[d]] = "running" /\ SameTarget(b, d) /\ SocketOf(b) = [ip |-> s.ip, port |-> s.port]
    BY <1>2, <2>2 DEF SocketOf, SameTarget
  <2>4. s \in Sockets(published[d]) /\ s \in Socket
    BY <2>2, <2>3, SocketsType DEF TypeOK
  <2>5. SocketOf(b) = s
    BY <2>3, <2>4 DEF Socket
  <2> QED
    BY <2>3, <2>4, <2>5 DEF RunningEntries
<1>3. ASSUME NEW d \in RunningEntries, NEW t \in Sockets(published[d])
      PROVE  \E b \in seen' : b.running /\ b.service = Service[d] /\ SocketOf(b) = t
  <2> DEFINE b == [service |-> Service[d], target |-> Target[d], ip |-> t.ip, port |-> t.port,
                   running |-> container[Service[d]] = "running"]
  <2>1. b \in Bindings(d) /\ d \in Entry /\ container[Service[d]] = "running"
    BY <1>3 DEF Bindings, RunningEntries
  <2>2. b \in seen'
    BY <1>1, <2>1
  <2>3. t \in Socket
    BY <2>1, SocketsType DEF TypeOK
  <2>4. b.running /\ b.service = Service[d] /\ SocketOf(b) = t
    BY <2>1, <2>3 DEF SocketOf, Socket
  <2> QED
    BY <2>2, <2>4
<1>4. ASSUME NEW b \in seen', b.running, NEW f \in foreign
      PROVE  ~Conflict(SocketOf(f), SocketOf(b))
  BY <1>2, <1>4 DEF Bound
<1>5. ASSUME NEW b \in seen', b.running, NEW c \in seen', c.running, ~SamePort(b, c)
      PROVE  ~Conflict(SocketOf(c), SocketOf(b))
  <2>1. PICK d \in RunningEntries : SameTarget(b, d) /\ SocketOf(b) \in Sockets(published[d])
    BY <1>2, <1>5
  <2>2. PICK e \in RunningEntries : SameTarget(c, e) /\ SocketOf(c) \in Sockets(published[e])
    BY <1>2, <1>5
  <2> QED
    BY <1>5, <2>1, <2>2 DEF Bound, SameTarget, SamePort
<1>6. foreign' = foreign /\ published' = published /\ RunningEntries' = RunningEntries
  BY <1>1 DEF docker, RunningEntries
<1> QED
  BY <1>1, <1>3, <1>4, <1>5, <1>6 DEF SeenInv, Newcomers

\* What was listed stays true of what runs, but for newcomers.
LEMMA SeenStep ==
  ASSUME TypeOK, Bound, SeenInv, [Next]_vars
  PROVE  SeenInv'
<1>1. ASSUME UNCHANGED <<foreign, docker, req, seen, late>>,
             pc' \in {"external", "listed", "forwards", "planning"}
               => pc \in {"external", "listed", "forwards", "planning"} \/ (seen = {} /\ ~PlanningEnabled),
             pc' \in {"idle", "containers", "primary", "bindings"} => seen = {}
      PROVE  SeenInv'
  <2>1. RunningEntries' = RunningEntries /\ published' = published /\ PlanningEnabled' = PlanningEnabled
    BY <1>1 DEF docker, RunningEntries, PlanningEnabled
  <2> QED
    BY <1>1, <2>1 DEF SeenInv, Newcomers
<1>2. CASE UNCHANGED vars
  BY <1>1, <1>2 DEF vars, listed, SeenInv
<1>3. CASE Context
  <2>1. CASE \E r \in Requests : Start(r)
    <3>1. pc' = "containers" /\ seen' = {}
      BY <2>1 DEF Start, Goto, listed, SeenInv
    <3> QED
      BY <3>1 DEF SeenInv
  <2>2. CASE ListContainers \/ ListPrimary
    BY <1>1, <2>2 DEF ListContainers, ListPrimary, Goto, SeenInv
  <2>3. CASE ListBindings
    BY <2>3, ListBindingsSeen
  <2>4. CASE ListExternal \/ Listed
    BY <1>1, <2>4 DEF ListExternal, Listed, Goto, listed
  <2> QED
    BY <1>3, <2>1, <2>2, <2>3, <2>4 DEF Context
<1>4. ASSUME NEW v, Ends(v) PROVE SeenInv'
  BY <1>4 DEF Ends, SeenInv
<1>5. CASE Planning
  <2>1. CASE ResolveForwards \/ PlanEntry
    BY <1>1, <2>1 DEF ResolveForwards, PlanEntry, Goto, listed
  <2> QED
    BY <1>4, <1>5, <2>1 DEF Planning, ForwardsFail, PlanFails, Fails
<1>6. CASE Deciding
  <2>1. CASE ReuseRunning \/ PrepareImages \/ CallCompose
    BY <1>1, <2>1 DEF ReuseRunning, PrepareImages, CallCompose, Finished, listed
  <2> QED
    BY <1>4, <1>6, <2>1 DEF Deciding, ConfigChanged, Fails
<1>7. CASE Composing
  <2>1. CASE (\E v \in Services : ComposeService(v)) \/ Verify
    BY <2>1 DEF ComposeService, Verify, SeenInv
  <2> QED
    BY <1>4, <1>7, <2>1 DEF Composing, ComposeFails, VerifyFails, Sync, Fails
<1>8. CASE Others
  <2>1. /\ UNCHANGED <<pc, req, seen>>
        /\ \A d \in RunningEntries' : d \in RunningEntries /\ published'[d] = published[d]
    BY <1>8, OthersAside
  <2>2. PlanningEnabled' = PlanningEnabled
    BY <2>1 DEF PlanningEnabled
  <2>3. ASSUME pc \in {"external", "listed", "forwards", "planning"}, NEW b \in seen, b.running,
               NEW f \in foreign', Conflict(SocketOf(f), SocketOf(b))
        PROVE  SocketOf(f) \in late'
    <3>1. Newcomers(SocketOf(b))
      BY <2>3 DEF SeenInv
    <3> QED
      BY <1>8, <2>3, <3>1, NewcomersStay
  <2> QED
    BY <2>1, <2>2, <2>3 DEF SeenInv, Newcomers
<1> QED
  BY <1>2, <1>3, <1>5, <1>6, <1>7, <1>8 DEF Next

\* An endpoint is planned as available only if nobody has it but newcomers and the
\* entry's own service.
LEMMA DecisionIsFree ==
  ASSUME TypeOK, Bound, SeenInv, pc = "planning", PlanningEnabled,
         NEW e \in Entry \ Mapped, NEW d \in Decisions(e), d.probe = "available"
  PROVE  /\ req.auto
         /\ Newcomers(At(d.ep))
         /\ \A c \in RunningEntries : Service[c] # Service[e] =>
              \A t \in Sockets(published[c]) : ~Conflict(t, At(d.ep))
<1>0. ASSUME Probe(At(d.ep)) = "available"
      PROVE  /\ Newcomers(At(d.ep))
             /\ \A c \in RunningEntries : \A t \in Sockets(published[c]) : ~Conflict(t, At(d.ep))
  BY <1>0, AvailableIsFree DEF Newcomers
<1>1. req.auto
  BY DEF Decisions, UnchangedDecision, D
<1>2. CASE Candidates(e) # {}
  <2>1. PICK b \in Candidates(e) : d = Keep(e, b)
    BY <1>1, <1>2 DEF Decisions
  <2>2. b \in seen /\ b \in Binding /\ b.service = Service[e]
    BY <2>1 DEF Candidates, Reusable, SameTarget, TypeOK
  <2>3. At(d.ep) = SocketOf(b)
    BY <2>1, <2>2, RequestedType DEF Keep, D, At, SocketOf, Binding, Addresses, Omitted
  <2>4. CASE b.running
    <3>1. /\ Newcomers(SocketOf(b))
          /\ \A c \in seen : c.running /\ ~SamePort(b, c) => ~Conflict(SocketOf(c), SocketOf(b))
          /\ \A c \in RunningEntries : \A t \in Sockets(published[c]) :
               \E x \in seen : x.running /\ x.service = Service[c] /\ SocketOf(x) = t
      BY <2>2, <2>4 DEF SeenInv
    <3>2. ASSUME NEW c \in RunningEntries, Service[c] # Service[e], NEW t \in Sockets(published[c])
          PROVE  ~Conflict(t, SocketOf(b))
      <4>1. PICK x \in seen : x.running /\ x.service = Service[c] /\ SocketOf(x) = t
        BY <3>1, <3>2
      <4> QED
        BY <2>2, <3>1, <3>2, <4>1 DEF SamePort
    <3> QED
      BY <1>1, <2>3, <3>1, <3>2
  <2>5. CASE ~b.running
    <3>1. d.probe = Probe(SocketOf(b))
      BY <2>1, <2>5 DEF Keep, D
    <3> QED
      BY <1>0, <1>1, <2>3, <3>1
  <2> QED
    BY <2>4, <2>5
<1>3. CASE Candidates(e) = {}
  <2>1. d \in Allocate(e)
    BY <1>1, <1>3 DEF Decisions
  <2>2. CASE d \in Relocate(e)
    <3>1. PICK p \in Free(e) : d = D([Requested[e] EXCEPT !.port = p], "available")
      BY <2>2 DEF Relocate, Lowest
    <3>2. At(d.ep) = [At(Requested[e]) EXCEPT !.port = p]
      BY <3>1, RequestedType DEF D
    <3> QED
      BY <1>0, <1>1, <3>1, <3>2 DEF Free
  <2>3. CASE d \notin Relocate(e)
    <3>1. d = D(Requested[e], Probe(At(Requested[e])))
      BY <2>1, <2>3 DEF Allocate
    <3>2. d.probe = Probe(At(d.ep))
      BY <3>1 DEF D
    <3> QED
      BY <1>0, <1>1, <3>2
  <2> QED
    BY <2>2, <2>3
<1> QED
  BY <1>2, <1>3

\* What was planned as available stays free of all but newcomers.
LEMMA PlannedStep ==
  ASSUME TypeOK, PlanInv, Bound, SeenInv, PlannedInv, [Next]_vars
  PROVE  PlannedInv'
<1>1. ASSUME UNCHANGED <<foreign, docker, req, plan, late>>,
             pc' \in {"forwards", "planning", "compose"} =>
               /\ pc \in {"listed", "forwards", "planning", "compose"}
               /\ Untouched' \subseteq Untouched
      PROVE  PlannedInv'
  <2> SUFFICES ASSUME pc' \in {"forwards", "planning", "compose"},
                      NEW e \in Decided' \ Mapped', plan'[e].probe = "available"
               PROVE  /\ req'.auto
                      /\ Newcomers(At(plan[e].ep))'
                      /\ \A d \in Untouched' : Service[d] # Service[e] =>
                           \A t \in Sockets(published'[d]) : ~Conflict(t, At(plan'[e].ep))
    BY DEF PlannedInv
  <2>1. e \in Decided \ Mapped /\ plan'[e] = plan[e] /\ published' = published /\ req' = req
    BY <1>1 DEF docker, Decided, Mapped
  <2>2. pc # "listed"
    BY <2>1 DEF PlanInv, UnplannedBefore, Decided, NoPlan
  <2>3. /\ req.auto /\ Newcomers(At(plan[e].ep))
        /\ \A d \in Untouched : Service[d] # Service[e] =>
             \A t \in Sockets(published[d]) : ~Conflict(t, At(plan[e].ep))
    BY <1>1, <2>1, <2>2 DEF PlannedInv
  <2> QED
    BY <1>1, <2>1, <2>3 DEF Newcomers
<1>2. CASE UNCHANGED vars
  <2>1. Untouched' = Untouched
    BY <1>2 DEF vars, docker, Untouched, RunningEntries
  <2> QED
    BY <1>1, <1>2, <2>1 DEF vars, planned, PlannedInv
<1>3. CASE Context
  <2>1. pc' \in {"forwards", "planning", "compose"} => Listed
    BY <1>3 DEF Context, Start, ListContainers, ListPrimary, ListBindings, ListExternal, Goto
  <2>2. CASE Listed
    <3>1. Untouched' \subseteq Untouched
      BY <2>2 DEF Listed, Goto, docker, Untouched, RunningEntries
    <3> QED
      BY <1>1, <2>2, <3>1 DEF Listed, Goto
  <2> QED
    BY <2>1, <2>2 DEF PlannedInv
<1>4. ASSUME NEW v, Ends(v) PROVE PlannedInv'
  BY <1>4 DEF Ends, PlannedInv
<1>5. CASE ResolveForwards
  <2>1. Decided' = {}
    BY <1>5 DEF ResolveForwards, Decided, NoPlan
  <2> QED
    BY <2>1 DEF PlannedInv
<1>6. CASE PlanEntry
  <2> DEFINE n == NextEntry
  <2>1. PICK d \in Decisions(n) : plan' = [plan EXCEPT ![n] = d]
    BY <1>6 DEF PlanEntry
  <2>2. /\ pc = "planning" /\ Entries \ Decided # {}
        /\ UNCHANGED <<foreign, docker, pc, req, late>>
    BY <1>6 DEF PlanEntry
  <2>3. PlanningEnabled
    BY <2>2 DEF Entries
  <2>4. Untouched \subseteq RunningEntries /\ Untouched' = Untouched /\ Mapped' = Mapped
    BY <2>2 DEF Untouched, RunningEntries, docker, Mapped
  <2> HIDE DEF n
  <2> SUFFICES ASSUME NEW e \in Decided' \ Mapped, plan'[e].probe = "available"
               PROVE  /\ req.auto
                      /\ Newcomers(At(plan'[e].ep))
                      /\ \A c \in Untouched : Service[c] # Service[e] =>
                           \A t \in Sockets(published[c]) : ~Conflict(t, At(plan'[e].ep))
    BY <2>2, <2>4 DEF PlannedInv, Newcomers, docker
  <2>5. e \in Entry /\ plan'[e] = IF e = n THEN d ELSE plan[e]
    BY <2>1 DEF PlanInv, Decided
  <2>6. CASE e = n
    <3>1. e \in Entry \ Mapped /\ d \in Decisions(e) /\ plan'[e] = d
      BY <2>1, <2>5, <2>6
    <3> QED
      BY <2>2, <2>3, <2>4, <3>1, DecisionIsFree
  <2>7. CASE e # n
    <3>1. e \in Decided \ Mapped /\ plan'[e] = plan[e]
      BY <2>5, <2>7 DEF Decided
    <3> QED
      BY <2>2, <3>1 DEF PlannedInv
  <2> QED
    BY <2>6, <2>7
<1>7. CASE Planning
  BY <1>4, <1>5, <1>6, <1>7 DEF Planning, ForwardsFail, PlanFails, Fails
<1>8. CASE Deciding
  <2>1. CASE ReuseRunning
    BY <2>1 DEF ReuseRunning, PlannedInv
  <2>2. CASE PrepareImages \/ CallCompose
    <3>1. UNCHANGED <<foreign, docker, req, plan, late>> /\ pc = "planning"
      BY <2>2 DEF PrepareImages, CallCompose, Finished, planned
    <3>2. Untouched' \subseteq Untouched
      BY <3>1 DEF docker, Untouched, RunningEntries
    <3> QED
      BY <1>1, <3>1, <3>2
  <2> QED
    BY <1>4, <1>8, <2>1, <2>2 DEF Deciding, ConfigChanged, Fails
<1>9. CASE Composing
  <2>1. ASSUME NEW v \in Services, ComposeService(v) PROVE PlannedInv'
    <3>1. /\ UNCHANGED <<foreign, req, plan, late, pc>> /\ pc = "compose"
          /\ todo' = todo \ {v}
      BY <2>1 DEF ComposeService, planned
    <3>2. ASSUME NEW d \in Untouched' PROVE d \in Untouched /\ published'[d] = published[d]
      <4>1. d \in Entry /\ Service[d] # v /\ Service[d] \in todo /\ container'[Service[d]] = "running"
        BY <3>1 DEF Untouched, RunningEntries
      <4>2. container' = container \/ container' = [container EXCEPT ![v] = "running"]
        BY <2>1 DEF ComposeService, docker
      <4>3. container[Service[d]] = "running"
        BY <4>1, <4>2 DEF TypeOK
      <4>4. published'[d] = published[d]
        BY <2>1, <4>1 DEF ComposeService, docker, Create, EntriesOf
      <4> QED
        BY <4>1, <4>3, <4>4 DEF Untouched, RunningEntries
    <3>3. Decided' = Decided /\ Mapped' = Mapped
      BY <3>1 DEF Decided, Mapped
    <3> QED
      BY <3>1, <3>2, <3>3 DEF PlannedInv, Newcomers
  <2>2. CASE Verify
    BY <2>2 DEF Verify, PlannedInv
  <2> QED
    BY <1>4, <1>9, <2>1, <2>2 DEF Composing, ComposeFails, VerifyFails, Sync, Fails
<1>10. CASE Others
  <2>1. /\ UNCHANGED <<pc, req, plan, todo>>
        /\ \A d \in RunningEntries' : d \in RunningEntries /\ published'[d] = published[d]
    BY <1>10, OthersAside
  <2>2. Decided' = Decided /\ Mapped' = Mapped
    BY <2>1 DEF Decided, Mapped
  <2>3. \A d \in Untouched' : d \in Untouched /\ published'[d] = published[d]
    BY <2>1 DEF Untouched
  <2> SUFFICES ASSUME pc \in {"forwards", "planning", "compose"},
                      NEW e \in Decided \ Mapped, plan[e].probe = "available"
               PROVE  /\ req.auto
                      /\ \A f \in foreign' : Conflict(SocketOf(f), At(plan[e].ep)) => SocketOf(f) \in late'
                      /\ \A d \in Untouched' : Service[d] # Service[e] =>
                           \A t \in Sockets(published'[d]) : ~Conflict(t, At(plan[e].ep))
    BY <2>1, <2>2 DEF PlannedInv, Newcomers
  <2>4. Newcomers(At(plan[e].ep))
    BY DEF PlannedInv
  <2>5. \A f \in foreign' : Conflict(SocketOf(f), At(plan[e].ep)) => SocketOf(f) \in late'
    BY <1>10, <2>4, NewcomersStay
  <2> QED
    BY <2>3, <2>5 DEF PlannedInv
<1> QED
  BY <1>2, <1>3, <1>7, <1>8, <1>9, <1>10 DEF Next

\* Docker Compose creates what was planned.
LEMMA CreatedStep ==
  ASSUME TypeOK, CreatedInv, [Next]_vars
  PROVE  CreatedInv'
<1>1. ASSUME UNCHANGED <<req, plan>>
      PROVE  /\ Entries' = Entries /\ Decided' = Decided
             /\ \A d \in Entry : Wanted(d)' = Wanted(d)
  BY <1>1 DEF Entries, PlanningEnabled, Decided, Wanted
<1>2. CASE UNCHANGED vars
  <2>1. UNCHANGED <<req, plan, pc, published>> /\ RunningEntries' = RunningEntries /\ Untouched' = Untouched
    BY <1>2 DEF vars, planned, docker, Untouched, RunningEntries
  <2> QED
    BY <1>1, <2>1 DEF CreatedInv, RunningEntries
<1>3. CASE pc' # "compose"
  BY <1>3 DEF CreatedInv
<1>4. CASE CallCompose
  <2>1. UNCHANGED <<req, plan>> /\ Entries \subseteq Decided /\ todo' = Services
    BY <1>4 DEF CallCompose, Finished, planned
  <2>2. RunningEntries' \subseteq Untouched'
    BY <2>1 DEF RunningEntries, Untouched, Services
  <2> QED
    BY <1>1, <2>1, <2>2 DEF CreatedInv
<1>5. ASSUME NEW v \in Services, ComposeService(v) PROVE CreatedInv'
  <2>1. /\ UNCHANGED <<req, plan, pc>> /\ pc = "compose" /\ todo' = todo \ {v}
    BY <1>5 DEF ComposeService, planned
  <2>2. ASSUME NEW d \in RunningEntries' \ Untouched', Service[d] = v
        PROVE  published'[d] = Wanted(d)
    <3>1. d \in EntriesOf(v)
      BY <2>2 DEF RunningEntries, EntriesOf
    <3>2. CASE Starts(v)
      BY <1>5, <3>1, <3>2 DEF ComposeService, Create, EntriesOf
    <3>3. CASE ~Starts(v)
      BY <1>5, <3>1, <3>3 DEF ComposeService, Starts, Recreated, Differs, docker
    <3> QED
      BY <3>2, <3>3
  <2>3. ASSUME NEW d \in RunningEntries' \ Untouched', Service[d] # v
        PROVE  d \in RunningEntries \ Untouched /\ published'[d] = published[d]
    <3>1. container' = container \/ container' = [container EXCEPT ![v] = "running"]
      BY <1>5 DEF ComposeService, docker
    <3>2. container[Service[d]] = "running"
      <4>1. Service[d] \in Services /\ container'[Service[d]] = "running"
        BY <2>3 DEF RunningEntries, Services
      <4> QED
        BY <2>3, <3>1, <4>1 DEF TypeOK
    <3>3. published'[d] = published[d]
      BY <1>5, <2>3 DEF ComposeService, docker, Create, EntriesOf, RunningEntries
    <3> QED
      BY <2>1, <2>3, <3>2, <3>3 DEF RunningEntries, Untouched
  <2> QED
    BY <1>1, <2>1, <2>2, <2>3 DEF CreatedInv, RunningEntries
<1>6. CASE Others
  <2>1. /\ UNCHANGED <<pc, req, plan, todo>>
        /\ \A d \in RunningEntries' : d \in RunningEntries /\ published'[d] = published[d]
    BY <1>6, OthersAside
  <2>2. \A d \in RunningEntries' \ Untouched' : d \in RunningEntries \ Untouched
    BY <2>1 DEF Untouched
  <2> QED
    BY <1>1, <2>1, <2>2 DEF CreatedInv, RunningEntries
<1>7. CASE Context \/ Planning \/ Deciding
  BY <1>3, <1>4, <1>7 DEF Context, Start, ListContainers, ListPrimary, ListBindings, ListExternal,
       Listed, Goto, Planning, ResolveForwards, ForwardsFail, PlanEntry, PlanFails, Deciding,
       ConfigChanged, ReuseRunning, PrepareImages, Fails, Ends
<1>8. CASE Composing
  BY <1>3, <1>5, <1>8 DEF Composing, ComposeFails, Verify, VerifyFails, Sync, Fails, Ends
<1> QED
  BY <1>2, <1>6, <1>7, <1>8 DEF Next

-----------------------------------------------------------------------------
(* Races.                                                                   *)

\* A set of numbers has a least one, and Min is in the set.
LEMMA LeastNumber == ASSUME NEW S \in SUBSET Nat, S # {} PROVE \E x \in S : \A y \in S : ~(y < x)
<1> DEFINE R == OpToRel(<, Nat)
<1>1. IsWellFoundedOn(R, Nat)
  BY NatLessThanWellFounded
<1>2. \E x \in S : \A y \in S : <<y, x>> \notin R
  <2> HIDE DEF R
  <2> QED
    BY <1>1, WFMin
<1>3. \A x, y \in Nat : y < x => <<y, x>> \in R
  BY DEF OpToRel
<1> QED
  BY <1>2, <1>3

LEMMA MinIn == ASSUME NEW S \in SUBSET Entry, S # {} PROVE Min(S) \in S
<1>1. S \in SUBSET Nat
  BY EntryAssumption
<1>2. PICK x \in S : \A y \in S : ~(y < x)
  BY <1>1, LeastNumber
<1>3. \A y \in S : x <= y
  BY <1>1, <1>2
<1> QED
  BY <1>3 DEF Min

\* Of the sockets of an endpoint, the planner looks at the one that is not IPv6.
LEMMA PlannedSocket ==
  ASSUME NEW ep \in Endpoint, NEW s \in Sockets(ep), s.ip # "::"
  PROVE  s = At(ep)
BY DEF Endpoint, Sockets, At

\* What gets in the way of an IPv4 socket is an IPv4 socket.
LEMMA SameFamily ==
  ASSUME NEW s, NEW t, Conflict(t, s), s.ip # "::"
  PROVE  t.ip # "::"
BY DEF Conflict, IpsConflict

\* The entry that a race is blamed on is the one that wants the socket.
LEMMA MentionedWants ==
  ASSUME RaceInv, pc = "compose", NEW w \in Entry, NEW s \in Sockets(Wanted(w)), s.ip # "::",
         Diagnosis(s) = "race"
  PROVE  /\ PlanningEnabled /\ req.auto
         /\ w \in Decided \ Mapped /\ plan[w].probe = "available" /\ At(plan[w].ep) = s
<1>1. /\ PlanningEnabled /\ Entry \subseteq Decided
      /\ \A x \in Entry : plan[x] \in Decision /\ plan[x].ep \in Endpoint /\ Wanted(x) = plan[x].ep
  <2>1. PlanningEnabled
    BY DEF Diagnosis
  <2>2. Entry \subseteq Decided
    BY <2>1 DEF RaceInv, CreatedInv, Entries
  <2>3. \A x \in Entry : plan[x] \in Decision
    BY <2>2 DEF RaceInv, TypeOK, Decided
  <2> QED
    BY <2>1, <2>2, <2>3 DEF Wanted, Decision
<1>2. At(plan[w].ep) = s /\ s \in Socket
  BY <1>1, PlannedSocket, SocketsType
<1>3. w \in Mentioned(s)
  BY <1>1 DEF Mentioned, Sockets
<1> DEFINE e == Min(Mentioned(s))
<1>4. e \in Mentioned(s)
  <2>1. Mentioned(s) \in SUBSET Entry
    BY <1>1 DEF Mentioned, Decided
  <2> QED
    BY <1>3, <2>1, MinIn
<1>5. e \notin Mapped /\ plan[e].probe # "unprobeable"
  BY DEF Diagnosis
<1> HIDE DEF e
<1>6. e \in Entry /\ e \in Decided /\ Wanted(e).port = s.port /\ Wanted(e).ip \in {Omitted, s.ip}
  BY <1>1, <1>4 DEF Mentioned, Decided
<1>7. plan[e].probe = "available"
  BY <1>1, <1>5, <1>6 DEF Decision
<1>8. req.auto
  BY <1>5, <1>6, <1>7 DEF RaceInv, PlannedInv
<1>9. Conflict(s, At(plan[e].ep))
  <2>1. s.ip \in {"0.0.0.0", "127.0.0.1"}
    BY <1>2 DEF Socket, Addresses
  <2>2. plan[e].ep.port = s.port /\ plan[e].ep.ip \in {Omitted, s.ip}
    BY <1>1, <1>6
  <2> QED
    BY <2>1, <2>2 DEF Conflict, IpsConflict, At, Omitted
<1>10. w = e
  BY <1>1, <1>2, <1>6, <1>8, <1>9 DEF RaceInv, PlanInv, PlanDisjoint
<1> QED
  BY <1>1, <1>2, <1>5, <1>7, <1>8, <1>10

\* It is blamed on a newcomer only if there is one.
LEMMA RaceBlame ==
  ASSUME RaceInv, NEW v \in Services, NEW s \in Clashes(v), ComposeFails(v, s),
         Diagnosis(s) = "race", s.ip # "::"
  PROVE  Taken(late, s)
<1>1. pc = "compose" /\ v \in todo
  BY DEF ComposeFails
<1>2. ASSUME NEW x \in EntriesOf(v), s \in Sockets(Wanted(x))
      PROVE  /\ PlanningEnabled /\ req.auto
             /\ x \in Decided \ Mapped /\ plan[x].probe = "available" /\ At(plan[x].ep) = s
  BY <1>1, <1>2, MentionedWants DEF EntriesOf
<1>3. PICK e \in EntriesOf(v) : s \in Sockets(Wanted(e))
  BY DEF Clashes
<1>4. e \in Decided \ Mapped /\ At(plan[e].ep) = s /\ Entry \subseteq Decided /\ Service[e] = v
  BY <1>1, <1>2, <1>3 DEF RaceInv, CreatedInv, Entries, EntriesOf
<1>5. /\ req.auto /\ Newcomers(s)
      /\ \A d \in Untouched : Service[d] # v =>
           \A t \in Sockets(published[d]) : ~Conflict(t, s)
  BY <1>1, <1>2, <1>3, <1>4 DEF RaceInv, PlannedInv
<1>6. ASSUME NEW d \in Entry \ {e}, NEW t \in Sockets(Wanted(d)) PROVE ~Conflict(t, s)
  <2>1. d \in Decided /\ Wanted(d) = plan[d].ep /\ plan[d].ep \in Endpoint
    <3>1. d \in Decided /\ plan[d] \in Decision
      BY <1>4 DEF RaceInv, TypeOK, Decided
    <3> QED
      BY <3>1 DEF Wanted, Decision
  <2>2. ~Conflict(At(plan[d].ep), s)
    BY <1>4, <1>5, <2>1 DEF RaceInv, PlanInv, PlanDisjoint
  <2> QED
    BY <2>1, <2>2, PlannedSocket, SameFamily
<1>7. CASE Taken({SocketOf(f) : f \in foreign}, s)
  BY <1>5, <1>7 DEF Taken, Newcomers
<1>8. ASSUME Taken(RunningPorts(Services \ {v}), s) PROVE FALSE
  <2>1. PICK d \in RunningEntries : Service[d] # v /\ \E t \in Sockets(published[d]) : Conflict(t, s)
    BY <1>8 DEF Taken, RunningPorts, RunningEntries
  <2>2. CASE d \in Untouched
    BY <1>5, <2>1, <2>2
  <2>3. CASE d \notin Untouched
    <3>1. published[d] = Wanted(d) /\ d \in Entry \ {e}
      BY <1>1, <1>4, <2>1, <2>3 DEF RaceInv, CreatedInv, RunningEntries
    <3> QED
      BY <1>6, <2>1, <3>1
  <2> QED
    BY <2>2, <2>3
<1>9. ASSUME NEW d \in EntriesOf(v), NEW x \in EntriesOf(v), d # x,
             Taken(Sockets(Wanted(d)), s), s \in Sockets(Wanted(x))
      PROVE  FALSE
  <2>1. PICK t \in Sockets(Wanted(d)) : Conflict(t, s)
    BY <1>9 DEF Taken
  <2>2. x = e
    <3>1. x \in Decided /\ At(plan[x].ep) = s
      BY <1>2, <1>9
    <3>2. Conflict(s, s)
      BY DEF Conflict, IpsConflict
    <3> QED
      BY <1>4, <1>5, <3>1, <3>2 DEF RaceInv, PlanInv, PlanDisjoint
  <2>3. d \in Entry \ {e}
    BY <1>9, <2>2 DEF EntriesOf
  <2> QED
    BY <1>6, <2>1, <2>3
<1> QED
  BY <1>7, <1>8, <1>9 DEF Clashes, Taken

LEMMA InitRaceInv == Init => RaceInv
<1> SUFFICES ASSUME Init PROVE RaceInv
  OBVIOUS
<1>1. TypeOK
  BY InitTypeOK
<1>2. PlanInv
  BY InitPlanInv
<1>3. RunningEntries = {} /\ pc = "idle" /\ seen = {}
  BY DEF Init, RunningEntries, Services
<1> QED
  BY <1>1, <1>2, <1>3 DEF RaceInv, Bound, SeenInv, PlannedInv, CreatedInv

LEMMA NextRaceInv == ASSUME RaceInv, [Next]_vars PROVE RaceInv'
BY NextTypeOK, StepPlanInv, BoundStep, SeenStep, PlannedStep, CreatedStep DEF RaceInv

\* In any project, with any programs about: an up that planned for an IPv4 socket
\* reports a bind race only if somebody came after Docker was listed.
THEOREM BlamesOnlyRaces == Spec => BlamesRacesOnly
<1>1. RaceInv /\ [Next]_vars => RaceInv'
  BY NextRaceInv
<1>2. ASSUME RaceInv, NEW v \in Services, NEW s \in Clashes(v),
             ComposeFails(v, s), verdict' = "race"
      PROVE  s.ip = "::" \/ Taken(late, s)
  <2>1. Diagnosis(s) = "race"
    BY <1>2 DEF ComposeFails, Ends
  <2> QED
    BY <1>2, <2>1, RaceBlame
<1>3. RaceInv => \A v \in Services : \A s \in Clashes(v) :
        ComposeFails(v, s) /\ verdict' = "race" => s.ip = "::" \/ Taken(late, s)
  BY <1>2
<1> QED
  BY <1>1, <1>3, InitRaceInv, PTL DEF Spec, BlamesRacesOnly

-----------------------------------------------------------------------------
(* What an up leaves alone.                                                 *)

\* No port of a service is published twice.
OneEntryPerTarget ==
    \A d, e \in Entry : Service[d] = Service[e] /\ Target[d] = Target[e] => d = e

Present == container[Primary] # "absent"
NoneStopped == \A e \in Entry : container[Service[e]] # "stopped"
AllRun == \A b \in seen : b.running
\* The primary container has been listed, and Docker Compose has not come to it yet.
AfterPrimary ==
    \/ pc \in {"bindings", "external", "listed", "forwards", "planning"}
    \/ pc = "compose" /\ Primary \in todo

FastInv == (fast => ~req.rebuild) /\ (pc = "idle" => ~fast)
\* The primary container, if it is still there, is the one that was listed.
HashInv ==
    /\ AfterPrimary /\ Present =>
         /\ primary # "absent" /\ hash = label
         /\ primary = "stopped" => container[Primary] = "stopped"
    /\ pc = "bindings" /\ primary # "absent" /\ ~Present =>
         \A v \in Services : container[v] = "absent"
\* Without --force-recreate nothing moves.
ForceInv == pc = "compose" => ~Changed /\ (~force => ~req.rebuild /\ ~Moves)

\* An entry has the endpoint it was mapped to, or an address like the requested one.
Suits(e, maps) ==
    IF e \in DOMAIN maps THEN published[e] = maps[e]
    ELSE IpsConflict(At(published[e]).ip, At(Requested[e]).ip)
\* The label tells where the primary container is published; when Docker Compose
\* stopped nowhere, it tells that of all containers.
LabelInv ==
    /\ Present => \A e \in EntriesOf(Primary) :
         IF e \in DOMAIN label THEN published[e] = label[e] ELSE published[e].ip = Requested[e].ip
    /\ pc = "compose" /\ Primary \notin todo /\ Present => label = req.maps
    /\ pc # "compose" /\ Present /\ NoneStopped => \A d \in RunningEntries : Suits(d, label)

\* So do the bindings that were listed.
SeenFacts ==
    /\ \A b \in seen : b.service = Primary => primary # "absent"
    /\ \A e \in EntriesOf(Primary) : \A b \in seen : SameTarget(b, e) /\ e \notin DOMAIN hash =>
         b.ip \in {s.ip : s \in Sockets(Requested[e])}
    /\ primary # "absent" /\ AllRun => \A e \in Entry : (\E b \in seen : SameTarget(b, e)) =>
         \E b \in seen :
            /\ SameTarget(b, e)
            /\ IF e \in DOMAIN hash THEN SocketOf(b) = At(hash[e])
               ELSE IpsConflict(b.ip, At(Requested[e]).ip)
SeenKeep ==
    /\ pc \in {"external", "listed", "forwards", "planning", "compose"} =>
         /\ SeenFacts
         /\ AfterPrimary /\ Present /\ primary = "stopped" /\ PlanningEnabled =>
              \A e \in EntriesOf(Primary) :
                /\ \E b \in seen : SameTarget(b, e)
                /\ \A b \in seen : SameTarget(b, e) => SocketOf(b) = At(published[e])
    /\ pc = "planning" => \A s \in forwards : ~Taken({SocketOf(b) : b \in seen}, s)

\* The plan keeps addresses, is in nobody's way who runs, and moves nothing of a
\* project that runs.
PlanFacts ==
    /\ \A e \in Decided \ Mapped : IpsConflict(At(plan[e].ep).ip, At(Requested[e]).ip)
    /\ req.rebuild \/ primary = "absent" \/ hash = req.maps =>
         \A e \in (Decided \ Mapped) \cap EntriesOf(Primary) : plan[e].ep.ip = Requested[e].ip
    /\ req.auto /\ ~req.rebuild /\ AllRun =>
         \A d \in Decided : \A b \in seen :
            ~SameTarget(b, d) => ~Conflict(At(plan[d].ep), SocketOf(b))
    /\ /\ req.auto /\ ~req.rebuild /\ AllRun
       /\ \A b \in seen : ~Taken(external, SocketOf(b))
       /\ primary = "running" /\ hash = req.maps
       => ~Moves
PlanKeep == pc \in {"planning", "compose"} => PlanFacts

KeepInv ==
    RaceInv /\ FastInv /\ HashInv /\ ForceInv /\ LabelInv /\ SeenKeep /\ PlanKeep

\* What others do to the primary container.
LEMMA OthersPrimary ==
  ASSUME TypeOK, Others
  PROVE  /\ UNCHANGED <<pc, req, listed, planned, force, todo>>
         /\ Present' =>
              /\ Present /\ label' = label /\ published' = published
              /\ \A v \in Services : container[v] = "stopped" => container'[v] = "stopped"
         /\ ~Present /\ (\A v \in Services : container[v] = "absent") =>
              \A v \in Services : container'[v] = "absent"
         /\ Present /\ ~Present' => \A v \in Services : container'[v] = "absent"
<1>1. Primary \in Services
  BY DEF Services
<1>2. UNCHANGED <<pc, req, listed, planned, force, todo>>
  BY DEF Others, Down, Remove, Dies, Takes, Releases
<1>3. CASE Down
  BY <1>1, <1>2, <1>3 DEF Down, Present, TypeOK
<1>4. CASE Remove
  BY <1>1, <1>2, <1>4 DEF Remove, Present
<1>5. ASSUME NEW v \in Services, Dies(v)
      PROVE  /\ UNCHANGED <<label, published>>
             /\ \A w \in Services : container'[w] = IF w = v THEN "stopped" ELSE container[w]
             /\ container[v] = "running"
  BY <1>5 DEF Dies, TypeOK
<1>6. CASE \E v \in Services : Dies(v)
  BY <1>1, <1>2, <1>5, <1>6 DEF Present
<1>7. CASE (\E f \in Programs : Takes(f)) \/ (\E f \in foreign : Releases(f))
  BY <1>1, <1>2, <1>7 DEF Takes, Releases, docker, Present
<1> QED
  BY <1>3, <1>4, <1>6, <1>7 DEF Others

\* Only Docker Compose and others change what Docker has.
LEMMA DockerSteps ==
  ASSUME [Next]_vars
  PROVE  \/ UNCHANGED docker
         \/ \E v \in Services : ComposeService(v)
         \/ \E v \in Services : \E s \in Clashes(v) : ComposeFails(v, s)
         \/ Others
<1>1. CASE UNCHANGED vars \/ Context \/ Deciding
  BY <1>1 DEF vars, Context, Start, ListContainers, ListPrimary, ListBindings, ListExternal,
       Listed, Deciding, ConfigChanged, Fails, ReuseRunning, PrepareImages, CallCompose
<1>2. CASE Planning
  BY <1>2 DEF Planning, ResolveForwards, ForwardsFail, PlanEntry, PlanFails, Fails
<1>3. CASE Verify \/ VerifyFails \/ Sync
  BY <1>3 DEF Verify, VerifyFails, Sync, Fails
<1> QED
  BY <1>1, <1>2, <1>3 DEF Next, Composing

\* An attempt to reuse is no rebuild.
LEMMA FastStep == ASSUME FastInv, [Next]_vars PROVE FastInv'
<1> USE DEF FastInv
<1>1. CASE UNCHANGED vars \/ Others
  BY <1>1 DEF vars, planned, Others, Down, Remove, Dies, Takes, Releases
<1>2. CASE Context
  <2>1. CASE \E r \in Requests : Start(r)
    BY <2>1 DEF Start, Goto, planned
  <2>2. CASE ListContainers \/ ListPrimary \/ ListBindings \/ ListExternal
    <3>1. UNCHANGED <<req, fast>> /\ pc' # "idle"
      BY <2>2 DEF ListContainers, ListPrimary, ListBindings, ListExternal, Goto, planned
    <3> QED
      BY <3>1
  <2>3. CASE Listed
    BY <2>3 DEF Listed, Goto
  <2> QED
    BY <1>2, <2>1, <2>2, <2>3 DEF Context
<1>3. CASE Planning
  BY <1>3 DEF Planning, ResolveForwards, ForwardsFail, PlanEntry, PlanFails, Fails, Ends, Goto
<1>4. CASE Deciding
  BY <1>4 DEF Deciding, ConfigChanged, ReuseRunning, PrepareImages, CallCompose, Fails, Ends,
       planned
<1>5. CASE Composing
  BY <1>5 DEF Composing, ComposeService, ComposeFails, Verify, VerifyFails, Sync, Fails, Ends,
       planned
<1> QED
  BY <1>1, <1>2, <1>3, <1>4, <1>5 DEF Next

\* The primary container is the one that was listed, until Docker Compose comes to it.
LEMMA HashStep == ASSUME TypeOK, HashInv, [Next]_vars PROVE HashInv'
<1>1. ASSUME UNCHANGED docker, UNCHANGED <<primary, hash>>, AfterPrimary' => AfterPrimary,
             pc' = "bindings" => pc = "bindings"
      PROVE  HashInv'
  BY <1>1 DEF HashInv, Present, docker
<1>2. CASE UNCHANGED vars
  BY <1>1, <1>2 DEF vars, listed, AfterPrimary
<1>3. CASE Context
  <2>1. CASE (\E r \in Requests : Start(r)) \/ ListContainers
    BY <2>1 DEF Start, ListContainers, Goto, HashInv, AfterPrimary
  <2>2. CASE ListPrimary
    BY <2>2 DEF ListPrimary, Goto, HashInv, docker, Present
  <2>3. CASE ListBindings \/ ListExternal \/ Listed
    BY <1>1, <2>3 DEF ListBindings, ListExternal, Listed, Goto, listed, AfterPrimary
  <2> QED
    BY <1>3, <2>1, <2>2, <2>3 DEF Context
<1>4. ASSUME NEW v, Ends(v) PROVE HashInv'
  BY <1>4 DEF Ends, HashInv, AfterPrimary
<1>5. CASE Planning
  <2>1. CASE ResolveForwards \/ PlanEntry
    BY <1>1, <2>1 DEF ResolveForwards, PlanEntry, Goto, listed, AfterPrimary
  <2> QED
    BY <1>4, <1>5, <2>1 DEF Planning, ForwardsFail, PlanFails, Fails
<1>6. CASE Deciding
  <2>1. CASE ReuseRunning \/ PrepareImages \/ CallCompose
    BY <1>1, <2>1 DEF ReuseRunning, PrepareImages, CallCompose, Finished, listed, AfterPrimary
  <2> QED
    BY <1>4, <1>6, <2>1 DEF Deciding, ConfigChanged, Fails
<1>7. CASE Composing
  <2>1. ASSUME NEW v \in Services, ComposeService(v) PROVE HashInv'
    <3>1. pc = "compose" /\ pc' = "compose" /\ todo' = todo \ {v} /\ UNCHANGED <<primary, hash>>
      BY <2>1 DEF ComposeService, listed
    <3>2. CASE v = Primary
      BY <3>1, <3>2 DEF HashInv, AfterPrimary
    <3>3. CASE v # Primary
      <4>1. container'[Primary] = container[Primary] /\ label' = label
        BY <2>1, <3>3 DEF ComposeService, docker, Create, TypeOK, Services
      <4> QED
        BY <3>1, <4>1 DEF HashInv, AfterPrimary, Present
    <3> QED
      BY <3>2, <3>3
  <2>2. CASE Verify
    BY <2>2 DEF Verify, HashInv, AfterPrimary
  <2> QED
    BY <1>4, <1>7, <2>1, <2>2 DEF Composing, ComposeFails, VerifyFails, Sync, Fails
<1>8. CASE Others
  <2>1. Primary \in Services
    BY DEF Services
  <2> QED
    BY <1>8, <2>1, OthersPrimary DEF HashInv, AfterPrimary, listed, Present
<1> QED
  BY <1>2, <1>3, <1>5, <1>6, <1>7, <1>8 DEF Next

\* What moves depends on what was planned and listed alone.
LEMMA SameMoves ==
  ASSUME UNCHANGED <<req, primary, hash, seen, plan>>
  PROVE  Moves' = Moves /\ Changed' = Changed
BY DEF Moves, Moved, Changed, Decided

\* --force-recreate is given when something moves.
LEMMA ForceStep == ASSUME TypeOK, ForceInv, [Next]_vars PROVE ForceInv'
<1>1. CASE pc' # "compose"
  BY <1>1 DEF ForceInv
<1>2. CASE CallCompose
  <2>1. ~Changed /\ UNCHANGED <<req, primary, hash, seen, plan>>
        /\ force' = (req.rebuild \/ Moves \/ (primary = "absent" /\ stale))
    BY <1>2 DEF CallCompose, listed, planned
  <2> QED
    BY <2>1, SameMoves DEF ForceInv
<1>3. CASE UNCHANGED vars \/ Others \/ (\E v \in Services : ComposeService(v))
  <2>1. UNCHANGED <<pc, force, req, primary, hash, seen, plan>>
    BY <1>3, OthersPrimary DEF vars, listed, planned, ComposeService
  <2> QED
    BY <2>1, SameMoves DEF ForceInv
<1>4. CASE Context \/ Planning \/ Deciding
  BY <1>1, <1>2, <1>4 DEF Context, Start, ListContainers, ListPrimary, ListBindings, ListExternal,
       Listed, Goto, Planning, ResolveForwards, ForwardsFail, PlanEntry, PlanFails, Deciding,
       ConfigChanged, ReuseRunning, PrepareImages, Fails, Ends
<1>5. CASE Composing
  BY <1>1, <1>3, <1>5 DEF Composing, ComposeFails, Verify, VerifyFails, Sync, Fails, Ends
<1> QED
  BY <1>3, <1>4, <1>5 DEF Next

\* What Docker Compose wants of an entry is what it is mapped to, or, in the primary
\* container, an address as requested.
LEMMA WantedPrimary ==
  ASSUME PlanInv, CreatedInv, ForceInv, PlanKeep, pc = "compose",
         req.rebuild \/ primary = "absent" \/ hash = req.maps,
         NEW e \in EntriesOf(Primary)
  PROVE  IF e \in Mapped THEN Wanted(e) = req.maps[e] ELSE Wanted(e).ip = Requested[e].ip
<1>1. e \in Entry
  BY DEF EntriesOf
<1>2. CASE e \in Mapped
  <2>1. e \in Decided
    BY <1>1, <1>2 DEF CreatedInv, Entries, PlanningEnabled, Mapped
  <2> QED
    BY <1>2, <2>1 DEF Wanted, PlanInv, MappedAsAsked
<1>3. CASE e \notin Mapped
  BY <1>3 DEF Wanted, PlanKeep, PlanFacts
<1> QED
  BY <1>2, <1>3

\* The same of any entry, but for its address.
LEMMA WantedSuits ==
  ASSUME PlanInv, CreatedInv, PlanKeep, pc = "compose", NEW e \in Entry, published[e] = Wanted(e)
  PROVE  Suits(e, req.maps)
<1>1. CASE e \in Mapped
  <2>1. e \in Decided
    BY <1>1 DEF CreatedInv, Entries, PlanningEnabled, Mapped
  <2> QED
    BY <1>1, <2>1 DEF Wanted, PlanInv, MappedAsAsked, Suits, Mapped
<1>2. CASE e \in Decided \ Mapped
  BY <1>2 DEF Wanted, PlanKeep, PlanFacts, Suits, Mapped
<1>3. CASE e \notin Decided \cup Mapped
  BY <1>3 DEF Wanted, Suits, Mapped, IpsConflict
<1> QED
  BY <1>1, <1>2, <1>3

\* Docker Compose creates the primary container and its label together.
LEMMA CreatePrimary ==
  ASSUME KeepInv, pc = "compose", Primary \in todo,
         \/ Starts(Primary) /\ Create(Primary)
         \/ ~Starts(Primary) /\ UNCHANGED <<published, label>>
  PROVE  /\ label' = req.maps
         /\ \A e \in EntriesOf(Primary) :
              IF e \in DOMAIN label' THEN published'[e] = label'[e]
              ELSE published'[e].ip = Requested[e].ip
<1>1. ~Changed /\ (~force => ~req.rebuild /\ ~Moves)
  BY DEF KeepInv, ForceInv
<1>2. CASE Recreated(Primary)
  <2>1. Create(Primary) /\ label' = req.maps
    BY <1>2 DEF Starts, Create
  <2>2. \A e \in EntriesOf(Primary) : published'[e] = Wanted(e)
    BY <2>1 DEF Create, EntriesOf
  <2>3. req.rebuild \/ primary = "absent" \/ hash = req.maps
    BY <1>1 DEF Changed
  <2> QED
    BY <2>1, <2>2, <2>3, WantedPrimary DEF KeepInv, RaceInv, Mapped
<1>3. CASE ~Recreated(Primary)
  <2>1. Present /\ ~force /\ \A e \in EntriesOf(Primary) : published[e] = Wanted(e)
    BY <1>3 DEF Recreated, Present, Differs
  <2>2. label = req.maps
    BY <1>1, <2>1 DEF KeepInv, HashInv, AfterPrimary, Changed
  <2>3. label' = label /\ \A e \in EntriesOf(Primary) : published'[e] = published[e]
    BY <1>3, <2>1 DEF Create, EntriesOf
  <2> QED
    BY <2>1, <2>2, <2>3 DEF KeepInv, LabelInv
<1> QED
  BY <1>2, <1>3

\* The label stays true.
LEMMA LabelStep == ASSUME KeepInv, [Next]_vars PROVE LabelInv'
<1>1. TypeOK /\ PlanInv /\ CreatedInv /\ LabelInv /\ PlanKeep /\ Primary \in Services
  BY DEF KeepInv, RaceInv, Services
<1>2. CASE UNCHANGED docker
  <2>1. RunningEntries' = RunningEntries /\ published' = published /\ label' = label
        /\ Present' = Present /\ NoneStopped' = NoneStopped
    BY <1>2 DEF docker, RunningEntries, Present, NoneStopped
  <2>2. pc # "compose" => pc' # "compose" \/ Primary \in todo'
    <3>1. CASE UNCHANGED vars \/ Others
      BY <1>1, <3>1, OthersPrimary DEF vars
    <3>2. CASE Context \/ Planning
      BY <3>2 DEF Context, Start, ListContainers, ListPrimary, ListBindings, ListExternal,
           Listed, Goto, Planning, ResolveForwards, ForwardsFail, PlanEntry, PlanFails, Fails, Ends
    <3>3. CASE Deciding
      BY <1>1, <3>3 DEF Deciding, ConfigChanged, ReuseRunning, PrepareImages, CallCompose, Fails, Ends
    <3>4. CASE Composing
      BY <3>4 DEF Composing, ComposeService, ComposeFails, Verify, VerifyFails, Sync, Fails, Ends
    <3> QED
      BY <3>1, <3>2, <3>3, <3>4 DEF Next
  <2>3. CASE pc # "compose"
    BY <2>1, <2>2, <2>3, <1>1 DEF LabelInv, Suits
  <2>4. CASE pc = "compose"
    <3>1. CASE \E v \in Services : ComposeService(v)
      <4>1. PICK v \in Services : ComposeService(v)
        BY <3>1
      <4>2. pc' = "compose" /\ todo' = todo \ {v} /\ v \in todo /\ req' = req
        BY <4>1 DEF ComposeService
      <4>3. CASE v # Primary
        BY <1>1, <2>1, <2>4, <4>2, <4>3 DEF LabelInv
      <4>4. CASE v = Primary /\ Starts(Primary)
        <5>1. Create(Primary)
          BY <4>1, <4>4 DEF ComposeService
        <5> QED
          BY <2>4, <4>2, <4>4, <5>1, CreatePrimary DEF LabelInv
      <4>5. CASE v = Primary /\ ~Starts(Primary)
        BY <2>1, <2>4, <4>2, <4>5, CreatePrimary DEF LabelInv
      <4> QED
        BY <4>3, <4>4, <4>5
    <3>2. CASE pc' = "compose" /\ UNCHANGED <<todo, req>>
      BY <1>1, <2>1, <2>4, <3>2 DEF LabelInv
    <3>3. CASE todo = {} /\ pc' # "compose"
      <4>1. \A d \in RunningEntries : Suits(d, req.maps)
        BY <1>1, <2>4, <3>3, WantedSuits DEF CreatedInv, Untouched, RunningEntries
      <4>2. Present => label = req.maps
        BY <1>1, <2>4, <3>3 DEF LabelInv
      <4>3. Present => \A d \in RunningEntries : Suits(d, label)
        BY <4>1, <4>2
      <4> QED
        BY <1>1, <2>1, <3>3, <4>3 DEF LabelInv, Suits
    <3>4. CASE \E v \in Services : \E s \in Clashes(v) : ComposeFails(v, s)
      <4>1. PICK v \in Services : \E s \in Clashes(v) : ComposeFails(v, s)
        BY <3>4
      <4>2. container' = [container EXCEPT ![v] = "stopped"] /\ pc' = "idle"
        BY <4>1 DEF ComposeFails, Ends
      <4>3. PICK e \in Entry : Service[e] = v
        BY <4>1 DEF Clashes, EntriesOf
      <4>4. ~NoneStopped'
        BY <1>1, <4>2, <4>3 DEF NoneStopped, TypeOK
      <4> QED
        BY <1>1, <2>1, <4>2, <4>4 DEF LabelInv
    <3>5. CASE UNCHANGED vars \/ Others
      BY <1>1, <2>4, <3>2, <3>5, OthersPrimary DEF vars
    <3> QED
      BY <2>4, <3>1, <3>3, <3>4, <3>5 DEF Next, Context, Start, ListContainers, ListPrimary,
         ListBindings, ListExternal, Listed, Goto, Planning, ResolveForwards, ForwardsFail,
         PlanEntry, PlanFails, Deciding, ConfigChanged, ReuseRunning, PrepareImages, CallCompose,
         Finished, Composing, Verify, VerifyFails, Sync, Fails, Ends
  <2> QED
    BY <2>3, <2>4
<1>3. ASSUME NEW v \in Services, ComposeService(v) PROVE LabelInv'
  <2>1. pc = "compose" /\ pc' = "compose" /\ todo' = todo \ {v} /\ v \in todo /\ req' = req
    BY <1>3 DEF ComposeService
  <2>2. CASE UNCHANGED docker
    BY <1>2, <2>2
  <2>3. CASE ~UNCHANGED docker
    <3>1. Starts(v) /\ Create(v) /\ container' = [container EXCEPT ![v] = "running"]
      BY <1>3, <2>3 DEF ComposeService
    <3>2. CASE v = Primary
      BY <2>1, <3>1, <3>2, CreatePrimary DEF LabelInv
    <3>3. CASE v # Primary
      <4>1. Present' = Present /\ label' = label
            /\ \A e \in EntriesOf(Primary) : published'[e] = published[e]
        BY <1>1, <3>1, <3>3 DEF Present, TypeOK, Create, EntriesOf
      <4> QED
        BY <1>1, <2>1, <3>3, <4>1 DEF LabelInv
    <3> QED
      BY <3>2, <3>3
  <2> QED
    BY <2>2, <2>3
<1>4. ASSUME NEW v \in Services, NEW s \in Clashes(v), ComposeFails(v, s) PROVE LabelInv'
  <2>1. /\ pc = "compose" /\ pc' = "idle" /\ v \in todo /\ Starts(v) /\ Create(v)
        /\ container' = [container EXCEPT ![v] = "stopped"]
    BY <1>4 DEF ComposeFails, Ends
  <2>2. PICK e \in Entry : Service[e] = v
    BY DEF Clashes, EntriesOf
  <2>3. ~NoneStopped'
    BY <1>1, <2>1, <2>2 DEF NoneStopped, TypeOK
  <2> SUFFICES ASSUME Present', NEW d \in EntriesOf(Primary)
               PROVE  IF d \in DOMAIN label' THEN published'[d] = label'[d]
                      ELSE published'[d].ip = Requested[d].ip
    BY <2>1, <2>3 DEF LabelInv
  <2>4. CASE v = Primary
    BY <2>1, <2>4, CreatePrimary
  <2>5. CASE v # Primary
    <3>1. Present /\ label' = label /\ published'[d] = published[d]
      BY <1>1, <2>1, <2>5 DEF Present, TypeOK, Create, EntriesOf
    <3> QED
      BY <1>1, <3>1 DEF LabelInv
  <2> QED
    BY <2>4, <2>5
<1>5. CASE Others
  <2>1. /\ UNCHANGED <<pc, req, todo>>
        /\ Present' => /\ Present /\ label' = label /\ published' = published
                       /\ \A v \in Services : container[v] = "stopped" => container'[v] = "stopped"
    BY <1>1, <1>5, OthersPrimary
  <2>2. \A d \in RunningEntries' : d \in RunningEntries
    BY <1>1, <1>5, OthersAside
  <2>3. Present' /\ NoneStopped' => NoneStopped
    BY <2>1 DEF NoneStopped, Services
  <2> QED
    BY <1>1, <2>1, <2>2, <2>3 DEF LabelInv, Suits
<1> QED
  BY <1>2, <1>3, <1>4, <1>5, DockerSteps

\* The bindings of an entry are of its port, where its container was published.
LEMMA BindingsOf ==
  ASSUME TypeOK, NEW e \in Entry
  PROVE  /\ \A b \in Bindings(e) :
              /\ SameTarget(b, e)
              /\ b.running <=> container[Service[e]] = "running"
              /\ IF b.running THEN SocketOf(b) \in Sockets(published[e])
                 ELSE SocketOf(b) = At(published[e])
         /\ \E b \in Bindings(e) : SocketOf(b) = At(published[e])
<1> DEFINE Of(s) == [service |-> Service[e], target |-> Target[e], ip |-> s.ip, port |-> s.port,
                     running |-> container[Service[e]] = "running"]
<1>1. Bindings(e) = {Of(s) : s \in IF container[Service[e]] = "running" THEN Sockets(published[e])
                                   ELSE {At(published[e])}}
  BY DEF Bindings
<1>2. published[e] \in Endpoint
  BY DEF TypeOK
<1>3. \A s \in Socket : SocketOf(Of(s)) = s
  BY DEF SocketOf, Socket
<1>4. Sockets(published[e]) \subseteq Socket /\ At(published[e]) \in Socket
  BY <1>2, SocketsType
<1>5. At(published[e]) \in Sockets(published[e])
  BY <1>2 DEF Endpoint, Sockets, At
<1>6. ASSUME NEW s
      PROVE  SameTarget(Of(s), e) /\ (Of(s).running <=> container[Service[e]] = "running")
  BY DEF SameTarget
<1> HIDE DEF Of
<1>7. ASSUME NEW b \in Bindings(e)
      PROVE  /\ SameTarget(b, e)
             /\ b.running <=> container[Service[e]] = "running"
             /\ IF b.running THEN SocketOf(b) \in Sockets(published[e])
                ELSE SocketOf(b) = At(published[e])
  BY <1>1, <1>3, <1>4, <1>6
<1>8. \E b \in Bindings(e) : SocketOf(b) = At(published[e])
  BY <1>1, <1>3, <1>4, <1>5
<1> QED
  BY <1>7, <1>8

\* An address that suits is the one of a socket of the endpoint.
LEMMA SameAddress ==
  ASSUME NEW a \in Endpoint, NEW r \in Endpoint, a.ip = r.ip, NEW s \in Sockets(a)
  PROVE  s.ip \in {t.ip : t \in Sockets(r)} /\ At(a) \in Sockets(a)
<1>1. CASE r.ip = Omitted
  <2>1. s.ip \in {"0.0.0.0", "::"} /\ At(a) = [ip |-> "0.0.0.0", port |-> a.port]
    BY <1>1 DEF Sockets, At
  <2>2. [ip |-> s.ip, port |-> r.port] \in Sockets(r)
    BY <1>1, <2>1 DEF Sockets
  <2>3. At(a) \in Sockets(a)
    BY <1>1, <2>1 DEF Sockets
  <2> QED
    BY <2>2, <2>3
<1>2. CASE r.ip # Omitted
  BY <1>2 DEF Sockets, Endpoint, At
<1> QED
  BY <1>1, <1>2

\* The list tells of the project what the label tells.
LEMMA ListBindingsKeep ==
  ASSUME OneEntryPerTarget, KeepInv, ListBindings
  PROVE  SeenKeep'
<1>1. TypeOK /\ HashInv /\ LabelInv
  BY DEF KeepInv, RaceInv
<1>2. /\ pc = "bindings" /\ pc' = "external" /\ AfterPrimary /\ AfterPrimary'
      /\ UNCHANGED <<docker, req, primary, hash>>
      /\ seen' = UNION {Bindings(e) : e \in {d \in Entry : container[Service[d]] # "absent"}}
  BY DEF ListBindings, Goto, AfterPrimary
<1>3. ASSUME NEW e \in Entry, NEW b \in seen', SameTarget(b, e)
      PROVE  b \in Bindings(e) /\ container[Service[e]] # "absent"
  <2>1. PICK d \in Entry : b \in Bindings(d) /\ container[Service[d]] # "absent"
    BY <1>2
  <2>2. d = e
    BY <1>1, <1>3, <2>1, BindingsOf DEF SameTarget, OneEntryPerTarget
  <2> QED
    BY <2>1, <2>2
<1>4. ASSUME NEW b \in seen', b.service = Primary PROVE Present
  <2>1. PICK d \in Entry : b \in Bindings(d) /\ container[Service[d]] # "absent"
    BY <1>2
  <2> QED
    BY <1>1, <1>4, <2>1, BindingsOf DEF SameTarget, Present
<1>5. \A b \in seen' : b.service = Primary => primary # "absent"
  BY <1>1, <1>2, <1>4 DEF HashInv
<1>6. ASSUME NEW e \in EntriesOf(Primary), NEW b \in seen', SameTarget(b, e), e \notin DOMAIN hash
      PROVE  b.ip \in {s.ip : s \in Sockets(Requested[e])}
  <2>1. e \in Entry /\ b \in Bindings(e) /\ Present
    BY <1>3, <1>4, <1>6 DEF EntriesOf, SameTarget
  <2>2. published[e].ip = Requested[e].ip
    BY <1>1, <1>2, <1>6, <2>1 DEF HashInv, LabelInv
  <2>3. published[e] \in Endpoint /\ Requested[e] \in Endpoint
    BY <1>1, <2>1, RequestedAssumption DEF TypeOK
  <2>4. At(published[e]) \in Sockets(published[e])
    BY <2>3 DEF Endpoint, Sockets, At
  <2>5. SocketOf(b) \in Sockets(published[e])
    BY <1>1, <2>1, <2>4, BindingsOf
  <2>6. SocketOf(b).ip = b.ip
    BY DEF SocketOf
  <2> QED
    BY <2>2, <2>3, <2>5, <2>6, SameAddress
<1>7. ASSUME primary # "absent", \A b \in seen' : b.running,
             NEW e \in Entry, NEW c \in seen', SameTarget(c, e)
      PROVE  \E b \in seen' :
                /\ SameTarget(b, e)
                /\ IF e \in DOMAIN hash THEN SocketOf(b) = At(hash[e])
                   ELSE IpsConflict(b.ip, At(Requested[e]).ip)
  <2>1. c \in Bindings(e) /\ container[Service[e]] = "running"
    BY <1>1, <1>3, <1>7, BindingsOf
  <2>2. Present
    BY <1>1, <1>2, <1>7, <2>1 DEF HashInv, Services
  <2>3. NoneStopped
    <3>1. ASSUME NEW d \in Entry, container[Service[d]] = "stopped" PROVE FALSE
      <4>1. PICK b \in Bindings(d) : SocketOf(b) = At(published[d])
        BY <1>1, BindingsOf
      <4>2. b \in seen' /\ ~b.running
        BY <1>1, <1>2, <3>1, <4>1, BindingsOf
      <4> QED
        BY <1>7, <4>2
    <3> QED
      BY <3>1 DEF NoneStopped
  <2>4. Suits(e, hash)
    BY <1>1, <1>2, <2>1, <2>2, <2>3 DEF LabelInv, HashInv, RunningEntries
  <2>5. PICK b \in Bindings(e) : SocketOf(b) = At(published[e])
    BY <1>1, BindingsOf
  <2>6. b \in seen' /\ SameTarget(b, e)
    BY <1>1, <1>2, <2>1, <2>5, BindingsOf
  <2>7. b.ip = At(published[e]).ip
    BY <2>5 DEF SocketOf
  <2> QED
    BY <2>4, <2>5, <2>6, <2>7 DEF Suits
<1>8. ASSUME Present, primary = "stopped", NEW e \in EntriesOf(Primary)
      PROVE  /\ \E b \in seen' : SameTarget(b, e)
             /\ \A b \in seen' : SameTarget(b, e) => SocketOf(b) = At(published[e])
  <2>1. e \in Entry /\ container[Service[e]] = "stopped"
    BY <1>1, <1>2, <1>8 DEF HashInv, EntriesOf
  <2>2. PICK b \in Bindings(e) : SocketOf(b) = At(published[e])
    BY <1>1, <2>1, BindingsOf
  <2>3. b \in seen' /\ SameTarget(b, e)
    BY <1>1, <1>2, <2>1, <2>2, BindingsOf
  <2>4. \A c \in seen' : SameTarget(c, e) => SocketOf(c) = At(published[e])
    BY <1>1, <1>3, <2>1, BindingsOf
  <2> QED
    BY <2>3, <2>4
<1>9. Present' = Present /\ published' = published /\ primary' = primary /\ hash' = hash
  BY <1>2 DEF docker, Present
<1>10. SeenFacts'
  BY <1>5, <1>6, <1>7, <1>9 DEF SeenFacts, AllRun
<1> QED
  BY <1>2, <1>8, <1>9, <1>10 DEF SeenKeep

\* What was listed stays true of the primary container until Docker Compose comes to it.
LEMMA SeenKeepStep ==
  ASSUME OneEntryPerTarget, KeepInv, [Next]_vars
  PROVE  SeenKeep'
<1>0. TypeOK /\ SeenInv /\ SeenKeep /\ Primary \in Services
  BY DEF KeepInv, RaceInv, Services
<1>1. ASSUME UNCHANGED <<req, primary, hash, seen>>,
             Present' => /\ Present
                         /\ \A e \in EntriesOf(Primary) : published'[e] = published[e],
             AfterPrimary' => AfterPrimary,
             pc \in {"external", "listed", "forwards", "planning", "compose"},
             pc' = "planning" => \A s \in forwards' : ~Taken({SocketOf(b) : b \in seen}, s)
      PROVE  SeenKeep'
  <2>1. PlanningEnabled' = PlanningEnabled /\ SeenFacts' = SeenFacts
    BY <1>1 DEF PlanningEnabled, SeenFacts, AllRun
  <2> QED
    BY <1>0, <1>1, <2>1 DEF SeenKeep
<1>2. ASSUME UNCHANGED docker
      PROVE  Present' => /\ Present
                         /\ \A e \in EntriesOf(Primary) : published'[e] = published[e]
  BY <1>2 DEF docker, Present
<1>3. CASE pc' \notin {"external", "listed", "forwards", "planning", "compose"}
  BY <1>3 DEF SeenKeep
<1>4. CASE Context
  <2>1. CASE (\E r \in Requests : Start(r)) \/ ListContainers
    BY <1>3, <2>1 DEF Start, ListContainers, Goto
  <2>2. CASE ListPrimary
    <3>1. pc' = "listed" => ~PlanningEnabled'
      BY <2>2 DEF ListPrimary, Goto, PlanningEnabled
    <3>2. pc' \in {"listed", "bindings"}
      BY <2>2 DEF ListPrimary, Goto
    <3>3. SeenFacts'
      BY <1>0, <2>2 DEF ListPrimary, Goto, SeenInv, SeenFacts
    <3>4. CASE pc' = "listed"
      BY <3>1, <3>3, <3>4 DEF SeenKeep
    <3>5. CASE pc' = "bindings"
      BY <1>3, <3>5
    <3> QED
      BY <3>2, <3>4, <3>5
  <2>3. CASE ListBindings
    BY <2>3, ListBindingsKeep
  <2>4. CASE ListExternal \/ Listed
    BY <1>1, <1>2, <2>4 DEF ListExternal, Listed, Goto, listed, AfterPrimary
  <2> QED
    BY <1>4, <2>1, <2>2, <2>3, <2>4 DEF Context
<1>5. CASE ResolveForwards
  <2>1. \A s \in forwards' : ~Taken({SocketOf(b) : b \in seen}, s)
    BY <1>5 DEF ResolveForwards, ForwardPort, Lowest, FreeForForward
  <2> QED
    BY <1>1, <1>2, <1>5, <2>1 DEF ResolveForwards, Goto, listed, AfterPrimary
<1>6. CASE PlanEntry
  <2>1. UNCHANGED <<pc, forwards, docker, req, primary, hash, seen>> /\ pc = "planning"
    BY <1>6 DEF PlanEntry, listed
  <2> QED
    BY <1>0, <1>1, <1>2, <2>1 DEF SeenKeep, AfterPrimary
<1>7. CASE Planning
  BY <1>3, <1>5, <1>6, <1>7 DEF Planning, ForwardsFail, PlanFails, Fails, Ends
<1>8. CASE Deciding
  BY <1>1, <1>2, <1>3, <1>8 DEF Deciding, ConfigChanged, ReuseRunning, PrepareImages, CallCompose,
     Finished, Fails, Ends, listed, AfterPrimary
<1>9. CASE Composing
  <2>1. ASSUME NEW v \in Services, ComposeService(v) PROVE SeenKeep'
    <3>1. /\ pc = "compose" /\ pc' = "compose" /\ todo' = todo \ {v}
          /\ UNCHANGED <<req, primary, hash, seen>>
      BY <2>1 DEF ComposeService, listed
    <3>2. CASE v = Primary
      <4>1. ~AfterPrimary' /\ SeenFacts' = SeenFacts
        BY <3>1, <3>2 DEF AfterPrimary, SeenFacts, AllRun
      <4> QED
        BY <1>0, <3>1, <4>1 DEF SeenKeep
    <3>3. CASE v # Primary
      <4>1. Present' = Present /\ \A e \in EntriesOf(Primary) : published'[e] = published[e]
        BY <1>0, <2>1, <3>3 DEF ComposeService, docker, Create, EntriesOf, Present, TypeOK
      <4> QED
        BY <1>1, <3>1, <4>1 DEF AfterPrimary
    <3> QED
      BY <3>2, <3>3
  <2> QED
    BY <1>3, <1>9, <2>1 DEF Composing, ComposeFails, Verify, VerifyFails, Sync, Fails, Ends
<1>10. CASE UNCHANGED vars \/ Others
  <2>1. /\ UNCHANGED <<pc, req, primary, hash, seen, forwards, todo>>
        /\ Present' => Present /\ published' = published
    BY <1>0, <1>10, OthersPrimary DEF vars, listed, planned, docker, Present
  <2> QED
    BY <1>0, <1>1, <1>3, <2>1 DEF SeenKeep, AfterPrimary
<1> QED
  BY <1>4, <1>7, <1>8, <1>9, <1>10 DEF Next

\* An entry that is planned has not been planned before.
LEMMA NextIsUndecided ==
  ASSUME req \in Requests \cup {NoRequest}, Entries \ Decided # {}
  PROVE  NextEntry \in Entry \ Decided
<1>1. Mapped \ Decided \in SUBSET Entry /\ Entries \ Decided \in SUBSET Entry
  BY MapsType DEF Entries
<1>2. CASE Mapped \ Decided # {}
  <2>1. Min(Mapped \ Decided) \in Mapped \ Decided
    BY <1>1, <1>2, MinIn
  <2> QED
    BY <1>1, <1>2, <2>1 DEF NextEntry
<1>3. CASE Mapped \ Decided = {}
  <2>1. Min(Entries \ Decided) \in Entries \ Decided
    BY <1>1, MinIn
  <2> QED
    BY <1>1, <1>3, <2>1 DEF NextEntry
<1> QED
  BY <1>2, <1>3

\* A decision keeps the kind of address that was requested, and in the primary
\* container the address.
LEMMA DecisionAddress ==
  ASSUME TypeOK, FastInv, SeenFacts, NEW e \in Entry \ Mapped, NEW d \in Decisions(e)
  PROVE  /\ IpsConflict(At(d.ep).ip, At(Requested[e]).ip)
         /\ (req.rebuild \/ primary = "absent" \/ hash = req.maps) /\ e \in EntriesOf(Primary) =>
              d.ep.ip = Requested[e].ip
<1>0. Requested[e] \in Endpoint
  BY RequestedAssumption
<1>1. CASE ~req.auto
  BY <1>1 DEF Decisions, UnchangedDecision, D, IpsConflict
<1>2. CASE req.auto /\ Candidates(e) = {}
  <2>1. d \in Allocate(e)
    BY <1>2 DEF Decisions
  <2>2. d.ep.ip = Requested[e].ip
    <3>1. CASE d \in Relocate(e)
      <4>1. PICK p : d = D([Requested[e] EXCEPT !.port = p], "available")
        BY <3>1 DEF Relocate
      <4> QED
        BY <1>0, <4>1 DEF D, Endpoint
    <3>2. CASE d \notin Relocate(e)
      BY <2>1, <3>2 DEF Allocate, D
    <3> QED
      BY <3>1, <3>2
  <2>3. At(d.ep).ip = At(Requested[e]).ip
    BY <2>2 DEF At
  <2> QED
    BY <2>2, <2>3 DEF IpsConflict
<1>3. CASE req.auto /\ Candidates(e) # {}
  <2>1. PICK b \in Candidates(e) : d = Keep(e, b)
    BY <1>3 DEF Decisions
  <2>2. /\ b \in Reusable /\ b \in seen /\ b \in Binding /\ SameTarget(b, e)
        /\ IpsConflict(b.ip, At(Requested[e]).ip)
    BY <2>1 DEF Candidates, Reusable, TypeOK
  <2>3. d.ep.ip = IF b.ip = At(Requested[e]).ip THEN Requested[e].ip ELSE b.ip
    BY <2>1 DEF Keep, D
  <2>4. At(d.ep).ip = b.ip
    BY <2>2, <2>3 DEF At, Binding, Addresses, Omitted
  <2>5. ASSUME req.rebuild \/ primary = "absent" \/ hash = req.maps, e \in EntriesOf(Primary)
        PROVE  d.ep.ip = Requested[e].ip
    <3>1. ~req.rebuild
      BY <2>2 DEF Reusable, FastInv
    <3>2. primary # "absent"
      BY <2>2, <2>5 DEF SeenFacts, SameTarget, EntriesOf
    <3>3. e \notin DOMAIN hash
      BY <2>5, <3>1, <3>2 DEF Mapped
    <3>4. b.ip \in {s.ip : s \in Sockets(Requested[e])}
      BY <2>2, <2>5, <3>3 DEF SeenFacts
    <3>5. CASE Requested[e].ip = Omitted
      <4>1. At(Requested[e]).ip = "0.0.0.0" /\ b.ip \in {"0.0.0.0", "::"}
        BY <3>4, <3>5 DEF At, Sockets
      <4> QED
        BY <2>2, <2>3, <4>1 DEF IpsConflict
    <3>6. CASE Requested[e].ip # Omitted
      BY <2>3, <3>4, <3>6 DEF Sockets
    <3> QED
      BY <3>5, <3>6
  <2> QED
    BY <2>2, <2>4, <2>5
<1> QED
  BY <1>1, <1>2, <1>3

\* When all containers run, a decision is in the way of none, but those of its own port.
LEMMA DecisionSparesRunning ==
  ASSUME TypeOK, SeenInv, AllRun, pc = "planning", req.auto, ~req.rebuild,
         NEW e \in Entry, NEW d \in Decisions(e), NEW b \in seen, ~SameTarget(b, e)
  PROVE  ~Conflict(At(d.ep), SocketOf(b))
<1>0. b.running
  BY DEF AllRun
<1>1. CASE e \in Mapped
  <2>1. ~Taken(RunningIn({c \in seen : ~SameTarget(c, e)}), At(d.ep))
    BY <1>1, MappingAvoids DEF Decisions
  <2>2. SocketOf(b) \in RunningIn({c \in seen : ~SameTarget(c, e)})
    BY <1>0 DEF RunningIn
  <2> QED
    BY <2>1, <2>2, ConflictSymmetric DEF Taken
<1>2. CASE e \notin Mapped /\ Candidates(e) # {}
  <2>1. PICK c \in Candidates(e) : d = Keep(e, c)
    BY <1>2 DEF Decisions
  <2>2. c \in seen /\ c.running /\ c.ip # Omitted /\ ~SamePort(b, c)
    BY <2>1 DEF Candidates, Reusable, AllRun, SameTarget, SamePort, TypeOK, Binding, Addresses, Omitted
  <2>3. At(d.ep) = SocketOf(c)
    BY <2>1, <2>2, RequestedType DEF Keep, D, At, SocketOf, Omitted
  <2> QED
    BY <1>0, <2>2, <2>3 DEF SeenInv
<1>3. CASE e \notin Mapped /\ Candidates(e) = {}
  <2>1. d \in Allocate(e)
    BY <1>3 DEF Decisions
  <2>2. SocketOf(b) \in AllReservations
    BY <1>0 DEF AllReservations, Reusable, RunningIn
  <2>3. ~Taken(AllReservations, At(d.ep))
    <3>1. CASE d \in Relocate(e)
      <4>1. PICK p \in Free(e) : d = D([Requested[e] EXCEPT !.port = p], "available")
        BY <3>1 DEF Relocate, Lowest
      <4>2. At(d.ep) = [At(Requested[e]) EXCEPT !.port = p]
        BY <4>1, RequestedType DEF D
      <4> QED
        BY <4>1, <4>2 DEF Free
    <3>2. CASE d \notin Relocate(e)
      BY <2>1, <3>2 DEF Allocate, D
    <3> QED
      BY <3>1, <3>2
  <2> QED
    BY <2>2, <2>3, ConflictSymmetric DEF Taken
<1> QED
  BY <1>1, <1>2, <1>3

\* When all run and nobody else has what they have, nothing moves.
LEMMA DecisionMovesNothing ==
  ASSUME OneEntryPerTarget, KeepInv, AllRun, pc = "planning", req.auto, ~req.rebuild,
         \A b \in seen : ~Taken(external, SocketOf(b)), primary = "running", hash = req.maps,
         NEW e \in Entry \ Decided, NEW d \in Decisions(e), NEW c \in seen, SameTarget(c, e)
  PROVE  \E b \in seen : SameTarget(b, e) /\ SocketOf(b) = At(d.ep)
<1>1. TypeOK /\ SeenFacts /\ SeenKeep /\ PlanFacts
  BY DEF KeepInv, RaceInv, SeenKeep, PlanKeep
<1>2. PICK b \in seen : /\ SameTarget(b, e)
                        /\ IF e \in DOMAIN hash THEN SocketOf(b) = At(hash[e])
                           ELSE IpsConflict(b.ip, At(Requested[e]).ip)
  BY <1>1 DEF SeenFacts
<1>3. CASE e \in Mapped
  <2>1. d.ep = req.maps[e]
    BY <1>3, MappingAvoids DEF Decisions
  <2> QED
    BY <1>2, <1>3, <2>1 DEF Mapped
<1>4. CASE e \notin Mapped
  <2>1. \A x \in Decided : ~Conflict(At(plan[x].ep), SocketOf(b))
    <3>1. ASSUME NEW x \in Decided PROVE ~SameTarget(b, x)
      BY <1>2 DEF SameTarget, OneEntryPerTarget, Decided
    <3> QED
      BY <1>1, <3>1 DEF PlanFacts
  <2>2. \A x \in forwards : ~Conflict(x, SocketOf(b))
    BY <1>1, ConflictSymmetric DEF SeenKeep, Taken
  <2>3. \A x \in external : ~Conflict(x, SocketOf(b))
    BY DEF Taken
  <2>4. ~Taken(Reservations, SocketOf(b))
    BY <2>1, <2>2, <2>3 DEF Reservations, Taken
  <2>5. b \in Candidates(e)
    BY <1>2, <1>4, <2>4 DEF Candidates, Reusable, AllRun, Mapped
  <2>6. PICK a \in Candidates(e) : d = Keep(e, a)
    BY <1>4, <2>5 DEF Decisions
  <2>7. a \in seen /\ SameTarget(a, e) /\ a.ip # Omitted
    BY <1>1, <2>6 DEF Candidates, Reusable, TypeOK, Binding, Addresses, Omitted
  <2>8. At(d.ep) = SocketOf(a)
    BY <2>6, <2>7, RequestedType DEF Keep, D, At, SocketOf, Omitted
  <2> QED
    BY <2>7, <2>8
<1> QED
  BY <1>3, <1>4

\* A decision keeps addresses and is in nobody's way; the plan moves what it moved.
LEMMA PlanEntryKeep ==
  ASSUME OneEntryPerTarget, KeepInv, PlanEntry
  PROVE  PlanKeep'
<1>1. TypeOK /\ SeenInv /\ SeenFacts /\ PlanFacts /\ FastInv
  BY DEF KeepInv, RaceInv, SeenKeep, PlanKeep, PlanEntry
<1>2. /\ pc = "planning" /\ Entries \ Decided # {}
      /\ UNCHANGED <<req, primary, hash, seen, external>>
      /\ \E d \in Decisions(NextEntry) : plan' = [plan EXCEPT ![NextEntry] = d]
  BY DEF PlanEntry, listed
<1>3. PICK n \in Entry \ Decided : \E d \in Decisions(n) : plan' = [plan EXCEPT ![n] = d]
  BY <1>1, <1>2, NextIsUndecided DEF TypeOK
<1>4. PICK d \in Decisions(n) : plan' = [plan EXCEPT ![n] = d]
  BY <1>3
<1>5. /\ plan'[n] = d
      /\ \A e \in Entry \ {n} : plan'[e] = plan[e]
      /\ Decided' \subseteq Decided \cup {n}
      /\ \A e \in Decided' \ {n} : e \in Decided /\ plan'[e] = plan[e]
  BY <1>1, <1>4 DEF TypeOK, Decided
<1>6. Mapped' = Mapped
  BY <1>2 DEF Mapped
<1>7. ASSUME NEW e \in Decided' \ Mapped
      PROVE  /\ IpsConflict(At(plan'[e].ep).ip, At(Requested[e]).ip)
             /\ (req.rebuild \/ primary = "absent" \/ hash = req.maps) /\ e \in EntriesOf(Primary) =>
                  plan'[e].ep.ip = Requested[e].ip
  <2>1. CASE e = n
    BY <1>1, <1>3, <1>5, <1>7, <2>1, DecisionAddress
  <2>2. CASE e # n
    BY <1>1, <1>5, <1>7, <2>2 DEF PlanFacts
  <2> QED
    BY <2>1, <2>2
<1>8. ASSUME req.auto, ~req.rebuild, AllRun, NEW e \in Decided', NEW b \in seen, ~SameTarget(b, e)
      PROVE  ~Conflict(At(plan'[e].ep), SocketOf(b))
  <2>1. CASE e = n
    BY <1>1, <1>2, <1>3, <1>5, <1>8, <2>1, DecisionSparesRunning
  <2>2. CASE e # n
    BY <1>1, <1>5, <1>8, <2>2 DEF PlanFacts
  <2> QED
    BY <2>1, <2>2
<1>9. ASSUME req.auto, ~req.rebuild, AllRun, \A b \in seen : ~Taken(external, SocketOf(b)),
             primary = "running", hash = req.maps, NEW e \in Decided', NEW c \in seen, SameTarget(c, e)
      PROVE  \E b \in seen : SameTarget(b, e) /\ SocketOf(b) = At(plan'[e].ep)
  <2>1. CASE e = n
    BY <1>2, <1>3, <1>5, <1>9, <2>1, DecisionMovesNothing
  <2>2. CASE e # n
    <3>1. ~Moved(e)
      BY <1>1, <1>5, <1>9, <2>2 DEF PlanFacts, Moves
    <3> QED
      BY <1>5, <1>9, <2>2, <3>1 DEF Moved
  <2> QED
    BY <2>1, <2>2
<1>10. AllRun' = AllRun
  BY <1>2 DEF AllRun
<1>11. PlanFacts'
  BY <1>2, <1>6, <1>7, <1>8, <1>9, <1>10 DEF PlanFacts, Moves, Moved
<1> QED
  BY <1>11 DEF PlanKeep

\* What the plan keeps, it keeps until the up ends or plans anew.
LEMMA PlanKeepStep ==
  ASSUME OneEntryPerTarget, KeepInv, [Next]_vars
  PROVE  PlanKeep'
<1>0. TypeOK /\ PlanKeep
  BY DEF KeepInv, RaceInv
<1>1. ASSUME UNCHANGED <<req, primary, hash, seen, external, plan>>, pc \in {"planning", "compose"}
      PROVE  PlanKeep'
  <2>1. /\ Decided' = Decided /\ Mapped' = Mapped /\ AllRun' = AllRun /\ Moves' = Moves
    BY <1>1, SameMoves DEF Decided, Mapped, AllRun
  <2> QED
    BY <1>0, <1>1, <2>1 DEF PlanKeep, PlanFacts
<1>2. CASE pc' \notin {"planning", "compose"}
  BY <1>2 DEF PlanKeep
<1>3. CASE Context
  BY <1>2, <1>3 DEF Context, Start, ListContainers, ListPrimary, ListBindings, ListExternal, Listed,
     Goto
<1>4. CASE ResolveForwards
  <2>1. Decided' = {}
    BY <1>4 DEF ResolveForwards, Decided, NoPlan
  <2> QED
    BY <2>1 DEF PlanKeep, PlanFacts, Moves
<1>5. CASE Planning
  BY <1>2, <1>4, <1>5, PlanEntryKeep DEF Planning, ForwardsFail, PlanFails, Fails, Ends
<1>6. CASE Deciding
  BY <1>1, <1>2, <1>6 DEF Deciding, ConfigChanged, ReuseRunning, PrepareImages, CallCompose,
     Finished, Fails, Ends, listed, planned
<1>7. CASE Composing
  BY <1>1, <1>2, <1>7 DEF Composing, ComposeService, ComposeFails, Verify, VerifyFails, Sync, Fails,
     Ends, listed, planned
<1>8. CASE UNCHANGED vars \/ Others
  <2>1. UNCHANGED <<pc, req, primary, hash, seen, external, plan>>
    BY <1>0, <1>8, OthersPrimary DEF vars, listed, planned
  <2> QED
    BY <1>1, <1>2, <2>1
<1> QED
  BY <1>3, <1>5, <1>6, <1>7, <1>8 DEF Next

LEMMA InitKeepInv == Init => KeepInv
<1> SUFFICES ASSUME Init PROVE KeepInv
  OBVIOUS
<1>1. RaceInv
  BY InitRaceInv
<1>2. pc = "idle" /\ ~fast /\ ~Present /\ container = [v \in Services |-> "absent"]
  BY DEF Init, Present, Services
<1> QED
  BY <1>1, <1>2 DEF KeepInv, FastInv, HashInv, AfterPrimary, ForceInv, LabelInv, SeenKeep, PlanKeep

LEMMA NextKeepInv ==
  ASSUME OneEntryPerTarget, KeepInv, [Next]_vars
  PROVE  KeepInv'
<1>1. TypeOK
  BY DEF KeepInv, RaceInv
<1>2. RaceInv'
  BY NextRaceInv DEF KeepInv
<1>3. FastInv' /\ HashInv' /\ ForceInv'
  BY <1>1, FastStep, HashStep, ForceStep DEF KeepInv
<1> QED
  BY <1>2, <1>3, LabelStep, SeenKeepStep, PlanKeepStep DEF KeepInv

\* When no port of a service is published twice: an up of a project that runs calls
\* Docker Compose only if a container was stopped or another one has its port,
\* whatever was mapped, stopped, removed or failed before.
THEOREM RunsAreReused == ASSUME OneEntryPerTarget PROVE Spec => RunningIsReused
<1>1. KeepInv /\ [Next]_vars => KeepInv'
  BY NextKeepInv
<1>2. ASSUME KeepInv, CallCompose, req.auto, ~req.rebuild, primary = "running"
      PROVE  \E b \in seen : ~b.running \/ Taken(external, SocketOf(b))
  <2>1. pc = "planning" /\ Moves /\ hash = req.maps
    BY <1>2 DEF CallCompose, Finished, Changed
  <2> QED
    BY <1>2, <2>1 DEF KeepInv, PlanKeep, PlanFacts, AllRun
<1>3. KeepInv =>
        (CallCompose /\ req.auto /\ ~req.rebuild /\ primary = "running" =>
            \E b \in seen : ~b.running \/ Taken(external, SocketOf(b)))
  BY <1>2
<1> QED
  BY <1>1, <1>3, InitKeepInv, PTL DEF Spec, RunningIsReused

\* When no port of a service is published twice: a stopped container that an up
\* starts without --force-recreate is published as before, so that Docker Compose
\* does not recreate it.
THEOREM StoppedIsKept == ASSUME OneEntryPerTarget PROVE Spec => StartedIsKept
<1>1. KeepInv /\ [Next]_vars => KeepInv'
  BY NextKeepInv
<1>2. ASSUME KeepInv, ComposeService(Primary), req.auto, primary = "stopped", ~force,
             container[Primary] # "absent", NEW e \in EntriesOf(Primary)
      PROVE  published'[e] = published[e]
  <2>1. TypeOK /\ PlanInv /\ CreatedInv /\ HashInv /\ ForceInv /\ LabelInv /\ SeenKeep /\ PlanKeep
    BY <1>2 DEF KeepInv, RaceInv
  <2>2. pc = "compose" /\ AfterPrimary /\ Present /\ PlanningEnabled /\ e \in Entry
    BY <1>2 DEF ComposeService, AfterPrimary, Present, PlanningEnabled, EntriesOf
  <2>3. e \in Decided /\ Wanted(e) = plan[e].ep /\ plan[e].ep \in Endpoint
    <3>1. e \in Decided
      BY <2>1, <2>2 DEF CreatedInv, Entries
    <3> QED
      BY <2>1, <3>1 DEF TypeOK, Decided, Decision, Wanted
  <2>4. ~req.rebuild /\ ~Moves /\ hash = req.maps /\ hash = label
    BY <1>2, <2>1, <2>2 DEF ForceInv, Changed, HashInv
  <2>5. At(plan[e].ep) = At(published[e])
    <3>1. /\ \E b \in seen : SameTarget(b, e)
          /\ \A b \in seen : SameTarget(b, e) => SocketOf(b) = At(published[e])
      BY <1>2, <2>1, <2>2 DEF SeenKeep
    <3>2. \E b \in seen : SameTarget(b, e) /\ SocketOf(b) = At(plan[e].ep)
      BY <2>3, <2>4, <3>1 DEF Moves, Moved
    <3> QED
      BY <3>1, <3>2
  <2>6. plan[e].ep = published[e]
    <3>1. CASE e \in Mapped
      BY <2>1, <2>2, <2>3, <2>4, <1>2, <3>1 DEF PlanInv, MappedAsAsked, LabelInv, Mapped
    <3>2. CASE e \notin Mapped
      <4>1. plan[e].ep.ip = published[e].ip
        BY <2>1, <2>2, <2>3, <2>4, <1>2, <3>2 DEF PlanKeep, PlanFacts, LabelInv, Mapped
      <4>2. plan[e].ep.port = published[e].port
        BY <2>5 DEF At
      <4>3. published[e] \in Endpoint
        BY <2>1, <2>2 DEF TypeOK
      <4> QED
        BY <2>3, <4>1, <4>2, <4>3 DEF Endpoint
    <3> QED
      BY <3>1, <3>2
  <2>7. CASE Starts(Primary)
    BY <1>2, <2>2, <2>3, <2>6, <2>7 DEF ComposeService, Create
  <2>8. CASE ~Starts(Primary)
    BY <1>2, <2>8 DEF ComposeService, docker
  <2> QED
    BY <2>7, <2>8
<1>3. KeepInv =>
        (ComposeService(Primary) /\ req.auto /\ primary = "stopped" /\ ~force
            /\ container[Primary] # "absent" =>
          \A e \in EntriesOf(Primary) : published'[e] = published[e])
  BY <1>2
<1> QED
  BY <1>1, <1>3, InitKeepInv, PTL DEF Spec, StartedIsKept

-----------------------------------------------------------------------------
(* A container that runs keeps its ports.                                   *)

\* An endpoint at an address like the requested one, which opens no socket of the other
\* family unless the requested one does.
Like(e, ep) ==
    /\ IpsConflict(At(ep).ip, At(Requested[e]).ip)
    /\ ep.ip = Omitted => Requested[e].ip = Omitted
MappingsKeepFamily == \A r \in Requests : \A e \in DOMAIN r.maps : Like(e, r.maps[e])
\* The Compose file or a mapping asks for this port.
Asks(e, p) ==
    \/ Requested[e].port = p
    \/ \E r \in Requests : e \in DOMAIN r.maps /\ r.maps[e].port = p
\* No two services ask for the same port that cannot be probed.
UnprobeableApart ==
    \A p \in Unprobeable : \A d, e \in Entry : Asks(d, p) /\ Asks(e, p) => Service[d] = Service[e]

\* A port that cannot be probed is not one the search has found.
Modest(e, ep) == Like(e, ep) /\ (ep.port \in Unprobeable => Asks(e, ep.port))
ModestInv ==
    /\ \A e \in Entry : Modest(e, published[e])
    /\ \A e \in Decided : Modest(e, plan[e].ep)
    /\ \A b \in seen : b.port \in Unprobeable => \E e \in Entry : SameTarget(b, e) /\ Asks(e, b.port)

AfterBindings == pc \in {"external", "listed", "forwards", "planning", "compose"}
\* A binding that was listed as running is still there if the container is, and nobody
\* else was listed to have it.
ListedInv ==
    AfterBindings =>
        /\ \A b \in seen : \E d \in Entry : SameTarget(b, d)
        /\ \A b, c \in seen : b.service = c.service => b.running = c.running
        /\ \A d \in Untouched : \A b \in seen : SameTarget(b, d) /\ b.running =>
             /\ SocketOf(b) \in Sockets(published[d])
             /\ pc # "external" => ~Taken(external, SocketOf(b))
\* The plan leaves it what it has.
StaysInv ==
    pc \in {"planning", "compose"} /\ req.auto /\ ~req.rebuild =>
        \A e \in Decided : \A d \in Untouched : \A b \in seen : SameTarget(b, d) /\ b.running =>
            IF d = e THEN e \in Mapped \/ SocketOf(b) \in Sockets(plan[e].ep)
            ELSE ~Conflict(At(plan[e].ep), SocketOf(b))

StayInv == KeepInv /\ ModestInv /\ ListedInv /\ StaysInv

\* The Compose file asks for what it asks for.
LEMMA RequestedModest == ASSUME NEW e \in Entry PROVE Modest(e, Requested[e])
BY DEF Modest, Like, Asks, IpsConflict

\* A decision is as modest as what was asked and listed.
LEMMA DecisionModest ==
  ASSUME OneEntryPerTarget, MappingsKeepFamily, TypeOK, FastInv, SeenFacts, ModestInv,
         NEW e \in Entry, NEW d \in Decisions(e)
  PROVE  Modest(e, d.ep)
<1>0. Requested[e] \in Endpoint /\ Modest(e, Requested[e])
  BY RequestedAssumption, RequestedModest
<1>1. CASE e \in Mapped
  <2>1. d.ep = req.maps[e] /\ e \in DOMAIN req.maps
    BY <1>1, MappingAvoids DEF Decisions, Mapped
  <2>2. req \in Requests
    BY <2>1 DEF TypeOK, NoRequest
  <2>3. Asks(e, d.ep.port)
    BY <2>1, <2>2 DEF Asks
  <2> QED
    BY <2>1, <2>2, <2>3 DEF MappingsKeepFamily, Modest
<1>2. CASE e \notin Mapped /\ ~req.auto
  BY <1>0, <1>2 DEF Decisions, UnchangedDecision, D
<1>3. CASE e \notin Mapped /\ req.auto /\ Candidates(e) = {}
  <2>1. d \in Allocate(e)
    BY <1>3 DEF Decisions
  <2>2. CASE d \in Relocate(e)
    <3>1. PICK p \in Free(e) : d = D([Requested[e] EXCEPT !.port = p], "available")
      BY <2>2 DEF Relocate, Lowest
    <3>2. d.ep = [Requested[e] EXCEPT !.port = p]
      BY <3>1 DEF D
    <3>3. d.ep.ip = Requested[e].ip /\ d.ep.port = p
      BY <1>0, <3>2 DEF Endpoint
    <3>4. p \notin Unprobeable
      <4>1. At(Requested[e]) \in Socket
        BY <1>0, SocketsType
      <4>2. [At(Requested[e]) EXCEPT !.port = p].port = p
        BY <4>1 DEF Socket
      <4> QED
        BY <3>1, <4>2 DEF Free, Probe
    <3>5. At(d.ep).ip = At(Requested[e]).ip
      BY <3>3 DEF At
    <3> QED
      BY <1>0, <3>3, <3>4, <3>5 DEF Modest, Like
  <2>3. CASE d \notin Relocate(e)
    BY <1>0, <2>1, <2>3 DEF Allocate, D
  <2> QED
    BY <2>2, <2>3
<1>4. CASE e \notin Mapped /\ req.auto /\ Candidates(e) # {}
  <2>1. PICK b \in Candidates(e) : d = Keep(e, b)
    BY <1>4 DEF Decisions
  <2>2. b \in seen /\ b.ip # Omitted /\ SameTarget(b, e)
    BY <2>1 DEF Candidates, Reusable, TypeOK, Binding, Addresses, Omitted
  <2>3. d.ep.port = b.port /\ d.ep.ip = IF b.ip = At(Requested[e]).ip THEN Requested[e].ip ELSE b.ip
    BY <2>1 DEF Keep, D
  <2>4. IpsConflict(At(d.ep).ip, At(Requested[e]).ip)
    BY <1>4, DecisionAddress
  <2>5. b.port \in Unprobeable => Asks(e, b.port)
    BY <2>2 DEF ModestInv, SameTarget, OneEntryPerTarget
  <2> QED
    BY <2>2, <2>3, <2>4, <2>5 DEF Modest, Like
<1> QED
  BY <1>1, <1>2, <1>3, <1>4

\* What Docker Compose wants is modest as well.
LEMMA WantedModest ==
  ASSUME ModestInv, NEW e \in Entry
  PROVE  Modest(e, Wanted(e))
BY RequestedModest DEF ModestInv, Wanted

\* Nothing but modest endpoints comes about.
LEMMA ModestStep ==
  ASSUME OneEntryPerTarget, MappingsKeepFamily, KeepInv, ModestInv, [Next]_vars
  PROVE  ModestInv'
<1>0. TypeOK /\ FastInv
  BY DEF KeepInv, RaceInv
<1>1. \A e \in Entry : Modest(e, published'[e])
  <2>1. CASE UNCHANGED docker
    BY <2>1 DEF docker, ModestInv
  <2>2. ASSUME NEW v, Create(v) PROVE \A e \in Entry : Modest(e, published'[e])
    <3>1. \A e \in Entry : published'[e] \in {Wanted(e), published[e]}
      BY <2>2 DEF Create
    <3> QED
      BY <3>1, WantedModest DEF ModestInv
  <2>3. CASE Others
    <3>1. published' \in {Requested, published}
      BY <2>3 DEF Others, Down, Remove, Dies, Takes, Releases, docker
    <3> QED
      BY <3>1, RequestedModest DEF ModestInv
  <2>4. ASSUME NEW v \in Services, ComposeService(v) PROVE Create(v) \/ UNCHANGED docker
    BY <2>4 DEF ComposeService
  <2> QED
    BY <2>1, <2>2, <2>3, <2>4, DockerSteps DEF ComposeFails
<1>2. CASE PlanEntry
  <2>1. /\ pc = "planning" /\ Entries \ Decided # {} /\ seen' = seen
        /\ \E d \in Decisions(NextEntry) : plan' = [plan EXCEPT ![NextEntry] = d]
    BY <1>2 DEF PlanEntry, listed
  <2>2. SeenFacts
    BY <2>1 DEF KeepInv, SeenKeep
  <2>3. NextEntry \in Entry
    BY <1>0, <2>1, NextIsUndecided DEF TypeOK
  <2>4. PICK n \in Entry : \E d \in Decisions(n) : plan' = [plan EXCEPT ![n] = d]
    BY <2>1, <2>3
  <2>5. PICK d \in Decisions(n) : plan' = [plan EXCEPT ![n] = d]
    BY <2>4
  <2>6. \A e \in Decided' : IF e = n THEN plan'[e] = d ELSE e \in Decided /\ plan'[e] = plan[e]
    BY <1>0, <2>5 DEF TypeOK, Decided
  <2>7. Modest(n, d.ep)
    BY <1>0, <2>2, DecisionModest
  <2> QED
    BY <1>1, <2>1, <2>6, <2>7 DEF ModestInv
<1>3. CASE ListBindings
  <2>1. plan' = plan /\ seen' = UNION {Bindings(e) : e \in {d \in Entry : container[Service[d]] # "absent"}}
    BY <1>3 DEF ListBindings, planned
  <2>2. Decided' = Decided
    BY <2>1 DEF Decided
  <2>3. ASSUME NEW b \in seen', b.port \in Unprobeable
        PROVE  \E e \in Entry : SameTarget(b, e) /\ Asks(e, b.port)
    <3>1. PICK e \in Entry : b \in Bindings(e)
      BY <2>1
    <3>2. PICK s \in Sockets(published[e]) \cup {At(published[e])} : b.port = s.port
      BY <3>1 DEF Bindings
    <3>3. s.port = published[e].port
      BY <3>2 DEF Sockets, At
    <3>4. SameTarget(b, e)
      BY <1>0, <3>1, BindingsOf
    <3>5. Asks(e, b.port)
      BY <2>3, <3>2, <3>3 DEF ModestInv, Modest
    <3> QED
      BY <3>4, <3>5
  <2> QED
    BY <1>1, <2>1, <2>2, <2>3 DEF ModestInv
<1>4. ASSUME plan' \in {plan, NoPlan}, seen' \in {seen, {}} PROVE ModestInv'
  <2>1. \A e \in Decided' : e \in Decided /\ plan'[e] = plan[e]
    BY <1>4 DEF Decided, NoPlan
  <2> QED
    BY <1>1, <1>4, <2>1 DEF ModestInv
<1>5. CASE ~PlanEntry /\ ~ListBindings
  <2>1. ASSUME UNCHANGED <<plan, seen>> PROVE ModestInv'
    BY <1>4, <2>1
  <2>2. ASSUME NEW v, Ends(v) PROVE ModestInv'
    BY <1>4, <2>2 DEF Ends
  <2>3. CASE UNCHANGED vars \/ Others
    BY <2>1, <2>3 DEF vars, listed, planned, Others, Down, Remove, Dies, Takes, Releases
  <2>4. CASE Context
    BY <1>5, <2>1, <2>4 DEF Context, Start, ListContainers, ListPrimary, ListExternal, Listed, listed, planned
  <2>5. CASE Planning
    <3>1. CASE ResolveForwards
      BY <1>4, <3>1 DEF ResolveForwards, listed
    <3> QED
      BY <1>5, <2>2, <2>5, <3>1 DEF Planning, ForwardsFail, PlanFails, Fails
  <2>6. CASE Deciding
    BY <2>1, <2>2, <2>6 DEF Deciding, ConfigChanged, ReuseRunning, PrepareImages, CallCompose, Fails,
       listed, planned
  <2>7. CASE Composing
    BY <2>1, <2>2, <2>7 DEF Composing, ComposeService, ComposeFails, Verify, VerifyFails, Sync, Fails,
       listed, planned
  <2> QED
    BY <2>3, <2>4, <2>5, <2>6, <2>7 DEF Next
<1> QED
  BY <1>2, <1>3, <1>5

\* After the bindings are listed, the list stays as it is, and what runs untouched has
\* run before, published as it is.
LEMMA StillUntouched ==
  ASSUME TypeOK, SeenInv, [Next]_vars, AfterBindings', ~ListBindings
  PROVE  /\ UNCHANGED <<req, seen>>
         /\ AfterBindings \/ seen = {}
         /\ \A d \in Untouched' : d \in Untouched /\ published'[d] = published[d]
         /\ ~ListExternal => UNCHANGED external /\ (pc' # "external" => pc # "external" \/ seen = {})
<1> USE DEF AfterBindings
<1>1. ASSUME UNCHANGED <<docker, req, seen>>, AfterBindings \/ seen = {},
             pc = "compose" => pc' = "compose" /\ todo' = todo,
             ~ListExternal => UNCHANGED external /\ (pc' # "external" => pc # "external" \/ seen = {})
      PROVE  /\ UNCHANGED <<req, seen>>
             /\ AfterBindings \/ seen = {}
             /\ \A d \in Untouched' : d \in Untouched /\ published'[d] = published[d]
             /\ ~ListExternal => UNCHANGED external /\ (pc' # "external" => pc # "external" \/ seen = {})
  BY <1>1 DEF docker, Untouched, RunningEntries
<1>2. ASSUME NEW v, Ends(v) PROVE FALSE
  BY <1>2 DEF Ends
<1>3. CASE UNCHANGED vars
  BY <1>1, <1>3 DEF vars, listed
<1>4. CASE Context
  <2>1. CASE (\E r \in Requests : Start(r)) \/ ListContainers
    BY <2>1 DEF Start, ListContainers, Goto
  <2>2. CASE ListPrimary
    <3>1. seen = {}
      BY <2>2 DEF ListPrimary, Goto, SeenInv
    <3> QED
      BY <1>1, <2>2, <3>1 DEF ListPrimary, Goto
  <2>3. CASE ListExternal \/ Listed
    BY <1>1, <2>3 DEF ListExternal, Listed, Goto, listed
  <2> QED
    BY <1>4, <2>1, <2>2, <2>3 DEF Context
<1>5. CASE Planning
  <2>1. CASE ResolveForwards \/ PlanEntry
    BY <1>1, <2>1 DEF ResolveForwards, PlanEntry, Goto, listed
  <2> QED
    BY <1>2, <1>5, <2>1 DEF Planning, ForwardsFail, PlanFails, Fails
<1>6. CASE Deciding
  <2>1. CASE ReuseRunning \/ PrepareImages \/ CallCompose
    BY <1>1, <2>1 DEF ReuseRunning, PrepareImages, CallCompose, Finished, listed
  <2> QED
    BY <1>2, <1>6, <2>1 DEF Deciding, ConfigChanged, Fails
<1>7. CASE Composing
  <2>1. ASSUME NEW v \in Services, ComposeService(v)
        PROVE  /\ UNCHANGED <<req, seen, external, pc>> /\ pc = "compose"
               /\ \A d \in Untouched' : d \in Untouched /\ published'[d] = published[d]
    <3>1. UNCHANGED <<req, seen, external, pc>> /\ pc = "compose" /\ todo' = todo \ {v}
      BY <2>1 DEF ComposeService, listed
    <3>2. ASSUME NEW d \in Untouched' PROVE d \in Untouched /\ published'[d] = published[d]
      <4>1. d \in Entry /\ Service[d] # v /\ Service[d] \in todo /\ container'[Service[d]] = "running"
        BY <3>1 DEF Untouched, RunningEntries
      <4>2. container' = container \/ container' = [container EXCEPT ![v] = "running"]
        BY <2>1 DEF ComposeService, docker
      <4>3. container[Service[d]] = "running"
        BY <4>1, <4>2 DEF TypeOK
      <4>4. published'[d] = published[d]
        BY <2>1, <4>1 DEF ComposeService, docker, Create, EntriesOf
      <4> QED
        BY <4>1, <4>3, <4>4 DEF Untouched, RunningEntries
    <3> QED
      BY <3>1, <3>2
  <2>2. CASE Verify
    BY <2>2 DEF Verify
  <2> QED
    BY <1>2, <1>7, <2>1, <2>2 DEF Composing, ComposeFails, VerifyFails, Sync, Fails
<1>8. CASE Others
  <2>1. /\ UNCHANGED <<pc, req, seen, external, todo>>
        /\ \A d \in RunningEntries' : d \in RunningEntries /\ published'[d] = published[d]
    BY <1>8, OthersAside
  <2> QED
    BY <2>1 DEF Untouched
<1> QED
  BY <1>3, <1>4, <1>5, <1>6, <1>7, <1>8 DEF Next

\* The list has what runs, as it is published, and nobody else is listed to have it.
LEMMA ListedStep ==
  ASSUME OneEntryPerTarget, KeepInv, ListedInv, [Next]_vars
  PROVE  ListedInv'
<1>0. TypeOK /\ Bound /\ SeenInv
  BY DEF KeepInv, RaceInv
<1>1. CASE ~AfterBindings'
  BY <1>1 DEF ListedInv
<1>2. CASE ListBindings
  <2>1. /\ pc' = "external" /\ UNCHANGED docker
        /\ seen' = UNION {Bindings(e) : e \in {d \in Entry : container[Service[d]] # "absent"}}
    BY <1>2 DEF ListBindings, Goto
  <2>2. ASSUME NEW b \in seen'
        PROVE  \E e \in Entry : b \in Bindings(e) /\ SameTarget(b, e)
                                /\ (b.running <=> container[Service[e]] = "running")
    BY <1>0, <2>1, BindingsOf
  <2>3. ASSUME NEW b \in seen' PROVE b.running \in BOOLEAN
    <3>1. TypeOK'
      BY <1>0, NextTypeOK
    <3> QED
      BY <3>1 DEF TypeOK, Binding
  <2>4. ASSUME NEW b \in seen', NEW c \in seen', b.service = c.service PROVE b.running = c.running
    <3>1. b.running <=> c.running
      BY <2>2, <2>4 DEF SameTarget
    <3> QED
      BY <2>3, <3>1
  <2>5. ASSUME NEW d \in Untouched', NEW b \in seen', SameTarget(b, d), b.running
        PROVE  SocketOf(b) \in Sockets(published'[d])
    <3>1. PICK e \in Entry : b \in Bindings(e) /\ SameTarget(b, e)
      BY <2>2
    <3>2. e = d
      BY <2>5, <3>1 DEF SameTarget, OneEntryPerTarget, Untouched, RunningEntries
    <3>3. published' = published
      BY <2>1 DEF docker
    <3> QED
      BY <1>0, <2>5, <3>1, <3>2, <3>3, BindingsOf
  <2> QED
    BY <2>1, <2>2, <2>4, <2>5 DEF ListedInv
<1>3. CASE AfterBindings' /\ ~ListBindings
  <2>1. /\ UNCHANGED <<req, seen>>
        /\ AfterBindings \/ seen = {}
        /\ \A d \in Untouched' : d \in Untouched /\ published'[d] = published[d]
        /\ ~ListExternal => UNCHANGED external /\ (pc' # "external" => pc # "external" \/ seen = {})
    BY <1>0, <1>3, StillUntouched
  <2>2. ASSUME NEW d \in Untouched', NEW b \in seen', SameTarget(b, d), b.running
        PROVE  SocketOf(b) \in Sockets(published'[d]) /\ (pc' # "external" => ~Taken(external', SocketOf(b)))
    <3>1. SocketOf(b) \in Sockets(published[d]) /\ d \in RunningEntries
      BY <2>1, <2>2 DEF ListedInv, Untouched
    <3>2. CASE ListExternal
      <4>1. external' \subseteq {SocketOf(f) : f \in foreign}
        BY <3>2 DEF ListExternal
      <4>2. \A f \in foreign : ~Conflict(SocketOf(f), SocketOf(b))
        BY <1>0, <3>1 DEF Bound
      <4> QED
        BY <2>1, <2>2, <3>1, <4>1, <4>2 DEF Taken
    <3>3. CASE ~ListExternal
      BY <2>1, <2>2, <3>1, <3>3 DEF ListedInv
    <3> QED
      BY <3>2, <3>3
  <2>3. /\ \A b, c \in seen' : b.service = c.service => b.running = c.running
        /\ \A b \in seen' : \E d \in Entry : SameTarget(b, d)
    BY <2>1 DEF ListedInv
  <2> QED
    BY <2>2, <2>3 DEF ListedInv
<1> QED
  BY <1>1, <1>2, <1>3

\* To keep one socket of an entry, of the family that was requested, is to keep them all.
LEMMA KeepsSockets ==
  ASSUME NEW e \in Entry, NEW ep \in Endpoint, Modest(e, ep),
         NEW b, SocketOf(b) \in Sockets(ep), NEW a, SocketOf(a) \in Sockets(ep),
         IpsConflict(a.ip, At(Requested[e]).ip)
  PROVE  SocketOf(b) \in Sockets(Keep(e, a).ep)
<1>0. Requested[e] \in Endpoint
  BY RequestedAssumption
<1>1. Keep(e, a).ep = [ip |-> IF a.ip = At(Requested[e]).ip THEN Requested[e].ip ELSE a.ip, port |-> a.port]
  BY DEF Keep, D
<1>2. CASE ep.ip = Omitted
  <2>1. Requested[e].ip = Omitted /\ At(Requested[e]).ip = "0.0.0.0"
    BY <1>2 DEF Modest, Like, At
  <2>2. a.ip = "0.0.0.0" /\ a.port = ep.port
    BY <1>2, <2>1 DEF Sockets, SocketOf, IpsConflict
  <2>3. Keep(e, a).ep = [ip |-> Omitted, port |-> ep.port]
    BY <1>1, <2>1, <2>2
  <2>4. Sockets(Keep(e, a).ep) = Sockets(ep)
    BY <1>2, <2>3 DEF Sockets
  <2> QED
    BY <2>4
<1>3. CASE ep.ip # Omitted
  <2>1. SocketOf(a) = ep /\ SocketOf(b) = ep
    BY <1>3 DEF Sockets
  <2>2. a.ip = ep.ip /\ a.port = ep.port
    BY <2>1 DEF SocketOf
  <2>3. CASE a.ip = At(Requested[e]).ip
    <3>1. CASE Requested[e].ip = Omitted
      <4>1. Keep(e, a).ep = [ip |-> Omitted, port |-> ep.port] /\ ep.ip = "0.0.0.0"
        BY <1>1, <2>2, <2>3, <3>1 DEF At
      <4>2. [ip |-> "0.0.0.0", port |-> ep.port] \in Sockets(Keep(e, a).ep)
        BY <4>1 DEF Sockets
      <4>3. ep = [ip |-> "0.0.0.0", port |-> ep.port]
        BY <4>1 DEF Endpoint
      <4> QED
        BY <2>1, <4>2, <4>3
    <3>2. CASE Requested[e].ip # Omitted
      <4>1. Keep(e, a).ep = ep
        BY <1>0, <1>1, <2>2, <2>3, <3>2 DEF At, Endpoint
      <4> QED
        BY <1>3, <2>1, <4>1 DEF Sockets
    <3> QED
      BY <3>1, <3>2
  <2>4. CASE a.ip # At(Requested[e]).ip
    <3>1. Keep(e, a).ep = ep
      BY <1>1, <2>2, <2>4 DEF Endpoint
    <3> QED
      BY <1>3, <2>1, <3>1 DEF Sockets
  <2> QED
    BY <2>3, <2>4
<1> QED
  BY <1>2, <1>3

\* A decision on another port is in the way of no container that runs as it was listed.
LEMMA DecisionSparesOthers ==
  ASSUME OneEntryPerTarget, UnprobeableApart, StayInv, pc = "planning", req.auto, ~req.rebuild,
         NEW e \in Entry, NEW x \in Decisions(e),
         NEW d \in Untouched, d # e, NEW b \in seen, SameTarget(b, d), b.running
  PROVE  ~Conflict(At(x.ep), SocketOf(b))
<1>0. /\ TypeOK /\ SeenInv /\ ModestInv /\ ListedInv /\ AfterBindings
      /\ d \in Entry /\ d \in RunningEntries
  BY DEF StayInv, KeepInv, RaceInv, AfterBindings, Untouched, RunningEntries
<1>1. ~SameTarget(b, e)
  BY <1>0 DEF SameTarget, OneEntryPerTarget
<1>2. CASE e \in Mapped
  <2>1. ~Taken(RunningIn({c \in seen : ~SameTarget(c, e)}), At(x.ep))
    BY <1>2, MappingAvoids DEF Decisions
  <2>2. SocketOf(b) \in RunningIn({c \in seen : ~SameTarget(c, e)})
    BY <1>1 DEF RunningIn
  <2> QED
    BY <2>1, <2>2, ConflictSymmetric DEF Taken
<1>3. CASE e \notin Mapped /\ Candidates(e) # {}
  <2>1. PICK c \in Candidates(e) : x = Keep(e, c)
    BY <1>3 DEF Decisions
  <2>2. c \in seen /\ c.ip # Omitted /\ SameTarget(c, e)
    BY <1>0, <2>1 DEF Candidates, Reusable, TypeOK, Binding, Addresses, Omitted
  <2>3. At(x.ep) = SocketOf(c)
    BY <2>1, <2>2, RequestedType DEF Keep, D, At, SocketOf, Omitted
  <2>4. CASE c.running
    <3>1. ~SamePort(b, c)
      BY <1>1, <2>2 DEF SameTarget, SamePort
    <3> QED
      BY <1>0, <2>2, <2>3, <2>4, <3>1 DEF SeenInv
  <2>5. CASE ~c.running
    <3>1. b.service # c.service
      BY <1>0, <2>2, <2>5 DEF ListedInv
    <3>2. CASE c.port \in Unprobeable
      <4>1. ~(b.port = c.port)
        BY <1>0, <2>2, <3>1, <3>2 DEF ModestInv, SameTarget, UnprobeableApart
      <4> QED
        BY <2>3, <4>1 DEF Conflict, SocketOf
    <3>3. SocketOf(b) \in Sockets(published[d])
      BY <1>0 DEF ListedInv
    <3>4. CASE c.port \notin Unprobeable
      <4>1. SocketOf(c).port \notin Unprobeable /\ Probe(SocketOf(c)) # "occupied"
        BY <2>1, <2>5, <3>4 DEF Candidates, SocketOf
      <4>2. Probe(SocketOf(c)) = "available"
        BY <4>1 DEF Probe
      <4>3. ~Conflict(SocketOf(b), SocketOf(c))
        BY <1>0, <3>3, <4>2, AvailableIsFree
      <4> QED
        BY <2>3, <4>3, ConflictSymmetric
    <3> QED
      BY <3>2, <3>4
  <2> QED
    BY <2>4, <2>5
<1>4. CASE e \notin Mapped /\ Candidates(e) = {}
  <2>1. x \in Allocate(e)
    BY <1>4 DEF Decisions
  <2>2. SocketOf(b) \in AllReservations
    BY DEF AllReservations, Reusable, RunningIn
  <2>3. ~Taken(AllReservations, At(x.ep))
    <3>1. CASE x \in Relocate(e)
      <4>1. PICK p \in Free(e) : x = D([Requested[e] EXCEPT !.port = p], "available")
        BY <3>1 DEF Relocate, Lowest
      <4>2. At(x.ep) = [At(Requested[e]) EXCEPT !.port = p]
        BY <4>1, RequestedType DEF D
      <4> QED
        BY <4>1, <4>2 DEF Free
    <3>2. CASE x \notin Relocate(e)
      BY <2>1, <3>2 DEF Allocate, D
    <3> QED
      BY <3>1, <3>2
  <2> QED
    BY <2>2, <2>3, ConflictSymmetric DEF Taken
<1> QED
  BY <1>2, <1>3, <1>4

\* A decision on its own port leaves it what it has.
LEMMA DecisionKeepsOwn ==
  ASSUME OneEntryPerTarget, StayInv, pc = "planning", req.auto, ~req.rebuild,
         NEW e \in Untouched, e \notin Decided \cup Mapped, NEW x \in Decisions(e),
         NEW b \in seen, SameTarget(b, e), b.running
  PROVE  SocketOf(b) \in Sockets(x.ep)
<1>0. /\ TypeOK /\ Bound /\ SeenInv /\ SeenKeep /\ ModestInv /\ ListedInv /\ StaysInv /\ AfterBindings
      /\ e \in Entry /\ e \in RunningEntries /\ published[e] \in Endpoint
  BY DEF StayInv, KeepInv, RaceInv, AfterBindings, Untouched, RunningEntries, TypeOK
<1>1. At(published[e]) \in Sockets(published[e])
  BY <1>0 DEF Endpoint, Sockets, At
<1>2. ASSUME NEW a \in seen, a.running, SameTarget(a, e)
      PROVE  SocketOf(a) \in Sockets(published[e]) /\ ~Taken(external, SocketOf(a))
  BY <1>0, <1>2 DEF ListedInv
<1>3. PICK c \in seen : c.running /\ c.service = Service[e] /\ SocketOf(c) = At(published[e])
  BY <1>0, <1>1 DEF SeenInv, PlanningEnabled
<1>4. SameTarget(c, e)
  <2>1. PICK d \in Entry : SameTarget(c, d)
    BY <1>0 DEF ListedInv
  <2>2. Service[d] = Service[e] /\ d \in Untouched /\ d \in RunningEntries
    BY <1>0, <1>3, <2>1 DEF SameTarget, Untouched, RunningEntries
  <2>3. SocketOf(c) \in Sockets(published[d])
    BY <1>0, <1>3, <2>1, <2>2 DEF ListedInv
  <2>4. Conflict(SocketOf(c), At(published[e]))
    BY <1>3 DEF Conflict, IpsConflict
  <2>5. d = e
    BY <1>0, <1>1, <2>2, <2>3, <2>4 DEF Bound
  <2> QED
    BY <2>1, <2>5
<1>5. IpsConflict(c.ip, At(Requested[e]).ip)
  <2>1. c.ip = At(published[e]).ip
    BY <1>3 DEF SocketOf
  <2> QED
    BY <1>0, <2>1 DEF ModestInv, Modest, Like
<1>6. ~Taken(Reservations, SocketOf(c))
  <2>1. ASSUME NEW d \in Decided PROVE ~Conflict(At(plan[d].ep), SocketOf(c))
    BY <1>0, <1>3, <1>4, <2>1 DEF StaysInv
  <2>2. \A s \in forwards : ~Conflict(s, SocketOf(c))
    BY <1>0, ConflictSymmetric DEF SeenKeep, Taken
  <2>3. ~Taken(external, SocketOf(c))
    BY <1>2, <1>3, <1>4
  <2> QED
    BY <2>1, <2>2, <2>3 DEF Reservations, Taken
<1>7. c \in Candidates(e)
  BY <1>3, <1>4, <1>5, <1>6 DEF Candidates, Reusable
<1>8. PICK a \in Candidates(e) : x = Keep(e, a)
  BY <1>7 DEF Decisions
<1>9. a \in seen /\ SameTarget(a, e) /\ IpsConflict(a.ip, At(Requested[e]).ip)
  BY <1>8 DEF Candidates, Reusable
<1>10. a.running
  BY <1>0, <1>9 DEF ListedInv, SameTarget
<1>11. Modest(e, published[e])
  BY <1>0 DEF ModestInv
<1> QED
  BY <1>0, <1>2, <1>8, <1>9, <1>10, <1>11, KeepsSockets

\* The plan leaves what runs as it was listed what it has.
LEMMA PlanEntryStays ==
  ASSUME OneEntryPerTarget, UnprobeableApart, StayInv, PlanEntry
  PROVE  StaysInv'
<1>0. TypeOK /\ StaysInv
  BY DEF StayInv, KeepInv, RaceInv
<1>1. /\ pc = "planning" /\ Entries \ Decided # {}
      /\ UNCHANGED <<pc, req, docker, todo, seen>>
      /\ \E d \in Decisions(NextEntry) : plan' = [plan EXCEPT ![NextEntry] = d]
  BY DEF PlanEntry, listed
<1>2. PICK n \in Entry \ Decided : \E x \in Decisions(n) : plan' = [plan EXCEPT ![n] = x]
  BY <1>0, <1>1, NextIsUndecided DEF TypeOK
<1>3. PICK x \in Decisions(n) : plan' = [plan EXCEPT ![n] = x]
  BY <1>2
<1>4. /\ plan'[n] = x
      /\ \A e \in Decided' \ {n} : e \in Decided /\ plan'[e] = plan[e]
  BY <1>0, <1>3 DEF TypeOK, Decided
<1>5. Untouched' = Untouched /\ Mapped' = Mapped
  BY <1>1 DEF Untouched, RunningEntries, docker, Mapped
<1> SUFFICES ASSUME req.auto, ~req.rebuild, NEW e \in Decided', NEW d \in Untouched,
                    NEW b \in seen, SameTarget(b, d), b.running
             PROVE  IF d = e THEN e \in Mapped \/ SocketOf(b) \in Sockets(plan'[e].ep)
                    ELSE ~Conflict(At(plan'[e].ep), SocketOf(b))
  BY <1>1, <1>5 DEF StaysInv
<1>6. CASE e = n
  <2>1. CASE d = n /\ n \notin Mapped
    BY <1>1, <1>2, <1>4, <1>6, <2>1, DecisionKeepsOwn
  <2>2. CASE d # n
    BY <1>1, <1>2, <1>4, <1>6, <2>2, DecisionSparesOthers
  <2> QED
    BY <1>6, <2>1, <2>2
<1>7. CASE e # n
  BY <1>0, <1>1, <1>4, <1>7 DEF StaysInv
<1> QED
  BY <1>6, <1>7

\* So does every other step, until the up ends or plans anew.
LEMMA StaysStep ==
  ASSUME OneEntryPerTarget, UnprobeableApart, StayInv, [Next]_vars
  PROVE  StaysInv'
<1>0. TypeOK /\ SeenInv /\ StaysInv
  BY DEF StayInv, KeepInv, RaceInv
<1>1. CASE pc' \notin {"planning", "compose"}
  BY <1>1 DEF StaysInv
<1>2. CASE PlanEntry
  BY <1>2, PlanEntryStays
<1>3. CASE ResolveForwards
  <2>1. Decided' = {}
    BY <1>3 DEF ResolveForwards, Decided, NoPlan
  <2> QED
    BY <2>1 DEF StaysInv
<1>4. CASE pc' \in {"planning", "compose"} /\ ~PlanEntry /\ ~ResolveForwards
  <2>1. plan' = plan /\ pc \in {"planning", "compose"}
    <3>1. CASE UNCHANGED vars \/ Others
      BY <1>0, <1>4, <3>1, OthersPrimary DEF vars, planned
    <3>2. CASE Context \/ Planning
      BY <1>4, <3>2 DEF Context, Start, ListContainers, ListPrimary, ListBindings, ListExternal,
         Listed, Goto, Planning, ForwardsFail, PlanFails, Fails, Ends
    <3>3. CASE Deciding
      BY <1>4, <3>3 DEF Deciding, ConfigChanged, ReuseRunning, PrepareImages, CallCompose, Finished,
         Fails, Ends, planned
    <3>4. CASE Composing
      BY <1>4, <3>4 DEF Composing, ComposeService, ComposeFails, Verify, VerifyFails, Sync, Fails,
         Ends, planned
    <3> QED
      BY <3>1, <3>2, <3>3, <3>4 DEF Next
  <2>2. AfterBindings' /\ ~ListBindings
    BY <1>4 DEF AfterBindings, ListBindings, Goto
  <2>3. /\ UNCHANGED <<req, seen>>
        /\ \A d \in Untouched' : d \in Untouched /\ published'[d] = published[d]
    BY <1>0, <2>2, StillUntouched
  <2>4. Decided' = Decided /\ Mapped' = Mapped
    BY <2>1, <2>3 DEF Decided, Mapped
  <2> QED
    BY <1>0, <2>1, <2>3, <2>4 DEF StaysInv
<1> QED
  BY <1>1, <1>2, <1>3, <1>4

LEMMA InitStayInv == ASSUME Init PROVE StayInv
<1>1. KeepInv
  BY InitKeepInv
<1>2. pc = "idle" /\ published = Requested /\ seen = {} /\ Decided = {}
  BY DEF Init, Decided
<1> QED
  BY <1>1, <1>2, RequestedModest DEF StayInv, ModestInv, ListedInv, AfterBindings, StaysInv

LEMMA NextStayInv ==
  ASSUME OneEntryPerTarget, MappingsKeepFamily, UnprobeableApart, StayInv, [Next]_vars
  PROVE  StayInv'
BY NextKeepInv, ModestStep, ListedStep, StaysStep DEF StayInv

\* When no port of a service is published twice, no two services ask for the same port
\* that cannot be probed, and mappings keep to the address family of the Compose file:
\* a container that was listed running, and has run since, keeps its sockets through
\* every up that is no rebuild, relocated or not and recreated or not, but for entries
\* that are mapped.
THEOREM PortsAreKept ==
  ASSUME OneEntryPerTarget, MappingsKeepFamily, UnprobeableApart PROVE Spec => KeepsPorts
<1>1. StayInv /\ [Next]_vars => StayInv'
  BY NextStayInv
<1>2. ASSUME StayInv, NEW v \in Services, ComposeService(v), req.auto, ~req.rebuild,
             container[v] = "running", NEW b \in seen, b.service = v, b.running
      PROVE  \E e \in Entry :
                /\ SameTarget(b, e)
                /\ e \in Mapped \/ SocketOf(b) \in Sockets(published'[e])
  <2>1. TypeOK /\ CreatedInv /\ ListedInv /\ StaysInv /\ AfterBindings /\ pc = "compose" /\ v \in todo
    BY <1>2 DEF StayInv, KeepInv, RaceInv, ComposeService, AfterBindings
  <2>2. PICK e \in Entry : SameTarget(b, e)
    BY <2>1 DEF ListedInv
  <2>3. e \in Untouched /\ e \in EntriesOf(v)
    BY <1>2, <2>1, <2>2 DEF SameTarget, Untouched, RunningEntries, EntriesOf
  <2>4. e \in Decided
    BY <1>2, <2>1 DEF CreatedInv, Entries, PlanningEnabled
  <2>5. e \in Mapped \/ SocketOf(b) \in Sockets(Wanted(e))
    BY <1>2, <2>1, <2>2, <2>3, <2>4 DEF StaysInv, Wanted
  <2>6. published'[e] = Wanted(e)
    <3>1. CASE Starts(v)
      BY <1>2, <2>3, <3>1 DEF ComposeService, Create
    <3>2. CASE ~Starts(v)
      BY <1>2, <2>3, <3>2 DEF ComposeService, docker, Starts, Recreated, Differs
    <3> QED
      BY <3>1, <3>2
  <2> QED
    BY <2>2, <2>5, <2>6
<1>3. StayInv =>
        \A v \in Services :
          ComposeService(v) /\ req.auto /\ ~req.rebuild /\ container[v] = "running" =>
            \A b \in seen :
                b.service = v /\ b.running /\ ~Taken(external, SocketOf(b)) =>
                    \E e \in Entry :
                        /\ SameTarget(b, e)
                        /\ e \in Mapped \/ SocketOf(b) \in Sockets(published'[e])
  BY <1>2
<1> QED
  BY <1>1, <1>3, InitStayInv, PTL DEF Spec, KeepsPorts

=============================================================================
