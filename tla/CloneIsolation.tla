--------------------------- MODULE CloneIsolation ---------------------------
(***************************************************************************)
(* The subnets of the Compose networks of several clones of one repository  *)
(* that share a Docker daemon (runtime/compose_isolation/, network          *)
(* relocation, as up/start/compose.rs uses it).  Every clone asks for the   *)
(* same fixed subnets; an up of a clone reads Docker's networks, plans a    *)
(* subnet of the pool for each of its own, removes those that have to move  *)
(* and lets Docker Compose create them.  Nothing is reserved in between.    *)
(*                                                                         *)
(* Subnets are intervals of addresses, all in one address space of Docker;  *)
(* gateway, range and auxiliary addresses are offsets in them that depend   *)
(* on the Compose file alone, so the file stands for them.  One command at  *)
(* a time works on a clone.                                                 *)
(***************************************************************************)
EXTENDS Integers, FiniteSets, FiniteSetsExt, Sequences, SequencesExt

CONSTANTS Clones,     \* the Compose projects
          Other,      \* the owner of every other network
          Networks,   \* the networks with a fixed subnet, in planning order
          Requested,  \* their subnets in the Compose file
          Pool,       \* subnet_pool
          SlotSize,   \* addresses in a subnet of subnet_prefix
          Hash,       \* of each clone and network: the first slot to try
          Foreign,    \* subnets that other networks may have
          Files,      \* versions of the Compose file
          None

ASSUME ClonesAssumption == Other \notin Clones
ASSUME NetworksAssumption == IsFiniteSet(Networks) /\ Networks \subseteq Nat \ {0}
Subnets == {a \in [first : Nat, last : Nat] : a.first <= a.last}
ASSUME SubnetsAssumption == Requested \in [Networks -> Subnets] /\ Foreign \subseteq Subnets
ASSUME SlotAssumption ==
    /\ SlotSize \in Nat \ {0}
    /\ Pool.first \in Nat /\ Pool.last \in Nat
    /\ \E k \in 1..Pool.last + 1 : Pool.last - Pool.first + 1 = k * SlotSize
ASSUME HashAssumption == \A c \in Clones, n \in Networks : Hash[c, n] \in Nat
ASSUME NoneAssumption == None \notin Files

VARIABLES
    nets,       \* Docker's networks
    container,  \* of each clone: none, stopped, or running and attached
    label,      \* the file its container was created from
    saved,      \* the assignment in its state file
    pc, req,
    seen,       \* Docker's networks, as listed
    attached,   \* had the clone's own networks containers then?
    plan,       \* the subnets planned so far
    doomed,     \* networks_to_remove
    listed,     \* the clone's container and its label, as listed after that
    kept        \* history: the assignment that the next regular up has to keep

docker == <<nets, container, label>>
vars == <<docker, saved, pc, req, seen, attached, plan, doomed, listed, kept>>

Subnet(first) == [first |-> first, last |-> first + SlotSize - 1]
Overlaps(a, b) == a.first <= b.last /\ b.first <= a.last
Covers(a, b) == a.first <= b.first /\ b.last <= a.last
Fits(a) == Covers(Pool, a) /\ a.last - a.first + 1 = SlotSize
Network(p, n, a, f) == [project |-> p, net |-> n, at |-> a, file |-> f]
Apart(S) == \A x, y \in S : x # y => ~Overlaps(x.at, y.at)
Own(S, c, n) == {x \in S : x.project = c /\ x.net = n}
Clashes(S, a) == {x \in S : Overlaps(x.at, a)}

NoRequest == [rebuild |-> FALSE, file |-> None]
Requests == [rebuild : BOOLEAN, file : Files]
NoPlan == [n \in Networks |-> None]
Unlisted == [state |-> "none", file |-> None]

-----------------------------------------------------------------------------
(* The slots of the pool (subnet.rs).                                       *)

SlotCount == (Pool.last - Pool.first + 1) \div SlotSize

SlotsOf(a) ==
    [first |-> (Max({Pool.first, a.first}) - Pool.first) \div SlotSize,
     last |-> (Min({Pool.last, a.last}) - Pool.first) \div SlotSize]
Latest(S) == CHOOSE i \in S : \A j \in S : j.first <= i.first
Merged(s, i) ==
    IF s # <<>> /\ i.first <= Last(s).last + 1
    THEN ReplaceAt(s, Len(s), [Last(s) EXCEPT !.last = Max({@, i.last})])
    ELSE Append(s, i)
\* occupied_slot_intervals: apart from each other and in order.  The one that
\* starts last is merged last.
Occupied(unavailable) ==
    MapThenFoldSet(LAMBDA i, s : Merged(s, i), <<>>, LAMBDA i : i, Latest,
                   {SlotsOf(a) : a \in {b \in unavailable : Overlaps(Pool, b)}})

\* Mutated form: an interval that ends at the candidate is thought to be below it.
PassedOffByOne(found, i, end) ==
    IF found.done \/ i.last <= found.at THEN found
    ELSE IF i.first >= end \/ i.first > found.at THEN [found EXCEPT !.done = TRUE]
    ELSE [at |-> i.last + 1, done |-> i.last + 1 >= end]
\* One turn of the loop of first_free_slot.
Passed(found, i, end) ==
    IF found.done \/ i.last < found.at THEN found
    ELSE IF i.first >= end \/ i.first > found.at THEN [found EXCEPT !.done = TRUE]
    ELSE [at |-> i.last + 1, done |-> i.last + 1 >= end]
FirstFree(occupied, start, end) ==
    LET found == FoldLeft(LAMBDA s, i : Passed(s, i, end),
                          [at |-> start, done |-> start >= end], occupied)
    IN  {found.at} \cap start..end - 1

\* Mutated form: the search does not wrap.
AllocateUpwards(c, n, unavailable) ==
    {Subnet(Pool.first + s * SlotSize) :
        s \in FirstFree(Occupied(unavailable), Hash[c, n] % SlotCount, SlotCount)}
\* allocate_ipv4_subnet_slot: from the hash upwards, then from the bottom.
Allocate(c, n, unavailable) ==
    LET initial == Hash[c, n] % SlotCount
        upper == FirstFree(Occupied(unavailable), initial, SlotCount)
        lower == FirstFree(Occupied(unavailable), 0, initial)
    IN  {Subnet(Pool.first + s * SlotSize) : s \in IF upper # {} THEN upper ELSE lower}

-----------------------------------------------------------------------------
(* The plan of one network (plan_compose_isolation_subnets).                *)

Planned(c) == {plan[c][n] : n \in Networks} \ {None}
Undecided(c) == {n \in Networks : plan[c][n] = None}
NextNetwork(c) == Min(Undecided(c))

\* unavailable_subnets: every network but the one that is planned.
Unavailable(c, n) ==
    Planned(c) \cup {x.at : x \in seen[c] \ Own(seen[c], c, n)}
Available(c, n, a) == Fits(a) /\ \A b \in Unavailable(c, n) : ~Overlaps(a, b)

Existing(c, n) == {x.at : x \in Own(seen[c], c, n)}
\* Mutated form: what the state file says is not read.
StableByDocker(c, n) == {a \in Existing(c, n) : Available(c, n, a)}
\* preferred_existing_subnet, then preferred_state_subnet.
Stable(c, n) ==
    LET existing == {a \in Existing(c, n) : Available(c, n, a)}
    IN  IF existing # {} THEN existing
        ELSE {a \in {saved[c][n]} \ {None} : Available(c, n, a)}

\* Empty when the pool is exhausted.
Candidates(c, n) ==
    LET preferred == IF req[c].rebuild THEN {a \in {Requested[n]} : Available(c, n, a)}
                     ELSE Stable(c, n)
    IN  IF preferred # {} THEN preferred ELSE Allocate(c, n, Unavailable(c, n))

-----------------------------------------------------------------------------
\* A clone may have been up before relocation was turned on, if Docker allows it.
Init ==
    /\ nets \in {{}} \cup {{Network(c, n, Requested[n], None) : n \in Networks} : c \in Clones}
    /\ Apart(nets)
    /\ container = [c \in Clones |-> IF \E x \in nets : x.project = c THEN "stopped" ELSE "none"]
    /\ label = [c \in Clones |-> None]
    /\ saved = [c \in Clones |-> NoPlan]
    /\ pc = [c \in Clones |-> "idle"]
    /\ req = [c \in Clones |-> NoRequest]
    /\ seen = [c \in Clones |-> {}]
    /\ attached = [c \in Clones |-> FALSE]
    /\ plan = [c \in Clones |-> NoPlan]
    /\ doomed = [c \in Clones |-> {}]
    /\ listed = [c \in Clones |-> Unlisted]
    /\ kept = [c \in Clones |-> NoPlan]

Goto(c, from, to) == pc[c] = from /\ pc' = [pc EXCEPT ![c] = to]

\* The command ends and what it knew is gone.
Ends(c) ==
    /\ pc' = [pc EXCEPT ![c] = "idle"]
    /\ req' = [req EXCEPT ![c] = NoRequest]
    /\ seen' = [seen EXCEPT ![c] = {}]
    /\ attached' = [attached EXCEPT ![c] = FALSE]
    /\ plan' = [plan EXCEPT ![c] = NoPlan]
    /\ doomed' = [doomed EXCEPT ![c] = {}]
    /\ listed' = [listed EXCEPT ![c] = Unlisted]
Fails(c) == Ends(c) /\ UNCHANGED <<docker, saved, kept>>

(* An up or a rebuild: the preflight                                        *)

\* Only a rebuild may give up the assignment.
StartUp(c, r) ==
    /\ Goto(c, "idle", "list")
    /\ req' = [req EXCEPT ![c] = r]
    /\ kept' = [kept EXCEPT ![c] = IF r.rebuild THEN NoPlan ELSE @]
    /\ UNCHANGED <<docker, saved, seen, attached, plan, doomed, listed>>

\* compose_isolation_daemon_snapshot
Snapshot(c) ==
    /\ Goto(c, "list", "plan")
    /\ seen' = [seen EXCEPT ![c] = nets]
    /\ attached' = [attached EXCEPT ![c] = container[c] = "running"]
    /\ UNCHANGED <<docker, saved, req, plan, doomed, listed, kept>>

PlanNetwork(c) ==
    /\ pc[c] = "plan" /\ Undecided(c) # {}
    /\ \E a \in Candidates(c, NextNetwork(c)) : plan' = [plan EXCEPT ![c][NextNetwork(c)] = a]
    /\ UNCHANGED <<docker, saved, pc, req, seen, attached, doomed, listed, kept>>

PoolExhausted(c) ==
    /\ pc[c] = "plan" /\ Undecided(c) # {}
    /\ Candidates(c, NextNetwork(c)) = {}
    /\ Fails(c)

\* networks_to_recreate: docker_ipam_matches_allocation fails for them.
Mismatched(c) ==
    {n \in Networks : \E x \in Own(seen[c], c, n) :
                        x.at # plan[c][n] \/ x.file # req[c].file}

Finalize(c) ==
    /\ Goto(c, "plan", "decide") /\ Undecided(c) = {}
    /\ Mismatched(c) = {} \/ ~attached[c]
    /\ doomed' = [doomed EXCEPT ![c] = Mismatched(c)]
    /\ listed' = [listed EXCEPT ![c] = [state |-> container[c], file |-> label[c]]]
    /\ UNCHANGED <<docker, saved, req, seen, attached, plan, kept>>

StillAttached(c) ==
    /\ pc[c] = "plan" /\ Undecided(c) = {}
    /\ Mismatched(c) # {} /\ attached[c]
    /\ Fails(c)

(* The start of the project                                                 *)

Reusable(c) == listed[c].state # "none" /\ listed[c].file = req[c].file
ConfigChanged(c) ==
    /\ pc[c] = "decide"
    /\ ~req[c].rebuild /\ listed[c].state # "none" /\ ~Reusable(c)
    /\ Fails(c)

\* ReuseRunning: Docker Compose is not called.
ReuseRunning(c) ==
    /\ Goto(c, "decide", "sync")
    /\ ~req[c].rebuild /\ listed[c].state = "running" /\ Reusable(c) /\ doomed[c] = {}
    /\ UNCHANGED <<docker, saved, req, seen, attached, plan, doomed, listed, kept>>

\* reconcile_state_without_container: what the state file said is now known to
\* this up only.
ProceedAnew(c) ==
    /\ Goto(c, "decide", "remove")
    /\ listed[c].state = "none"
    /\ saved' = [saved EXCEPT ![c] = NoPlan]
    /\ kept' = [kept EXCEPT ![c] = NoPlan]
    /\ UNCHANGED <<docker, req, seen, attached, plan, doomed, listed>>
\* A stopped container, or one that is recreated for this or another reason.
ProceedWith(c) ==
    /\ Goto(c, "decide", "remove")
    /\ listed[c].state # "none" /\ (req[c].rebuild \/ Reusable(c))
    /\ kept' = [kept EXCEPT ![c] =
                  [n \in Networks |-> IF plan[c][n] = @[n] THEN @[n] ELSE None]]
    /\ UNCHANGED <<docker, saved, req, seen, attached, plan, doomed, listed>>

\* remove_stale_compose_isolation_networks: Docker removes a network that is
\* there and that nobody is attached to.
Removable(c, n) == Own(nets, c, n) # {} /\ container[c] # "running"
RemoveNetwork(c) ==
    /\ pc[c] = "remove" /\ doomed[c] # {}
    /\ Removable(c, Min(doomed[c]))
    /\ nets' = nets \ Own(nets, c, Min(doomed[c]))
    /\ doomed' = [doomed EXCEPT ![c] = @ \ {Min(@)}]
    /\ UNCHANGED <<container, label, saved, pc, req, seen, attached, plan, listed, kept>>
RemoveFails(c) ==
    /\ pc[c] = "remove" /\ doomed[c] # {}
    /\ ~Removable(c, Min(doomed[c]))
    /\ Fails(c)

\* docker compose up: the networks that are missing, then the containers.
CallCompose(c) ==
    /\ Goto(c, "remove", "compose") /\ doomed[c] = {}
    /\ UNCHANGED <<docker, saved, req, seen, attached, plan, doomed, listed, kept>>
Missing(c) == {n \in Networks : Own(nets, c, n) = {}}
CreateNetwork(c) ==
    /\ pc[c] = "compose" /\ Missing(c) # {}
    /\ LET n == Min(Missing(c))
       IN  /\ Clashes(nets, plan[c][n]) = {}
           /\ nets' = nets \cup {Network(c, n, plan[c][n], req[c].file)}
    /\ UNCHANGED <<container, label, saved, pc, req, seen, attached, plan, doomed, listed, kept>>
SubnetRefused(c) ==
    /\ pc[c] = "compose" /\ Missing(c) # {}
    /\ Clashes(nets, plan[c][Min(Missing(c))]) # {}
    /\ Fails(c)
StartContainers(c) ==
    /\ Goto(c, "compose", "sync") /\ Missing(c) = {}
    /\ container' = [container EXCEPT ![c] = "running"]
    /\ label' = [label EXCEPT ![c] = req[c].file]
    /\ UNCHANGED <<nets, saved, req, seen, attached, plan, doomed, listed, kept>>

\* sync_started_compose_state
Sync(c) ==
    /\ pc[c] = "sync"
    /\ saved' = [saved EXCEPT ![c] = plan[c]]
    /\ kept' = [kept EXCEPT ![c] = plan[c]]
    /\ Ends(c)
    /\ UNCHANGED docker

(* Other commands, and what others do                                       *)

\* docker compose stop
Down(c) ==
    /\ pc[c] = "idle" /\ container[c] = "running"
    /\ container' = [container EXCEPT ![c] = "stopped"]
    /\ UNCHANGED <<nets, label, saved, pc, req, seen, attached, plan, doomed, listed, kept>>

\* docker compose down -v, then the state directory.
RemoveProject(c) ==
    /\ Goto(c, "idle", "forget")
    /\ container' = [container EXCEPT ![c] = "none"]
    /\ label' = [label EXCEPT ![c] = None]
    /\ nets' = {x \in nets : x.project # c}
    /\ kept' = [kept EXCEPT ![c] = NoPlan]
    /\ UNCHANGED <<saved, req, seen, attached, plan, doomed, listed>>
Forget(c) ==
    /\ Goto(c, "forget", "idle")
    /\ saved' = [saved EXCEPT ![c] = NoPlan]
    /\ UNCHANGED <<docker, req, seen, attached, plan, doomed, listed, kept>>

\* An up that dies, or fails elsewhere.
Crash(c) == pc[c] # "idle" /\ Fails(c)

ContainerExits(c) ==
    /\ container[c] = "running"
    /\ container' = [container EXCEPT ![c] = "stopped"]
    /\ UNCHANGED <<nets, label, saved, pc, req, seen, attached, plan, doomed, listed, kept>>
ContainerRemoved(c) ==
    /\ container[c] = "stopped"
    /\ container' = [container EXCEPT ![c] = "none"]
    /\ label' = [label EXCEPT ![c] = None]
    /\ UNCHANGED <<nets, saved, pc, req, seen, attached, plan, doomed, listed, kept>>
\* docker network prune
Prune(x) ==
    /\ x.project \in Clones => container[x.project] # "running"
    /\ nets' = nets \ {x}
    /\ UNCHANGED <<container, label, saved, pc, req, seen, attached, plan, doomed, listed, kept>>
OtherNetwork(a) ==
    /\ Clashes(nets, a) = {}
    /\ nets' = nets \cup {Network(Other, 0, a, None)}
    /\ UNCHANGED <<container, label, saved, pc, req, seen, attached, plan, doomed, listed, kept>>

Up(c) ==
    \/ \E r \in Requests : StartUp(c, r)
    \/ Snapshot(c) \/ PlanNetwork(c) \/ PoolExhausted(c) \/ Finalize(c) \/ StillAttached(c)
    \/ ConfigChanged(c) \/ ReuseRunning(c) \/ ProceedAnew(c) \/ ProceedWith(c) \/ RemoveNetwork(c) \/ RemoveFails(c)
    \/ CallCompose(c) \/ CreateNetwork(c) \/ SubnetRefused(c) \/ StartContainers(c) \/ Sync(c)

Next ==
    \/ \E c \in Clones : \/ Up(c) \/ Down(c) \/ RemoveProject(c) \/ Forget(c) \/ Crash(c)
                         \/ ContainerExits(c) \/ ContainerRemoved(c)
    \/ \E x \in nets : Prune(x)
    \/ \E a \in Foreign : OtherNetwork(a)

Spec == Init /\ [][Next]_vars
-----------------------------------------------------------------------------
TypeOK ==
    /\ \A x \in nets : x.project \in Clones \cup {Other} /\ x.at \in Subnets
    /\ container \in [Clones -> {"none", "stopped", "running"}]
    /\ label \in [Clones -> Files \cup {None}]
    /\ saved \in [Clones -> [Networks -> Subnets \cup {None}]]
    /\ pc \in [Clones -> {"idle", "list", "plan", "decide", "remove", "compose", "sync", "forget"}]
    /\ \A c \in Clones : pc[c] \notin {"idle", "forget"} => req[c] \in Requests
    /\ attached \in [Clones -> BOOLEAN]
    /\ plan \in [Clones -> [Networks -> Subnets \cup {None}]]
    /\ doomed \in [Clones -> SUBSET Networks]
    /\ \A c \in Clones : listed[c].file \in Files \cup {None}
    /\ kept \in [Clones -> [Networks -> Subnets \cup {None}]]

\* What Docker listed and what is planned already, but for the network itself.
InTheWay(c, n, a) ==
    \/ \E x \in seen[c] : Overlaps(x.at, a) /\ ~(x.project = c /\ x.net = n)
    \/ \E m \in Networks \ {n} : plan[c][m] # None /\ Overlaps(plan[c][m], a)

\* An up gives up for want of a subnet only when each slot of the pool is in use.
ExhaustedMeansFull ==
    \A c \in Clones :
        (pc[c] = "plan" /\ Undecided(c) # {} /\ Candidates(c, NextNetwork(c)) = {})
            => \A s \in 0..SlotCount - 1 :
                 InTheWay(c, NextNetwork(c), Subnet(Pool.first + s * SlotSize))

\* Docker refuses a planned subnet only because of a network that came after
\* the preflight, so that another up, which lists it, plans around it.
ClashIsARace ==
    \A c \in Clones :
        (pc[c] = "compose" /\ Missing(c) # {})
            => \A x \in Clashes(nets, plan[c][Min(Missing(c))]) : x \notin seen[c]

\* Whatever stops, is pruned or removed between two ups, a regular up returns
\* to the subnet that the clone had, as long as nobody else is in it; an up of
\* a running clone moves nothing.
AssignmentKept ==
    \A c \in Clones : ~req[c].rebuild =>
        /\ \A n \in Networks :
             (plan[c][n] # None /\ kept[c][n] # None)
                => plan[c][n] = kept[c][n] \/ InTheWay(c, n, kept[c][n])
        /\ (pc[c] = "plan" /\ Undecided(c) = {} /\ attached[c]
            /\ container[c] = "running" /\ label[c] = req[c].file) => Mismatched(c) = {}
=============================================================================
