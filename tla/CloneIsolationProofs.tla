------------------------ MODULE CloneIsolationProofs ------------------------
(***************************************************************************)
(* For any number of clones and networks, any pool, slot size and hash, and *)
(* any neighbours: CloneIsolation is type correct, and a regular up returns *)
(* to the subnets its clone had unless somebody else is in them.  The slot  *)
(* search finds a free slot whenever there is one, so that an up gives up   *)
(* only when the pool is full, and a refused subnet was taken meanwhile.    *)
(***************************************************************************)
EXTENDS CloneIsolation, FiniteSetTheorems, WellFoundedInduction, TLAPS
\* The types: Docker, the state files, the stage and the knowledge of commands.
Nets == [project : Clones \cup {Other}, net : Networks \cup {0}, at : Subnets, file : Files \cup {None}]

DockerTypes ==
    /\ nets \in SUBSET Nets
    /\ container \in [Clones -> {"none", "stopped", "running"}]
    /\ label \in [Clones -> Files \cup {None}]
FileTypes ==
    /\ saved \in [Clones -> [Networks -> Subnets \cup {None}]]
    /\ kept \in [Clones -> [Networks -> Subnets \cup {None}]]
Pcs == {"idle", "list", "plan", "decide", "remove", "compose", "sync", "forget"}
StageTypes ==
    /\ pc \in [Clones -> Pcs]
    /\ req \in [Clones -> Requests \cup {NoRequest}]
    /\ \A c \in Clones : pc[c] \notin {"idle", "forget"} => req[c] \in Requests
CommandTypes ==
    /\ seen \in [Clones -> SUBSET Nets]
    /\ attached \in [Clones -> BOOLEAN]
    /\ plan \in [Clones -> [Networks -> Subnets \cup {None}]]
    /\ doomed \in [Clones -> SUBSET Networks]
    /\ listed \in [Clones -> [state : {"none", "stopped", "running"}, file : Files \cup {None}]]
Types == DockerTypes /\ FileTypes /\ StageTypes /\ CommandTypes

LEMMA TypesOK == Types => TypeOK
<1> SUFFICES ASSUME Types PROVE TypeOK
  OBVIOUS
<1> USE DEF Types
<1>1. \A x \in nets : x.project \in Clones \cup {Other} /\ x.at \in Subnets
  BY DEF DockerTypes, Nets
<1>2. container \in [Clones -> {"none", "stopped", "running"}] /\ label \in [Clones -> Files \cup {None}]
  BY DEF DockerTypes
<1>3. /\ pc \in [Clones -> Pcs]
      /\ \A c \in Clones : pc[c] \notin {"idle", "forget"} => req[c] \in Requests
  BY DEF StageTypes
<1>4. \A c \in Clones : listed[c].file \in Files \cup {None}
  BY DEF CommandTypes
<1> QED
  BY <1>1, <1>2, <1>3, <1>4 DEF FileTypes, CommandTypes, TypeOK, Pcs

-----------------------------------------------------------------------------
(* Numbers.                                                                  *)

\* A set of numbers has a least one, and Min is in the set.
LEMMA LeastNumber == ASSUME NEW S \in SUBSET Nat, S # {} PROVE \E x \in S : \A y \in S : ~(y < x)
<1> DEFINE R == OpToRel(<, Nat)
<1>1. IsWellFoundedOn(R, Nat)
  BY NatLessThanWellFounded
<1>2. \E x \in S : \A y \in S : <<y, x>> \notin R
  <2> HIDE DEF R
  <2> QED
    BY <1>1, WFMin
<1>3. \A x, y \in Nat : y < x => <<y, x>> \in R
  BY DEF OpToRel
<1> QED
  BY <1>2, <1>3

LEMMA MinIn == ASSUME NEW S \in SUBSET Networks, S # {} PROVE Min(S) \in S
<1>1. S \in SUBSET Nat
  BY NetworksAssumption
<1>2. PICK x \in S : \A y \in S : ~(y < x)
  BY <1>1, LeastNumber
<1>3. \A y \in S : x <= y
  BY <1>1, <1>2
<1> QED
  BY <1>3 DEF Min

\* The subnet of a slot lies in the pool.
LEMMA SlotFits ==
  ASSUME NEW s \in Int, 0 <= s, s < SlotCount
  PROVE  Subnet(Pool.first + s * SlotSize) \in Subnets /\ Fits(Subnet(Pool.first + s * SlotSize))
<1> DEFINE first == Pool.first + s * SlotSize
<1>1. PICK k \in Nat : Pool.last - Pool.first + 1 = k * SlotSize
  BY SlotAssumption
<1>2. SlotCount = k
  BY <1>1, SlotAssumption DEF SlotCount
<1>3. (s + 1) * SlotSize <= k * SlotSize
  BY <1>2, SlotAssumption
<1>4. (s + 1) * SlotSize = s * SlotSize + SlotSize /\ s * SlotSize \in Nat
  BY SlotAssumption
<1>5. first \in Nat /\ Pool.first <= first /\ first + SlotSize - 1 <= Pool.last
  BY <1>1, <1>3, <1>4, SlotAssumption
<1> HIDE DEF first
<1>6. Subnet(first).first = first /\ Subnet(first).last = first + SlotSize - 1
  BY DEF Subnet
<1>7. Subnet(first) \in Subnets
  BY <1>5, SlotAssumption DEF Subnet, Subnets
<1>8. Fits(Subnet(first))
  BY <1>5, <1>6, SlotAssumption DEF Fits, Covers
<1> QED
  BY <1>7, <1>8 DEF first

LEMMA OverlapsSymmetric == \A a, b : Overlaps(a, b) = Overlaps(b, a)
BY DEF Overlaps

\* Whatever the search of the slots finds is a subnet of the pool.
LEMMA AllocateFits ==
  ASSUME NEW c \in Clones, NEW n \in Networks, NEW S, NEW a \in Allocate(c, n, S)
  PROVE  a \in Subnets /\ Fits(a)
<1> DEFINE initial == Hash[c, n] % SlotCount
           upper == FirstFree(Occupied(S), initial, SlotCount)
           lower == FirstFree(Occupied(S), 0, initial)
<1>1. SlotCount \in Nat \ {0}
  <2>1. PICK k \in 1 .. Pool.last + 1 : Pool.last - Pool.first + 1 = k * SlotSize
    BY SlotAssumption
  <2> QED
    BY <2>1, SlotAssumption DEF SlotCount
<1>2. initial \in 0 .. SlotCount - 1
  <2>1. Hash[c, n] \in Nat
    BY HashAssumption
  <2>2. \A x \in Nat, m \in Nat \ {0} : x % m \in 0 .. m - 1
    OBVIOUS
  <2> QED
    BY <1>1, <2>1, <2>2
<1>3. upper \subseteq initial .. SlotCount - 1 /\ lower \subseteq 0 .. initial - 1
  BY DEF FirstFree
<1>4. \E s \in upper \cup lower : a = Subnet(Pool.first + s * SlotSize)
  BY DEF Allocate
<1> HIDE DEF initial, upper, lower
<1>5. upper \cup lower \subseteq {s \in Int : 0 <= s /\ s < SlotCount}
  BY <1>1, <1>2, <1>3
<1> QED
  BY <1>4, <1>5, SlotFits

LEMMA CandidatesFit ==
  ASSUME Types, NEW c \in Clones, NEW n \in Networks, NEW a \in Candidates(c, n)
  PROVE  a \in Subnets /\ Fits(a)
<1>1. CASE a \in Allocate(c, n, Unavailable(c, n))
  BY <1>1, AllocateFits
<1>2. CASE Available(c, n, a) /\ a \in {Requested[n]} \cup Existing(c, n) \cup ({saved[c][n]} \ {None})
  <2>1. Requested[n] \in Subnets
    BY SubnetsAssumption DEF Subnets
  <2>2. Existing(c, n) \subseteq Subnets
    BY DEF Existing, Own, Types, CommandTypes, Nets
  <2>3. saved[c][n] \in Subnets \cup {None}
    BY DEF Types, FileTypes
  <2> QED
    BY <1>2, <2>1, <2>2, <2>3 DEF Available
<1> QED
  BY <1>1, <1>2 DEF Candidates, Stable

-----------------------------------------------------------------------------
(* Types.                                                                    *)

LEMMA NoPlanType == NoPlan \in [Networks -> Subnets \cup {None}]
BY DEF NoPlan

LEMMA NetworkType ==
  ASSUME NEW p \in Clones \cup {Other}, NEW n \in Networks \cup {0}, NEW a \in Subnets,
         NEW f \in Files \cup {None}
  PROVE  /\ Network(p, n, a, f) \in Nets /\ Network(p, n, a, f).project = p
         /\ Network(p, n, a, f).net = n /\ Network(p, n, a, f).at = a /\ Network(p, n, a, f).file = f
BY DEF Network, Nets

LEMMA InitTypes == Init => Types
<1> SUFFICES ASSUME Init PROVE Types
  OBVIOUS
<1>1. nets \in SUBSET Nets
  <2>1. \A n \in Networks : Requested[n] \in Subnets
    BY SubnetsAssumption DEF Subnets
  <2>2. \A c \in Clones, n \in Networks : Network(c, n, Requested[n], None) \in Nets
    BY <2>1, NetworkType
  <2> QED
    BY <2>2 DEF Init
<1> QED
  BY <1>1, NoPlanType DEF Init, Types, DockerTypes, FileTypes, StageTypes, CommandTypes, Pcs,
     NoRequest, Unlisted

\* The end of a command.
LEMMA EndsTypes == ASSUME Types, NEW c \in Clones, Ends(c) PROVE StageTypes' /\ CommandTypes'
<1>1. StageTypes'
  BY DEF Types, StageTypes, Pcs, Ends
<1>2. CommandTypes'
  BY NoPlanType DEF Types, CommandTypes, Ends, Unlisted
<1> QED
  BY <1>1, <1>2

\* The next step of a command.
LEMMA GotoTypes ==
  ASSUME StageTypes, NEW c \in Clones, NEW p \in Pcs, NEW q \in Pcs \ {"idle", "forget"},
         Goto(c, q, p) \/ (pc[c] = q /\ UNCHANGED pc), UNCHANGED req
  PROVE  StageTypes'
BY DEF StageTypes, Goto

\* The steps of an up that change what it knows.
LEMMA CommandStepTypes ==
  ASSUME Types, NEW c \in Clones,
         Snapshot(c) \/ PlanNetwork(c) \/ Finalize(c) \/ RemoveNetwork(c)
  PROVE  CommandTypes'
<1> USE DEF Types, CommandTypes
<1>1. CASE Snapshot(c)
  BY <1>1 DEF Snapshot, DockerTypes
<1>2. CASE PlanNetwork(c)
  <2>1. PICK a \in Candidates(c, NextNetwork(c)) : plan' = [plan EXCEPT ![c][NextNetwork(c)] = a]
    BY <1>2 DEF PlanNetwork
  <2>2. NextNetwork(c) \in Networks
    <3>1. Undecided(c) \in SUBSET Networks /\ Undecided(c) # {}
      BY <1>2 DEF PlanNetwork, Undecided
    <3> QED
      BY <3>1, MinIn DEF NextNetwork
  <2>3. a \in Subnets
    BY <2>1, <2>2, CandidatesFit
  <2>4. plan' \in [Clones -> [Networks -> Subnets \cup {None}]]
    BY <2>1, <2>2, <2>3
  <2> QED
    BY <1>2, <2>4 DEF PlanNetwork
<1>3. CASE Finalize(c)
  BY <1>3 DEF Finalize, Mismatched, DockerTypes
<1>4. CASE RemoveNetwork(c)
  BY <1>4 DEF RemoveNetwork
<1> QED
  BY <1>1, <1>2, <1>3, <1>4

-----------------------------------------------------------------------------
(* The inductive invariant.                                                  *)

Before(c) == pc[c] \in {"plan", "decide"}
After(c) == pc[c] \in {"remove", "compose", "sync"}

\* A plan is made in "plan", and complete after it; what it gives fits into the pool.
PlanStage(c) ==
    /\ pc[c] \in {"idle", "list", "forget"} => plan[c] = NoPlan
    /\ pc[c] = "decide" \/ After(c) => Undecided(c) = {}
    /\ \A n \in Networks : plan[c][n] # None => Fits(plan[c][n])
\* What a regular up has to keep is what the state file says and Docker has.
KeptPlace(c) ==
    /\ pc[c] = "forget" => kept[c] = NoPlan
    /\ \A n \in Networks : kept[c][n] # None =>
        /\ Fits(kept[c][n]) /\ saved[c][n] = kept[c][n]
        /\ \A x \in Own(nets, c, n) : x.at = kept[c][n]
        /\ Before(c) => \A x \in Own(seen[c], c, n) : x.at = kept[c][n]
        /\ After(c) => plan[c][n] = kept[c][n]
\* What was listed is no older than what is left of the clone's networks.
SeenPlace(c) ==
    Before(c) => /\ Apart(seen[c])
                 /\ \A n \in Networks :
                      /\ Own(nets, c, n) \subseteq Own(seen[c], c, n)
                      /\ container[c] = "running" => Own(nets, c, n) = Own(seen[c], c, n)
\* Once those in doomed are gone, the clone's networks are where the plan has them.
Placed(c) ==
    /\ pc[c] = "decide" =>
         /\ doomed[c] = Mismatched(c)
         /\ listed[c].state = "running" => \A n \in Networks : Own(seen[c], c, n) # {}
    /\ pc[c] \in {"compose", "sync"} => doomed[c] = {}
    /\ After(c) => \A n \in Networks \ doomed[c] : \A x \in Own(nets, c, n) :
                     x.at = plan[c][n] /\ x.file = req[c].file
\* A running container has all its networks, one each, made for the same file.
RunningPlace(c) ==
    container[c] = "running" => \A n \in Networks : \E x \in nets :
        Own(nets, c, n) = {x} /\ Fits(x.at) /\ x.file = label[c]
\* The two parts of AssignmentKept.
PlanKeeps(c) ==
    (Before(c) /\ ~req[c].rebuild) => \A n \in Networks :
        (plan[c][n] # None /\ kept[c][n] # None)
            => plan[c][n] = kept[c][n] \/ InTheWay(c, n, kept[c][n])
PlanStays(c) ==
    (pc[c] = "plan" /\ container[c] = "running" /\ ~req[c].rebuild) => \A n \in Networks :
        plan[c][n] # None => \A x \in Own(seen[c], c, n) : x.at = plan[c][n]

CloneInv(c) == /\ PlanStage(c) /\ KeptPlace(c) /\ SeenPlace(c) /\ Placed(c)
               /\ RunningPlace(c) /\ PlanKeeps(c) /\ PlanStays(c)

LEMMA DockerStepTypes ==
  ASSUME Types, NEW c \in Clones, PlanStage(c),
         \/ RemoveNetwork(c) \/ CreateNetwork(c) \/ StartContainers(c)
         \/ Down(c) \/ RemoveProject(c) \/ ContainerExits(c) \/ ContainerRemoved(c)
  PROVE  DockerTypes'
<1> USE DEF DockerTypes, Types
<1>1. CASE CreateNetwork(c)
  <2>1. Missing(c) \in SUBSET Networks /\ Missing(c) # {}
    BY <1>1 DEF CreateNetwork, Missing
  <2>2. Min(Missing(c)) \in Networks
    BY <2>1, MinIn
  <2>3. plan[c][Min(Missing(c))] \in Subnets
    BY <1>1, <2>2 DEF CreateNetwork, PlanStage, After, Undecided, CommandTypes
  <2>4. req[c].file \in Files \cup {None}
    BY <1>1 DEF CreateNetwork, StageTypes, Requests, NoRequest
  <2>5. Network(c, Min(Missing(c)), plan[c][Min(Missing(c))], req[c].file) \in Nets
    BY <2>2, <2>3, <2>4, NetworkType
  <2> QED
    BY <1>1, <2>5 DEF CreateNetwork
<1>2. CASE RemoveNetwork(c)
  BY <1>2 DEF RemoveNetwork
<1>3. CASE StartContainers(c)
  <2>1. req[c].file \in Files \cup {None}
    BY <1>3 DEF StageTypes, Requests, NoRequest
  <2> QED
    BY <1>3, <2>1 DEF StartContainers
<1>4. CASE Down(c) \/ ContainerExits(c)
  BY <1>4 DEF Down, ContainerExits
<1>5. CASE RemoveProject(c) \/ ContainerRemoved(c)
  BY <1>5 DEF RemoveProject, ContainerRemoved
<1> QED
  BY <1>1, <1>2, <1>3, <1>4, <1>5

LEMMA FileStepTypes ==
  ASSUME Types, NEW c \in Clones,
         \/ \E r \in Requests : StartUp(c, r)
         \/ ProceedAnew(c) \/ ProceedWith(c) \/ Sync(c) \/ RemoveProject(c) \/ Forget(c)
  PROVE  FileTypes'
<1> USE NoPlanType DEF FileTypes, Types
<1>1. CASE \E r \in Requests : StartUp(c, r)
  BY <1>1 DEF StartUp
<1>2. CASE ProceedAnew(c)
  BY <1>2 DEF ProceedAnew
<1>3. CASE ProceedWith(c)
  BY <1>3 DEF ProceedWith
<1>4. CASE Sync(c)
  BY <1>4 DEF Sync, CommandTypes
<1>5. CASE RemoveProject(c) \/ Forget(c)
  BY <1>5 DEF RemoveProject, Forget
<1> QED
  BY <1>1, <1>2, <1>3, <1>4, <1>5

\* Steps of a command that fails, whatever the reason.
Failing(c) == PoolExhausted(c) \/ StillAttached(c) \/ ConfigChanged(c) \/ RemoveFails(c)
              \/ SubnetRefused(c) \/ Crash(c)

LEMMA FailingFails == ASSUME NEW c, Failing(c) PROVE Fails(c) /\ pc[c] # "idle"
BY DEF Failing, PoolExhausted, StillAttached, ConfigChanged, RemoveFails, SubnetRefused, Crash

LEMMA CloneStepTypes ==
  ASSUME Types, NEW c \in Clones, PlanStage(c),
         \/ Up(c) \/ Down(c) \/ RemoveProject(c) \/ Forget(c) \/ Crash(c)
         \/ ContainerExits(c) \/ ContainerRemoved(c)
  PROVE  Types'
<1> USE DEF Types
<1>1. CASE Failing(c)
  BY <1>1, FailingFails, EndsTypes DEF Fails, docker, DockerTypes, FileTypes
<1>2. CASE \E r \in Requests : StartUp(c, r)
  <2>1. StageTypes'
    BY <1>2 DEF StartUp, Goto, StageTypes, Pcs
  <2> QED
    BY <1>2, <2>1, FileStepTypes DEF StartUp, DockerTypes, CommandTypes, docker
<1>3. CASE Snapshot(c) \/ PlanNetwork(c) \/ Finalize(c)
  <2>1. StageTypes'
    BY <1>3, GotoTypes DEF Snapshot, PlanNetwork, Finalize, Pcs
  <2> QED
    BY <1>3, <2>1, CommandStepTypes DEF Snapshot, PlanNetwork, Finalize, DockerTypes, FileTypes, docker
<1>4. CASE ReuseRunning(c) \/ CallCompose(c)
  <2>1. StageTypes'
    BY <1>4, GotoTypes DEF ReuseRunning, CallCompose, Pcs
  <2> QED
    BY <1>4, <2>1 DEF ReuseRunning, CallCompose, DockerTypes, FileTypes, CommandTypes, docker
<1>5. CASE ProceedAnew(c) \/ ProceedWith(c)
  <2>1. StageTypes'
    BY <1>5, GotoTypes DEF ProceedAnew, ProceedWith, Pcs
  <2> QED
    BY <1>5, <2>1, FileStepTypes DEF ProceedAnew, ProceedWith, DockerTypes, CommandTypes, docker
<1>6. CASE RemoveNetwork(c) \/ CreateNetwork(c) \/ StartContainers(c)
  <2>1. StageTypes'
    BY <1>6, GotoTypes DEF RemoveNetwork, CreateNetwork, StartContainers, Pcs
  <2>2. CommandTypes'
    BY <1>6, CommandStepTypes DEF CreateNetwork, StartContainers, CommandTypes
  <2> QED
    BY <1>6, <2>1, <2>2, DockerStepTypes DEF RemoveNetwork, CreateNetwork, StartContainers, FileTypes
<1>7. CASE Sync(c)
  BY <1>7, EndsTypes, FileStepTypes DEF Sync, docker, DockerTypes
<1>8. CASE Down(c) \/ ContainerExits(c) \/ ContainerRemoved(c)
  BY <1>8, DockerStepTypes DEF Down, ContainerExits, ContainerRemoved, StageTypes, FileTypes, CommandTypes
<1>9. CASE RemoveProject(c)
  <2>1. StageTypes'
    BY <1>9 DEF RemoveProject, Goto, StageTypes, Pcs
  <2> QED
    BY <1>9, <2>1, DockerStepTypes, FileStepTypes DEF RemoveProject, CommandTypes
<1>10. CASE Forget(c)
  <2>1. StageTypes'
    BY <1>10 DEF Forget, Goto, StageTypes, Pcs
  <2> QED
    BY <1>10, <2>1, FileStepTypes DEF Forget, CommandTypes, DockerTypes, docker
<1> QED
  BY <1>1, <1>2, <1>3, <1>4, <1>5, <1>6, <1>7, <1>8, <1>9, <1>10 DEF Up, Failing

LEMMA OthersTypes ==
  ASSUME Types, \/ \E x \in nets : Prune(x)
                \/ \E a \in Foreign : OtherNetwork(a)
  PROVE  Types'
<1>1. CASE \E x \in nets : Prune(x)
  BY <1>1 DEF Prune, Types, DockerTypes, FileTypes, StageTypes, CommandTypes
<1>2. ASSUME NEW a \in Foreign, OtherNetwork(a) PROVE Types'
  <2>1. a \in Subnets
    BY SubnetsAssumption DEF Subnets
  <2>2. Network(Other, 0, a, None) \in Nets
    BY <2>1, NetworkType
  <2> QED
    BY <1>2, <2>2 DEF OtherNetwork, Types, DockerTypes, FileTypes, StageTypes, CommandTypes
<1> QED
  BY <1>1, <1>2

-----------------------------------------------------------------------------
(* What others do to the clone's networks and containers: they only take away, *)
(* and take no network from running containers.                              *)

\* The network of a running container stays; others may go.
OnlyLess(c) ==
    /\ \A n \in Networks : Own(nets', c, n) \subseteq Own(nets, c, n)
    /\ container'[c] = "running" =>
         /\ container[c] = "running" /\ label'[c] = label[c]
         /\ \A n \in Networks : Own(nets', c, n) = Own(nets, c, n)
\* What the clone's command knows.
SameCommand(c) ==
    /\ pc'[c] = pc[c] /\ req'[c] = req[c] /\ seen'[c] = seen[c]
    /\ plan'[c] = plan[c] /\ doomed'[c] = doomed[c] /\ listed'[c] = listed[c]
SameFile(c) == saved'[c] = saved[c] /\ kept'[c] = kept[c]

LEMMA RunningKept == ASSUME NEW c, RunningPlace(c), OnlyLess(c) PROVE RunningPlace(c)'
<1> SUFFICES ASSUME container'[c] = "running", NEW n \in Networks
             PROVE  \E x \in nets' : Own(nets', c, n) = {x} /\ Fits(x.at) /\ x.file = label'[c]
  BY DEF RunningPlace
<1>1. PICK x \in nets : Own(nets, c, n) = {x} /\ Fits(x.at) /\ x.file = label[c]
  BY DEF RunningPlace, OnlyLess
<1>2. Own(nets', c, n) = {x}
  BY <1>1 DEF OnlyLess
<1>3. x \in nets'
  BY <1>2 DEF Own
<1> QED
  BY <1>1, <1>2, <1>3 DEF OnlyLess

LEMMA Frame ==
  ASSUME Types, NEW c \in Clones, CloneInv(c), SameCommand(c), SameFile(c), OnlyLess(c)
  PROVE  CloneInv(c)'
<1> USE DEF SameCommand, SameFile, OnlyLess, CloneInv, Before, After
<1>1. PlanStage(c)'
  BY DEF PlanStage, Undecided
<1>2. KeptPlace(c)'
  BY DEF KeptPlace
<1>3. SeenPlace(c)'
  BY DEF SeenPlace
<1>4. Placed(c)'
  BY DEF Placed, Mismatched
<1>5. RunningPlace(c)'
  BY RunningKept
<1>6. PlanKeeps(c)'
  BY DEF PlanKeeps, InTheWay
<1>7. PlanStays(c)'
  BY DEF PlanStays
<1> QED
  BY <1>1, <1>2, <1>3, <1>4, <1>5, <1>6, <1>7

\* A command that is not, or not yet, planning.
LEMMA Outside ==
  ASSUME Types, NEW c \in Clones, CloneInv(c), OnlyLess(c),
         pc'[c] \in {"idle", "list", "forget"}, plan'[c] = NoPlan,
         \/ kept'[c] = NoPlan
         \/ SameFile(c) /\ pc'[c] # "forget"
  PROVE  CloneInv(c)'
<1> USE DEF OnlyLess, CloneInv, Before, After
<1>1. PlanStage(c)'
  BY DEF PlanStage, Undecided, NoPlan
<1>2. KeptPlace(c)'
  <2>1. CASE kept'[c] = NoPlan
    BY <2>1 DEF KeptPlace, NoPlan
  <2>2. CASE SameFile(c) /\ pc'[c] # "forget"
    BY <2>2 DEF KeptPlace, SameFile
  <2> QED
    BY <2>1, <2>2
<1>3. SeenPlace(c)'
  BY DEF SeenPlace
<1>4. Placed(c)'
  BY DEF Placed
<1>5. RunningPlace(c)'
  BY RunningKept
<1>6. PlanKeeps(c)'
  BY DEF PlanKeeps
<1>7. PlanStays(c)'
  BY DEF PlanStays
<1> QED
  BY <1>1, <1>2, <1>3, <1>4, <1>5, <1>6, <1>7

-----------------------------------------------------------------------------
(* The steps of an up.                                                       *)

LEMMA SameDocker == ASSUME NEW c, UNCHANGED docker PROVE OnlyLess(c)
BY DEF docker, OnlyLess

\* It starts, fails or dies.
LEMMA OutsideInv ==
  ASSUME Types, NEW c \in Clones, CloneInv(c),
         Failing(c) \/ (\E r \in Requests : StartUp(c, r)) \/ RemoveProject(c) \/ Forget(c)
  PROVE  CloneInv(c)'
<1>1. CASE Failing(c)
  <2>1. Fails(c)
    BY <1>1, FailingFails
  <2>2. /\ pc'[c] = "idle" /\ plan'[c] = NoPlan /\ SameFile(c) /\ UNCHANGED docker
    BY <2>1 DEF Fails, Ends, Types, StageTypes, CommandTypes, SameFile, Pcs
  <2> QED
    BY <2>2, SameDocker, Outside
<1>2. CASE \E r \in Requests : StartUp(c, r)
  <2>1. /\ pc'[c] = "list" /\ plan'[c] = NoPlan /\ UNCHANGED docker
        /\ kept'[c] = NoPlan \/ SameFile(c)
    BY <1>2 DEF StartUp, Goto, CloneInv, PlanStage, Types, StageTypes, FileTypes, SameFile
  <2> QED
    BY <2>1, SameDocker, Outside
<1>3. CASE RemoveProject(c)
  <2>1. pc'[c] = "forget" /\ plan'[c] = NoPlan /\ kept'[c] = NoPlan
    BY <1>3 DEF RemoveProject, Goto, CloneInv, PlanStage, Types, StageTypes, FileTypes
  <2>2. OnlyLess(c)
    BY <1>3 DEF RemoveProject, OnlyLess, Own, Types, DockerTypes
  <2> QED
    BY <2>1, <2>2, Outside
<1>4. CASE Forget(c)
  <2>1. pc'[c] = "idle" /\ plan'[c] = NoPlan /\ kept'[c] = NoPlan /\ UNCHANGED docker
    BY <1>4 DEF Forget, Goto, CloneInv, PlanStage, KeptPlace, Types, StageTypes
  <2> QED
    BY <2>1, SameDocker, Outside
<1> QED
  BY <1>1, <1>2, <1>3, <1>4

\* It lists Docker's networks.
LEMMA SnapshotInv ==
  ASSUME Types, Apart(nets), NEW c \in Clones, CloneInv(c), Snapshot(c)
  PROVE  CloneInv(c)'
<1>1. /\ pc[c] = "list" /\ pc'[c] = "plan" /\ seen'[c] = nets /\ plan'[c] = NoPlan
      /\ UNCHANGED <<nets, container, label, kept, saved>>
  BY DEF Snapshot, Goto, docker, CloneInv, PlanStage, Types, StageTypes, CommandTypes
<1> USE <1>1 DEF CloneInv, Before, After
<1>2. PlanStage(c)'
  BY DEF PlanStage, Undecided, NoPlan
<1>3. KeptPlace(c)'
  BY DEF KeptPlace
<1>4. SeenPlace(c)'
  BY DEF SeenPlace, Apart
<1>5. Placed(c)'
  BY DEF Placed
<1>6. RunningPlace(c)'
  BY RunningKept DEF OnlyLess
<1>7. PlanKeeps(c)' /\ PlanStays(c)'
  BY DEF PlanKeeps, PlanStays, NoPlan
<1> QED
  BY <1>2, <1>3, <1>4, <1>5, <1>6, <1>7

\* What the plan may not use is in the way.
LEMMA UnavailableInTheWay ==
  ASSUME NEW c, NEW n \in Networks, plan[c][n] = None, NEW a, NEW b \in Unavailable(c, n), Overlaps(a, b)
  PROVE  InTheWay(c, n, a)
<1>1. CASE b \in Planned(c)
  <2>1. PICK m \in Networks : plan[c][m] = b /\ b # None
    BY <1>1 DEF Planned
  <2> QED
    BY <2>1, OverlapsSymmetric DEF InTheWay
<1>2. ASSUME NEW x \in seen[c] \ Own(seen[c], c, n), b = x.at PROVE InTheWay(c, n, a)
  BY <1>2, OverlapsSymmetric DEF InTheWay, Own
<1> QED
  BY <1>1, <1>2 DEF Unavailable

\* A regular up returns to what it has to keep, if nobody is in it.
LEMMA PlanReturns ==
  ASSUME Types, NEW c \in Clones, CloneInv(c), pc[c] = "plan", ~req[c].rebuild,
         NEW n \in Networks, plan[c][n] = None, kept[c][n] # None, NEW a \in Candidates(c, n)
  PROVE  a = kept[c][n] \/ InTheWay(c, n, kept[c][n])
<1> DEFINE k == kept[c][n]
<1>1. Fits(k) /\ saved[c][n] = k /\ \A x \in Own(seen[c], c, n) : x.at = k
  BY DEF CloneInv, KeptPlace, Before
<1>2. Existing(c, n) \subseteq {k}
  BY <1>1 DEF Existing
<1>3. CASE Available(c, n, k)
  <2>1. Stable(c, n) = {k}
    BY <1>1, <1>2, <1>3 DEF Stable
  <2> QED
    BY <2>1 DEF Candidates
<1>4. CASE ~Available(c, n, k)
  BY <1>1, <1>4, UnavailableInTheWay DEF Available
<1> QED
  BY <1>3, <1>4

\* An up of a running clone plans what there is.
LEMMA PlanStands ==
  ASSUME Types, NEW c \in Clones, CloneInv(c), pc[c] = "plan", ~req[c].rebuild, container[c] = "running",
         NEW n \in Networks, plan[c][n] = None, NEW a \in Candidates(c, n)
  PROVE  \A x \in Own(seen[c], c, n) : x.at = a
<1>1. PICK x : Own(seen[c], c, n) = {x} /\ Fits(x.at)
  BY DEF CloneInv, RunningPlace, SeenPlace, Before
<1>2. Existing(c, n) = {x.at}
  BY <1>1 DEF Existing
<1>3. Apart(seen[c]) /\ x \in seen[c] /\ x.project = c /\ x.net = n
  BY <1>1 DEF CloneInv, SeenPlace, Before, Own
<1>4. ASSUME NEW b \in Unavailable(c, n) PROVE ~Overlaps(x.at, b)
  <2>1. CASE b \in Planned(c)
    <3>1. PICK m \in Networks : plan[c][m] = b /\ b # None
      BY <2>1 DEF Planned
    <3>2. PICK y \in nets : Own(seen[c], c, m) = {y}
      BY DEF CloneInv, RunningPlace, SeenPlace, Before
    <3>3. y.at = b /\ y \in seen[c] /\ y.net = m
      BY <3>1, <3>2 DEF CloneInv, PlanStays, Own
    <3>4. m # n
      BY <3>1
    <3> QED
      BY <1>3, <3>3, <3>4 DEF Apart
  <2>2. ASSUME NEW y \in seen[c] \ Own(seen[c], c, n), b = y.at PROVE ~Overlaps(x.at, b)
    BY <1>1, <1>3, <2>2 DEF Apart
  <2> QED
    BY <2>1, <2>2 DEF Unavailable
<1>5. Available(c, n, x.at)
  BY <1>1, <1>4 DEF Available
<1>6. Candidates(c, n) = {x.at}
  BY <1>2, <1>5 DEF Candidates, Stable
<1> QED
  BY <1>1, <1>6

LEMMA PlanNetworkInv ==
  ASSUME Types, NEW c \in Clones, CloneInv(c), PlanNetwork(c)
  PROVE  CloneInv(c)'
<1>1. PICK n \in Networks : plan[c][n] = None /\ \E a \in Candidates(c, n) : plan' = [plan EXCEPT ![c][n] = a]
  <2>1. Undecided(c) \in SUBSET Networks /\ Undecided(c) # {}
    BY DEF PlanNetwork, Undecided
  <2>2. NextNetwork(c) \in Networks /\ plan[c][NextNetwork(c)] = None
    BY <2>1, MinIn DEF NextNetwork, Undecided
  <2> QED
    BY <2>2 DEF PlanNetwork
<1>a. PICK a \in Candidates(c, n) : plan' = [plan EXCEPT ![c][n] = a]
  BY <1>1
<1>2. plan'[c][n] = a /\ \A m \in Networks : m # n => plan'[c][m] = plan[c][m]
  BY <1>a DEF Types, CommandTypes
<1>3. Fits(a)
  BY <1>1, CandidatesFit
<1>4. /\ pc[c] = "plan"
      /\ UNCHANGED <<nets, container, label, saved, pc, req, seen, doomed, kept>>
  BY DEF PlanNetwork, docker
<1> USE <1>4 DEF CloneInv, Before, After
<1>5. PlanStage(c)'
  BY <1>2, <1>3 DEF PlanStage, Undecided
<1>6. KeptPlace(c)'
  BY DEF KeptPlace
<1>7. SeenPlace(c)'
  BY DEF SeenPlace
<1>8. Placed(c)'
  BY DEF Placed
<1>9. RunningPlace(c)'
  BY DEF RunningPlace
<1>10. PlanKeeps(c)'
  <2> SUFFICES ASSUME ~req[c].rebuild, NEW m \in Networks, plan'[c][m] # None, kept[c][m] # None
               PROVE  plan'[c][m] = kept[c][m] \/ InTheWay(c, m, kept[c][m])'
    BY DEF PlanKeeps
  <2>1. plan[c][m] # None => plan'[c][m] = plan[c][m] /\ m # n
    BY <1>1, <1>2
  <2>2. plan'[c][m] = kept[c][m] \/ InTheWay(c, m, kept[c][m])
    <3>1. CASE m = n
      BY <1>1, <1>2, <3>1, PlanReturns
    <3>2. CASE m # n
      BY <1>2, <2>1, <3>2 DEF PlanKeeps
    <3> QED
      BY <3>1, <3>2
  <2>3. InTheWay(c, m, kept[c][m]) => InTheWay(c, m, kept[c][m])'
    BY <1>1, <1>2 DEF InTheWay
  <2> QED
    BY <2>2, <2>3
<1>11. PlanStays(c)'
  <2> SUFFICES ASSUME container[c] = "running", ~req[c].rebuild, NEW m \in Networks, plan'[c][m] # None
               PROVE  \A x \in Own(seen[c], c, m) : x.at = plan'[c][m]
    BY DEF PlanStays
  <2>1. CASE m = n
    BY <1>1, <1>2, <2>1, PlanStands
  <2>2. CASE m # n
    BY <1>2, <2>2 DEF PlanStays
  <2> QED
    BY <2>1, <2>2
<1> QED
  BY <1>5, <1>6, <1>7, <1>8, <1>9, <1>10, <1>11

\* The plan is complete, and says what has to go.
LEMMA FinalizeInv ==
  ASSUME Types, NEW c \in Clones, CloneInv(c), Finalize(c)
  PROVE  CloneInv(c)'
<1>1. /\ pc[c] = "plan" /\ pc'[c] = "decide" /\ Undecided(c) = {} /\ doomed'[c] = Mismatched(c)
      /\ UNCHANGED <<nets, container, label, saved, req, seen, plan, kept>>
  BY DEF Finalize, Goto, docker, Types, StageTypes, CommandTypes
<1> USE <1>1 DEF CloneInv, Before, After
<1>2. PlanStage(c)'
  BY DEF PlanStage, Undecided
<1>3. KeptPlace(c)'
  BY DEF KeptPlace
<1>4. SeenPlace(c)'
  BY DEF SeenPlace
<1>5. Placed(c)'
  <2>1. Mismatched(c)' = Mismatched(c)
    BY DEF Mismatched
  <2>2. ASSUME listed'[c].state = "running", NEW n \in Networks PROVE Own(seen[c], c, n) # {}
    <3>1. container[c] = "running"
      BY <2>2 DEF Finalize, Types, CommandTypes
    <3> QED
      BY <3>1 DEF RunningPlace, SeenPlace
  <2> QED
    BY <2>1, <2>2 DEF Placed
<1>6. RunningPlace(c)'
  BY DEF RunningPlace
<1>7. PlanKeeps(c)' /\ PlanStays(c)'
  BY DEF PlanKeeps, PlanStays, InTheWay
<1> QED
  BY <1>2, <1>3, <1>4, <1>5, <1>6, <1>7

\* It uses the project as it is, or calls Docker Compose.
LEMMA DecideInv ==
  ASSUME Types, NEW c \in Clones, CloneInv(c), ReuseRunning(c) \/ ProceedAnew(c) \/ ProceedWith(c)
  PROVE  CloneInv(c)'
<1>1. /\ pc[c] = "decide"
      /\ pc'[c] = "remove" \/ (pc'[c] = "sync" /\ doomed[c] = {})
      /\ UNCHANGED <<nets, container, label, req, seen, plan, doomed>>
  BY DEF ReuseRunning, ProceedAnew, ProceedWith, Goto, docker, Types, StageTypes
<1> USE <1>1 DEF CloneInv, Before, After
<1>2. PlanStage(c)'
  BY DEF PlanStage, Undecided
<1>3. ASSUME NEW n \in Networks, kept'[c][n] # None
      PROVE  kept'[c][n] = kept[c][n] /\ saved'[c] = saved[c] /\ plan[c][n] = kept[c][n]
  <2>1. CASE ReuseRunning(c)
    <3>1. UNCHANGED <<kept, saved>> /\ doomed[c] = {} /\ listed[c].state = "running"
      BY <2>1 DEF ReuseRunning
    <3>2. PICK x : x \in Own(seen[c], c, n)
      BY <3>1 DEF Placed
    <3>3. x.at = plan[c][n]
      BY <3>1, <3>2 DEF Placed, Mismatched
    <3>4. x.at = kept[c][n]
      BY <1>3, <3>1, <3>2 DEF KeptPlace
    <3> QED
      BY <3>1, <3>3, <3>4
  <2>2. CASE ProceedAnew(c)
    BY <1>3, <2>2 DEF ProceedAnew, NoPlan, Types, FileTypes
  <2>3. CASE ProceedWith(c)
    BY <1>3, <2>3 DEF ProceedWith, Types, FileTypes
  <2> QED
    BY <2>1, <2>2, <2>3
<1>4. KeptPlace(c)'
  BY <1>3 DEF KeptPlace
<1>5. SeenPlace(c)'
  BY DEF SeenPlace
<1>6. Placed(c)'
  <2> SUFFICES ASSUME NEW n \in Networks \ doomed[c], NEW x \in Own(nets, c, n)
               PROVE  x.at = plan[c][n] /\ x.file = req[c].file
    BY DEF Placed
  <2>1. x \in Own(seen[c], c, n) /\ n \notin Mismatched(c)
    BY DEF SeenPlace, Placed
  <2> QED
    BY <2>1 DEF Mismatched
<1>7. RunningPlace(c)'
  BY DEF RunningPlace
<1>8. PlanKeeps(c)' /\ PlanStays(c)'
  BY DEF PlanKeeps, PlanStays
<1> QED
  BY <1>2, <1>4, <1>5, <1>6, <1>7, <1>8

\* It removes a network.
LEMMA RemoveNetworkInv ==
  ASSUME Types, NEW c \in Clones, CloneInv(c), RemoveNetwork(c)
  PROVE  CloneInv(c)'
<1> DEFINE r == Min(doomed[c])
<1>1. /\ pc[c] = "remove" /\ container[c] # "running" /\ doomed'[c] = doomed[c] \ {r}
      /\ nets' = nets \ Own(nets, c, r)
      /\ UNCHANGED <<container, label, saved, pc, req, seen, plan, kept>>
  BY DEF RemoveNetwork, Removable, Types, CommandTypes
<1> HIDE DEF r
<1>2. \A n : Own(nets', c, n) \subseteq Own(nets, c, n)
  BY <1>1 DEF Own
<1>3. Own(nets', c, r) = {}
  BY <1>1 DEF Own
<1> USE <1>1 DEF CloneInv, Before, After
<1>4. PlanStage(c)'
  BY DEF PlanStage, Undecided
<1>5. KeptPlace(c)'
  BY <1>2 DEF KeptPlace
<1>6. Placed(c)'
  <2> SUFFICES ASSUME NEW n \in Networks \ (doomed[c] \ {r}), NEW x \in Own(nets', c, n)
               PROVE  x.at = plan[c][n] /\ x.file = req[c].file
    BY DEF Placed
  <2>1. n # r
    BY <1>3
  <2> QED
    BY <1>2, <2>1 DEF Placed
<1>7. SeenPlace(c)' /\ RunningPlace(c)' /\ PlanKeeps(c)' /\ PlanStays(c)'
  BY DEF SeenPlace, RunningPlace, PlanKeeps, PlanStays
<1> QED
  BY <1>4, <1>5, <1>6, <1>7

\* Docker Compose is called.
LEMMA CallComposeInv ==
  ASSUME Types, NEW c \in Clones, CloneInv(c), CallCompose(c)
  PROVE  CloneInv(c)'
<1>1. /\ pc[c] = "remove" /\ pc'[c] = "compose" /\ doomed[c] = {}
      /\ UNCHANGED <<nets, container, label, saved, req, seen, plan, doomed, kept>>
  BY DEF CallCompose, Goto, docker, Types, StageTypes
<1> USE <1>1 DEF CloneInv, Before, After
<1>2. PlanStage(c)' /\ KeptPlace(c)'
  BY DEF PlanStage, Undecided, KeptPlace
<1>3. SeenPlace(c)' /\ Placed(c)'
  BY DEF SeenPlace, Placed
<1>4. RunningPlace(c)' /\ PlanKeeps(c)' /\ PlanStays(c)'
  BY DEF RunningPlace, PlanKeeps, PlanStays
<1> QED
  BY <1>2, <1>3, <1>4

\* It creates a network that is missing.
LEMMA CreateNetworkInv ==
  ASSUME Types, NEW c \in Clones, CloneInv(c), CreateNetwork(c)
  PROVE  CloneInv(c)'
<1> DEFINE m == Min(Missing(c))
           x == Network(c, m, plan[c][m], req[c].file)
<1>1. /\ pc[c] = "compose" /\ Missing(c) # {} /\ nets' = nets \cup {x}
      /\ UNCHANGED <<container, label, saved, pc, req, seen, plan, doomed, kept>>
  BY DEF CreateNetwork
<1>2. m \in Missing(c) /\ m \in Networks
  <2>1. Missing(c) \in SUBSET Networks
    BY DEF Missing
  <2> QED
    BY <1>1, <2>1, MinIn
<1>3. x.project = c /\ x.net = m /\ x.at = plan[c][m] /\ x.file = req[c].file
  BY DEF Network
<1> HIDE DEF m, x
<1>4. ASSUME NEW n \in Networks, NEW y \in Own(nets', c, n)
      PROVE  y \in Own(nets, c, n) \/ (n = m /\ y = x)
  BY <1>1, <1>3, <1>4 DEF Own
<1>5. container[c] # "running"
  <2>1. Own(nets, c, m) = {}
    BY <1>2 DEF Missing
  <2> QED
    BY <1>2, <2>1 DEF CloneInv, RunningPlace
<1> USE <1>1 DEF CloneInv, Before, After
<1>6. PlanStage(c)'
  BY DEF PlanStage, Undecided
<1>7. KeptPlace(c)'
  <2>1. plan[c][m] = kept[c][m] \/ kept[c][m] = None
    BY <1>2 DEF KeptPlace
  <2>2. ASSUME NEW n \in Networks, kept[c][n] # None, NEW y \in Own(nets', c, n)
        PROVE  y.at = kept[c][n]
    BY <2>1, <2>2, <1>3, <1>4 DEF KeptPlace
  <2>3. /\ UNCHANGED <<pc, kept, saved, seen, plan>>
        /\ KeptPlace(c)
    OBVIOUS
  <2> QED
    BY <2>2, <2>3 DEF KeptPlace
<1>8. Placed(c)'
  <2>1. ASSUME NEW n \in Networks \ doomed[c], NEW y \in Own(nets', c, n)
        PROVE  y.at = plan[c][n] /\ y.file = req[c].file
    BY <2>1, <1>3, <1>4 DEF Placed
  <2>2. UNCHANGED <<pc, doomed, plan, req>> /\ Placed(c)
    OBVIOUS
  <2> QED
    BY <1>1, <2>1, <2>2 DEF Placed
<1>9. SeenPlace(c)' /\ RunningPlace(c)' /\ PlanKeeps(c)' /\ PlanStays(c)'
  BY <1>5 DEF SeenPlace, RunningPlace, PlanKeeps, PlanStays
<1> QED
  BY <1>6, <1>7, <1>8, <1>9

\* It starts the containers.
LEMMA StartContainersInv ==
  ASSUME Types, NEW c \in Clones, CloneInv(c), StartContainers(c)
  PROVE  CloneInv(c)'
<1>1. /\ pc[c] = "compose" /\ pc'[c] = "sync" /\ Missing(c) = {} /\ doomed[c] = {}
      /\ label'[c] = req[c].file
      /\ UNCHANGED <<nets, saved, req, seen, plan, doomed, kept>>
  BY DEF StartContainers, Goto, CloneInv, Placed, Types, StageTypes, DockerTypes
<1> USE <1>1 DEF CloneInv, Before, After
<1>2. PlanStage(c)' /\ KeptPlace(c)'
  BY DEF PlanStage, Undecided, KeptPlace
<1>3. SeenPlace(c)' /\ Placed(c)'
  BY DEF SeenPlace, Placed
<1>4. RunningPlace(c)'
  <2> SUFFICES ASSUME NEW n \in Networks
               PROVE  \E x \in nets : Own(nets, c, n) = {x} /\ Fits(x.at) /\ x.file = label'[c]
    BY DEF RunningPlace
  <2>1. PICK x \in nets : x \in Own(nets, c, n)
    BY DEF Missing, Own
  <2>2. \A y \in Own(nets, c, n) : y.at = plan[c][n] /\ y.file = req[c].file
    BY DEF Placed
  <2>3. \A y \in Own(nets, c, n) : y \in Nets /\ y.project = c /\ y.net = n
    BY DEF Own, Types, DockerTypes
  <2>4. \A y \in Own(nets, c, n) : y = x
    BY <2>1, <2>2, <2>3 DEF Nets
  <2>5. Fits(plan[c][n])
    BY DEF PlanStage, Undecided
  <2> QED
    BY <2>1, <2>2, <2>4, <2>5
<1>5. PlanKeeps(c)' /\ PlanStays(c)'
  BY DEF PlanKeeps, PlanStays
<1> QED
  BY <1>2, <1>3, <1>4, <1>5

\* It writes the assignment to the state file.
LEMMA SyncInv ==
  ASSUME Types, NEW c \in Clones, CloneInv(c), Sync(c)
  PROVE  CloneInv(c)'
<1>1. /\ pc[c] = "sync" /\ pc'[c] = "idle" /\ doomed[c] = {} /\ plan'[c] = NoPlan
      /\ saved'[c] = plan[c] /\ kept'[c] = plan[c]
      /\ UNCHANGED <<nets, container, label>>
  BY DEF Sync, Ends, docker, CloneInv, Placed, Types, StageTypes, FileTypes, CommandTypes, Pcs
<1> USE <1>1 DEF CloneInv, Before, After
<1>2. PlanStage(c)'
  BY DEF PlanStage, NoPlan
<1>3. KeptPlace(c)'
  BY DEF KeptPlace, PlanStage, Placed
<1>4. SeenPlace(c)' /\ Placed(c)' /\ RunningPlace(c)'
  BY DEF SeenPlace, Placed, RunningPlace
<1>5. PlanKeeps(c)' /\ PlanStays(c)'
  BY DEF PlanKeeps, PlanStays
<1> QED
  BY <1>2, <1>3, <1>4, <1>5

-----------------------------------------------------------------------------
(* All clones together.                                                      *)

\* What a clone does is no concern of another, but for the subnets it takes.
LEMMA OtherCloneSteps ==
  ASSUME Types, NEW c \in Clones, NEW d \in Clones, c # d,
         \/ Up(d) \/ Down(d) \/ RemoveProject(d) \/ Forget(d) \/ Crash(d)
         \/ ContainerExits(d) \/ ContainerRemoved(d)
  PROVE  SameCommand(c) /\ SameFile(c) /\ OnlyLess(c)
<1> USE DEF Types, StageTypes, FileTypes, CommandTypes, DockerTypes, SameCommand, SameFile, Goto
<1>1. CASE Failing(d)
  <2>1. Ends(d) /\ UNCHANGED <<docker, saved, kept>>
    BY <1>1, FailingFails DEF Fails
  <2> QED
    BY <2>1, SameDocker DEF Ends
<1>2. CASE (\E r \in Requests : StartUp(d, r)) \/ Snapshot(d) \/ PlanNetwork(d) \/ Finalize(d)
  <2>1. SameCommand(c) /\ SameFile(c)
    BY <1>2 DEF StartUp, Snapshot, PlanNetwork, Finalize
  <2>2. UNCHANGED docker
    BY <1>2 DEF StartUp, Snapshot, PlanNetwork, Finalize
  <2> QED
    BY <2>1, <2>2, SameDocker
<1>3. CASE ReuseRunning(d) \/ ProceedAnew(d) \/ ProceedWith(d) \/ CallCompose(d) \/ Sync(d) \/ Forget(d)
  <2>1. SameCommand(c) /\ SameFile(c)
    BY <1>3 DEF ReuseRunning, ProceedAnew, ProceedWith, CallCompose, Sync, Forget, Ends
  <2>2. UNCHANGED docker
    BY <1>3 DEF ReuseRunning, ProceedAnew, ProceedWith, CallCompose, Sync, Forget
  <2> QED
    BY <2>1, <2>2, SameDocker
<1>4. CASE RemoveNetwork(d)
  <2>1. SameCommand(c) /\ SameFile(c)
    BY <1>4 DEF RemoveNetwork
  <2>2. \A n : Own(nets', c, n) = Own(nets, c, n)
    BY <1>4 DEF RemoveNetwork, Own
  <2> QED
    BY <1>4, <2>1, <2>2 DEF RemoveNetwork, OnlyLess
<1>5. CASE CreateNetwork(d)
  <2>1. SameCommand(c) /\ SameFile(c)
    BY <1>5 DEF CreateNetwork
  <2>2. PICK x : x.project = d /\ nets' = nets \cup {x}
    BY <1>5 DEF CreateNetwork, Network
  <2>3. \A n : Own(nets', c, n) = Own(nets, c, n)
    BY <2>2 DEF Own
  <2> QED
    BY <1>5, <2>1, <2>3 DEF CreateNetwork, OnlyLess
<1>6. CASE StartContainers(d) \/ Down(d) \/ ContainerExits(d) \/ ContainerRemoved(d)
  BY <1>6 DEF StartContainers, Down, ContainerExits, ContainerRemoved, OnlyLess
<1>7. CASE RemoveProject(d)
  <2>1. SameCommand(c) /\ SameFile(c)
    BY <1>7 DEF RemoveProject
  <2>2. \A n : Own(nets', c, n) = Own(nets, c, n)
    BY <1>7 DEF RemoveProject, Own
  <2> QED
    BY <1>7, <2>1, <2>2 DEF RemoveProject, OnlyLess
<1> QED
  BY <1>1, <1>2, <1>3, <1>4, <1>5, <1>6, <1>7 DEF Up, Failing

\* Containers stop or are removed, networks are pruned or others come.
LEMMA AloneInv ==
  ASSUME Types, NEW c \in Clones, CloneInv(c),
         \/ Down(c) \/ ContainerExits(c) \/ ContainerRemoved(c)
         \/ \E x \in nets : Prune(x)
         \/ \E a \in Foreign : OtherNetwork(a)
  PROVE  CloneInv(c)'
<1>1. SameCommand(c) /\ SameFile(c)
  BY DEF Down, ContainerExits, ContainerRemoved, Prune, OtherNetwork, SameCommand, SameFile
<1>2. CASE Down(c) \/ ContainerExits(c) \/ ContainerRemoved(c)
  <2>1. container'[c] # "running" /\ UNCHANGED nets
    BY <1>2 DEF Down, ContainerExits, ContainerRemoved, Types, DockerTypes
  <2> QED
    BY <1>1, <2>1, Frame DEF OnlyLess
<1>3. ASSUME NEW x \in nets, Prune(x) PROVE CloneInv(c)'
  <2>1. UNCHANGED <<container, label>> /\ nets' = nets \ {x}
    BY <1>3 DEF Prune
  <2>2. \A n : Own(nets', c, n) \subseteq Own(nets, c, n)
    BY <2>1 DEF Own
  <2>3. container[c] = "running" => \A n : Own(nets', c, n) = Own(nets, c, n)
    BY <1>3, <2>1 DEF Prune, Own
  <2> QED
    BY <1>1, <2>1, <2>2, <2>3, Frame DEF OnlyLess
<1>4. ASSUME NEW a \in Foreign, OtherNetwork(a) PROVE CloneInv(c)'
  <2>1. UNCHANGED <<container, label>> /\ nets' = nets \cup {Network(Other, 0, a, None)}
    BY <1>4 DEF OtherNetwork
  <2>2. Network(Other, 0, a, None).project # c
    BY ClonesAssumption DEF Network
  <2>3. \A n : Own(nets', c, n) = Own(nets, c, n)
    BY <2>1, <2>2 DEF Own
  <2> QED
    BY <1>1, <2>1, <2>3, Frame DEF OnlyLess
<1> QED
  BY <1>2, <1>3, <1>4

\* Docker's networks stay apart.
LEMMA ApartStays == ASSUME Apart(nets), Next PROVE Apart(nets)'
<1>1. ASSUME NEW a, NEW x, x.at = a, Clashes(nets, a) = {}, nets' = nets \cup {x} PROVE Apart(nets)'
  <2>1. \A y \in nets : ~Overlaps(y.at, a)
    BY <1>1 DEF Clashes
  <2> QED
    BY <1>1, <2>1, OverlapsSymmetric DEF Apart
<1>2. ASSUME nets' \subseteq nets PROVE Apart(nets)'
  BY <1>2 DEF Apart
<1>3. ASSUME NEW c \in Clones, CreateNetwork(c) PROVE Apart(nets)'
  <2> DEFINE a == plan[c][Min(Missing(c))]
             x == Network(c, Min(Missing(c)), a, req[c].file)
  <2>1. x.at = a
    BY DEF Network
  <2>2. Clashes(nets, a) = {} /\ nets' = nets \cup {x}
    BY <1>3 DEF CreateNetwork
  <2> HIDE DEF a, x
  <2> QED
    BY <1>1, <2>1, <2>2
<1>4. ASSUME NEW a \in Foreign, OtherNetwork(a) PROVE Apart(nets)'
  <2>1. Network(Other, 0, a, None).at = a
    BY DEF Network
  <2> QED
    BY <1>1, <1>4, <2>1 DEF OtherNetwork
<1>5. ASSUME NEW x \in nets, Prune(x) PROVE Apart(nets)'
  BY <1>2, <1>5 DEF Prune
<1>6. ASSUME NEW c \in Clones,
             \/ Up(c) \/ Down(c) \/ RemoveProject(c) \/ Forget(c) \/ Crash(c)
             \/ ContainerExits(c) \/ ContainerRemoved(c)
      PROVE  nets' \subseteq nets \/ CreateNetwork(c)
  <2>1. CASE Failing(c)
    BY <2>1, FailingFails DEF Fails, docker
  <2> QED
    BY <1>6, <2>1
    DEF Up, Failing, StartUp, Snapshot, PlanNetwork, Finalize, ReuseRunning, ProceedAnew, ProceedWith,
        RemoveNetwork, CallCompose, StartContainers, Sync, Down, RemoveProject, Forget,
        ContainerExits, ContainerRemoved, docker
<1> QED
  BY <1>2, <1>3, <1>4, <1>5, <1>6 DEF Next

IInv == Types /\ Apart(nets) /\ \A c \in Clones : CloneInv(c)

LEMMA InitIInv == Init => IInv
<1> SUFFICES ASSUME Init PROVE IInv
  OBVIOUS
<1>1. ASSUME NEW c \in Clones PROVE CloneInv(c)
  <2>1. pc[c] = "idle" /\ plan[c] = NoPlan /\ kept[c] = NoPlan /\ container[c] # "running"
    BY DEF Init
  <2> QED
    BY <2>1 DEF CloneInv, PlanStage, KeptPlace, SeenPlace, Placed, RunningPlace, PlanKeeps, PlanStays,
       Before, After, NoPlan
<1> QED
  BY <1>1, InitTypes DEF IInv, Init

LEMMA NextIInv == IInv /\ [Next]_vars => IInv'
<1> SUFFICES ASSUME IInv, [Next]_vars PROVE IInv'
  OBVIOUS
<1> USE DEF IInv
<1>1. CASE UNCHANGED vars
  <2>1. Types'
    BY <1>1 DEF vars, docker, Types, DockerTypes, FileTypes, StageTypes, CommandTypes
  <2>2. ASSUME NEW c \in Clones PROVE CloneInv(c)'
    BY <1>1, <2>2, Frame, SameDocker DEF vars, SameCommand, SameFile
  <2> QED
    BY <1>1, <2>1, <2>2 DEF vars, docker, Apart
<1>2. ASSUME NEW d \in Clones,
             \/ Up(d) \/ Down(d) \/ RemoveProject(d) \/ Forget(d) \/ Crash(d)
             \/ ContainerExits(d) \/ ContainerRemoved(d)
      PROVE  Types' /\ \A c \in Clones : CloneInv(c)'
  <2>1. Types'
    BY <1>2, CloneStepTypes DEF CloneInv
  <2>2. CloneInv(d)'
    BY <1>2, OutsideInv, SnapshotInv, PlanNetworkInv, FinalizeInv, DecideInv, RemoveNetworkInv,
       CallComposeInv, CreateNetworkInv, StartContainersInv, SyncInv, AloneInv DEF Up, Failing
  <2>3. ASSUME NEW c \in Clones, c # d PROVE CloneInv(c)'
    BY <1>2, <2>3, OtherCloneSteps, Frame
  <2> QED
    BY <2>1, <2>2, <2>3
<1>3. ASSUME \/ \E x \in nets : Prune(x)
             \/ \E a \in Foreign : OtherNetwork(a)
      PROVE  Types' /\ \A c \in Clones : CloneInv(c)'
  BY <1>3, OthersTypes, AloneInv
<1>4. CASE Next
  <2>1. Types' /\ \A c \in Clones : CloneInv(c)'
    BY <1>2, <1>3, <1>4 DEF Next
  <2> QED
    BY <1>4, <2>1, ApartStays
<1> QED
  BY <1>1, <1>4

\* Every variable keeps its type, for any number of clones, networks and files,
\* and any pool and slot size.
THEOREM TypeCorrect == Spec => []TypeOK
<1>1. IInv => TypeOK
  BY TypesOK DEF IInv
<1> QED
  BY <1>1, InitIInv, NextIInv, PTL DEF Spec

\* Whatever stops, is pruned or removed between two ups, and wherever one dies:
\* a regular up returns to the subnet the clone had unless somebody else is in
\* it, and an up of a running clone moves nothing.
THEOREM AssignmentIsKept == Spec => []AssignmentKept
<1>1. ASSUME IInv, NEW c \in Clones, ~req[c].rebuild, NEW n \in Networks,
             plan[c][n] # None, kept[c][n] # None
      PROVE  plan[c][n] = kept[c][n] \/ InTheWay(c, n, kept[c][n])
  <2>1. CloneInv(c) /\ pc[c] \in Pcs
    BY <1>1 DEF IInv, Types, StageTypes
  <2>2. Before(c) \/ After(c)
    BY <1>1, <2>1 DEF CloneInv, PlanStage, NoPlan, Before, After, Pcs
  <2> QED
    BY <1>1, <2>1, <2>2 DEF CloneInv, PlanKeeps, KeptPlace
<1>2. ASSUME IInv, NEW c \in Clones, ~req[c].rebuild, pc[c] = "plan", Undecided(c) = {},
             container[c] = "running", label[c] = req[c].file
      PROVE  Mismatched(c) = {}
  <2> SUFFICES ASSUME NEW n \in Networks, NEW x \in Own(seen[c], c, n)
               PROVE  x.at = plan[c][n] /\ x.file = req[c].file
    BY DEF Mismatched
  <2>1. CloneInv(c)
    BY <1>2 DEF IInv
  <2>2. x.at = plan[c][n]
    BY <1>2, <2>1 DEF CloneInv, PlanStays, Undecided
  <2>3. Own(nets, c, n) = Own(seen[c], c, n)
    BY <1>2, <2>1 DEF CloneInv, SeenPlace, Before
  <2>4. x.file = label[c]
    BY <1>2, <2>1, <2>3 DEF CloneInv, RunningPlace
  <2> QED
    BY <1>2, <2>2, <2>4
<1>3. IInv => AssignmentKept
  BY <1>1, <1>2 DEF AssignmentKept
<1> QED
  BY <1>3, InitIInv, NextIInv, PTL DEF Spec

-----------------------------------------------------------------------------
(* Folds.                                                                    *)

\* A finite set is in G when every set is that has its elements removed one by one.
LEMMA SubsetInduction ==
  ASSUME NEW S, IsFiniteSet(S), NEW G,
         \A T \in SUBSET S : (\A x \in T : T \ {x} \in G) => T \in G
  PROVE  SUBSET S \subseteq G
<1> DEFINE R == StrictSubsetOrdering(S)
           Bad == {T \in SUBSET S : T \notin G}
<1>1. IsWellFoundedOn(R, SUBSET S)
  BY FS_StrictSubsetOrderingWellFounded, FS_FiniteSubsetsOfFinite
<1>2. ASSUME Bad # {} PROVE FALSE
  <2>1. \E T \in Bad : \A U \in Bad : <<U, T>> \notin R
    <3> HIDE DEF R
    <3>1. Bad \subseteq SUBSET S
      OBVIOUS
    <3> HIDE DEF Bad
    <3> QED
      BY <1>1, <1>2, <3>1, WFMin
  <2>2. PICK T \in Bad : \A U \in Bad : <<U, T>> \notin R
    BY <2>1
  <2>3. \A x \in T : <<T \ {x}, T>> \in R
    BY DEF StrictSubsetOrdering
  <2>4. \A x \in T : T \ {x} \in G
    BY <2>2, <2>3
  <2> QED
    BY <2>4
<1> QED
  BY <1>2

\* A number is in G when 0 is and every successor of one that is.
LEMMA NumberInduction ==
  ASSUME NEW n \in Nat, NEW G, 0 \in G, \A k \in 1..n : k - 1 \in G => k \in G
  PROVE  0..n \subseteq G
<1> DEFINE Bad == {k \in 0..n : k \notin G}
<1>1. ASSUME Bad # {} PROVE FALSE
  <2>1. Bad \in SUBSET Nat
    OBVIOUS
  <2>2. \E x \in Bad : \A y \in Bad : ~(y < x)
    <3> HIDE DEF Bad
    <3> QED
      BY <1>1, <2>1, LeastNumber
  <2>3. PICK x \in Bad : \A y \in Bad : ~(y < x)
    BY <2>2
  <2>4. x \in 1..n /\ x - 1 \in 0..n /\ x - 1 < x
    BY <2>3
  <2> QED
    BY <2>3, <2>4
<1> QED
  BY <1>1

\* What a fold of the finite set S is, with the choice C and the step F.
Folds(f, S, base, C, F) ==
    f = [T \in SUBSET S |-> IF T = {} THEN base ELSE F[C[T]][f[T \ {C[T]}]]]

\* One equation for all subsets of a finite set has a solution, as a subset asks
\* for smaller ones only: what a step adds (F) is a function of the choice (C).
LEMMA FoldExists ==
  ASSUME NEW S, IsFiniteSet(S), NEW base, NEW V, base \in V,
         NEW C, \A T \in SUBSET S : T # {} => C[T] \in T,
         NEW F, \A v \in V, x \in S : F[x][v] \in V
  PROVE  \E f \in [SUBSET S -> V] : Folds(f, S, base, C, F)
<1> DEFINE Below(n) == {T \in SUBSET S : Cardinality(T) <= n}
           Rhs(T, f) == IF T = {} THEN base ELSE F[C[T]][f[T \ {C[T]}]]
           Solves(f, n) == f \in [Below(n) -> V] /\ \A T \in Below(n) : f[T] = Rhs(T, f)
           G == {n \in Nat : \E f : Solves(f, n)}
<1>1. \A T \in SUBSET S : IsFiniteSet(T) /\ Cardinality(T) \in Nat /\ (Cardinality(T) = 0 <=> T = {})
  BY FS_Subset, FS_CardinalityType, FS_EmptySet
<1>2. 0 \in G
  <2>1. Below(0) = {{}}
    BY <1>1
  <2>2. Solves([T \in Below(0) |-> base], 0)
    BY <2>1
  <2> QED
    BY <2>2
<1>3. ASSUME NEW n \in Nat \ {0}, n - 1 \in G PROVE n \in G
  <2>1. PICK f : Solves(f, n - 1)
    BY <1>3
  <2> DEFINE g == [T \in Below(n) |-> Rhs(T, f)]
  <2>2. \A T \in Below(n) : T # {} => C[T] \in S /\ T \ {C[T]} \in Below(n - 1)
    <3> SUFFICES ASSUME NEW T \in Below(n), T # {} PROVE C[T] \in S /\ T \ {C[T]} \in Below(n - 1)
      OBVIOUS
    <3>1. C[T] \in T
      OBVIOUS
    <3>2. Cardinality(T \ {C[T]}) = Cardinality(T) - 1
      BY <1>1, <3>1, FS_RemoveElement
    <3> QED
      BY <1>1, <3>1, <3>2
  <2>3. \A T \in Below(n - 1) : T \in Below(n) /\ g[T] = f[T]
    <3>1. \A T \in Below(n - 1) : T \in Below(n)
      BY <1>1
    <3>2. \A T \in Below(n - 1) : Rhs(T, f) = f[T]
      BY <2>1
    <3> QED
      BY <3>1, <3>2
  <2>4. g \in [Below(n) -> V]
    <3>1. \A T \in Below(n) : Rhs(T, f) \in V
      BY <2>1, <2>2
    <3> QED
      BY <3>1
  <2>5. \A T \in Below(n) : g[T] = Rhs(T, g)
    <3> SUFFICES ASSUME NEW T \in Below(n) PROVE Rhs(T, f) = Rhs(T, g)
      OBVIOUS
    <3> HIDE DEF g
    <3> QED
      BY <2>2, <2>3
  <2> QED
    BY <2>4, <2>5
<1>4. Cardinality(S) \in Nat
  BY FS_CardinalityType
<1>5. Cardinality(S) \in G
  <2> HIDE DEF G
  <2>1. 0..Cardinality(S) \subseteq G
    BY <1>2, <1>3, <1>4, NumberInduction
  <2> QED
    BY <1>4, <2>1
<1>6. Below(Cardinality(S)) = SUBSET S
  BY FS_Subset
<1>7. PICK f : Solves(f, Cardinality(S))
  BY <1>5
<1>8. f \in [SUBSET S -> V] /\ \A T \in SUBSET S : f[T] = Rhs(T, f)
  BY <1>6, <1>7
<1>9. f = [T \in SUBSET S |-> f[T]]
  BY <1>8
<1>10. f = [T \in SUBSET S |-> Rhs(T, f)]
  <2> HIDE DEF Solves, Below
  <2> QED
    BY <1>8, <1>9
<1> QED
  BY <1>8, <1>10 DEF Folds

-----------------------------------------------------------------------------
(* The slots in use (occupied_slot_intervals).                               *)

In(s, i) == i.first <= s /\ s <= i.last
Intervals(U) == {SlotsOf(a) : a \in {b \in U : Overlaps(Pool, b)}}
Spaced(m) == \A j, k \in DOMAIN m : j < k => m[j].last + 1 < m[k].first
\* m has the slots of T, in intervals that are apart and in order.
MergedOf(T, m) ==
    /\ m \in Seq(Subnets) /\ Spaced(m)
    /\ \A k \in DOMAIN m : \E j \in T : m[k].first = j.first
    /\ \A s \in Nat : (\E k \in DOMAIN m : In(s, m[k])) <=> (\E i \in T : In(s, i))

LEMMA MaxOfTwo ==
  ASSUME NEW x \in Int, NEW y \in Int
  PROVE  /\ Max({x, y}) = IF x >= y THEN x ELSE y
         /\ Min({x, y}) = IF x <= y THEN x ELSE y
BY DEF Max, Min

LEMMA LatestIn ==
  ASSUME NEW S \in SUBSET Subnets, IsFiniteSet(S)
  PROVE  \A T \in SUBSET S : T # {} => Latest(T) \in T /\ \A j \in T : j.first <= Latest(T).first
<1> DEFINE G == {T \in SUBSET S : T # {} => \E i \in T : \A j \in T : j.first <= i.first}
<1>0. \A i \in S : i.first \in Nat
  BY DEF Subnets
<1>1. ASSUME NEW T \in SUBSET S, \A x \in T : T \ {x} \in G PROVE T \in G
  <2> SUFFICES ASSUME T # {} PROVE \E i \in T : \A j \in T : j.first <= i.first
    OBVIOUS
  <2>1. PICK x \in T : TRUE
    OBVIOUS
  <2>2. CASE T \ {x} = {}
    BY <1>0, <2>2
  <2>3. CASE T \ {x} # {}
    <3>1. PICK i \in T \ {x} : \A j \in T \ {x} : j.first <= i.first
      BY <1>1, <2>1, <2>3
    <3>2. CASE x.first <= i.first
      BY <3>1, <3>2
    <3>3. CASE ~(x.first <= i.first)
      <4>1. \A j \in T : j.first <= x.first
        BY <1>0, <3>1, <3>3
      <4> QED
        BY <2>1, <4>1
    <3> QED
      BY <3>2, <3>3
  <2> QED
    BY <2>2, <2>3
<1>2. SUBSET S \subseteq G
  <2> HIDE DEF G
  <2> QED
    BY <1>1, SubsetInduction
<1> QED
  BY <1>2 DEF Latest

\* One turn of the merging: the new interval starts no earlier than the others.
LEMMA MergedStep ==
  ASSUME NEW T, NEW m, MergedOf(T, m), NEW i \in Subnets, \A j \in T : j \in Subnets /\ j.first <= i.first
  PROVE  MergedOf(T \cup {i}, Merged(m, i))
<1>0. /\ m \in Seq(Subnets) /\ Spaced(m) /\ Len(m) \in Nat /\ DOMAIN m = 1..Len(m)
      /\ \A k \in DOMAIN m : m[k] \in Subnets /\ m[k].first \in Nat /\ m[k].last \in Nat
                             /\ m[k].first <= m[k].last /\ m[k].first <= i.first
      /\ i.first \in Nat /\ i.last \in Nat /\ i.first <= i.last
      /\ \A k \in DOMAIN m : \E j \in T : m[k].first = j.first
      /\ \A s \in Nat : (\E k \in DOMAIN m : In(s, m[k])) <=> (\E j \in T : In(s, j))
  <2>1. \A k \in DOMAIN m : m[k] \in Subnets /\ \E j \in T : m[k].first = j.first
    BY DEF MergedOf
  <2>2. m \in Seq(Subnets) /\ Spaced(m) /\ Len(m) \in Nat /\ DOMAIN m = 1..Len(m)
    BY DEF MergedOf
  <2> QED
    BY <2>1, <2>2 DEF MergedOf, Subnets
<1>1. CASE m # <<>> /\ i.first <= Last(m).last + 1
  <2> DEFINE n == Len(m)
             l == IF m[n].last >= i.last THEN m[n].last ELSE i.last
             r == [m EXCEPT ![n] = [@ EXCEPT !.last = l]]
  <2>1. n \in DOMAIN m
    BY <1>0, <1>1
  <2>2. Merged(m, i) = r
    <3>1. Max({m[n].last, i.last}) = l
      BY <1>0, <2>1, MaxOfTwo
    <3>2. Merged(m, i) = [m EXCEPT ![n] = [m[n] EXCEPT !.last = Max({m[n].last, i.last})]]
      BY <1>1 DEF Merged, Last, ReplaceAt
    <3> HIDE DEF l
    <3> QED
      BY <3>1, <3>2
  <2>3. /\ r \in Seq(Subnets) /\ DOMAIN r = DOMAIN m
        /\ r[n].first = m[n].first /\ r[n].last = l
        /\ \A k \in DOMAIN m \ {n} : r[k] = m[k]
    BY <1>0, <2>1 DEF Subnets
  <2> HIDE DEF r
  <2>4. Spaced(r)
    BY <1>0, <2>1, <2>3 DEF Spaced
  <2>5. \A k \in DOMAIN r : \E j \in T \cup {i} : r[k].first = j.first
    BY <1>0, <2>1, <2>3
  <2>6. \A s \in Nat : In(s, r[n]) <=> In(s, m[n]) \/ In(s, i)
    BY <1>0, <1>1, <2>1, <2>3 DEF In, Last
  <2>7. \A s \in Nat : (\E k \in DOMAIN r : In(s, r[k])) <=> (\E j \in T \cup {i} : In(s, j))
    BY <1>0, <2>1, <2>3, <2>6
  <2> QED
    BY <2>2, <2>3, <2>4, <2>5, <2>7 DEF MergedOf
<1>2. CASE ~(m # <<>> /\ i.first <= Last(m).last + 1)
  <2> DEFINE n == Len(m)
             r == Append(m, i)
  <2>1. Merged(m, i) = r
    BY <1>2 DEF Merged
  <2>2. /\ r \in Seq(Subnets) /\ DOMAIN r = 1..n + 1 /\ r[n + 1] = i
        /\ \A k \in 1..n : r[k] = m[k]
    BY <1>0
  <2> HIDE DEF r
  <2>3. \A k \in 1..n : m[k].last + 1 < i.first
    <3>1. CASE n = 0
      BY <3>1
    <3>2. CASE n # 0
      <4>1. n \in DOMAIN m /\ m[n].last + 1 < i.first
        BY <1>0, <1>2, <3>2 DEF Last
      <4>2. m[n] \in Subnets
        BY <1>0, <4>1
      <4>3. ASSUME NEW k \in 1..n, k # n PROVE m[k].last + 1 < i.first
        <5>0. n \in Nat /\ DOMAIN m = 1..n
          BY <1>0
        <5>1. k \in DOMAIN m /\ k < n /\ m[k] \in Subnets
          <6>1. k \in DOMAIN m /\ m[k] \in Subnets
            BY <1>0, <5>0
          <6> HIDE DEF n
          <6> QED
            BY <4>3, <5>0, <6>1
        <5>2. m[k].last + 1 < m[n].first
          BY <1>0, <4>1, <5>1 DEF Spaced
        <5> HIDE DEF n
        <5> QED
          BY <4>1, <4>2, <5>1, <5>2 DEF Subnets
      <4> QED
        BY <4>1, <4>3
    <3> QED
      BY <3>1, <3>2
  <2>4. Spaced(r)
    BY <1>0, <2>2, <2>3 DEF Spaced
  <2>5. \A k \in DOMAIN r : \E j \in T \cup {i} : r[k].first = j.first
    BY <1>0, <2>2
  <2>6. \A s \in Nat : (\E k \in DOMAIN r : In(s, r[k])) <=> (\E j \in T \cup {i} : In(s, j))
    <3> SUFFICES ASSUME NEW s \in Nat
                 PROVE  (\E k \in DOMAIN r : In(s, r[k])) <=> (\E j \in T : In(s, j)) \/ In(s, i)
      OBVIOUS
    <3>1. (\E k \in DOMAIN r : In(s, r[k])) <=> (\E k \in DOMAIN m : In(s, m[k])) \/ In(s, i)
      BY <1>0, <2>2
    <3> QED
      BY <1>0, <3>1
  <2> QED
    BY <2>1, <2>2, <2>4, <2>5, <2>6 DEF MergedOf
<1> QED
  BY <1>1, <1>2

LEMMA OccupiedIs ==
  ASSUME NEW U
  PROVE  Occupied(U) =
           (CHOOSE f : f = [T \in SUBSET Intervals(U) |->
                IF T = {} THEN <<>> ELSE Merged(f[T \ {Latest(T)}], Latest(T))])[Intervals(U)]
BY DEF Occupied, MapThenFoldSet, Intervals

\* The merged intervals have the slots of all.
LEMMA OccupiedMerges ==
  ASSUME NEW U, Intervals(U) \subseteq Subnets, IsFiniteSet(Intervals(U))
  PROVE  MergedOf(Intervals(U), Occupied(U))
<1> DEFINE S == Intervals(U)
           C == [T \in SUBSET S |-> Latest(T)]
           F == [i \in S |-> [v \in Seq(Subnets) |-> Merged(v, i)]]
           Eq(f) == f = [T \in SUBSET S |-> IF T = {} THEN <<>> ELSE Merged(f[T \ {Latest(T)}], Latest(T))]
<1>0. \A T \in SUBSET S : T # {} => Latest(T) \in T /\ \A j \in T : j.first <= Latest(T).first
  BY LatestIn
<1>1. \A v \in Seq(Subnets), i \in S : Merged(v, i) \in Seq(Subnets)
  <2> SUFFICES ASSUME NEW v \in Seq(Subnets), NEW i \in S PROVE Merged(v, i) \in Seq(Subnets)
    OBVIOUS
  <2>1. i \in Subnets /\ i.last \in Nat
    BY DEF Subnets
  <2>2. CASE v # <<>> /\ i.first <= Last(v).last + 1
    <3>1. Len(v) \in DOMAIN v /\ v[Len(v)] \in Subnets
      BY <2>2
    <3>2. [v[Len(v)] EXCEPT !.last = Max({@, i.last})] \in Subnets
      BY <2>1, <3>1, MaxOfTwo DEF Subnets
    <3>3. Merged(v, i) = [v EXCEPT ![Len(v)] = [v[Len(v)] EXCEPT !.last = Max({@, i.last})]]
      BY <2>2 DEF Merged, Last, ReplaceAt
    <3> QED
      BY <3>1, <3>2, <3>3
  <2>3. CASE ~(v # <<>> /\ i.first <= Last(v).last + 1)
    BY <2>1, <2>3 DEF Merged
  <2> QED
    BY <2>2, <2>3
<1>2. \E f : Eq(f)
  <2>1. \A T \in SUBSET S : T # {} => C[T] \in T
    BY <1>0
  <2>2. \A v \in Seq(Subnets), i \in S : F[i][v] \in Seq(Subnets)
    BY <1>1
  <2>3. \E f \in [SUBSET S -> Seq(Subnets)] : Folds(f, S, <<>>, C, F)
    <3> DEFINE V == Seq(Subnets)
               base == <<>>
    <3>1. base \in V /\ IsFiniteSet(S)
      OBVIOUS
    <3>2. \A v \in V, i \in S : F[i][v] \in V
      BY <2>2
    <3> HIDE DEF C, F, S, V, base
    <3>3. \E f \in [SUBSET S -> V] : Folds(f, S, base, C, F)
      BY <2>1, <3>1, <3>2, FoldExists
    <3> QED
      BY <3>3 DEF V, base
  <2>4. PICK f \in [SUBSET S -> Seq(Subnets)] :
          f = [T \in SUBSET S |-> IF T = {} THEN <<>> ELSE F[C[T]][f[T \ {C[T]}]]]
    <3> HIDE DEF C, F, S
    <3> QED
      BY <2>3 DEF Folds
  <2>5. \A T \in SUBSET S : T # {} => F[C[T]][f[T \ {C[T]}]] = Merged(f[T \ {Latest(T)}], Latest(T))
    <3> SUFFICES ASSUME NEW T \in SUBSET S, T # {}
                 PROVE  F[C[T]][f[T \ {C[T]}]] = Merged(f[T \ {Latest(T)}], Latest(T))
      OBVIOUS
    <3>1. C[T] = Latest(T) /\ Latest(T) \in S
      BY <1>0
    <3>2. f[T \ {Latest(T)}] \in Seq(Subnets)
      OBVIOUS
    <3> QED
      BY <3>1, <3>2
  <2>6. Eq(f)
    <3> HIDE DEF C, F
    <3> QED
      BY <2>4, <2>5
  <2> QED
    BY <2>6
<1>3. PICK f : Eq(f) /\ Occupied(U) = f[S]
  <2>1. Eq(CHOOSE f : Eq(f))
    BY <1>2
  <2> QED
    BY <2>1, OccupiedIs
<1> DEFINE G == {T \in SUBSET S : MergedOf(T, f[T])}
<1>4. ASSUME NEW T \in SUBSET S, \A x \in T : T \ {x} \in G PROVE T \in G
  <2>1. CASE T = {}
    <3>1. f[T] = <<>>
      BY <1>3, <2>1
    <3>2. MergedOf({}, <<>>)
      BY DEF MergedOf, Spaced
    <3> QED
      BY <2>1, <3>1, <3>2
  <2>2. CASE T # {}
    <3> DEFINE i == Latest(T)
    <3>1. i \in T /\ \A j \in T : j \in Subnets /\ j.first <= i.first
      BY <1>0, <2>2
    <3>2. MergedOf(T \ {i}, f[T \ {i}])
      BY <1>4, <3>1
    <3>3. f[T] = Merged(f[T \ {i}], i)
      BY <1>3, <2>2
    <3>4. (T \ {i}) \cup {i} = T
      BY <3>1
    <3> HIDE DEF i
    <3>5. MergedOf((T \ {i}) \cup {i}, Merged(f[T \ {i}], i))
      BY <3>1, <3>2, MergedStep
    <3> QED
      BY <3>3, <3>4, <3>5
  <2> QED
    BY <2>1, <2>2
<1>5. SUBSET S \subseteq G
  <2> HIDE DEF G
  <2> QED
    BY <1>4, SubsetInduction
<1> QED
  BY <1>3, <1>5

-----------------------------------------------------------------------------
(* The search (first_free_slot).                                             *)

Walk(q, start, end) ==
    FoldLeft(LAMBDA s, i : Passed(s, i, end), [at |-> start, done |-> start >= end], q)

LEMMA MaxOfPrefix == ASSUME NEW k \in Nat \ {0} PROVE Max(1..k) = k /\ (1..k) \ {k} = 1..k - 1
<1>1. k \in 1..k /\ \A y \in 1..k : k >= y
  OBVIOUS
<1>2. \A x \in 1..k : (\A y \in 1..k : x >= y) => x = k
  BY <1>1
<1> QED
  BY <1>1, <1>2 DEF Max

LEMMA WalkIs ==
  ASSUME NEW q, NEW start, NEW end
  PROVE  Walk(q, start, end) =
           (CHOOSE f : f = [T \in SUBSET DOMAIN q |->
                IF T = {} THEN [at |-> start, done |-> start >= end]
                ELSE Passed(f[T \ {Max(T)}], q[Max(T)], end)])[DOMAIN q]
BY DEF Walk, FoldLeft, MapThenFoldSet

\* What is found after each interval.
LEMMA WalkSteps ==
  ASSUME NEW q \in Seq(Subnets), NEW start \in Nat, NEW end \in Nat
  PROVE  \E g : /\ g[0] = [at |-> start, done |-> start >= end]
                /\ \A k \in 1..Len(q) : g[k] = Passed(g[k - 1], q[k], end)
                /\ g[Len(q)] = Walk(q, start, end)
<1> DEFINE S == DOMAIN q
           V == [at : Nat, done : BOOLEAN]
           base == [at |-> start, done |-> start >= end]
           C == [T \in SUBSET S |-> Max(T)]
           F == [k \in S |-> [v \in V |-> Passed(v, q[k], end)]]
           Eq(f) == f = [T \in SUBSET S |-> IF T = {} THEN base
                                            ELSE Passed(f[T \ {Max(T)}], q[Max(T)], end)]
<1>1. S = 1..Len(q) /\ Len(q) \in Nat /\ IsFiniteSet(S)
  BY FS_Interval
<1>2. \A T \in SUBSET S : T # {} => Max(T) \in T
  <2> DEFINE G == {T \in SUBSET S : T # {} => \E x \in T : \A y \in T : x >= y}
  <2>1. ASSUME NEW T \in SUBSET S, \A x \in T : T \ {x} \in G PROVE T \in G
    <3> SUFFICES ASSUME T # {} PROVE \E x \in T : \A y \in T : x >= y
      OBVIOUS
    <3>1. PICK x \in T : TRUE
      OBVIOUS
    <3>2. \A y \in T : y \in Nat
      BY <1>1
    <3>3. CASE T \ {x} = {}
      BY <3>1, <3>2, <3>3
    <3>4. CASE T \ {x} # {}
      <4>1. PICK z \in T \ {x} : \A y \in T \ {x} : z >= y
        BY <2>1, <3>1, <3>4
      <4>2. CASE z >= x
        BY <4>1, <4>2
      <4>3. CASE ~(z >= x)
        <5>1. \A y \in T : x >= y
          BY <3>2, <4>1, <4>3
        <5> QED
          BY <3>1, <5>1
      <4> QED
        BY <4>2, <4>3
    <3> QED
      BY <3>3, <3>4
  <2>2. SUBSET S \subseteq G
    <3>1. IsFiniteSet(S)
      BY <1>1
    <3> HIDE DEF G, S
    <3> QED
      BY <2>1, <3>1, SubsetInduction
  <2> QED
    BY <2>2 DEF Max
<1>3. \A v \in V, k \in S : Passed(v, q[k], end) \in V
  <2> SUFFICES ASSUME NEW v \in V, NEW k \in S PROVE Passed(v, q[k], end) \in V
    OBVIOUS
  <2>1. q[k] \in Subnets /\ q[k].last + 1 \in Nat
    BY DEF Subnets
  <2> DEFINE i == q[k]
  <2>2. CASE v.done \/ i.last < v.at
    BY <2>2 DEF Passed
  <2>3. CASE ~(v.done \/ i.last < v.at) /\ (i.first >= end \/ i.first > v.at)
    <3>1. Passed(v, i, end) = [v EXCEPT !.done = TRUE]
      BY <2>3 DEF Passed
    <3> QED
      BY <3>1
  <2>4. CASE ~(v.done \/ i.last < v.at) /\ ~(i.first >= end \/ i.first > v.at)
    <3>1. Passed(v, i, end) = [at |-> i.last + 1, done |-> i.last + 1 >= end]
      BY <2>4 DEF Passed
    <3> QED
      BY <2>1, <3>1
  <2> QED
    BY <2>2, <2>3, <2>4
<1>4. \E f : Eq(f)
  <2>1. \A T \in SUBSET S : T # {} => C[T] \in T
    BY <1>2
  <2>2. \A v \in V, k \in S : F[k][v] \in V
    BY <1>3
  <2>3. \E f \in [SUBSET S -> V] : Folds(f, S, base, C, F)
    <3>1. base \in V
      OBVIOUS
    <3> HIDE DEF C, F, S, V, base
    <3> QED
      BY <1>1, <2>1, <2>2, <3>1, FoldExists
  <2>4. PICK f \in [SUBSET S -> V] :
          f = [T \in SUBSET S |-> IF T = {} THEN base ELSE F[C[T]][f[T \ {C[T]}]]]
    <3> HIDE DEF C, F, S, V, base
    <3> QED
      BY <2>3 DEF Folds
  <2>5. \A T \in SUBSET S : T # {} => F[C[T]][f[T \ {C[T]}]] = Passed(f[T \ {Max(T)}], q[Max(T)], end)
    <3> SUFFICES ASSUME NEW T \in SUBSET S, T # {}
                 PROVE  F[C[T]][f[T \ {C[T]}]] = Passed(f[T \ {Max(T)}], q[Max(T)], end)
      OBVIOUS
    <3>1. C[T] = Max(T) /\ Max(T) \in S
      BY <1>2
    <3>2. f[T \ {Max(T)}] \in V
      OBVIOUS
    <3> HIDE DEF V
    <3> QED
      BY <3>1, <3>2
  <2>6. Eq(f)
    <3> HIDE DEF C, F, base, V
    <3> QED
      BY <2>4, <2>5
  <2> QED
    BY <2>6
<1>5. PICK f : Eq(f) /\ Walk(q, start, end) = f[S]
  <2>1. Eq(CHOOSE f : Eq(f))
    BY <1>4
  <2> QED
    BY <2>1, WalkIs
<1> DEFINE g == [k \in 0..Len(q) |-> f[1..k]]
<1>6. g[0] = base
  <2>1. 1..0 = {}
    OBVIOUS
  <2>2. f[{}] = base
    BY <1>5
  <2> QED
    BY <1>1, <2>1, <2>2
<1>7. ASSUME NEW k \in 1..Len(q) PROVE g[k] = Passed(g[k - 1], q[k], end)
  <2>1. k \in Nat \ {0} /\ 1..k \in SUBSET S /\ 1..k # {} /\ k - 1 \in 0..Len(q) /\ k \in 0..Len(q)
    BY <1>1
  <2>2. Max(1..k) = k /\ (1..k) \ {k} = 1..k - 1
    BY <2>1, MaxOfPrefix
  <2>3. f[1..k] = Passed(f[(1..k) \ {Max(1..k)}], q[Max(1..k)], end)
    <3> HIDE DEF S, base
    <3> QED
      BY <1>5, <2>1
  <2> QED
    BY <2>1, <2>2, <2>3
<1>8. g[Len(q)] = Walk(q, start, end)
  BY <1>1, <1>5
<1> HIDE DEF g
<1> QED
  BY <1>6, <1>7, <1>8

Used(q, s) == \E k \in DOMAIN q : In(s, q[k])

\* All slots below the candidate are in use, and no interval that was passed has it.
LEMMA WalkSound ==
  ASSUME NEW q \in Seq(Subnets), Spaced(q), NEW start \in Nat, NEW end \in Nat,
         NEW w, w = Walk(q, start, end)
  PROVE  /\ w.at \in Nat /\ w.at >= start
         /\ \A s \in start..w.at - 1 : Used(q, s)
         /\ w.at < end => ~Used(q, w.at)
<1>1. PICK g : /\ g[0] = [at |-> start, done |-> start >= end]
               /\ \A k \in 1..Len(q) : g[k] = Passed(g[k - 1], q[k], end)
               /\ g[Len(q)] = w
  BY WalkSteps
<1> DEFINE Right(k, v) ==
             /\ v.at \in Nat /\ v.at >= start /\ v.done \in BOOLEAN
             /\ v = [at |-> v.at, done |-> v.done]
             /\ \A s \in start..v.at - 1 : Used(q, s)
             /\ v.at < end => \A j \in 1..Len(q) : (v.done \/ j <= k) => ~In(v.at, q[j])
             /\ ~v.done => v.at < end
           G == {k \in 0..Len(q) : Right(k, g[k])}
<1>2. /\ Len(q) \in Nat /\ DOMAIN q = 1..Len(q)
      /\ \A k \in 1..Len(q) : q[k].first \in Nat /\ q[k].last \in Nat /\ q[k].first <= q[k].last
  BY DEF Subnets
<1>3. Right(0, g[0])
  <2> DEFINE v == [at |-> start, done |-> start >= end]
  <2>1. /\ v.at = start /\ v = [at |-> v.at, done |-> v.done]
        /\ v.done \in BOOLEAN /\ (v.done <=> start >= end)
    <3>1. v.at = start /\ v = [at |-> v.at, done |-> v.done] /\ v.done = (start >= end)
      OBVIOUS
    <3> HIDE DEF v
    <3>2. v.done \in BOOLEAN /\ (v.done <=> start >= end)
      <4>1. v \in [at : Nat, done : BOOLEAN]
        BY DEF v
      <4>2. v.done <=> start >= end
        BY DEF v
      <4> QED
        BY <4>1, <4>2
    <3> QED
      BY <3>1, <3>2
  <2> HIDE DEF v
  <2>2. Right(0, v)
    BY <1>2, <2>1
  <2> QED
    BY <1>1, <2>2 DEF v
<1>4. ASSUME NEW k \in 1..Len(q), NEW v, Right(k - 1, v) PROVE Right(k, Passed(v, q[k], end))
  <2> DEFINE i == q[k]
  <2>1. CASE v.done \/ i.last < v.at
    <3>1. Passed(v, i, end) = v
      BY <2>1 DEF Passed
    <3>2. \A j \in 1..Len(q) : j <= k => j <= k - 1 \/ j = k
      BY <1>2
    <3>3. Right(k, v)
      BY <1>2, <1>4, <2>1, <3>2 DEF In
    <3> QED
      BY <3>1, <3>3
  <2>2. CASE ~(v.done \/ i.last < v.at) /\ (i.first >= end \/ i.first > v.at)
    <3>1. Passed(v, i, end) = [at |-> v.at, done |-> TRUE]
      BY <1>4, <2>2 DEF Passed
    <3>2. v.at < i.first
      BY <1>2, <1>4, <2>2
    <3>3. \A j \in 1..Len(q) : ~In(v.at, q[j])
      <4> SUFFICES ASSUME NEW j \in 1..Len(q) PROVE ~In(v.at, q[j])
        OBVIOUS
      <4>1. CASE j < k
        BY <1>4, <4>1, <2>2
      <4>2. CASE j = k
        <5>1. v.at < q[j].first /\ v.at \in Nat /\ q[j].first \in Nat
          BY <1>2, <1>4, <3>2, <4>2
        <5> QED
          BY <5>1 DEF In
      <4>3. CASE j > k
        <5>1. i.last + 1 < q[j].first
          BY <1>2, <4>3 DEF Spaced
        <5> QED
          BY <1>2, <1>4, <3>2, <5>1 DEF In
      <4> QED
        BY <4>1, <4>2, <4>3
    <3>4. \A s \in start..v.at - 1 : Used(q, s)
      BY <1>4
    <3> DEFINE w1 == [at |-> v.at, done |-> TRUE]
    <3>5. w1.at = v.at /\ w1.done = TRUE /\ w1 = [at |-> w1.at, done |-> w1.done]
      OBVIOUS
    <3> HIDE DEF w1
    <3>6. Right(k, w1)
      BY <1>4, <3>3, <3>4, <3>5
    <3> QED
      BY <3>1, <3>6 DEF w1
  <2>3. CASE ~(v.done \/ i.last < v.at) /\ ~(i.first >= end \/ i.first > v.at)
    <3> DEFINE w1 == [at |-> i.last + 1, done |-> i.last + 1 >= end]
    <3>1. Passed(v, i, end) = w1
      BY <2>3 DEF Passed
    <3>0. /\ w1.at = i.last + 1 /\ w1 = [at |-> w1.at, done |-> w1.done]
          /\ w1.done \in BOOLEAN /\ (w1.done <=> i.last + 1 >= end)
      <4>1. w1.at = i.last + 1 /\ w1 = [at |-> w1.at, done |-> w1.done] /\ w1.done = (i.last + 1 >= end)
        OBVIOUS
      <4> HIDE DEF w1
      <4>2. w1.done \in BOOLEAN /\ (w1.done <=> i.last + 1 >= end)
        <5>1. w1 \in [at : Nat, done : BOOLEAN]
          BY <1>2 DEF w1
        <5>2. w1.done <=> i.last + 1 >= end
          BY DEF w1
        <5> QED
          BY <5>1, <5>2
      <4> QED
        BY <4>1, <4>2
    <3> HIDE DEF w1
    <3>2. w1.at \in Nat /\ w1.at >= start
      BY <1>2, <1>4, <2>3, <3>0
    <3>3. ASSUME NEW s \in start..w1.at - 1 PROVE Used(q, s)
      <4>0. s \in Nat /\ s >= start /\ s <= i.last /\ v.at \in Nat
        BY <1>2, <1>4, <3>0, <3>3
      <4>1. CASE s < v.at
        <5>1. s \in start..v.at - 1
          BY <4>0, <4>1
        <5> QED
          BY <1>4, <5>1
      <4>2. CASE s >= v.at
        <5>1. In(s, i)
          BY <1>2, <2>3, <4>0, <4>2 DEF In
        <5> QED
          BY <1>2, <5>1 DEF Used
      <4> QED
        BY <4>0, <4>1, <4>2
    <3>4. ASSUME w1.at < end, NEW j \in 1..Len(q), w1.done \/ j <= k PROVE ~In(w1.at, q[j])
      <4>1. j <= k
        BY <1>2, <3>0, <3>4
      <4>2. CASE j = k
        BY <1>2, <3>0, <4>2 DEF In
      <4>3. CASE j < k
        <5>1. q[j].last + 1 < i.first
          BY <1>2, <4>3 DEF Spaced
        <5> QED
          BY <1>2, <3>0, <5>1 DEF In
      <4> QED
        BY <1>2, <4>1, <4>2, <4>3
    <3>5. w1.done \in BOOLEAN /\ (~w1.done => w1.at < end)
      BY <1>2, <3>0
    <3>6. Right(k, w1)
      BY <3>0, <3>2, <3>3, <3>4, <3>5
    <3> QED
      BY <3>1, <3>6 DEF w1
  <2> QED
    BY <2>1, <2>2, <2>3
<1>5. Len(q) \in G
  <2>1. 0 \in G
    BY <1>2, <1>3
  <2>2. \A k \in 1..Len(q) : k - 1 \in G => k \in G
    <3> SUFFICES ASSUME NEW k \in 1..Len(q), k - 1 \in G PROVE k \in G
      OBVIOUS
    <3> HIDE DEF Right
    <3>1. Right(k - 1, g[k - 1]) /\ g[k] = Passed(g[k - 1], q[k], end) /\ k \in 0..Len(q)
      BY <1>1, <1>2
    <3>2. Right(k, g[k])
      BY <1>4, <3>1
    <3> QED
      BY <3>1, <3>2
  <2> HIDE DEF G
  <2>3. 0..Len(q) \subseteq G
    BY <1>2, <2>1, <2>2, NumberInduction
  <2> QED
    BY <1>2, <2>3
<1>6. Right(Len(q), w)
  BY <1>1, <1>5
<1> QED
  BY <1>2, <1>6 DEF Used

\* first_free_slot finds a slot that no interval has, if there is one.
LEMMA FirstFreeFinds ==
  ASSUME NEW q \in Seq(Subnets), Spaced(q), NEW start \in Nat, NEW end \in Nat
  PROVE  /\ \A s \in FirstFree(q, start, end) : s \in start..end - 1 /\ ~Used(q, s)
         /\ FirstFree(q, start, end) = {} => \A s \in start..end - 1 : Used(q, s)
<1> DEFINE w == Walk(q, start, end)
<1>1. FirstFree(q, start, end) = {w.at} \cap start..end - 1
  BY DEF FirstFree, Walk
<1> HIDE DEF w
<1>2. /\ w.at \in Nat /\ w.at >= start
      /\ \A s \in start..w.at - 1 : Used(q, s)
      /\ w.at < end => ~Used(q, w.at)
  BY WalkSound DEF w
<1> QED
  BY <1>1, <1>2

-----------------------------------------------------------------------------
(* Slots and subnets (allocate_ipv4_subnet_slot).                            *)

SlotSubnet(s) == Subnet(Pool.first + s * SlotSize)
Slots == 0..SlotCount - 1

LEMMA SlotCountType == SlotCount \in Nat \ {0}
<1>1. PICK k \in 1..Pool.last + 1 : Pool.last - Pool.first + 1 = k * SlotSize
  BY SlotAssumption
<1> QED
  BY <1>1, SlotAssumption DEF SlotCount

\* The slot of an offset.
LEMMA SlotOfOffset ==
  ASSUME NEW d \in Nat, NEW s \in Nat
  PROVE  /\ d \div SlotSize \in Nat
         /\ d \div SlotSize <= s <=> d < s * SlotSize + SlotSize
         /\ s <= d \div SlotSize <=> s * SlotSize <= d
<1> DEFINE Z == SlotSize
           k == d \div Z
<1>1. Z \in Nat /\ Z > 0
  BY SlotAssumption
<1>2. k \in Nat /\ k * Z <= d /\ d < k * Z + Z
  BY <1>1
<1> HIDE DEF k, Z
<1>3. ASSUME NEW a \in Nat, NEW b \in Nat, a < b PROVE a * Z + Z <= b * Z
  <2>1. PICK e \in Nat : b = a + 1 + e
    BY <1>3
  <2>2. b * Z = a * Z + Z + e * Z /\ e * Z \in Nat /\ a * Z \in Nat
    BY <1>1, <2>1
  <2> QED
    BY <1>1, <2>2
<1>4. k * Z \in Nat /\ s * Z \in Nat
  BY <1>1, <1>2
<1>5. CASE k < s
  BY <1>1, <1>2, <1>3, <1>4, <1>5 DEF k, Z
<1>6. CASE k = s
  BY <1>1, <1>2, <1>4, <1>6 DEF k, Z
<1>7. CASE s < k
  BY <1>1, <1>2, <1>3, <1>4, <1>7 DEF k, Z
<1> QED
  BY <1>2, <1>5, <1>6, <1>7

\* A subnet that overlaps the pool is in the way of just the slots of SlotsOf.
LEMMA SlotsOfOverlap ==
  ASSUME NEW b \in Subnets, Overlaps(Pool, b)
  PROVE  /\ SlotsOf(b) \in Subnets
         /\ \A s \in Slots : In(s, SlotsOf(b)) <=> Overlaps(b, SlotSubnet(s))
<1> DEFINE lo == IF Pool.first >= b.first THEN Pool.first ELSE b.first
           hi == IF Pool.last <= b.last THEN Pool.last ELSE b.last
<1>0. /\ b.first \in Nat /\ b.last \in Nat /\ b.first <= b.last
      /\ Pool.first \in Nat /\ Pool.last \in Nat /\ SlotSize \in Nat /\ SlotSize > 0
      /\ Pool.first <= b.last /\ b.first <= Pool.last
  BY SlotAssumption DEF Subnets, Overlaps
<1>1. Max({Pool.first, b.first}) = lo /\ Min({Pool.last, b.last}) = hi
  <2>1. \A x, y \in Int : /\ Max({x, y}) = (IF x >= y THEN x ELSE y)
                          /\ Min({x, y}) = (IF x <= y THEN x ELSE y)
    BY MaxOfTwo
  <2>2. Pool.first \in Int /\ b.first \in Int /\ Pool.last \in Int /\ b.last \in Int
    BY <1>0
  <2>3. Max({Pool.first, b.first}) = IF Pool.first >= b.first THEN Pool.first ELSE b.first
    BY <2>1, <2>2
  <2>4. Min({Pool.last, b.last}) = IF Pool.last <= b.last THEN Pool.last ELSE b.last
    BY <2>1, <2>2
  <2> QED
    BY <2>3, <2>4
<1>2. Pool.first <= Pool.last
  <2>1. PICK k \in 1..Pool.last + 1 : Pool.last - Pool.first + 1 = k * SlotSize
    BY SlotAssumption
  <2>2. k * SlotSize >= 1
    BY <1>0, <2>1
  <2> QED
    BY <1>0, <2>1, <2>2
<1>3. lo \in Nat /\ hi \in Nat /\ lo - Pool.first \in Nat /\ hi - Pool.first \in Nat /\ lo <= hi
  BY <1>0, <1>2
<1> DEFINE f == (lo - Pool.first) \div SlotSize
           l == (hi - Pool.first) \div SlotSize
<1>4. SlotsOf(b) = [first |-> f, last |-> l]
  BY <1>1 DEF SlotsOf
<1>5. f \in Nat /\ l \in Nat
  <2> HIDE DEF lo, hi
  <2> QED
    BY <1>3, SlotOfOffset
<1>6. f <= l
  <2>1. f * SlotSize <= lo - Pool.first
    <3> HIDE DEF lo, hi
    <3> QED
      BY <1>3, <1>5, SlotOfOffset
  <2>2. f * SlotSize <= hi - Pool.first
    <3>1. f * SlotSize \in Nat
      BY <1>0, <1>5
    <3> HIDE DEF lo, hi, f
    <3> QED
      BY <1>0, <1>3, <2>1, <3>1
  <2> HIDE DEF lo, hi, f
  <2> QED
    BY <1>3, <1>5, <2>2, SlotOfOffset DEF l
<1>7. ASSUME NEW s \in Slots PROVE In(s, SlotsOf(b)) <=> Overlaps(b, SlotSubnet(s))
  <2>0. s \in Nat /\ s * SlotSize \in Nat
    BY <1>0, SlotCountType DEF Slots
  <2>1. /\ SlotSubnet(s).first = Pool.first + s * SlotSize
        /\ SlotSubnet(s).last = Pool.first + s * SlotSize + SlotSize - 1
    BY DEF SlotSubnet, Subnet
  <2>2. SlotSubnet(s).first <= Pool.last /\ Pool.first <= SlotSubnet(s).last
    <3>1. Fits(SlotSubnet(s)) /\ SlotSubnet(s) \in Subnets
      BY <2>0, SlotFits, SlotCountType DEF Slots, SlotSubnet
    <3> QED
      BY <1>0, <3>1 DEF Fits, Covers, Subnets
  <2>3. f <= s <=> lo - Pool.first < s * SlotSize + SlotSize
    <3> HIDE DEF lo
    <3> QED
      BY <1>3, <2>0, SlotOfOffset
  <2>4. s <= l <=> s * SlotSize <= hi - Pool.first
    <3> HIDE DEF hi
    <3> QED
      BY <1>3, <2>0, SlotOfOffset
  <2>5. In(s, SlotsOf(b)) <=> f <= s /\ s <= l
    BY <1>4 DEF In
  <2> HIDE DEF f, l
  <2>6. f <= s <=> b.first <= SlotSubnet(s).last
    BY <1>0, <2>0, <2>1, <2>2, <2>3
  <2>7. s <= l <=> SlotSubnet(s).first <= b.last
    BY <1>0, <2>0, <2>1, <2>2, <2>4
  <2> QED
    BY <2>5, <2>6, <2>7 DEF Overlaps
<1>8. SlotsOf(b) \in Subnets
  <2> HIDE DEF f, l
  <2> QED
    BY <1>4, <1>5, <1>6 DEF Subnets
<1> QED
  BY <1>7, <1>8

\* The merged intervals have a slot just when some subnet is in its way.
LEMMA OccupiedUses ==
  ASSUME NEW U \in SUBSET Subnets, IsFiniteSet(U)
  PROVE  /\ Occupied(U) \in Seq(Subnets) /\ Spaced(Occupied(U))
         /\ \A s \in Slots : Used(Occupied(U), s) <=> \E b \in U : Overlaps(b, SlotSubnet(s))
<1> DEFINE B == {b \in U : Overlaps(Pool, b)}
<1>1. Intervals(U) \subseteq Subnets
  BY SlotsOfOverlap DEF Intervals
<1>2. IsFiniteSet(Intervals(U))
  <2>1. IsFiniteSet(B)
    BY FS_Subset
  <2> DEFINE g == [b \in B |-> SlotsOf(b)]
  <2>2. g \in Surjection(B, Intervals(U))
    BY DEF Surjection, Intervals
  <2> HIDE DEF g, B
  <2> QED
    BY <2>1, <2>2, FS_Surjection
<1>3. MergedOf(Intervals(U), Occupied(U))
  BY <1>1, <1>2, OccupiedMerges
<1>4. ASSUME NEW s \in Slots
      PROVE  Used(Occupied(U), s) <=> \E b \in U : Overlaps(b, SlotSubnet(s))
  <2>0. s \in Nat
    BY SlotCountType DEF Slots
  <2>1. Used(Occupied(U), s) <=> \E i \in Intervals(U) : In(s, i)
    BY <1>3, <2>0 DEF MergedOf, Used
  <2>2. (\E i \in Intervals(U) : In(s, i)) <=> \E b \in B : In(s, SlotsOf(b))
    BY DEF Intervals
  <2>3. \A b \in B : In(s, SlotsOf(b)) <=> Overlaps(b, SlotSubnet(s))
    BY SlotsOfOverlap
  <2>4. \A b \in U : Overlaps(b, SlotSubnet(s)) => b \in B
    <3>1. Fits(SlotSubnet(s)) /\ SlotSubnet(s) \in Subnets
      BY <2>0, SlotFits, SlotCountType DEF Slots, SlotSubnet
    <3> QED
      BY <3>1, SlotAssumption DEF Fits, Covers, Overlaps, Subnets
  <2> QED
    BY <2>1, <2>2, <2>3, <2>4
<1> QED
  BY <1>3, <1>4 DEF MergedOf

\* The search finds a slot that nothing is in the way of, if there is one.
LEMMA AllocateFinds ==
  ASSUME NEW c \in Clones, NEW n \in Networks, NEW U \in SUBSET Subnets, IsFiniteSet(U)
  PROVE  /\ \A a \in Allocate(c, n, U) : \A b \in U : ~Overlaps(a, b)
         /\ Allocate(c, n, U) = {} => \A s \in Slots : \E b \in U : Overlaps(b, SlotSubnet(s))
<1> DEFINE q == Occupied(U)
           initial == Hash[c, n] % SlotCount
           upper == FirstFree(q, initial, SlotCount)
           lower == FirstFree(q, 0, initial)
<1>1. initial \in Nat /\ initial < SlotCount
  <2>1. \A x \in Nat, m \in Nat \ {0} : x % m \in 0 .. m - 1
    OBVIOUS
  <2> QED
    <3>1. Hash[c, n] \in Nat
      BY HashAssumption
    <3>2. initial \in 0 .. SlotCount - 1
      BY <2>1, <3>1, SlotCountType
    <3> HIDE DEF initial
    <3> QED
      BY <3>2, SlotCountType
<1>2. /\ q \in Seq(Subnets) /\ Spaced(q)
      /\ \A s \in Slots : Used(q, s) <=> \E b \in U : Overlaps(b, SlotSubnet(s))
  BY OccupiedUses
<1>3. Allocate(c, n, U) = {SlotSubnet(s) : s \in IF upper # {} THEN upper ELSE lower}
  BY DEF Allocate, SlotSubnet
<1> HIDE DEF q, initial
<1>4. /\ \A s \in upper : s \in initial..SlotCount - 1 /\ ~Used(q, s)
      /\ upper = {} => \A s \in initial..SlotCount - 1 : Used(q, s)
  BY <1>1, <1>2, SlotCountType, FirstFreeFinds
<1>5. /\ \A s \in lower : s \in 0..initial - 1 /\ ~Used(q, s)
      /\ lower = {} => \A s \in 0..initial - 1 : Used(q, s)
  BY <1>1, <1>2, FirstFreeFinds
<1> HIDE DEF upper, lower
<1>6. \A s \in Slots : s \in initial..SlotCount - 1 \/ s \in 0..initial - 1
  BY <1>1, SlotCountType DEF Slots
<1>7. initial..SlotCount - 1 \subseteq Slots /\ 0..initial - 1 \subseteq Slots
  BY <1>1, SlotCountType DEF Slots
<1>8. ASSUME NEW a \in Allocate(c, n, U), NEW b \in U PROVE ~Overlaps(a, b)
  <2>1. PICK s \in upper \cup lower : a = SlotSubnet(s)
    BY <1>3
  <2>2. s \in Slots /\ ~Used(q, s)
    BY <1>4, <1>5, <1>7
  <2> QED
    BY <1>2, <2>1, <2>2, OverlapsSymmetric
<1>9. ASSUME Allocate(c, n, U) = {}, NEW s \in Slots
      PROVE  \E b \in U : Overlaps(b, SlotSubnet(s))
  <2>1. upper = {} /\ lower = {}
    BY <1>3, <1>9
  <2>2. Used(q, s)
    BY <1>4, <1>5, <1>6, <2>1
  <2> QED
    BY <1>2, <2>2
<1> QED
  BY <1>8, <1>9

-----------------------------------------------------------------------------
(* What is planned is free.                                                  *)

\* Docker has finitely many networks, and so has what a command has listed.
Finite == IsFiniteSet(nets) /\ \A c \in Clones : IsFiniteSet(seen[c])
\* No subnet is planned that another network of the list has.
PlanFree(c) ==
    \A n \in Networks : plan[c][n] # None =>
        \A x \in seen[c] \ Own(seen[c], c, n) : ~Overlaps(plan[c][n], x.at)
FreeInv == Finite /\ \A c \in Clones : PlanFree(c)

\* The subnets that are in the way of a network are a finite set of subnets.
LEMMA UnavailableType ==
  ASSUME Types, Finite, NEW c \in Clones, NEW n \in Networks
  PROVE  Unavailable(c, n) \in SUBSET Subnets /\ IsFiniteSet(Unavailable(c, n))
<1>1. Planned(c) \in SUBSET Subnets
  BY DEF Planned, Types, CommandTypes
<1>2. \A x \in seen[c] : x.at \in Subnets
  BY DEF Types, CommandTypes, Nets
<1>3. IsFiniteSet(Planned(c))
  <2> DEFINE f == [m \in Networks |-> plan[c][m]]
  <2>1. f \in Surjection(Networks, {plan[c][m] : m \in Networks})
    BY DEF Surjection
  <2> HIDE DEF f
  <2>2. IsFiniteSet({plan[c][m] : m \in Networks})
    BY <2>1, NetworksAssumption, FS_Surjection
  <2>3. Planned(c) \in SUBSET {plan[c][m] : m \in Networks}
    BY DEF Planned
  <2> QED
    BY <2>2, <2>3, FS_Subset
<1>4. IsFiniteSet({x.at : x \in seen[c] \ Own(seen[c], c, n)})
  <2> DEFINE S == seen[c] \ Own(seen[c], c, n)
             f == [x \in S |-> x.at]
  <2>1. IsFiniteSet(S)
    BY FS_Subset DEF Finite
  <2>2. f \in Surjection(S, {x.at : x \in S})
    BY DEF Surjection
  <2> HIDE DEF f, S
  <2>3. IsFiniteSet({x.at : x \in S})
    BY <2>1, <2>2, FS_Surjection
  <2> QED
    BY <2>3 DEF S
<1>5. IsFiniteSet(Unavailable(c, n))
  BY <1>3, <1>4, FS_Union DEF Unavailable
<1> QED
  BY <1>1, <1>2, <1>5 DEF Unavailable

\* Whatever way a subnet is chosen, nothing unavailable overlaps it.
LEMMA CandidatesFree ==
  ASSUME Types, Finite, NEW c \in Clones, NEW n \in Networks, NEW a \in Candidates(c, n),
         NEW b \in Unavailable(c, n)
  PROVE  ~Overlaps(a, b)
<1>1. CASE a \in Allocate(c, n, Unavailable(c, n))
  BY <1>1, UnavailableType, AllocateFinds
<1>2. CASE Available(c, n, a)
  BY <1>2 DEF Available
<1> QED
  BY <1>1, <1>2 DEF Candidates, Stable

LEMMA InitFree == Init => FreeInv
<1> SUFFICES ASSUME Init PROVE FreeInv
  OBVIOUS
<1>1. IsFiniteSet(nets)
  <2>1. CASE nets = {}
    BY <2>1, FS_EmptySet
  <2>2. ASSUME NEW c \in Clones, nets = {Network(c, n, Requested[n], None) : n \in Networks}
        PROVE  IsFiniteSet(nets)
    <3> DEFINE f == [n \in Networks |-> Network(c, n, Requested[n], None)]
    <3>1. f \in Surjection(Networks, nets)
      BY <2>2 DEF Surjection
    <3> HIDE DEF f
    <3> QED
      BY <3>1, NetworksAssumption, FS_Surjection
  <2> QED
    BY <2>1, <2>2 DEF Init
<1>2. \A c \in Clones : seen[c] = {} /\ plan[c] = NoPlan
  BY DEF Init
<1>3. Finite
  BY <1>1, <1>2, FS_EmptySet DEF Finite
<1> QED
  BY <1>2, <1>3 DEF FreeInv, PlanFree, NoPlan

\* Every step keeps what Docker and the commands know finite.
LEMMA FiniteStep ==
  ASSUME Types, Finite, [Next]_vars
  PROVE  Finite'
<1>1. IsFiniteSet(nets')
  <2>1. ASSUME NEW x, IsFiniteSet(nets), nets' = nets \cup {x} PROVE IsFiniteSet(nets')
    BY <2>1, FS_AddElement
  <2>2. ASSUME nets' \subseteq nets PROVE IsFiniteSet(nets')
    BY <2>2, FS_Subset DEF Finite
  <2>3. CASE nets' = nets
    BY <2>3 DEF Finite
  <2>4. \/ nets' \subseteq nets
        \/ \E x : nets' = nets \cup {x}
    <3>1. ASSUME NEW c \in Clones, Up(c) PROVE nets' \subseteq nets \/ \E x : nets' = nets \cup {x}
      <4>1. CASE CreateNetwork(c)
        BY <4>1 DEF CreateNetwork
      <4>2. CASE RemoveNetwork(c)
        BY <4>2 DEF RemoveNetwork
      <4>3. CASE ~CreateNetwork(c) /\ ~RemoveNetwork(c)
        BY <3>1, <4>3 DEF Up, StartUp, Snapshot, PlanNetwork, PoolExhausted, Finalize, StillAttached,
           ConfigChanged, ReuseRunning, ProceedAnew, ProceedWith, RemoveFails, CallCompose,
           SubnetRefused, StartContainers, Sync, Fails, docker
      <4> QED
        BY <4>1, <4>2, <4>3
    <3>2. ASSUME NEW c \in Clones,
                 \/ Down(c) \/ RemoveProject(c) \/ Forget(c) \/ Crash(c)
                 \/ ContainerExits(c) \/ ContainerRemoved(c)
          PROVE  nets' \subseteq nets
      BY <3>2 DEF Down, RemoveProject, Forget, Crash, ContainerExits, ContainerRemoved, Fails, docker
    <3>3. ASSUME NEW x, Prune(x) PROVE nets' \subseteq nets
      BY <3>3 DEF Prune
    <3>4. ASSUME NEW a, OtherNetwork(a) PROVE \E x : nets' = nets \cup {x}
      BY <3>4 DEF OtherNetwork
    <3>5. CASE UNCHANGED vars
      BY <3>5 DEF vars, docker
    <3> QED
      BY <3>1, <3>2, <3>3, <3>4, <3>5 DEF Next
  <2> QED
    BY <2>1, <2>2, <2>4 DEF Finite
<1>2. ASSUME NEW d \in Clones PROVE seen'[d] = seen[d] \/ seen'[d] = nets \/ seen'[d] = {}
  <2> USE DEF Types, CommandTypes
  <2>1. ASSUME NEW c \in Clones, Snapshot(c) \/ Ends(c)
        PROVE  seen'[d] = seen[d] \/ seen'[d] = nets \/ seen'[d] = {}
    BY <2>1 DEF Snapshot, Ends
  <2>2. ASSUME NEW c \in Clones, Up(c), ~Snapshot(c), ~Ends(c) PROVE seen' = seen
    BY <2>2 DEF Up, StartUp, PlanNetwork, PoolExhausted, Finalize, StillAttached, RemoveNetwork, CreateNetwork,
       ConfigChanged, ReuseRunning, ProceedAnew, ProceedWith, RemoveFails, CallCompose,
       SubnetRefused, StartContainers, Sync, Fails
  <2>3. ASSUME NEW c \in Clones, ~Ends(c),
               \/ Down(c) \/ RemoveProject(c) \/ Forget(c) \/ Crash(c)
               \/ ContainerExits(c) \/ ContainerRemoved(c)
        PROVE  seen' = seen
    BY <2>3 DEF Down, RemoveProject, Forget, Crash, ContainerExits, ContainerRemoved, Fails
  <2>4. ASSUME NEW x, Prune(x) \/ OtherNetwork(x) PROVE seen' = seen
    BY <2>4 DEF Prune, OtherNetwork
  <2>5. CASE UNCHANGED vars
    BY <2>5 DEF vars
  <2> QED
    BY <2>1, <2>2, <2>3, <2>4, <2>5 DEF Next
<1>3. \A d \in Clones : IsFiniteSet(seen'[d])
  BY <1>2, FS_EmptySet DEF Finite
<1> QED
  BY <1>1, <1>3 DEF Finite

\* A plan is made from a list, and both end with the command.
LEMMA PlanFreeStep ==
  ASSUME Types, Finite, NEW d \in Clones, PlanStage(d), PlanFree(d), [Next]_vars
  PROVE  PlanFree(d)'
<1> USE DEF Types, CommandTypes
<1>1. CASE Ends(d)
  BY <1>1 DEF Ends, PlanFree, NoPlan
<1>2. CASE Snapshot(d)
  BY <1>2 DEF Snapshot, PlanStage, Goto, PlanFree, NoPlan
<1>3. CASE PlanNetwork(d)
  <2> DEFINE n == NextNetwork(d)
  <2>1. n \in Networks
    <3>1. Undecided(d) \in SUBSET Networks /\ Undecided(d) # {}
      BY <1>3 DEF PlanNetwork, Undecided
    <3> QED
      BY <3>1, MinIn DEF NextNetwork
  <2>2. PICK a \in Candidates(d, n) : plan' = [plan EXCEPT ![d][n] = a]
    BY <1>3 DEF PlanNetwork
  <2>3. \A x \in seen[d] \ Own(seen[d], d, n) : ~Overlaps(a, x.at)
    BY <2>1, CandidatesFree DEF Unavailable
  <2>4. seen' = seen
    BY <1>3 DEF PlanNetwork
  <2>5. plan'[d][n] = a /\ \A m \in Networks \ {n} : plan'[d][m] = plan[d][m]
    BY <2>1, <2>2
  <2> HIDE DEF n
  <2> QED
    BY <2>3, <2>4, <2>5 DEF PlanFree, Own
<1>4. CASE plan'[d] = plan[d] /\ seen'[d] = seen[d]
  BY <1>4 DEF PlanFree, Own
<1>5. ASSUME ~Ends(d), ~Snapshot(d), ~PlanNetwork(d)
      PROVE  plan'[d] = plan[d] /\ seen'[d] = seen[d]
  <2>1. ASSUME NEW c \in Clones, Snapshot(c) \/ Ends(c) \/ PlanNetwork(c)
        PROVE  plan'[d] = plan[d] /\ seen'[d] = seen[d]
    <3>1. c # d
      BY <1>5, <2>1
    <3> QED
      BY <2>1, <3>1 DEF Snapshot, Ends, PlanNetwork
  <2>2. ASSUME NEW c \in Clones, Up(c), ~Snapshot(c), ~Ends(c), ~PlanNetwork(c)
        PROVE  plan' = plan /\ seen' = seen
    BY <2>2 DEF Up, StartUp, PoolExhausted, Finalize, StillAttached, RemoveNetwork, CreateNetwork,
       ConfigChanged, ReuseRunning, ProceedAnew, ProceedWith, RemoveFails, CallCompose,
       SubnetRefused, StartContainers, Sync, Fails
  <2>3. ASSUME NEW c \in Clones, ~Ends(c),
               \/ Down(c) \/ RemoveProject(c) \/ Forget(c) \/ Crash(c)
               \/ ContainerExits(c) \/ ContainerRemoved(c)
        PROVE  plan' = plan /\ seen' = seen
    BY <2>3 DEF Down, RemoveProject, Forget, Crash, ContainerExits, ContainerRemoved, Fails
  <2>4. ASSUME NEW x, Prune(x) \/ OtherNetwork(x) PROVE plan' = plan /\ seen' = seen
    BY <2>4 DEF Prune, OtherNetwork
  <2>5. CASE UNCHANGED vars
    BY <2>5 DEF vars
  <2> QED
    BY <2>1, <2>2, <2>3, <2>4, <2>5 DEF Next
<1> QED
  BY <1>1, <1>2, <1>3, <1>4, <1>5

LEMMA FreeInvariant == Spec => [](IInv /\ FreeInv)
<1>1. Init => IInv /\ FreeInv
  BY InitIInv, InitFree
<1>2. IInv /\ FreeInv /\ [Next]_vars => (IInv /\ FreeInv)'
  <2> SUFFICES ASSUME IInv, FreeInv, [Next]_vars PROVE IInv' /\ FreeInv'
    OBVIOUS
  <2>1. IInv'
    BY NextIInv
  <2>2. Finite'
    BY FiniteStep DEF IInv, FreeInv
  <2>3. \A c \in Clones : PlanFree(c)'
    BY PlanFreeStep DEF IInv, FreeInv, CloneInv
  <2> QED
    BY <2>1, <2>2, <2>3 DEF FreeInv
<1> QED
  BY <1>1, <1>2, PTL DEF Spec

\* For any pool and whatever else is in it: an up gives up for want of a subnet
\* only when each slot of the pool is in use.
THEOREM ExhaustionMeansFull == Spec => []ExhaustedMeansFull
<1>1. ASSUME IInv, FreeInv, NEW c \in Clones, Undecided(c) # {}, Candidates(c, NextNetwork(c)) = {},
             NEW s \in 0..SlotCount - 1
      PROVE  InTheWay(c, NextNetwork(c), Subnet(Pool.first + s * SlotSize))
  <2> DEFINE n == NextNetwork(c)
             a == Subnet(Pool.first + s * SlotSize)
  <2>1. n \in Networks /\ plan[c][n] = None
    <3>1. Undecided(c) \in SUBSET Networks
      BY DEF Undecided
    <3>2. n \in Undecided(c)
      BY <1>1, <3>1, MinIn DEF NextNetwork
    <3> QED
      BY <3>2 DEF Undecided
  <2>2. Allocate(c, n, Unavailable(c, n)) = {}
    BY <1>1 DEF Candidates
  <2>3. PICK b \in Unavailable(c, n) : Overlaps(b, a)
    <3>1. Unavailable(c, n) \in SUBSET Subnets /\ IsFiniteSet(Unavailable(c, n))
      BY <1>1, <2>1, UnavailableType DEF IInv, FreeInv
    <3> QED
      BY <2>1, <2>2, <3>1, AllocateFinds DEF Slots, SlotSubnet
  <2> HIDE DEF n, a
  <2>4. CASE b \in Planned(c)
    <3>1. PICK m \in Networks : plan[c][m] = b /\ b # None
      BY <2>4 DEF Planned
    <3> QED
      BY <2>1, <2>3, <3>1 DEF InTheWay, n, a
  <2>5. CASE b \in {x.at : x \in seen[c] \ Own(seen[c], c, n)}
    BY <2>3, <2>5 DEF InTheWay, Own, n, a
  <2> QED
    BY <2>4, <2>5 DEF Unavailable
<1>2. IInv /\ FreeInv => ExhaustedMeansFull
  BY <1>1 DEF ExhaustedMeansFull
<1> QED
  BY <1>2, FreeInvariant, PTL

\* However stale the list of networks is that an up has planned with: Docker
\* refuses a planned subnet only because of a network that came after it.
THEOREM RefusalIsARace == Spec => []ClashIsARace
<1>1. ASSUME IInv, FreeInv, NEW c \in Clones, pc[c] = "compose", Missing(c) # {},
             NEW x \in Clashes(nets, plan[c][Min(Missing(c))]), x \in seen[c]
      PROVE  FALSE
  <2> DEFINE n == Min(Missing(c))
  <2>1. n \in Networks /\ Own(nets, c, n) = {}
    <3>1. Missing(c) \in SUBSET Networks
      BY DEF Missing
    <3>2. n \in Missing(c)
      BY <1>1, <3>1, MinIn
    <3> QED
      BY <3>2 DEF Missing
  <2>2. plan[c][n] # None
    BY <1>1, <2>1 DEF IInv, CloneInv, PlanStage, After, Undecided
  <2>3. x \in nets /\ Overlaps(x.at, plan[c][n])
    BY <1>1 DEF Clashes
  <2> HIDE DEF n
  <2>4. x \notin Own(seen[c], c, n)
    BY <2>1, <2>3 DEF Own
  <2> QED
    BY <1>1, <2>1, <2>2, <2>3, <2>4, OverlapsSymmetric DEF FreeInv, PlanFree
<1>2. IInv /\ FreeInv => ClashIsARace
  BY <1>1 DEF ClashIsARace
<1> QED
  BY <1>2, FreeInvariant, PTL
=============================================================================
