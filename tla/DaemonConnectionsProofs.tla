---------------------- MODULE DaemonConnectionsProofs ----------------------
(***************************************************************************)
(* For any number of clients, daemons, permits and threads, and any times:  *)
(* no permit of a daemon is lost or given twice, and as long as only the    *)
(* owner's daemon has gone a command finds one before its retries are used  *)
(* up.                                                                      *)
(***************************************************************************)
EXTENDS DaemonConnections, FiniteSetTheorems, TLAPS

\* What the argument needs of the types.
ConnRec == [pc : {"none", "backlog", "read", "git", "query", "write"}, daemon : Daemons,
            age : Nat]
ClientRec == [pc : {"idle", "connect", "done", "sleep", "wait"}, tries : Nat,
              result : {"none", "answered", "closed", "lost", "unavailable", "denied"}]
MonitorRec == [pc : {"sleep", "bind", "listen", "open", "spawn", "remove"},
               since : Int, lag : Int, new : Daemons, held : Daemons \cup {NoPath}]
Types ==
    /\ loop \in [Daemons -> Loops]
    /\ path \in Daemons \cup {NoPath}
    /\ free \in [Daemons -> Int]
    /\ queries \in [Daemons -> Int]
    /\ backlog \in [Daemons -> Seq(Clients)]
    /\ conn \in [Clients -> ConnRec]
    /\ client \in [Clients -> ClientRec]
    /\ monitor \in MonitorRec

\* Only a client that waits has a connection, and to a daemon that has listened.
Linked == \A c \in Clients : client[c].pc # "wait" => conn[c].pc = "none"
Carried == \A c \in Clients : conn[c].pc # "none" => loop[conn[c].daemon] \notin {"none", "bound"}
\* What the kernel holds for a daemon: connections to it, each of them once.
Queued ==
    \A d \in Daemons : \A i \in 1 .. Len(backlog[d]) :
        /\ conn[backlog[d][i]].pc = "backlog" /\ conn[backlog[d][i]].daemon = d
        /\ \A j \in 1 .. Len(backlog[d]) : backlog[d][i] = backlog[d][j] => i = j
\* How far the monitor is in starting its latest daemon.
Started ==
    /\ \A d \in Daemons : /\ loop[d] = "none" <=> d > monitor.new
                          /\ loop[d] \in {"bound", "private", "public"} => d = monitor.new
    /\ loop[monitor.new] = "bound" <=> monitor.pc = "listen"
    /\ loop[monitor.new] = "private" <=> monitor.pc = "open"
    /\ loop[monitor.new] = "public" <=> monitor.pc = "spawn"
    /\ monitor.pc \in {"listen", "open", "spawn", "remove"} => monitor.new # Owner
\* Each permit is free, held by the loop, or held by a connection or a query;
\* those of a daemon that has been aborted come back when the abort is done.
Over == {"aborted", "cut", "gone"}
Slot(d) == IF loop[d] = "accept" THEN 1 ELSE 0
Counted ==
    \A d \in Daemons :
        /\ loop[d] \notin Over =>
              /\ free[d] + Slot(d) + Cardinality(Serving(d)) = ConnectionPermits
              /\ free[d] >= 0
              /\ queries[d] >= 0
              /\ queries[d] + Cardinality(Querying(d)) = QueryPermits

Inv == Types /\ Linked /\ Carried /\ Queued /\ Started /\ Counted

LEMMA DaemonNumbers ==
  /\ Daemons \subseteq Nat \ {0} /\ NoPath \notin Daemons
  /\ Owner \in Daemons /\ Owner + 1 \in Daemons /\ MaxDaemons \in Daemons
BY DaemonsAssumption DEF Daemons, Owner, NoPath

LEMMA NoConnType == NoConn \in ConnRec /\ NoConn.pc = "none"
BY DaemonNumbers DEF NoConn, ConnRec

LEMMA DoneType ==
  ASSUME NEW c, NEW result \in {"answered", "closed", "lost", "unavailable", "denied"}
  PROVE  /\ Done(c, result) \in ClientRec /\ Done(c, result).pc = "done"
         /\ Done(c, result).tries = 0
         /\ c \in Commands => Done(c, result).result = result
BY DEF Done, NoClient, ClientRec

LEMMA Finite ==
  \A d \in Daemons : IsFiniteSet(Serving(d)) /\ IsFiniteSet(Querying(d))
                     /\ Cardinality(Serving(d)) \in Nat /\ Cardinality(Querying(d)) \in Nat
<1> SUFFICES ASSUME NEW d \in Daemons
             PROVE  IsFiniteSet(Serving(d)) /\ IsFiniteSet(Querying(d))
                    /\ Cardinality(Serving(d)) \in Nat /\ Cardinality(Querying(d)) \in Nat
  OBVIOUS
<1>1. IsFiniteSet(Clients)
  BY ClientsAssumption DEF Clients
<1>2. Serving(d) \in SUBSET Clients /\ Querying(d) \in SUBSET Clients
  BY DEF Serving, Querying, Of
<1> QED
  BY <1>1, <1>2, FS_Subset, FS_CardinalityType

LEMMA InitInv == Init => Inv
<1> SUFFICES ASSUME Init PROVE Inv
  OBVIOUS
<1>a. PICK s \in 0 .. MonitorInterval :
         monitor = [pc |-> "sleep", since |-> s, lag |-> 0, new |-> Owner, held |-> NoPath]
  BY DEF Init
<1>1. Types
  <2>1. NoConn \in ConnRec /\ NoClient \in ClientRec
    BY NoConnType DEF NoClient, ClientRec
  <2>2. ConnectionPermits \in Int /\ QueryPermits \in Int /\ <<>> \in Seq(Clients)
    BY PermitsAssumption
  <2>3. monitor \in MonitorRec
    BY <1>a, DaemonNumbers, TimesAssumption DEF MonitorRec
  <2>4. loop \in [Daemons -> Loops]
    BY DEF Init, Loops
  <2> QED
    BY <2>1, <2>2, <2>3, <2>4, DaemonNumbers DEF Init, Types
<1>2. Linked /\ Carried /\ Queued
  BY DEF Init, Linked, Carried, Queued, NoConn, NoClient
<1>3. Started
  BY <1>a, DaemonNumbers DEF Init, Started, Owner
<1>4. Counted
  <2>1. \A d \in Daemons : Serving(d) = {} /\ Querying(d) = {}
    BY DEF Init, Serving, Querying, Of, Open, NoConn
  <2>2. \A d \in Daemons : Cardinality(Serving(d)) = 0 /\ Cardinality(Querying(d)) = 0
    BY <2>1, FS_EmptySet
  <2>3. \A d \in Daemons : Slot(d) = 0
    BY DEF Init, Slot
  <2> QED
    BY <2>2, <2>3, PermitsAssumption DEF Init, Counted
<1> QED
  BY <1>1, <1>2, <1>3, <1>4 DEF Inv

\* The accept loops and the monitor go on without a change of phase.
LEMMA StartedKept ==
  ASSUME Inv, monitor' = monitor,
         \A d \in Daemons :
            \/ loop'[d] = loop[d]
            \/ /\ loop[d] \notin {"none", "bound", "private", "public"}
               /\ loop'[d] \notin {"none", "bound", "private", "public"}
  PROVE  Started'
BY DEF Inv, Types, MonitorRec, Started

\* Steps that leave the connections alone.
LEMMA LoopsOnly ==
  ASSUME Inv, UNCHANGED <<free, queries, backlog, conn, client>>,
         loop' \in [Daemons -> Loops], path' \in Daemons \cup {NoPath}, monitor' \in MonitorRec,
         Started',
         \A d \in Daemons :
            /\ loop'[d] \notin Over => loop[d] \notin Over /\ Slot(d)' = Slot(d)
            /\ loop[d] \notin {"none", "bound"} => loop'[d] \notin {"none", "bound"}
  PROVE  Inv'
<1> USE DEF Inv, Types
<1>1. Types' /\ Linked' /\ Queued'
  BY DEF Linked, Queued
<1>2. Carried'
  BY DEF Carried, ConnRec
<1>3. \A e \in Daemons : Serving(e)' = Serving(e) /\ Querying(e)' = Querying(e)
  BY DEF Serving, Querying, Of
<1>4. Counted'
  BY <1>3 DEF Counted
<1> QED
  BY <1>1, <1>2, <1>4

\* A connection that goes from one kind of service to another.
LEMMA Moves ==
  ASSUME Inv, NEW c \in Clients, conn[c].pc \in Open,
         NEW rec \in ConnRec, rec.pc \in Open, rec.daemon = conn[c].daemon,
         conn' = [conn EXCEPT ![c] = rec], UNCHANGED <<loop, path, free, backlog, client, sessions>>,
         queries' \in [Daemons -> Int]
  PROVE  /\ Types' /\ Linked' /\ Queued' /\ Started' /\ Carried'
         /\ \A d \in Daemons : Serving(d)' = Serving(d)
<1> USE DEF Inv, Types, sessions
<1>1. \A b \in Clients : conn'[b] = IF b = c THEN rec ELSE conn[b]
  OBVIOUS
<1>2. Types'
  OBVIOUS
<1>3. Linked'
  BY <1>1 DEF Linked, Open
<1>4. Queued'
  <2>1. \A d \in Daemons : \A i \in 1 .. Len(backlog[d]) :
           backlog[d][i] \in Clients \ {c}
    BY DEF Queued, Open
  <2> QED
    BY <1>1, <2>1 DEF Queued
<1>5. Started' /\ Carried'
  <2>1. Started'
    BY StartedKept
  <2>2. Carried'
    BY <1>1 DEF Carried, Open
  <2> QED
    BY <2>1, <2>2
<1>6. \A d \in Daemons : Serving(d)' = Serving(d)
  BY <1>1 DEF Serving, Of
<1> QED
  BY <1>2, <1>3, <1>4, <1>5, <1>6

\* The end of a connection that is served, other than by a query.
LEMMA Closes ==
  ASSUME Inv, NEW c \in Clients, conn[c].pc \in Open \ {"query"},
         NEW result \in {"answered", "closed", "lost"},
         Close(c, result)
  PROVE  Inv'
<1> USE DEF Inv, Types, sessions
<1>a. PICK d \in Daemons : d = conn[c].daemon
  BY DEF ConnRec
<1>0. c \in Serving(d) /\ c \notin Querying(d)
  BY <1>a DEF Serving, Of, Querying
<1>1. /\ \A b \in Clients : conn'[b] = IF b = c THEN NoConn ELSE conn[b]
      /\ \A b \in Clients : client'[b] =
             IF b = c THEN Done(c, result) ELSE client[b]
      /\ UNCHANGED <<loop, path, queries, backlog, monitor>>
      /\ free' = [free EXCEPT ![d] = @ + 1]
  BY <1>a DEF Close, End
<1>2. NoConn \in ConnRec /\ NoConn.pc = "none"
      /\ \A b \in Clients : Done(b, result) \in ClientRec
  BY NoConnType, DoneType
<1>3. Types'
  <2>1. conn' \in [Clients -> ConnRec]
    BY <1>2 DEF Close, End
  <2>2. client' \in [Clients -> ClientRec]
    BY <1>2 DEF Close, End
  <2>3. free' \in [Daemons -> Int]
    BY <1>1
  <2> QED
    BY <1>1, <2>1, <2>2, <2>3
<1>4. Linked'
  BY <1>1, <1>2 DEF Linked
<1>5. Queued'
  <2>1. \A e \in Daemons : \A i \in 1 .. Len(backlog[e]) :
           backlog[e][i] \in Clients \ {c}
    BY DEF Queued, Open
  <2> QED
    BY <1>1, <2>1 DEF Queued
<1>6. Started' /\ Carried'
  <2>1. Started'
    BY <1>1, StartedKept
  <2>2. Carried'
    BY <1>1, <1>2 DEF Carried
  <2> QED
    BY <2>1, <2>2
<1>7. Counted'
  <2>1. Serving(d)' = Serving(d) \ {c}
    BY <1>a, <1>0, <1>1, <1>2 DEF Serving, Of, Open
  <2>2. \A e \in Daemons \ {d} : Serving(e)' = Serving(e)
    BY <1>a, <1>0, <1>1, <1>2 DEF Serving, Of, Open
  <2>3. \A e \in Daemons : Querying(e)' = Querying(e)
    BY <1>a, <1>0, <1>1, <1>2 DEF Querying, Of
  <2>4. Cardinality(Serving(d)') = Cardinality(Serving(d)) - 1
    BY <1>0, <2>1, Finite, FS_RemoveElement
  <2>5. ASSUME loop[d] \notin Over
        PROVE  /\ free'[d] + Slot(d)' + Cardinality(Serving(d)') = ConnectionPermits
               /\ free'[d] >= 0
    <3>1. /\ free[d] + Slot(d) + Cardinality(Serving(d)) = ConnectionPermits
          /\ free[d] >= 0
      BY <2>5 DEF Counted
    <3>2. free'[d] = free[d] + 1 /\ Slot(d)' = Slot(d)
      BY <1>1 DEF Slot
    <3>3. Slot(d) \in Int /\ Cardinality(Serving(d)) \in Int /\ ConnectionPermits \in Int
      BY Finite, PermitsAssumption DEF Slot
    <3> QED
      BY <2>4, <3>1, <3>2, <3>3
  <2>6. ASSUME NEW e \in Daemons \ {d}, loop[e] \notin Over
        PROVE  /\ free'[e] + Slot(e)' + Cardinality(Serving(e)') = ConnectionPermits
               /\ free'[e] >= 0
    BY <1>1, <2>2, <2>6, PermitsAssumption DEF Counted, Slot
  <2> QED
    BY <1>1, <2>3, <2>5, <2>6 DEF Counted
<1> QED
  BY <1>3, <1>4, <1>5, <1>6, <1>7

\* Steps of the loop that take or return a permit of one daemon and leave the
\* connections and the queries alone.
LEMMA AcquirePermitInv == ASSUME Inv, NEW d \in Daemons, AcquirePermit(d) PROVE Inv'
<1> USE DEF Inv, Types, AcquirePermit, sessions
<1>1. Types'
  BY DEF Loops
<1>2. Linked' /\ Queued'
  BY DEF Linked, Queued
<1>3. Started'
  BY StartedKept
<1>c. Carried'
  BY DEF Carried, ConnRec
<1>4. Counted'
  <2>1. \A e \in Daemons : Serving(e)' = Serving(e) /\ Querying(e)' = Querying(e)
    BY DEF Serving, Querying, Of
  <2>2. /\ free[d] + Slot(d) + Cardinality(Serving(d)) = ConnectionPermits
        /\ queries[d] >= 0 /\ queries[d] + Cardinality(Querying(d)) = QueryPermits
    BY DEF Counted, Over
  <2>3. Slot(d) = 0 /\ Slot(d)' = 1 /\ free'[d] = free[d] - 1
    BY DEF Slot
  <2>4. free'[d] + Slot(d)' + Cardinality(Serving(d)) = ConnectionPermits /\ free'[d] >= 0
    BY <2>2, <2>3, Finite, PermitsAssumption
  <2>5. \A e \in Daemons \ {d} : free'[e] = free[e] /\ Slot(e)' = Slot(e) /\ loop'[e] = loop[e]
    BY DEF Slot
  <2> QED
    BY <2>1, <2>2, <2>4, <2>5 DEF Counted
<1> QED
  BY <1>1, <1>2, <1>3, <1>c, <1>4

LEMMA DrainedInv == ASSUME Inv, NEW d \in Daemons, Drained(d) PROVE Inv'
<1> USE DEF Inv, Types, Drained, sessions
<1>1. loop' \in [Daemons -> Loops]
  BY DEF Loops
<1>2. Started'
  BY StartedKept
<1> QED
  BY <1>1, <1>2, LoopsOnly DEF Over, Slot

\* A dropped HostDaemon: its task is aborted.
LEMMA AbortedLoop ==
  ASSUME NEW l \in [Daemons -> Loops], NEW d \in Daemons
  PROVE  /\ Aborted(l, d) \in [Daemons -> Loops]
         /\ \A e \in Daemons \ {d} : Aborted(l, d)[e] = l[e]
         /\ \/ Aborted(l, d)[d] = l[d]
            \/ l[d] \in {"acquire", "accept"} /\ Aborted(l, d)[d] = "aborted"
            \/ l[d] = "drain" /\ Aborted(l, d)[d] = "cut"
<1>1. Aborted(l, d) = [l EXCEPT ![d] = CASE l[d] \in {"acquire", "accept"} -> "aborted"
                                         [] l[d] = "drain" -> "cut"
                                         [] OTHER -> l[d]]
  BY DEF Aborted
<1>2. CASE l[d] \in {"acquire", "accept"}
  BY <1>1, <1>2 DEF Loops
<1>3. CASE l[d] = "drain"
  BY <1>1, <1>3 DEF Loops
<1>4. CASE l[d] \notin {"acquire", "accept", "drain"}
  BY <1>1, <1>4
<1> QED
  BY <1>2, <1>3, <1>4

LEMMA OwnerInv == ASSUME Inv, OwnerEnds \/ OwnerRemoves PROVE Inv'
<1> USE DEF Inv, Types
<1>1. CASE OwnerEnds
  <2>1. /\ loop' = Aborted(loop, Owner)
        /\ UNCHANGED <<path, free, queries, backlog, conn, client, monitor>>
    BY <1>1 DEF OwnerEnds
  <2>2. /\ loop' \in [Daemons -> Loops]
        /\ \A e \in Daemons : \/ loop'[e] = loop[e]
                              \/ /\ loop[e] \in {"acquire", "accept", "drain"}
                                 /\ loop'[e] \in {"aborted", "cut"}
    <3>1. Owner \in Daemons /\ loop \in [Daemons -> Loops]
      BY DaemonNumbers
    <3>2. /\ Aborted(loop, Owner) \in [Daemons -> Loops]
          /\ \A e \in Daemons \ {Owner} : Aborted(loop, Owner)[e] = loop[e]
          /\ \/ Aborted(loop, Owner)[Owner] = loop[Owner]
             \/ loop[Owner] \in {"acquire", "accept"} /\ Aborted(loop, Owner)[Owner] = "aborted"
             \/ loop[Owner] = "drain" /\ Aborted(loop, Owner)[Owner] = "cut"
      BY <3>1, AbortedLoop
    <3> QED
      BY <2>1, <3>2
  <2>3. Started'
    BY <2>1, <2>2, StartedKept
  <2> QED
    BY <2>1, <2>2, <2>3, LoopsOnly DEF Over, Slot
<1>2. CASE OwnerRemoves
  <2>1. path' = NoPath /\ UNCHANGED <<loop, free, queries, backlog, conn, client, monitor>>
    BY <1>2 DEF OwnerRemoves
  <2>2. Started'
    BY <2>1, StartedKept
  <2> QED
    BY <2>1, <2>2, LoopsOnly DEF Slot
<1> QED
  BY <1>1, <1>2

\* What the monitor's steps do to its record.
LEMMA MonitorTypes ==
  ASSUME Types
  PROVE  \A pc \in {"sleep", "bind", "listen", "open", "spawn", "remove"} : \A n \in Int :
           /\ [monitor EXCEPT !.pc = pc, !.since = n] \in MonitorRec
           /\ [monitor EXCEPT !.pc = pc, !.lag = n] \in MonitorRec
           /\ \A held \in Daemons \cup {NoPath} :
                 [monitor EXCEPT !.pc = pc, !.lag = n, !.held = held] \in MonitorRec
<1> SUFFICES ASSUME NEW pc \in {"sleep", "bind", "listen", "open", "spawn", "remove"},
                    NEW n \in Int
             PROVE  /\ [monitor EXCEPT !.pc = pc, !.since = n] \in MonitorRec
                    /\ [monitor EXCEPT !.pc = pc, !.lag = n] \in MonitorRec
                    /\ \A held \in Daemons \cup {NoPath} :
                          [monitor EXCEPT !.pc = pc, !.lag = n, !.held = held] \in MonitorRec
  OBVIOUS
<1>1. monitor \in MonitorRec
  BY DEF Types
<1>2. [monitor EXCEPT !.pc = pc, !.since = n] \in MonitorRec
  BY <1>1 DEF MonitorRec
<1>3. PICK m : m = [monitor EXCEPT !.pc = pc, !.lag = n]
  OBVIOUS
<1>4. m \in MonitorRec
  BY <1>1, <1>3 DEF MonitorRec
<1>5. ASSUME NEW held \in Daemons \cup {NoPath}
      PROVE  [monitor EXCEPT !.pc = pc, !.lag = n, !.held = held] \in MonitorRec
  <2>1. [m EXCEPT !.held = held] \in MonitorRec
    BY <1>4 DEF MonitorRec
  <2>2. [m EXCEPT !.held = held] = [monitor EXCEPT !.pc = pc, !.lag = n, !.held = held]
    BY <1>1, <1>3 DEF MonitorRec
  <2> QED
    BY <2>1, <2>2
<1> QED
  BY <1>2, <1>3, <1>4, <1>5

\* The monitor probes, removes a stale socket, and gives up at the bound.
LEMMA MonitorLooks ==
  ASSUME Inv, MonitorProbes \/ RemovesStale \/ RestartFails
  PROVE  Inv'
<1> USE DEF Inv, Types
<1>1. /\ UNCHANGED <<loop, free, queries, backlog, conn, client>>
      /\ path' \in {path, NoPath}
  BY DEF MonitorProbes, RemovesStale, RestartFails
<1>2. /\ monitor' \in MonitorRec /\ monitor'.new = monitor.new
      /\ monitor.pc \in {"sleep", "bind"} /\ monitor'.pc \in {"sleep", "bind"}
  <2>1. CASE MonitorProbes
    <3>1. PICK p \in {"sleep", "bind"} : monitor' = [monitor EXCEPT !.pc = p, !.since = 0]
      BY <2>1 DEF MonitorProbes
    <3>a. 0 \in Int /\ Types
      OBVIOUS
    <3>2. monitor' \in MonitorRec
      BY <3>1, <3>a, MonitorTypes, Zenon
    <3> QED
      BY <2>1, <3>1, <3>2 DEF MonitorProbes, MonitorRec
  <2>2. CASE RemovesStale
    BY <2>2 DEF RemovesStale, MonitorGoes, MonitorRec
  <2>3. CASE RestartFails
    <3>1. monitor' = [monitor EXCEPT !.pc = "sleep", !.lag = 0] /\ monitor.pc = "bind"
      BY <2>3 DEF RestartFails, MonitorGoes
    <3>a. 0 \in Int /\ Types
      OBVIOUS
    <3>2. monitor' \in MonitorRec
      BY <3>1, <3>a, MonitorTypes, Zenon
    <3> QED
      BY <3>1, <3>2 DEF MonitorRec
  <2> QED
    BY <2>1, <2>2, <2>3
<1>3. Started'
  BY <1>1, <1>2 DEF Started
<1> QED
  BY <1>1, <1>2, <1>3, LoopsOnly DEF Slot

\* The monitor binds the next daemon.
LEMMA BindsInv == ASSUME Inv, Binds PROVE Inv'
<1> USE DEF Inv, Types
<1> DEFINE d == monitor.new + 1
<1>1. /\ UNCHANGED <<free, queries, backlog, conn, client>>
      /\ d \in Daemons /\ path' = d /\ loop' = [loop EXCEPT ![d] = "bound"]
      /\ monitor' = [monitor EXCEPT !.pc = "listen", !.new = d] /\ monitor.pc = "bind"
  BY DEF Binds
<1>2. monitor' \in MonitorRec /\ monitor'.pc = "listen" /\ monitor'.new = d
  BY <1>1 DEF MonitorRec
<1>3. monitor.new \in Nat \ {0} /\ Daemons \subseteq Nat
  BY DaemonNumbers DEF MonitorRec
<1>4. loop[d] = "none"
  BY <1>1, <1>3 DEF Started
<1>5. Started'
  <2>1. ASSUME NEW e \in Daemons
        PROVE  /\ loop'[e] = "none" <=> e > d
               /\ loop'[e] \in {"bound", "private", "public"} => e = d
    <3>1. CASE e = d
      BY <1>1, <1>3, <3>1
    <3>2. CASE e # d
      <4>1. loop'[e] = loop[e] /\ e \in Nat
        BY <1>1, <1>3, <3>2
      <4>2. loop[e] \notin {"bound", "private", "public"}
        BY <1>1 DEF Started, MonitorRec
      <4> QED
        BY <1>3, <3>2, <4>1, <4>2 DEF Started
    <3> QED
      BY <3>1, <3>2
  <2>2. loop'[d] = "bound" /\ d # Owner
    BY <1>1, <1>3 DEF Owner
  <2> QED
    BY <1>2, <2>1, <2>2 DEF Started
<1>6. loop' \in [Daemons -> Loops]
  BY <1>1 DEF Loops
<1>7. \A e \in Daemons :
         /\ loop'[e] \notin Over => loop[e] \notin Over /\ Slot(e)' = Slot(e)
         /\ loop[e] \notin {"none", "bound"} => loop'[e] \notin {"none", "bound"}
  BY <1>1, <1>4 DEF Over, Slot
<1> HIDE DEF d
<1> QED
  BY <1>1, <1>2, <1>5, <1>6, <1>7, LoopsOnly

\* The new daemon listens, and may be reached by its clients.
LEMMA OpensInv == ASSUME Inv, Listens \/ Opens PROVE Inv'
<1> USE DEF Inv, Types
<1>1. /\ UNCHANGED <<path, free, queries, backlog, conn, client>>
      /\ monitor' \in MonitorRec /\ monitor'.new = monitor.new /\ monitor.new \in Daemons
      /\ \/ /\ monitor.pc = "listen" /\ monitor'.pc = "open" /\ loop[monitor.new] = "bound"
            /\ loop' = [loop EXCEPT ![monitor.new] = "private"]
         \/ /\ monitor.pc = "open" /\ monitor'.pc = "spawn" /\ loop[monitor.new] = "private"
            /\ loop' = [loop EXCEPT ![monitor.new] = "public"]
  BY DEF Listens, Opens, MonitorGoes, MonitorRec, Started
<1>2. Started'
  BY <1>1 DEF Started
<1>3. loop' \in [Daemons -> Loops]
  BY <1>1 DEF Loops
<1>4. \A e \in Daemons :
         /\ loop'[e] \notin Over => loop[e] \notin Over /\ Slot(e)' = Slot(e)
         /\ loop[e] \notin {"none", "bound"} => loop'[e] \notin {"none", "bound"}
  BY <1>1 DEF Over, Slot
<1> QED
  BY <1>1, <1>2, <1>3, <1>4, LoopsOnly

\* The new daemon serves; the previous one is dropped.
LEMMA SpawnsInv == ASSUME Inv, Spawns \/ RemovesHeld PROVE Inv'
<1> USE DEF Inv, Types
<1>1. CASE Spawns
  <2> DEFINE start == [loop EXCEPT ![monitor.new] = "acquire"]
  <2>1. /\ UNCHANGED <<path, free, queries, backlog, conn, client>>
        /\ monitor' \in MonitorRec /\ monitor'.new = monitor.new /\ monitor.new \in Daemons
        /\ monitor.pc = "spawn" /\ monitor'.pc \in {"sleep", "remove"}
        /\ loop[monitor.new] = "public"
        /\ \/ loop' = start
           \/ monitor.held \in Daemons /\ loop' = Aborted(start, monitor.held)
    <3>1. /\ UNCHANGED <<path, free, queries, backlog, conn, client>>
          /\ monitor.pc = "spawn" /\ loop[monitor.new] = "public" /\ monitor.new \in Daemons
      BY <1>1 DEF Spawns, MonitorRec, Started
    <3>2. CASE monitor.held = NoPath
      <4>1. monitor' = [monitor EXCEPT !.pc = "sleep", !.lag = 0, !.held = monitor.new]
            /\ loop' = start
        BY <1>1, <3>2 DEF Spawns
      <4>2. 0 \in Int /\ monitor.new \in Daemons \cup {NoPath} /\ Types
        BY <3>1
      <4>3. monitor' \in MonitorRec
        BY <4>1, <4>2, MonitorTypes, Zenon
      <4>4. monitor' \in MonitorRec /\ monitor'.new = monitor.new /\ monitor'.pc = "sleep"
        BY <4>1, <4>3 DEF MonitorRec
      <4> QED
        BY <3>1, <4>1, <4>4
    <3>3. CASE monitor.held # NoPath
      <4>1. monitor' = [monitor EXCEPT !.pc = "remove"] /\ loop' = Aborted(start, monitor.held)
        BY <1>1, <3>3 DEF Spawns
      <4>2. monitor' \in MonitorRec /\ monitor'.new = monitor.new /\ monitor'.pc = "remove"
        BY <4>1 DEF MonitorRec
      <4>3. monitor.held \in Daemons
        BY <3>3 DEF MonitorRec
      <4> QED
        BY <3>1, <4>1, <4>2, <4>3
    <3> QED
      BY <3>2, <3>3
  <2>2. /\ start \in [Daemons -> Loops] /\ start[monitor.new] = "acquire"
        /\ \A e \in Daemons \ {monitor.new} : start[e] = loop[e]
    BY <2>1 DEF Loops
  <2>a. PICK l : l = start
    OBVIOUS
  <2> HIDE DEF start
  <2>3. /\ loop' \in [Daemons -> Loops]
        /\ \A e \in Daemons : \/ loop'[e] = l[e]
                              \/ /\ l[e] \in {"acquire", "accept", "drain"}
                                 /\ loop'[e] \in {"aborted", "cut"}
    <3>1. CASE loop' = start
      BY <2>2, <2>a, <3>1
    <3>2. CASE monitor.held \in Daemons /\ loop' = Aborted(start, monitor.held)
      <4>1. PICK h \in Daemons : h = monitor.held
        BY <3>2
      <4>2. l \in [Daemons -> Loops] /\ loop' = Aborted(l, h)
        BY <2>2, <2>a, <3>2, <4>1
      <4>3. /\ Aborted(l, h) \in [Daemons -> Loops]
            /\ \A e \in Daemons \ {h} : Aborted(l, h)[e] = l[e]
            /\ \/ Aborted(l, h)[h] = l[h]
               \/ l[h] \in {"acquire", "accept"} /\ Aborted(l, h)[h] = "aborted"
               \/ l[h] = "drain" /\ Aborted(l, h)[h] = "cut"
        BY <4>2, AbortedLoop
      <4> QED
        BY <4>2, <4>3
    <3> QED
      BY <2>1, <3>1, <3>2
  <2>4. \A e \in Daemons :
           /\ loop'[e] \notin Over => loop[e] \notin Over /\ Slot(e)' = Slot(e)
           /\ loop[e] \notin {"none", "bound"} => loop'[e] \notin {"none", "bound"}
    BY <2>1, <2>2, <2>a, <2>3 DEF Over, Slot
  <2>5. Started'
    <3>1. loop'[monitor.new] \in {"acquire", "aborted", "cut"}
      BY <2>1, <2>2, <2>a, <2>3
    <3>2. \A e \in Daemons \ {monitor.new} :
             \/ loop'[e] = loop[e]
             \/ loop[e] \in {"acquire", "accept", "drain"} /\ loop'[e] \in {"aborted", "cut"}
      BY <2>2, <2>a, <2>3
    <3> QED
      BY <2>1, <3>1, <3>2 DEF Started
  <2> QED
    BY <2>1, <2>3, <2>4, <2>5, LoopsOnly
<1>2. CASE RemovesHeld
  <2>1. /\ UNCHANGED <<loop, free, queries, backlog, conn, client>> /\ path' = NoPath
        /\ monitor' \in MonitorRec /\ monitor'.new = monitor.new
        /\ monitor.pc = "remove" /\ monitor'.pc = "sleep"
    <3>1. monitor' = [monitor EXCEPT !.pc = "sleep", !.lag = 0, !.held = monitor.new]
          /\ monitor.pc = "remove" /\ path' = NoPath
          /\ UNCHANGED <<loop, free, queries, backlog, conn, client>>
      BY <1>2 DEF RemovesHeld
    <3>a. monitor.new \in Daemons
      BY DEF MonitorRec
    <3>b. monitor' \in MonitorRec
      <4>1. 0 \in Int /\ monitor.new \in Daemons \cup {NoPath} /\ Types
        BY <3>a
      <4> QED
        BY <3>1, <4>1, MonitorTypes, Zenon
    <3>2. monitor' \in MonitorRec /\ monitor'.new = monitor.new /\ monitor'.pc = "sleep"
      BY <3>1, <3>b DEF MonitorRec
    <3> QED
      BY <3>1, <3>2
  <2>2. Started'
    BY <2>1 DEF Started
  <2> QED
    BY <2>1, <2>2, LoopsOnly DEF Slot
<1> QED
  BY <1>1, <1>2

\* A client begins, or finds nobody: its connection, if any, is over already.
LEMMA BeginInv ==
  ASSUME Inv, NEW c \in Clients, Begin(c) \/ IsDenied(c) \/ FindsNobody(c)
  PROVE  Inv'
<1> USE DEF Inv, Types, sessions
<1>1. PICK rec \in ClientRec :
         /\ UNCHANGED <<loop, path, free, queries, backlog, conn, monitor>>
         /\ client[c].pc # "wait" /\ client' = [client EXCEPT ![c] = rec]
  <2>1. CASE Begin(c)
    BY <2>1 DEF Begin, NoClient, ClientRec
  <2>2. CASE IsDenied(c)
    BY <2>2, DoneType DEF IsDenied
  <2>3. CASE FindsNobody(c)
    <3>1. client[c].tries + 1 \in Nat
      BY DEF ClientRec
    <3>2. [NoClient EXCEPT !.pc = "sleep", !.tries = client[c].tries + 1] \in ClientRec
      BY <3>1 DEF ClientRec, NoClient
    <3> QED
      BY <2>3, <3>2, DoneType DEF FindsNobody
  <2> QED
    BY <2>1, <2>2, <2>3
<1>2. Types' /\ Linked' /\ Queued'
  BY <1>1 DEF Linked, Queued
<1>3. Started' /\ Carried'
  BY <1>1, StartedKept DEF Carried
<1>4. \A e \in Daemons : /\ Serving(e)' = Serving(e) /\ Querying(e)' = Querying(e)
                         /\ Slot(e)' = Slot(e)
  BY <1>1 DEF Serving, Querying, Of, Slot
<1>5. Counted'
  BY <1>1, <1>4 DEF Counted
<1> QED
  BY <1>2, <1>3, <1>5

LEMMA ConnectsInv == ASSUME Inv, NEW c \in Clients, Connects(c) PROVE Inv'
<1> USE DEF Inv, Types, sessions
<1>a. PICK d \in Daemons : d = path
  BY DEF Connects, Reachable
<1>0. conn[c].pc = "none" /\ client[c].pc = "connect"
  BY DEF Connects, Linked
<1>1. /\ \A b \in Clients : conn'[b] = IF b = c
             THEN [NoConn EXCEPT !.pc = "backlog", !.daemon = d] ELSE conn[b]
      /\ \A b \in Clients : client'[b].pc = IF b = c THEN "wait" ELSE client[b].pc
      /\ backlog' = [backlog EXCEPT ![d] = Append(@, c)]
      /\ UNCHANGED <<loop, path, free, queries, monitor>>
  BY <1>a DEF Connects, NoClient
<1>2. [NoConn EXCEPT !.pc = "backlog", !.daemon = d] \in ConnRec
      /\ [NoClient EXCEPT !.pc = "wait"] \in ClientRec
  BY DEF NoConn, ConnRec, NoClient, ClientRec
<1>3. Types'
  <2>1. conn' \in [Clients -> ConnRec]
    BY <1>a, <1>2 DEF Connects
  <2>2. client' \in [Clients -> ClientRec]
    BY <1>2 DEF Connects
  <2>3. backlog' \in [Daemons -> Seq(Clients)]
    BY <1>1
  <2> QED
    BY <1>1, <2>1, <2>2, <2>3
<1>4. Linked'
  BY <1>1 DEF Linked
<1>5. Queued'
  <2>1. \A e \in Daemons : \A i \in 1 .. Len(backlog[e]) : backlog[e][i] \in Clients \ {c}
    BY <1>0 DEF Queued
  <2>2. \A e \in Daemons : \A i \in 1 .. Len(backlog[e]) :
           conn'[backlog[e][i]] = conn[backlog[e][i]]
    BY <1>1, <2>1
  <2>3. ASSUME NEW e \in Daemons \ {d}, NEW i \in 1 .. Len(backlog'[e])
        PROVE  /\ conn'[backlog'[e][i]].pc = "backlog" /\ conn'[backlog'[e][i]].daemon = e
               /\ \A j \in 1 .. Len(backlog'[e]) : backlog'[e][i] = backlog'[e][j] => i = j
    <3>1. backlog'[e] = backlog[e]
      BY <1>1
    <3>2. /\ conn[backlog[e][i]].pc = "backlog" /\ conn[backlog[e][i]].daemon = e
          /\ \A j \in 1 .. Len(backlog[e]) : backlog[e][i] = backlog[e][j] => i = j
      BY <3>1 DEF Queued
    <3>3. conn'[backlog[e][i]] = conn[backlog[e][i]]
      BY <3>1, <2>2
    <3> QED
      BY <3>1, <3>2, <3>3
  <2>4. ASSUME NEW i \in 1 .. Len(backlog'[d])
        PROVE  /\ conn'[backlog'[d][i]].pc = "backlog" /\ conn'[backlog'[d][i]].daemon = d
               /\ \A j \in 1 .. Len(backlog'[d]) : backlog'[d][i] = backlog'[d][j] => i = j
    <3>1. backlog'[d] = Append(backlog[d], c) /\ backlog[d] \in Seq(Clients)
      BY <1>1
    <3>2. /\ Len(backlog'[d]) = Len(backlog[d]) + 1
          /\ \A j \in 1 .. Len(backlog[d]) : backlog'[d][j] = backlog[d][j]
          /\ backlog'[d][Len(backlog[d]) + 1] = c
          /\ Len(backlog[d]) \in Nat
      BY <3>1
    <3>3. CASE i = Len(backlog[d]) + 1
      <4>1. backlog'[d][i] = c /\ conn'[c].pc = "backlog" /\ conn'[c].daemon = d
        BY <3>2, <3>3, <1>1 DEF NoConn
      <4>2. \A j \in 1 .. Len(backlog[d]) : backlog'[d][j] # c
        BY <3>2, <2>1
      <4> QED
        BY <3>2, <3>3, <4>1, <4>2
    <3>4. CASE i \in 1 .. Len(backlog[d])
      <4>1. /\ conn[backlog[d][i]].pc = "backlog" /\ conn[backlog[d][i]].daemon = d
            /\ \A j \in 1 .. Len(backlog[d]) : backlog[d][i] = backlog[d][j] => i = j
        BY <3>4 DEF Queued
      <4>2. backlog'[d][i] = backlog[d][i] /\ backlog[d][i] # c
        BY <3>2, <3>4, <2>1
      <4>3. conn'[backlog'[d][i]] = conn[backlog[d][i]]
        BY <2>2, <3>4, <4>2
      <4>4. \A j \in 1 .. Len(backlog[d]) : backlog'[d][i] = backlog'[d][j] => i = j
        BY <3>2, <4>1, <4>2
      <4>5. backlog'[d][i] # backlog'[d][Len(backlog[d]) + 1]
        BY <3>2, <4>2
      <4> QED
        BY <3>2, <4>1, <4>3, <4>4, <4>5
    <3> QED
      BY <3>2, <3>3, <3>4
  <2>5. ASSUME NEW e \in Daemons, NEW i \in 1 .. Len(backlog'[e])
        PROVE  /\ conn'[backlog'[e][i]].pc = "backlog" /\ conn'[backlog'[e][i]].daemon = e
               /\ \A j \in 1 .. Len(backlog'[e]) : backlog'[e][i] = backlog'[e][j] => i = j
    <3>1. CASE e = d
      BY <2>4, <3>1
    <3>2. CASE e # d
      BY <2>3, <3>2
    <3> QED
      BY <3>1, <3>2
  <2> QED
    BY <2>5, Zenon DEF Queued
<1>6. Started' /\ Carried'
  <2>1. Started'
    BY <1>1, StartedKept
  <2>2. loop[d] \notin {"none", "bound"}
    BY <1>a DEF Connects, Reachable, Listening
  <2>3. Carried'
    BY <1>1, <2>2 DEF Carried, NoConn
  <2> QED
    BY <2>1, <2>3
<1>7. \A e \in Daemons : /\ Serving(e)' = Serving(e) /\ Querying(e)' = Querying(e)
                         /\ Slot(e)' = Slot(e)
  BY <1>0, <1>1 DEF Serving, Querying, Of, Open, Slot, NoConn
<1>8. Counted'
  BY <1>1, <1>7 DEF Counted
<1> QED
  BY <1>3, <1>4, <1>5, <1>6, <1>8

\* Requests, and their answers.
LEMMA RequestInv ==
  ASSUME Inv, NEW c \in Clients, RequestRefused(c) \/ RequestsCredential(c)
  PROVE  Inv'
<1> USE DEF Inv, Types, sessions
<1>1. PICK rec \in ConnRec :
        /\ rec.pc \in {"write", "git"} /\ rec.daemon = conn[c].daemon
        /\ conn' = [conn EXCEPT ![c] = rec]
  <2>1. CASE RequestRefused(c)
    <3>1. conn' = [conn EXCEPT ![c] = [conn[c] EXCEPT !.pc = "write", !.age = 0]]
      BY <2>1 DEF RequestRefused, Respond
    <3>2. [conn[c] EXCEPT !.pc = "write", !.age = 0] \in ConnRec
      BY DEF ConnRec
    <3> QED
      BY <3>1, <3>2 DEF ConnRec
  <2>2. CASE RequestsCredential(c)
    <3>1. conn' = [conn EXCEPT ![c] = [conn[c] EXCEPT !.pc = "git", !.age = 0]]
      BY <2>2 DEF RequestsCredential
    <3>2. [conn[c] EXCEPT !.pc = "git", !.age = 0] \in ConnRec
      BY DEF ConnRec
    <3> QED
      BY <3>1, <3>2 DEF ConnRec
  <2> QED
    BY <2>1, <2>2
<1>2. /\ conn[c].pc = "read" /\ UNCHANGED <<loop, path, free, queries, backlog, client, sessions>>
  BY DEF RequestRefused, RequestsCredential
<1>3. /\ Types' /\ Linked' /\ Queued' /\ Started' /\ Carried'
      /\ \A d \in Daemons : Serving(d)' = Serving(d)
  BY <1>1, <1>2, Moves DEF Open
<1>4. \A d \in Daemons : Querying(d)' = Querying(d) /\ Slot(d)' = Slot(d)
  BY <1>1, <1>2 DEF Querying, Of, Slot
<1>5. Counted'
  BY <1>2, <1>3, <1>4 DEF Counted
<1> QED
  BY <1>3, <1>5

LEMMA GitReturnsInv == ASSUME Inv, NEW c \in Clients, GitReturns(c) PROVE Inv'
<1> USE DEF Inv, Types, sessions
<1>1. CASE loop[conn[c].daemon] = "gone"
  BY <1>1, Closes DEF GitReturns, Open
<1>2. CASE loop[conn[c].daemon] # "gone"
  <2>1. /\ conn[c].pc = "git" /\ UNCHANGED <<loop, path, free, queries, backlog, client, sessions>>
        /\ conn' = [conn EXCEPT ![c] = [conn[c] EXCEPT !.pc = "write", !.age = 0]]
    BY <1>2 DEF GitReturns, Respond
  <2>2. PICK rec : rec = [conn[c] EXCEPT !.pc = "write", !.age = 0]
    OBVIOUS
  <2>3. rec \in ConnRec /\ rec.pc = "write" /\ rec.daemon = conn[c].daemon
    BY <2>2 DEF ConnRec
  <2>4. conn' = [conn EXCEPT ![c] = rec]
    BY <2>1, <2>2
  <2>5. /\ Types' /\ Linked' /\ Queued' /\ Started' /\ Carried'
        /\ \A d \in Daemons : Serving(d)' = Serving(d)
    BY <2>1, <2>3, <2>4, Moves DEF Open
  <2>6. \A d \in Daemons : Querying(d)' = Querying(d) /\ Slot(d)' = Slot(d)
    BY <2>1, <2>3, <2>4 DEF Querying, Of, Slot
  <2>7. Counted'
    BY <2>1, <2>5, <2>6 DEF Counted
  <2> QED
    BY <2>5, <2>7
<1> QED
  BY <1>1, <1>2

\* A query takes a permit, or is refused because there is none.
LEMMA RequestsQueryInv == ASSUME Inv, NEW c \in Clients, RequestsQuery(c) PROVE Inv'
<1> USE DEF Inv, Types, sessions
<1>a. PICK d \in Daemons : d = conn[c].daemon
  BY DEF ConnRec
<1>0. /\ conn[c].pc = "read" /\ UNCHANGED <<loop, path, free, backlog, client, sessions>>
  BY DEF RequestsQuery
<1>1. CASE queries[d] > 0
  <2>1. queries' = [queries EXCEPT ![d] = @ - 1]
    BY <1>a, <1>1 DEF RequestsQuery
  <2>2. conn' = [conn EXCEPT ![c] = [conn[c] EXCEPT !.pc = "query", !.age = 0]]
    BY <1>a, <1>1 DEF RequestsQuery
  <2>3. PICK rec : rec = [conn[c] EXCEPT !.pc = "query", !.age = 0]
    OBVIOUS
  <2>4. rec \in ConnRec /\ rec.pc = "query" /\ rec.daemon = d
    BY <1>a, <2>3 DEF ConnRec
  <2>5. conn' = [conn EXCEPT ![c] = rec] /\ queries' \in [Daemons -> Int]
    BY <2>1, <2>2, <2>3
  <2>6. /\ Types' /\ Linked' /\ Queued' /\ Started' /\ Carried'
        /\ \A e \in Daemons : Serving(e)' = Serving(e)
    BY <1>a, <1>0, <2>4, <2>5, Moves DEF Open
  <2>7. /\ Querying(d)' = Querying(d) \cup {c} /\ c \notin Querying(d)
        /\ \A e \in Daemons \ {d} : Querying(e)' = Querying(e)
    BY <1>a, <1>0, <2>4, <2>5 DEF Querying, Of
  <2>8. Cardinality(Querying(d)') = Cardinality(Querying(d)) + 1
    <3>1. IsFiniteSet(Querying(d))
      BY Finite
    <3>2. Cardinality(Querying(d) \cup {c}) = Cardinality(Querying(d)) + 1
      BY <2>7, <3>1, FS_AddElement
    <3> QED
      BY <2>7, <3>2
  <2>9. ASSUME loop[d] \notin Over
        PROVE  /\ queries'[d] >= 0
               /\ queries'[d] + Cardinality(Querying(d)') = QueryPermits
    <3>1. queries[d] + Cardinality(Querying(d)) = QueryPermits
      BY <2>9 DEF Counted
    <3>2. queries'[d] = queries[d] - 1 /\ Cardinality(Querying(d)) \in Nat
      BY <2>1, Finite
    <3> QED
      BY <1>1, <2>8, <3>1, <3>2, PermitsAssumption
  <2>10. \A e \in Daemons \ {d} : queries'[e] = queries[e]
    BY <2>1
  <2>11. \A e \in Daemons : Slot(e)' = Slot(e)
    BY <1>0 DEF Slot
  <2>12. Counted'
    <3>1. ASSUME NEW e \in Daemons, loop'[e] \notin Over
          PROVE  /\ free'[e] + Slot(e)' + Cardinality(Serving(e)') = ConnectionPermits
                 /\ free'[e] >= 0
      BY <1>0, <2>6, <2>11, <3>1 DEF Counted
    <3>2. ASSUME NEW e \in Daemons \ {d}, loop'[e] \notin Over
          PROVE  /\ queries'[e] >= 0
                 /\ queries'[e] + Cardinality(Querying(e)') = QueryPermits
      BY <1>0, <2>7, <2>10, <3>2 DEF Counted
    <3> QED
      BY <1>0, <2>9, <3>1, <3>2 DEF Counted
  <2> QED
    BY <2>6, <2>12
<1>2. CASE ~(queries[d] > 0)
  <2>1. /\ queries' = queries
        /\ conn' = [conn EXCEPT ![c] = [conn[c] EXCEPT !.pc = "write", !.age = 0]]
    BY <1>a, <1>2 DEF RequestsQuery, Respond
  <2>2. PICK rec : rec = [conn[c] EXCEPT !.pc = "write", !.age = 0]
    OBVIOUS
  <2>3. rec \in ConnRec /\ rec.pc = "write" /\ rec.daemon = conn[c].daemon
    BY <2>2 DEF ConnRec
  <2>4. conn' = [conn EXCEPT ![c] = rec]
    BY <2>1, <2>2
  <2>5. /\ Types' /\ Linked' /\ Queued' /\ Started' /\ Carried'
        /\ \A e \in Daemons : Serving(e)' = Serving(e)
    BY <1>0, <2>1, <2>3, <2>4, Moves DEF Open
  <2>6. \A e \in Daemons : Querying(e)' = Querying(e) /\ Slot(e)' = Slot(e)
    BY <1>0, <2>3, <2>4 DEF Querying, Of, Slot
  <2>7. Counted'
    BY <1>0, <2>1, <2>5, <2>6 DEF Counted
  <2> QED
    BY <2>5, <2>7
<1> QED
  BY <1>1, <1>2

\* However a query ends, its permit comes back.
LEMMA EndQueryInv ==
  ASSUME Inv, NEW c \in Clients, NEW timedOut, EndQuery(c, timedOut)
  PROVE  Inv'
<1> USE DEF Inv, Types, sessions
<1>a. PICK d \in Daemons : d = conn[c].daemon
  BY DEF ConnRec
<1>0. /\ conn[c].pc = "query" /\ UNCHANGED <<loop, path, free, backlog, client, sessions>>
      /\ queries' = [queries EXCEPT ![d] = @ + 1]
  BY <1>a DEF EndQuery
<1>1. conn' = [conn EXCEPT ![c] = [conn[c] EXCEPT !.pc = "write", !.age = 0]]
  BY DEF EndQuery, Respond
<1>2. PICK rec : rec = [conn[c] EXCEPT !.pc = "write", !.age = 0]
  OBVIOUS
<1>3. rec \in ConnRec /\ rec.pc = "write" /\ rec.daemon = d
  BY <1>a, <1>2 DEF ConnRec
<1>4. conn' = [conn EXCEPT ![c] = rec] /\ queries' \in [Daemons -> Int]
  BY <1>0, <1>1, <1>2
<1>5. /\ Types' /\ Linked' /\ Queued' /\ Started' /\ Carried'
      /\ \A e \in Daemons : Serving(e)' = Serving(e)
  BY <1>a, <1>0, <1>3, <1>4, Moves DEF Open
<1>6. /\ Querying(d)' = Querying(d) \ {c} /\ c \in Querying(d)
      /\ \A e \in Daemons \ {d} : Querying(e)' = Querying(e)
  BY <1>a, <1>0, <1>3, <1>4 DEF Querying, Of
<1>7. Cardinality(Querying(d)') = Cardinality(Querying(d)) - 1
  BY <1>6, Finite, FS_RemoveElement
<1>8. ASSUME loop[d] \notin Over
      PROVE  /\ queries'[d] >= 0
             /\ queries'[d] + Cardinality(Querying(d)') = QueryPermits
  <2>1. queries[d] + Cardinality(Querying(d)) = QueryPermits /\ queries[d] >= 0
    BY <1>8 DEF Counted
  <2>2. queries'[d] = queries[d] + 1 /\ Cardinality(Querying(d)) \in Nat
    BY <1>0, Finite
  <2> QED
    BY <1>7, <2>1, <2>2, PermitsAssumption
<1>9. /\ \A e \in Daemons \ {d} : queries'[e] = queries[e]
      /\ \A e \in Daemons : Slot(e)' = Slot(e)
  BY <1>0 DEF Slot
<1>10. Counted'
  <2>1. ASSUME NEW e \in Daemons, loop'[e] \notin Over
        PROVE  /\ free'[e] + Slot(e)' + Cardinality(Serving(e)') = ConnectionPermits
               /\ free'[e] >= 0
    BY <1>0, <1>5, <1>9, <2>1 DEF Counted
  <2>2. ASSUME NEW e \in Daemons \ {d}, loop'[e] \notin Over
        PROVE  /\ queries'[e] >= 0
               /\ queries'[e] + Cardinality(Querying(e)') = QueryPermits
    BY <1>0, <1>6, <1>9, <2>2 DEF Counted
  <2> QED
    BY <1>0, <1>8, <2>1, <2>2 DEF Counted
<1> QED
  BY <1>5, <1>10

\* The loop hands its permit to the task of a connection, or drops it with a
\* connection of another user.
LEMMA AcceptInv ==
  ASSUME Inv, NEW d \in Daemons, NEW allowed \in BOOLEAN, Accept(d, allowed)
  PROVE  Inv'
<1> USE DEF Inv, Types, sessions
<1>a. PICK c : c = Head(backlog[d])
  OBVIOUS
<1>0. /\ loop[d] = "accept" /\ backlog[d] # <<>> /\ backlog[d] \in Seq(Clients)
      /\ loop' = [loop EXCEPT ![d] = "acquire"]
      /\ backlog' = [backlog EXCEPT ![d] = Tail(@)]
      /\ UNCHANGED <<path, queries, monitor>>
  BY DEF Accept
<1>1. c \in Clients /\ c = backlog[d][1] /\ 1 \in 1 .. Len(backlog[d])
  BY <1>a, <1>0
<1>2. conn[c].pc = "backlog" /\ conn[c].daemon = d /\ client[c].pc = "wait"
  BY <1>1 DEF Queued, Linked
<1>3. PICK rec \in ConnRec :
        /\ conn' = [conn EXCEPT ![c] = rec]
        /\ \/ allowed /\ rec.pc = "read" /\ rec.daemon = d
           \/ ~allowed /\ rec.pc = "none"
  <2>1. CASE allowed
    <3>1. conn' = [conn EXCEPT ![c] = [conn[c] EXCEPT !.pc = "read", !.age = 0]]
      BY <1>a, <2>1 DEF Accept
    <3>2. PICK rec : rec = [conn[c] EXCEPT !.pc = "read", !.age = 0]
      OBVIOUS
    <3>3. rec \in ConnRec /\ rec.pc = "read" /\ rec.daemon = d
      BY <1>1, <1>2, <3>2 DEF ConnRec
    <3> QED
      BY <2>1, <3>1, <3>2, <3>3
  <2>2. CASE ~allowed
    <3>1. conn' = [conn EXCEPT ![c] = NoConn]
      BY <1>a, <2>2 DEF Accept, End
    <3>2. NoConn \in ConnRec /\ NoConn.pc = "none"
      BY NoConnType
    <3> QED
      BY <2>2, <3>1, <3>2
  <2> QED
    BY <2>1, <2>2
<1>4. /\ allowed => client' = client /\ free' = free
      /\ ~allowed => /\ free' = [free EXCEPT ![d] = @ + 1]
                     /\ \A b \in Clients \ {c} : client'[b] = client[b]
      /\ client' \in [Clients -> ClientRec]
  <2>1. Done(c, "closed") \in ClientRec
    BY DoneType
  <2>2. CASE allowed
    BY <2>2 DEF Accept
  <2>3. CASE ~allowed
    BY <1>a, <2>1, <2>3 DEF Accept, End
  <2> QED
    BY <2>2, <2>3
<1>5. Types'
  <2>1. Tail(backlog[d]) \in Seq(Clients)
    BY <1>0
  <2>2. loop' \in [Daemons -> Loops]
        /\ backlog' \in [Daemons -> Seq(Clients)]
    BY <1>0, <2>1 DEF Loops
  <2>3. free' \in [Daemons -> Int]
    BY <1>4
  <2>4. conn' \in [Clients -> ConnRec]
    BY <1>3
  <2> QED
    BY <1>0, <1>4, <2>2, <2>3, <2>4
<1>6. Linked'
  BY <1>2, <1>3, <1>4 DEF Linked
<1>7. Queued'
  <2>1. ASSUME NEW e \in Daemons \ {d}, NEW i \in 1 .. Len(backlog'[e])
        PROVE  /\ conn'[backlog'[e][i]].pc = "backlog" /\ conn'[backlog'[e][i]].daemon = e
               /\ \A j \in 1 .. Len(backlog'[e]) : backlog'[e][i] = backlog'[e][j] => i = j
    <3>1. backlog'[e] = backlog[e]
      BY <1>0
    <3>2. /\ conn[backlog[e][i]].pc = "backlog" /\ conn[backlog[e][i]].daemon = e
          /\ \A j \in 1 .. Len(backlog[e]) : backlog[e][i] = backlog[e][j] => i = j
      BY <3>1 DEF Queued
    <3>3. backlog[e][i] \in Clients /\ backlog[e][i] # c
      BY <1>2, <3>1, <3>2
    <3> QED
      BY <1>3, <3>1, <3>2, <3>3
  <2>2. ASSUME NEW i \in 1 .. Len(backlog'[d])
        PROVE  /\ conn'[backlog'[d][i]].pc = "backlog" /\ conn'[backlog'[d][i]].daemon = d
               /\ \A j \in 1 .. Len(backlog'[d]) : backlog'[d][i] = backlog'[d][j] => i = j
    <3>1. /\ Len(backlog'[d]) = Len(backlog[d]) - 1
          /\ \A j \in 1 .. Len(backlog'[d]) : /\ backlog'[d][j] = backlog[d][j + 1]
                                              /\ j + 1 \in 1 .. Len(backlog[d])
      BY <1>0
    <3>2. \A j \in 1 .. Len(backlog[d]) :
             /\ conn[backlog[d][j]].pc = "backlog" /\ conn[backlog[d][j]].daemon = d
             /\ \A k \in 1 .. Len(backlog[d]) : backlog[d][j] = backlog[d][k] => j = k
      BY DEF Queued
    <3>3. backlog[d][i + 1] \in Clients /\ backlog[d][i + 1] # c
      BY <1>0, <1>1, <3>1, <3>2
    <3>4. conn'[backlog'[d][i]] = conn[backlog[d][i + 1]]
      BY <1>3, <3>1, <3>3
    <3>5. \A j \in 1 .. Len(backlog'[d]) : backlog'[d][i] = backlog'[d][j] => i = j
      BY <3>1, <3>2
    <3> QED
      BY <3>1, <3>2, <3>4, <3>5
  <2>3. ASSUME NEW e \in Daemons, NEW i \in 1 .. Len(backlog'[e])
        PROVE  /\ conn'[backlog'[e][i]].pc = "backlog" /\ conn'[backlog'[e][i]].daemon = e
               /\ \A j \in 1 .. Len(backlog'[e]) : backlog'[e][i] = backlog'[e][j] => i = j
    <3>1. CASE e = d
      BY <2>2, <3>1
    <3>2. CASE e # d
      BY <2>1, <3>2
    <3> QED
      BY <3>1, <3>2
  <2> QED
    BY <2>3, Zenon DEF Queued
<1>8. Started' /\ Carried'
  <2>1. Started'
    BY <1>0, StartedKept
  <2>2. Carried'
    BY <1>0, <1>2, <1>3 DEF Carried, ConnRec
  <2> QED
    BY <2>1, <2>2
<1>9. Counted'
  <2>1. \A e \in Daemons : Querying(e)' = Querying(e)
    BY <1>2, <1>3 DEF Querying, Of
  <2>2. \A e \in Daemons \ {d} : /\ Serving(e)' = Serving(e) /\ free'[e] = free[e]
                                 /\ Slot(e)' = Slot(e) /\ loop'[e] = loop[e]
    BY <1>0, <1>2, <1>3, <1>4 DEF Serving, Of, Open, Slot
  <2>3. Slot(d) = 1 /\ Slot(d)' = 0 /\ c \notin Serving(d)
    BY <1>0, <1>2 DEF Slot, Serving, Open
  <2>4. /\ free[d] + Slot(d) + Cardinality(Serving(d)) = ConnectionPermits
        /\ free[d] >= 0 /\ queries[d] >= 0
        /\ queries[d] + Cardinality(Querying(d)) = QueryPermits
    BY <1>0 DEF Counted, Over
  <2>5. free'[d] + Slot(d)' + Cardinality(Serving(d)') = ConnectionPermits /\ free'[d] >= 0
    <3>1. CASE allowed
      <4>1. Serving(d)' = Serving(d) \cup {c}
        BY <1>1, <1>2, <1>3, <3>1 DEF Serving, Of, Open
      <4>2. Cardinality(Serving(d)') = Cardinality(Serving(d)) + 1
        <5>1. IsFiniteSet(Serving(d))
          BY Finite
        <5>2. c \notin Serving(d)
          BY <2>3
        <5>3. Cardinality(Serving(d) \cup {c}) = Cardinality(Serving(d)) + 1
          BY <5>1, <5>2, FS_AddElement
        <5> QED
          BY <4>1, <5>3
      <4>3. free'[d] = free[d]
        BY <1>4, <3>1
      <4>4. Cardinality(Serving(d)) \in Int /\ free[d] \in Int /\ ConnectionPermits \in Int
        BY Finite, PermitsAssumption
      <4> QED
        BY <2>3, <2>4, <4>2, <4>3, <4>4
    <3>2. CASE ~allowed
      <4>1. Serving(d)' = Serving(d)
        BY <1>1, <1>2, <1>3, <3>2 DEF Serving, Of, Open
      <4>2. free'[d] = free[d] + 1
        BY <1>4, <3>2
      <4> QED
        BY <2>3, <2>4, <4>1, <4>2, Finite, PermitsAssumption
    <3> QED
      BY <3>1, <3>2
  <2> QED
    BY <1>0, <2>1, <2>2, <2>4, <2>5 DEF Counted
<1> QED
  BY <1>5, <1>6, <1>7, <1>8, <1>9


\* A listener is closed: the connections nobody accepted end with it, and
\* maybe others of the daemon.
LEMMA LosesBacklog ==
  ASSUME Inv, NEW d \in Daemons, NEW S, S \subseteq Of(d),
         \A c \in Of(d) : conn[c].pc = "backlog" => c \in S,
         End(S, "lost"), backlog' = [backlog EXCEPT ![d] = <<>>]
  PROVE  /\ conn' \in [Clients -> ConnRec] /\ client' \in [Clients -> ClientRec]
         /\ backlog' \in [Daemons -> Seq(Clients)]
         /\ Linked' /\ Queued'
         /\ \A c \in Clients : conn'[c] = conn[c] \/ conn'[c].pc = "none"
         /\ \A e \in Daemons \ {d} : Serving(e)' = Serving(e) /\ Querying(e)' = Querying(e)
         /\ Serving(d)' = Serving(d) \ S /\ Querying(d)' = Querying(d) \ S
<1> USE DEF Inv, Types
<1>1. /\ conn' = [c \in Clients |-> IF c \in S THEN NoConn ELSE conn[c]]
      /\ client' = [c \in Clients |-> IF c \in S THEN Done(c, "lost") ELSE client[c]]
  BY DEF End
<1>2. /\ NoConn \in ConnRec /\ NoConn.pc = "none"
      /\ \A c \in S : Done(c, "lost") \in ClientRec
  BY NoConnType, DoneType
<1>3. \A c \in S : c \in Clients /\ conn[c].daemon = d
  BY DEF Of
<1>4. conn' \in [Clients -> ConnRec] /\ client' \in [Clients -> ClientRec]
  BY <1>1, <1>2
<1>5. backlog' \in [Daemons -> Seq(Clients)]
  OBVIOUS
<1>6. Linked'
  BY <1>1, <1>2 DEF Linked
<1>7. Queued'
  <2>1. ASSUME NEW e \in Daemons, NEW i \in 1 .. Len(backlog'[e])
        PROVE  /\ conn'[backlog'[e][i]].pc = "backlog" /\ conn'[backlog'[e][i]].daemon = e
               /\ \A j \in 1 .. Len(backlog'[e]) : backlog'[e][i] = backlog'[e][j] => i = j
    <3>1. e # d /\ backlog'[e] = backlog[e]
      <4>1. CASE e = d
        BY <2>1, <4>1
      <4>2. CASE e # d
        BY <4>2
      <4> QED
        BY <4>1, <4>2
    <3>2. /\ conn[backlog[e][i]].pc = "backlog" /\ conn[backlog[e][i]].daemon = e
          /\ \A j \in 1 .. Len(backlog[e]) : backlog[e][i] = backlog[e][j] => i = j
      BY <3>1 DEF Queued
    <3>3. backlog[e][i] \in Clients
      BY <3>1
    <3>4. conn'[backlog[e][i]] = conn[backlog[e][i]]
      BY <1>1, <1>3, <3>1, <3>2, <3>3
    <3> QED
      BY <3>1, <3>2, <3>4
  <2> QED
    BY <2>1, Zenon DEF Queued
<1>8. \A e \in Daemons \ {d} : Serving(e)' = Serving(e) /\ Querying(e)' = Querying(e)
  BY <1>1, <1>2, <1>3 DEF Serving, Querying, Of, Open
<1>9. Serving(d)' = Serving(d) \ S /\ Querying(d)' = Querying(d) \ S
  BY <1>1, <1>2, <1>3 DEF Serving, Querying, Of, Open
<1> QED
  BY <1>1, <1>2, <1>4, <1>5, <1>6, <1>7, <1>8, <1>9

\* The accept loop ends: its tasks go on.
LEMMA AcceptFailsInv == ASSUME Inv, NEW d \in Daemons, AcceptFails(d) PROVE Inv'
<1> USE DEF Inv, Types
<1>a. PICK S : S = {c \in Of(d) : conn[c].pc = "backlog"}
  OBVIOUS
<1>0. /\ loop[d] = "accept" /\ loop' = [loop EXCEPT ![d] = "drain"]
      /\ free' = [free EXCEPT ![d] = @ + 1]
      /\ backlog' = [backlog EXCEPT ![d] = <<>>] /\ End(S, "lost")
      /\ UNCHANGED <<path, queries, monitor>>
  BY <1>a DEF AcceptFails, sessions
<1>1. /\ conn' \in [Clients -> ConnRec] /\ client' \in [Clients -> ClientRec]
      /\ backlog' \in [Daemons -> Seq(Clients)]
      /\ Linked' /\ Queued'
      /\ \A c \in Clients : conn'[c] = conn[c] \/ conn'[c].pc = "none"
      /\ \A e \in Daemons \ {d} : Serving(e)' = Serving(e) /\ Querying(e)' = Querying(e)
      /\ Serving(d)' = Serving(d) \ S /\ Querying(d)' = Querying(d) \ S
  <2>1. S \subseteq Of(d) /\ \A c \in Of(d) : conn[c].pc = "backlog" => c \in S
    BY <1>a
  <2> QED
    BY <1>0, <2>1, LosesBacklog
<1>2. Types'
  BY <1>0, <1>1 DEF Loops
<1>3. Started'
  BY <1>0, StartedKept
<1>4. Carried'
  BY <1>0, <1>1 DEF Carried, ConnRec
<1>5. Counted'
  <2>1. \A e \in Daemons : Serving(e)' = Serving(e) /\ Querying(e)' = Querying(e)
    BY <1>a, <1>1 DEF Serving, Querying, Open
  <2>2. Slot(d) = 1 /\ Slot(d)' = 0 /\ free'[d] = free[d] + 1
    BY <1>0 DEF Slot
  <2>3. /\ free[d] + Slot(d) + Cardinality(Serving(d)) = ConnectionPermits
        /\ free[d] >= 0 /\ queries[d] >= 0
        /\ queries[d] + Cardinality(Querying(d)) = QueryPermits
    BY <1>0 DEF Counted, Over
  <2>4. /\ free'[d] + Slot(d)' + Cardinality(Serving(d)) = ConnectionPermits
        /\ free'[d] >= 0
    BY <2>2, <2>3, Finite, PermitsAssumption
  <2>5. \A e \in Daemons \ {d} : free'[e] = free[e] /\ Slot(e)' = Slot(e) /\ loop'[e] = loop[e]
    BY <1>0 DEF Slot
  <2> QED
    BY <1>0, <2>1, <2>3, <2>4, <2>5 DEF Counted
<1> QED
  BY <1>1, <1>2, <1>3, <1>4, <1>5

\* The aborted daemon ends the connections it serves, but those in git.
LEMMA AbortInv == ASSUME Inv, NEW d \in Daemons, Abort(d) PROVE Inv'
<1> USE DEF Inv, Types
<1>a. PICK S : S = {c \in Of(d) : conn[c].pc \in {"backlog", "read", "query", "write"}}
  OBVIOUS
<1>0. /\ loop[d] \in {"aborted", "cut"} /\ loop' = [loop EXCEPT ![d] = "gone"]
      /\ free' = [free EXCEPT ![d] = ConnectionPermits - Cardinality(Serving(d) \ S)]
      /\ queries' = [queries EXCEPT ![d] = QueryPermits]
      /\ backlog' = [backlog EXCEPT ![d] = <<>>] /\ End(S, "lost")
      /\ UNCHANGED <<path, monitor>>
  BY <1>a DEF Abort, sessions
<1>1. /\ conn' \in [Clients -> ConnRec] /\ client' \in [Clients -> ClientRec]
      /\ backlog' \in [Daemons -> Seq(Clients)]
      /\ Linked' /\ Queued'
      /\ \A c \in Clients : conn'[c] = conn[c] \/ conn'[c].pc = "none"
      /\ \A e \in Daemons \ {d} : Serving(e)' = Serving(e) /\ Querying(e)' = Querying(e)
  <2>1. S \subseteq Of(d) /\ \A c \in Of(d) : conn[c].pc = "backlog" => c \in S
    BY <1>a
  <2> QED
    BY <1>0, <2>1, LosesBacklog
<1>2. Types'
  <2>1. Cardinality(Serving(d) \ S) \in Int
    <3>1. IsFiniteSet(Serving(d) \ S)
      BY Finite, FS_Difference
    <3> QED
      BY <3>1, FS_CardinalityType
  <2>2. free' \in [Daemons -> Int] /\ queries' \in [Daemons -> Int]
    BY <1>0, <2>1, PermitsAssumption
  <2> QED
    BY <1>0, <1>1, <2>2 DEF Loops
<1>3. Started'
  BY <1>0, StartedKept
<1>4. Carried'
  BY <1>0, <1>1 DEF Carried, ConnRec
<1>5. Counted'
  <2>1. loop'[d] \in Over
    BY <1>0 DEF Over
  <2>2. \A e \in Daemons \ {d} : /\ free'[e] = free[e] /\ Slot(e)' = Slot(e)
                                 /\ loop'[e] = loop[e] /\ queries'[e] = queries[e]
    BY <1>0 DEF Slot
  <2> QED
    BY <1>1, <2>1, <2>2 DEF Counted
<1> QED
  BY <1>1, <1>2, <1>3, <1>4, <1>5

\* The monitor's start fails: its listener is dropped.
LEMMA StartFailsInv == ASSUME Inv, StartFails PROVE Inv'
<1> USE DEF Inv, Types
<1>a. PICK d \in Daemons : d = monitor.new
  BY DEF MonitorRec
<1>b. PICK S : S = {c \in Of(d) : conn[c].pc = "backlog"}
  OBVIOUS
<1>0. /\ loop' = [loop EXCEPT ![d] = "gone"] /\ loop[d] \in {"private", "public"}
      /\ backlog' = [backlog EXCEPT ![d] = <<>>] /\ End(S, "lost")
      /\ UNCHANGED <<path, free, queries>>
      /\ monitor' = [monitor EXCEPT !.pc = "sleep", !.lag = 0]
      /\ monitor.pc \in {"open", "spawn"}
  BY <1>a, <1>b DEF StartFails, MonitorGoes, Started
<1>1. /\ conn' \in [Clients -> ConnRec] /\ client' \in [Clients -> ClientRec]
      /\ backlog' \in [Daemons -> Seq(Clients)]
      /\ Linked' /\ Queued'
      /\ \A c \in Clients : conn'[c] = conn[c] \/ conn'[c].pc = "none"
      /\ \A e \in Daemons \ {d} : Serving(e)' = Serving(e) /\ Querying(e)' = Querying(e)
  <2>1. S \subseteq Of(d) /\ \A c \in Of(d) : conn[c].pc = "backlog" => c \in S
    BY <1>b
  <2> QED
    BY <1>0, <2>1, LosesBacklog
<1>2. monitor' \in MonitorRec /\ monitor'.new = d /\ monitor'.pc = "sleep"
  <2>1. 0 \in Int /\ Types
    OBVIOUS
  <2>2. monitor' \in MonitorRec
    BY <1>0, <2>1, MonitorTypes, Zenon
  <2> QED
    BY <1>a, <1>0, <2>2 DEF MonitorRec
<1>3. Types'
  BY <1>0, <1>1, <1>2 DEF Loops
<1>4. Started'
  BY <1>a, <1>0, <1>2 DEF Started
<1>5. Carried'
  BY <1>0, <1>1 DEF Carried, ConnRec
<1>6. Counted'
  <2>1. loop'[d] \in Over
    BY <1>0 DEF Over
  <2>2. \A e \in Daemons \ {d} : /\ free'[e] = free[e] /\ Slot(e)' = Slot(e)
                                 /\ loop'[e] = loop[e] /\ queries'[e] = queries[e]
    BY <1>0 DEF Slot
  <2> QED
    BY <1>1, <2>1, <2>2 DEF Counted
<1> QED
  BY <1>1, <1>3, <1>4, <1>5, <1>6

\* Time changes no step of a connection or of a session.
LEMMA TickClocks ==
  ASSUME Types, Tick
  PROVE  /\ monitor' \in MonitorRec
         /\ monitor'.pc = monitor.pc /\ monitor'.new = monitor.new /\ monitor'.held = monitor.held
         /\ monitor'.since = IF monitor.since < MonitorInterval THEN monitor.since + 1
                                                                ELSE monitor.since
         /\ monitor'.lag = IF monitor.pc # "sleep" /\ monitor.lag < MonitorLag
                           THEN monitor.lag + 1 ELSE monitor.lag
<1>1. monitor \in MonitorRec
  BY DEF Types
<1>2. PICK s : s = IF monitor.since < MonitorInterval THEN monitor.since + 1 ELSE monitor.since
  OBVIOUS
<1>3. PICK l : l = IF monitor.pc # "sleep" /\ monitor.lag < MonitorLag
                   THEN monitor.lag + 1 ELSE monitor.lag
  OBVIOUS
<1>4. s \in Int /\ l \in Int
  BY <1>1, <1>2, <1>3 DEF MonitorRec
<1>5. monitor' = [monitor EXCEPT !.since = s, !.lag = l]
  BY <1>2, <1>3, Zenon DEF Tick
<1>6. PICK m : m = [monitor EXCEPT !.since = s]
  OBVIOUS
<1>7. m \in MonitorRec
  BY <1>1, <1>4, <1>6 DEF MonitorRec
<1>8. monitor' = [m EXCEPT !.lag = l]
  BY <1>1, <1>5, <1>6 DEF MonitorRec
<1>9. monitor' \in MonitorRec
  BY <1>4, <1>7, <1>8 DEF MonitorRec
<1>10. /\ monitor'.pc = monitor.pc /\ monitor'.new = monitor.new /\ monitor'.held = monitor.held
       /\ monitor'.since = s /\ monitor'.lag = l
  BY <1>1, <1>5 DEF MonitorRec
<1> QED
  BY <1>2, <1>3, <1>9, <1>10

LEMMA TickInv == ASSUME Inv, Tick PROVE Inv'
<1> USE DEF Inv, Types
<1>0. UNCHANGED <<loop, path, free, queries, backlog>>
  BY DEF Tick
<1>1. \A c \in Clients : /\ conn'[c] \in ConnRec /\ conn'[c].pc = conn[c].pc
                         /\ conn'[c].daemon = conn[c].daemon
  <2> SUFFICES ASSUME NEW c \in Clients
               PROVE  /\ conn'[c] \in ConnRec /\ conn'[c].pc = conn[c].pc
                      /\ conn'[c].daemon = conn[c].daemon
    OBVIOUS
  <2>1. conn'[c] = conn[c] \/ conn'[c] = [conn[c] EXCEPT !.age = conn[c].age + 1]
    BY DEF Tick
  <2>2. conn[c].age + 1 \in Nat
    BY DEF ConnRec
  <2> QED
    BY <2>1, <2>2 DEF ConnRec
<1>2. \A c \in Clients : /\ client'[c] \in ClientRec
                         /\ client[c].pc = "wait" => client'[c].pc = "wait"
  <2> SUFFICES ASSUME NEW c \in Clients
               PROVE  /\ client'[c] \in ClientRec
                      /\ client[c].pc = "wait" => client'[c].pc = "wait"
    OBVIOUS
  <2>1. CASE client[c].pc = "sleep"
    <3>1. client'[c] = [client[c] EXCEPT !.pc = "connect"]
      BY <2>1 DEF Tick
    <3> QED
      BY <2>1, <3>1 DEF ClientRec
  <2>2. CASE client[c].pc = "done"
    <3>1. client'[c] = NoClient
      BY <2>2 DEF Tick
    <3>2. NoClient \in ClientRec
      BY DEF NoClient, ClientRec
    <3> QED
      BY <2>2, <3>1, <3>2
  <2>3. CASE client[c].pc \notin {"sleep", "done"}
    <3>1. client'[c] = client[c]
      BY <2>3 DEF Tick
    <3> QED
      BY <3>1
  <2> QED
    BY <2>1, <2>2, <2>3
<1>3. Types'
  <2>1. conn' \in [Clients -> ConnRec] /\ client' \in [Clients -> ClientRec]
    BY <1>1, <1>2 DEF Tick
  <2> QED
    BY <1>0, <2>1, TickClocks
<1>4. Linked'
  BY <1>1, <1>2 DEF Linked, ClientRec
<1>5. Queued'
  <2>1. ASSUME NEW d \in Daemons, NEW i \in 1 .. Len(backlog'[d])
        PROVE  /\ conn'[backlog'[d][i]].pc = "backlog" /\ conn'[backlog'[d][i]].daemon = d
               /\ \A j \in 1 .. Len(backlog'[d]) : backlog'[d][i] = backlog'[d][j] => i = j
    <3>1. backlog'[d] = backlog[d] /\ i \in 1 .. Len(backlog[d])
      BY <1>0
    <3>2. /\ conn[backlog[d][i]].pc = "backlog" /\ conn[backlog[d][i]].daemon = d
          /\ \A j \in 1 .. Len(backlog[d]) : backlog[d][i] = backlog[d][j] => i = j
      BY <3>1 DEF Queued
    <3>3. backlog[d][i] \in Clients
      BY <3>1
    <3> QED
      BY <1>1, <3>1, <3>2, <3>3
  <2> QED
    BY <2>1, Zenon DEF Queued
<1>6. Started'
  BY <1>0, TickClocks DEF Started
<1>7. Carried'
  BY <1>0, <1>1 DEF Carried
<1>8. Counted'
  <2>1. \A d \in Daemons : /\ Serving(d)' = Serving(d) /\ Querying(d)' = Querying(d)
                           /\ Slot(d)' = Slot(d)
    BY <1>0, <1>1 DEF Serving, Querying, Of, Slot
  <2> QED
    BY <1>0, <2>1 DEF Counted
<1> QED
  BY <1>3, <1>4, <1>5, <1>6, <1>7, <1>8

LEMMA ClosesStep ==
  ASSUME Inv, NEW c \in Clients, ReadTimesOut(c) \/ Written(c) \/ WriteTimesOut(c)
  PROVE  Inv'
BY Closes DEF ReadTimesOut, Written, WriteTimesOut, Open

LEMMA NextInv == Inv /\ [Next]_vars => Inv'
<1> SUFFICES ASSUME Inv, [Next]_vars PROVE Inv'
  OBVIOUS
<1>1. ASSUME NEW c \in Clients, ClientStep(c) PROVE Inv'
  <2>1. CASE Begin(c) \/ IsDenied(c) \/ FindsNobody(c)
    BY <2>1, BeginInv
  <2>2. CASE Connects(c)
    BY <2>2, ConnectsInv
  <2>3. CASE RequestRefused(c) \/ RequestsCredential(c)
    BY <2>3, RequestInv
  <2>4. CASE RequestsQuery(c)
    BY <2>4, RequestsQueryInv
  <2>5. CASE ReadTimesOut(c) \/ Written(c) \/ WriteTimesOut(c)
    BY <2>5, ClosesStep
  <2>6. CASE GitReturns(c)
    BY <2>6, GitReturnsInv
  <2>7. CASE QueryReturns(c) \/ QueryTimesOut(c)
    BY <2>7, EndQueryInv DEF QueryReturns, QueryTimesOut
  <2> QED
    BY <1>1, <2>1, <2>2, <2>3, <2>4, <2>5, <2>6, <2>7 DEF ClientStep
<1>2. ASSUME NEW d \in Daemons, DaemonStep(d) PROVE Inv'
  BY <1>2, AcquirePermitInv, AcceptInv, AcceptFailsInv, DrainedInv, AbortInv DEF DaemonStep
<1>3. CASE OwnerEnds \/ OwnerRemoves
  BY <1>3, OwnerInv
<1>4. CASE MonitorStep
  BY <1>4, MonitorLooks, BindsInv, OpensInv, StartFailsInv, SpawnsInv DEF MonitorStep
<1>5. CASE Tick
  BY <1>5, TickInv
<1>6. CASE UNCHANGED vars
  <2>1. UNCHANGED <<loop, path, free, queries, backlog, conn, client, monitor>>
    BY <1>6 DEF vars
  <2>2. Types' /\ Linked' /\ Carried' /\ Queued' /\ Started'
    BY <2>1 DEF Inv, Types, Linked, Carried, Queued, Started
  <2>3. \A d \in Daemons : /\ Serving(d)' = Serving(d) /\ Querying(d)' = Querying(d)
                           /\ Slot(d)' = Slot(d)
    BY <2>1 DEF Serving, Querying, Of, Slot
  <2>4. Counted'
    BY <2>1, <2>3 DEF Inv, Counted
  <2> QED
    BY <2>2, <2>4 DEF Inv
<1> QED
  BY <1>1, <1>2, <1>3, <1>4, <1>5, <1>6 DEF Next

\* However connections and queries end, and whatever the owner and the monitor
\* do in between, no permit is lost and none is given twice
\* (ACTIVE_HOST_DAEMON_CONNECTIONS, ACTIVE_CONTAINER_CLI_QUERIES).
THEOREM PermitsNeverLost == Spec => []PermitsAccounted
<1>1. Init => Inv
  BY InitInv
<1>2. Inv /\ [Next]_vars => Inv'
  BY NextInv
<1>3. Inv => PermitsAccounted
  BY DEF Inv, Counted, PermitsAccounted, Slot, Over
<1> QED
  BY <1>1, <1>2, <1>3, PTL DEF Spec

-----------------------------------------------------------------------------
\* Until the monitor's first daemon listens, nobody answers but the owner's.
First == Owner + 1
Waiting == monitor.new = Owner \/ (monitor.new = First /\ monitor.pc = "listen")
\* How long nobody can have answered.
Waited == IF monitor.pc = "sleep" THEN monitor.since ELSE MonitorInterval + monitor.lag
Clocked ==
    /\ monitor.since \in 0 .. MonitorInterval /\ monitor.lag \in 0 .. MonitorLag
    /\ monitor.pc = "sleep" => monitor.lag = 0
\* A command has not tried longer than that: the monitor's clock runs while
\* the command sleeps, and a command that finds the daemon starts anew.
Tried ==
    /\ monitor.pc # "sleep" => ~Reachable
    /\ \A c \in Clients :
          /\ Reachable => client[c].tries = 0
          /\ client[c].pc = "connect" => client[c].tries <= Waited
          /\ client[c].pc = "sleep" => client[c].tries <= Waited + 1
Patient == Clocked /\ (Waiting => Tried)

\* A listener is never opened again, and nothing but a new socket comes to the path.
Onward ==
    /\ \A d \in Daemons : loop[d] \notin {"none", "bound"} =>
          loop'[d] \notin {"none", "bound"} /\ (Listening(d)' => Listening(d))
    /\ path' \in {path, NoPath} \/ (path' \in Daemons /\ loop[path'] = "none")

LEMMA LostGrows == Onward => Lost \subseteq Lost'
<1> SUFFICES ASSUME Onward, NEW d \in Lost PROVE d \in Lost'
  OBVIOUS
<1>1. d \in Daemons /\ d # NoPath
  BY DaemonNumbers DEF Lost
<1>2. loop[d] \notin {"none", "bound"} /\ ~(path = d /\ Listening(d))
  BY DEF Lost
<1>3. loop'[d] \notin {"none", "bound"} /\ (Listening(d)' => Listening(d))
  BY <1>1, <1>2 DEF Onward
<1>4. path' = d => path = d
  BY <1>1, <1>2 DEF Onward
<1>. QED BY <1>1, <1>2, <1>3, <1>4 DEF Lost

LEMMA NextOnward ==
  ASSUME Inv, [Next]_vars
  PROVE  Onward
<1> USE DEF Inv, Types, Onward
<1>1. CASE UNCHANGED <<loop, path>>
  BY <1>1 DEF Listening
<1>2. ASSUME NEW c \in Clients, ClientStep(c) PROVE Onward
  <2>1. UNCHANGED <<loop, path>>
    BY <1>2 DEF ClientStep, Begin, Connects, IsDenied, FindsNobody, RequestRefused,
                RequestsCredential, RequestsQuery, ReadTimesOut, GitReturns, QueryReturns,
                QueryTimesOut, EndQuery, Written, WriteTimesOut, Close
  <2> QED
    BY <1>1, <2>1
<1>3. ASSUME NEW d \in Daemons, DaemonStep(d) PROVE Onward
  <2>1. /\ path' = path
        /\ \/ loop[d] = "acquire" /\ loop' = [loop EXCEPT ![d] = "accept"]
           \/ loop[d] = "accept" /\ loop' = [loop EXCEPT ![d] = "acquire"]
           \/ loop[d] = "accept" /\ loop' = [loop EXCEPT ![d] = "drain"]
           \/ loop[d] \in {"drain", "aborted", "cut"} /\ loop' = [loop EXCEPT ![d] = "gone"]
    BY <1>3 DEF DaemonStep, AcquirePermit, Accept, AcceptFails, Drained, Abort
  <2> QED
    BY <2>1 DEF Listening
<1>4. CASE OwnerEnds
  <2>1. /\ Owner \in Daemons /\ loop \in [Daemons -> Loops]
        /\ path' = path /\ loop' = Aborted(loop, Owner)
    BY <1>4, DaemonNumbers DEF OwnerEnds
  <2>2. /\ \A e \in Daemons \ {Owner} : loop'[e] = loop[e]
        /\ \/ loop'[Owner] = loop[Owner]
           \/ loop[Owner] \in {"acquire", "accept"} /\ loop'[Owner] = "aborted"
           \/ loop[Owner] = "drain" /\ loop'[Owner] = "cut"
    <3>1. /\ \A e \in Daemons \ {Owner} : Aborted(loop, Owner)[e] = loop[e]
          /\ \/ Aborted(loop, Owner)[Owner] = loop[Owner]
             \/ loop[Owner] \in {"acquire", "accept"} /\ Aborted(loop, Owner)[Owner] = "aborted"
             \/ loop[Owner] = "drain" /\ Aborted(loop, Owner)[Owner] = "cut"
      BY <2>1, AbortedLoop
    <3> QED
      BY <2>1, <3>1
  <2> QED
    BY <2>1, <2>2 DEF Listening
<1>5. CASE OwnerRemoves \/ RemovesHeld \/ MonitorProbes \/ RemovesStale \/ RestartFails
  <2>1. loop' = loop /\ path' \in {path, NoPath}
    BY <1>5 DEF OwnerRemoves, RemovesHeld, MonitorProbes, RemovesStale, RestartFails
  <2> QED
    BY <2>1 DEF Listening
<1>6. CASE Binds
  <2> DEFINE d == monitor.new + 1
  <2>1. d \in Daemons /\ path' = d /\ loop' = [loop EXCEPT ![d] = "bound"]
    BY <1>6 DEF Binds
  <2>2. loop[d] = "none"
    <3>1. monitor.new \in Nat
      BY DaemonNumbers DEF MonitorRec
    <3> QED
      BY <2>1, <3>1 DEF Started
  <2> HIDE DEF d
  <2> QED
    BY <2>1, <2>2 DEF Listening
<1>7. CASE Listens \/ Opens \/ StartFails
  <2>1. PICK d \in Daemons : d = monitor.new
    BY DEF MonitorRec
  <2>2. /\ path' = path
        /\ \/ loop[d] = "bound"
           \/ loop[d] \in {"private", "public"} /\ loop'[d] \in {"public", "gone"}
        /\ \A e \in Daemons \ {d} : loop'[e] = loop[e]
    BY <1>7, <2>1 DEF Listens, Opens, StartFails, MonitorGoes, Started
  <2> QED
    BY <2>2 DEF Listening
<1>8. CASE Spawns
  <2>1. PICK d \in Daemons : d = monitor.new
    BY DEF MonitorRec
  <2>2. PICK l : l = [loop EXCEPT ![d] = "acquire"]
    OBVIOUS
  <2>3. /\ l \in [Daemons -> Loops] /\ l[d] = "acquire"
        /\ \A e \in Daemons \ {d} : l[e] = loop[e]
    BY <2>2 DEF Loops
  <2>4. path' = path /\ loop[d] = "public"
    BY <1>8, <2>1 DEF Spawns, Started
  <2>5. loop' = l \/ (monitor.held \in Daemons /\ loop' = Aborted(l, monitor.held))
    BY <1>8, <2>1, <2>2 DEF Spawns, MonitorRec
  <2>6. CASE loop' = l
    BY <2>3, <2>4, <2>6 DEF Listening
  <2>7. CASE monitor.held \in Daemons /\ loop' = Aborted(l, monitor.held)
    <3>1. PICK h \in Daemons : h = monitor.held /\ loop' = Aborted(l, h)
      BY <2>7
    <3>2. /\ \A e \in Daemons \ {h} : loop'[e] = l[e]
          /\ \/ loop'[h] = l[h]
             \/ l[h] \in {"acquire", "accept"} /\ loop'[h] = "aborted"
             \/ l[h] = "drain" /\ loop'[h] = "cut"
      <4>1. /\ Aborted(l, h) \in [Daemons -> Loops]
            /\ \A e \in Daemons \ {h} : Aborted(l, h)[e] = l[e]
            /\ \/ Aborted(l, h)[h] = l[h]
               \/ l[h] \in {"acquire", "accept"} /\ Aborted(l, h)[h] = "aborted"
               \/ l[h] = "drain" /\ Aborted(l, h)[h] = "cut"
        <5>1. l \in [Daemons -> Loops]
          BY <2>3
        <5> QED
          BY <5>1, AbortedLoop, Zenon
      <4> QED
        BY <3>1, <4>1
    <3>3. \A e \in Daemons : \/ loop'[e] = l[e]
                             \/ l[e] \in {"acquire", "accept"} /\ loop'[e] = "aborted"
                             \/ l[e] = "drain" /\ loop'[e] = "cut"
      BY <3>2
    <3> QED
      BY <2>3, <2>4, <3>3 DEF Listening
  <2> QED
    BY <2>5, <2>6, <2>7
<1>9. CASE Tick \/ UNCHANGED vars
  BY <1>1, <1>9 DEF Tick, vars
<1> QED
  BY <1>2, <1>3, <1>4, <1>5, <1>6, <1>7, <1>8, <1>9 DEF Next, MonitorStep

\* What a command is told, but by FindsNobody and by the timeouts of others.
Answers == {"none", "answered", "lost", "denied"}
\* No client tries again or is told that there is no daemon.
Calm ==
    /\ \A c \in Clients :
          \/ client'[c] = client[c]
          \/ client'[c].tries = 0
          \/ client'[c].pc = "wait" /\ client'[c].tries = client[c].tries
    /\ \A c \in Commands : client'[c].result \in {client[c].result} \cup Answers

LEMMA CalmAnswers ==
  ASSUME Onward, Calm, CommandsAnswered
  PROVE  CommandsAnswered'
BY LostGrows DEF Calm, CommandsAnswered, Answers

\* Steps of the clients and of the daemons.
LEMMA QuietKeeps ==
  ASSUME Inv, Patient, CommandsAnswered, Onward, Calm,
         monitor' = monitor, Reachable' => Reachable
  PROVE  Patient' /\ CommandsAnswered'
<1>1. Waited' = Waited /\ Waited \in Nat
  BY TimesAssumption DEF Patient, Clocked, Waited
<1>2. Clocked' /\ Waiting' = Waiting
  BY DEF Patient, Clocked, Waiting
<1>3. Waiting => Tried'
  BY <1>1 DEF Patient, Tried, Calm
<1>. QED BY <1>2, <1>3, CalmAnswers DEF Patient

\* The ends of connections are calm.
LEMMA EndIsCalm ==
  ASSUME NEW S, NEW result \in {"answered", "closed", "lost"},
         S \cap Commands # {} => result # "closed", End(S, result)
  PROVE  Calm
<1>1. \A c \in Clients : client'[c] = IF c \in S THEN Done(c, result) ELSE client[c]
  BY DEF End
<1>2. \A c : Done(c, result).tries = 0
  BY DoneType
<1>3. \A c \in Commands \cap S : Done(c, result).result = result /\ result \in Answers
  BY DoneType DEF Answers
<1>. QED BY <1>1, <1>2, <1>3 DEF Calm, Clients

LEMMA ClientCalm ==
  ASSUME Inv, NEW c \in Clients, ClientStep(c), ~FindsNobody(c)
  PROVE  Calm /\ UNCHANGED <<loop, path, monitor>>
<1>0. CASE client' = client /\ UNCHANGED <<loop, path, monitor>>
  BY <1>0 DEF Calm, Clients
<1>1. CASE RequestRefused(c) \/ RequestsCredential(c) \/ RequestsQuery(c)
           \/ QueryReturns(c) \/ QueryTimesOut(c)
  BY <1>0, <1>1 DEF RequestRefused, RequestsCredential, RequestsQuery, QueryReturns,
                    QueryTimesOut, EndQuery, sessions
<1>2. ASSUME NEW result \in {"answered", "closed", "lost"},
             Close(c, result), c \in Commands => result # "closed"
      PROVE  Calm /\ UNCHANGED <<loop, path, monitor>>
  <2>1. End({c}, result) /\ UNCHANGED <<loop, path, monitor>>
    BY <1>2 DEF Close, sessions
  <2>. QED BY <1>2, <2>1, EndIsCalm
<1>3. CASE ReadTimesOut(c) \/ WriteTimesOut(c) \/ Written(c)
  BY <1>2, <1>3, ClientsAssumption DEF ReadTimesOut, WriteTimesOut, Written
<1>4. CASE GitReturns(c)
  <2>1. CASE loop[conn[c].daemon] = "gone"
    BY <1>2, <1>4, <2>1 DEF GitReturns
  <2>2. CASE loop[conn[c].daemon] # "gone"
    BY <1>0, <1>4, <2>2 DEF GitReturns, sessions
  <2>. QED BY <2>1, <2>2
<1>5. CASE Begin(c) \/ Connects(c) \/ IsDenied(c)
  <2>1. UNCHANGED <<loop, path, monitor>>
    BY <1>5 DEF Begin, Connects, IsDenied, sessions
  <2>2. PICK rec : /\ client' = [client EXCEPT ![c] = rec]
                   /\ rec.tries = 0 /\ (c \in Commands => rec.result \in Answers)
    BY <1>5, DoneType DEF Begin, Connects, IsDenied, NoClient, Answers
  <2>3. client \in [Clients -> ClientRec]
    BY DEF Inv, Types
  <2>. QED BY <2>1, <2>2, <2>3 DEF Calm, Clients
<1>. QED BY <1>1, <1>3, <1>4, <1>5 DEF ClientStep

LEMMA DaemonCalm ==
  ASSUME Inv, NEW d \in Daemons, DaemonStep(d)
  PROVE  /\ Calm /\ UNCHANGED <<path, monitor>>
         /\ \A e \in Daemons : Listening(e)' => Listening(e)
<1>1. UNCHANGED <<path, monitor>>
  BY DEF DaemonStep, AcquirePermit, Accept, AcceptFails, Drained, Abort, sessions
<1>2. \A e \in Daemons : Listening(e)' => Listening(e)
  <2>1. \/ loop[d] = "acquire" /\ loop' = [loop EXCEPT ![d] = "accept"]
        \/ loop[d] = "accept" /\ loop' = [loop EXCEPT ![d] = "acquire"]
        \/ loop[d] = "accept" /\ loop' = [loop EXCEPT ![d] = "drain"]
        \/ loop[d] \in {"drain", "aborted", "cut"} /\ loop' = [loop EXCEPT ![d] = "gone"]
    BY DEF DaemonStep, AcquirePermit, Accept, AcceptFails, Drained, Abort
  <2>. QED BY <2>1 DEF Inv, Types, Listening
<1>3. Calm
  <2>1. CASE client' = client
    BY <2>1 DEF Calm, Clients
  <2>2. CASE AcceptFails(d) \/ Abort(d)
    <3>1. PICK S : End(S, "lost")
      BY <2>2 DEF AcceptFails, Abort
    <3>. QED BY <3>1, EndIsCalm
  <2>3. ASSUME NEW allowed \in BOOLEAN, Accept(d, allowed), client' # client
        PROVE  Calm
    <3>1. PICK c : End({c}, "closed") /\ c \notin Commands
      BY <2>3 DEF Accept
    <3>. QED BY <3>1, EndIsCalm
  <2>. QED BY <2>1, <2>2, <2>3 DEF DaemonStep, AcquirePermit, Drained
<1>. QED BY <1>1, <1>2, <1>3

\* Once the monitor's first daemon has listened, it is the one that is reached,
\* unless somebody has taken its socket away.
LEMMA FirstAnswers ==
  ASSUME Inv, Lost \subseteq {Owner}, ~Waiting
  PROVE  Reachable
<1>1. monitor.new \in Daemons /\ First \in Daemons /\ First # Owner
  BY DaemonNumbers DEF Inv, Types, MonitorRec, First, Owner
<1>a. monitor.new \in Nat \ {0} /\ First \in Nat
  BY <1>1, DaemonNumbers
<1>2. monitor.new >= First
  BY <1>a DEF Waiting, First, Owner
<1>3. loop[First] # "none"
  <2>1. loop[First] = "none" <=> First > monitor.new
    BY <1>1 DEF Inv, Started
  <2>. QED BY <1>a, <1>2, <2>1
<1>4. loop[First] # "bound"
  BY <1>1 DEF Inv, Started, Waiting
<1>5. First \notin Lost
  BY <1>1
<1>6. path = First /\ Listening(First)
  BY <1>1, <1>3, <1>4, <1>5 DEF Lost
<1>. QED BY <1>1, <1>6, DaemonNumbers DEF Reachable

LEMMA FindsNobodyPatient ==
  ASSUME Inv, Patient, CommandsAnswered, Onward, NEW c \in Clients, FindsNobody(c)
  PROVE  Patient' /\ CommandsAnswered'
<1>1. Waited \in Nat /\ Waited < HandoffRetries
  BY TimesAssumption, HandoffAssumption DEF Patient, Clocked, Waited
<1>2. monitor' = monitor /\ path' = path /\ loop' = loop /\ ~Reachable /\ client[c].pc = "connect"
  BY DEF FindsNobody, sessions
<1>3. Waited' = Waited /\ Reachable' = Reachable /\ Clocked' /\ Waiting' = Waiting
  BY <1>2 DEF Waited, Reachable, Listening, Patient, Clocked, Waiting
<1>4. client[c].tries \in Nat /\ (Waiting => client[c].tries <= Waited)
  BY <1>2 DEF Inv, Types, ClientRec, Patient, Tried
<1>5. client' = [client EXCEPT ![c] =
                   IF client[c].tries < Retries(c)
                   THEN [NoClient EXCEPT !.pc = "sleep", !.tries = client[c].tries + 1]
                   ELSE Done(c, "unavailable")]
  BY DEF FindsNobody
<1>6. /\ \A b \in Clients \ {c} : client'[b] = client[b]
      /\ client'[c] = IF client[c].tries < Retries(c)
                      THEN [NoClient EXCEPT !.pc = "sleep", !.tries = client[c].tries + 1]
                      ELSE Done(c, "unavailable")
  BY <1>5 DEF Inv, Types
<1>7. Waiting => Tried'
  <2>1. \/ client'[c].pc = "sleep" /\ client'[c].tries = client[c].tries + 1
        \/ client'[c].pc = "done"
    BY <1>6, DoneType DEF NoClient
  <2>2. SUFFICES ASSUME Waiting PROVE Tried'
    OBVIOUS
  <2>3. Tried /\ client[c].tries + 1 <= Waited + 1
    BY <1>1, <1>4, <2>2 DEF Patient
  <2>4. \A b \in Clients : /\ client'[b].pc = "connect" => client'[b].tries <= Waited
                           /\ client'[b].pc = "sleep" => client'[b].tries <= Waited + 1
    BY <1>6, <2>1, <2>3 DEF Tried
  <2>. QED BY <1>2, <1>3, <2>3, <2>4 DEF Tried
<1>8. CommandsAnswered'
  <2>1. SUFFICES ASSUME Lost' \subseteq {Owner}
                 PROVE  \A b \in Commands : client'[b].result \notin {"unavailable", "closed"}
    BY DEF CommandsAnswered
  <2>2. Lost \subseteq {Owner}
    BY <2>1, LostGrows
  <2>3. Waiting
    BY <1>2, <2>2, FirstAnswers
  <2>4. c \in Commands => client'[c].result = "none"
    <3>1. c \in Commands => client[c].tries < Retries(c)
      BY <1>1, <1>4, <2>3, TimesAssumption DEF Retries
    <3>. QED BY <1>6, <3>1 DEF NoClient
  <2>. QED BY <1>6, <2>2, <2>4 DEF CommandsAnswered, Clients
<1>. QED BY <1>3, <1>7, <1>8 DEF Patient

\* The owner's end makes nobody reachable.
LEMMA OwnerPatient ==
  ASSUME Inv, Patient, CommandsAnswered, Onward, OwnerEnds \/ OwnerRemoves
  PROVE  Patient' /\ CommandsAnswered'
<1>1. client' = client /\ monitor' = monitor
  BY DEF OwnerEnds, OwnerRemoves
<1>2. Calm
  BY <1>1 DEF Calm, Clients
<1>3. Reachable' => Reachable
  <2>1. CASE OwnerRemoves
    BY <2>1 DEF OwnerRemoves, Reachable
  <2>2. CASE OwnerEnds
    <3>1. path' = path /\ path \in Daemons \cup {NoPath}
      BY <2>2 DEF OwnerEnds, Inv, Types
    <3>2. \A d \in Daemons : Listening(d)' => Listening(d)
      <4>1. loop \in [Daemons -> Loops] /\ Owner \in Daemons /\ loop' = Aborted(loop, Owner)
        BY <2>2, DaemonNumbers DEF OwnerEnds, Inv, Types
      <4>2. /\ \A e \in Daemons \ {Owner} : loop'[e] = loop[e]
            /\ \/ loop'[Owner] = loop[Owner]
               \/ loop[Owner] \in {"acquire", "accept"} /\ loop'[Owner] = "aborted"
               \/ loop[Owner] = "drain" /\ loop'[Owner] = "cut"
        BY <4>1, AbortedLoop
      <4>. QED BY <4>2 DEF Listening
    <3>. QED BY <3>1, <3>2 DEF Reachable
  <2>. QED BY <2>1, <2>2
<1>. QED BY <1>1, <1>2, <1>3, QuietKeeps

\* The monitor's steps keep its clock, and start the first daemon in time.
LEMMA MonitorPatient ==
  ASSUME Inv, Patient, CommandsAnswered, Onward, MonitorStep
  PROVE  Patient' /\ CommandsAnswered'
<1> USE DEF Inv, Types
<1>1. Calm /\ (~StartFails => client' = client)
  <2>1. CASE StartFails
    <3>1. PICK S : End(S, "lost")
      BY <2>1 DEF StartFails
    <3>. QED BY <2>1, <3>1, EndIsCalm
  <2>2. CASE ~StartFails
    <3>1. client' = client
      BY <2>2 DEF MonitorStep, MonitorProbes, RemovesStale, Binds, RestartFails, Listens,
                  Opens, Spawns, RemovesHeld
    <3>. QED BY <3>1 DEF Calm, Clients
  <2>. QED BY <2>1, <2>2
<1>2. CommandsAnswered'
  BY <1>1, CalmAnswers
<1>3. monitor \in MonitorRec /\ monitor.new \in Daemons /\ Clocked
  BY DEF MonitorRec, Patient
<1>4. CASE RemovesStale
  <2>1. monitor' = [monitor EXCEPT !.pc = "bind"] /\ monitor.pc = "bind" /\ path' = NoPath
    BY <1>4, <1>3 DEF RemovesStale, MonitorGoes, MonitorRec
  <2>2. monitor' = monitor
    BY <1>3, <2>1 DEF MonitorRec
  <2>. QED BY <1>1, <2>1, <2>2, QuietKeeps DEF Reachable
<1>5. CASE MonitorProbes
  <2>1. /\ path' = path /\ loop' = loop /\ client' = client
        /\ monitor' = [monitor EXCEPT !.pc = IF Reachable THEN "sleep" ELSE "bind", !.since = 0]
        /\ monitor.pc = "sleep" /\ monitor.since = MonitorInterval
    BY <1>5 DEF MonitorProbes
  <2>2. Reachable' = Reachable
    BY <2>1 DEF Reachable, Listening
  <2>3. /\ monitor'.since = 0 /\ monitor'.lag = 0 /\ monitor.lag = 0 /\ monitor'.new = monitor.new
        /\ Reachable => monitor'.pc = "sleep"
        /\ ~Reachable => monitor'.pc = "bind"
    BY <1>3, <2>1 DEF MonitorRec, Clocked
  <2>4. Clocked'
    BY <2>3, TimesAssumption DEF Clocked
  <2>5. Waiting' => Waiting
    BY <2>1, <2>3 DEF Waiting
  <2>6. Waiting => Tried'
    <3>1. CASE Reachable
      <4>1. Waited' = 0
        BY <2>3, <3>1 DEF Waited
      <4>. QED BY <2>1, <2>2, <2>3, <3>1, <4>1 DEF Patient, Tried
    <3>2. CASE ~Reachable
      <4>1. Waited' = Waited
        BY <2>1, <2>3, <3>2, TimesAssumption DEF Waited
      <4>. QED BY <2>1, <2>2, <3>2, <4>1 DEF Patient, Tried
    <3>. QED BY <3>1, <3>2
  <2>. QED BY <1>2, <2>4, <2>5, <2>6 DEF Patient
<1>6. CASE Binds
  <2>1. /\ monitor.pc = "bind" /\ path' = monitor.new + 1 /\ monitor.new + 1 \in Daemons
        /\ loop' = [loop EXCEPT ![monitor.new + 1] = "bound"] /\ client' = client
        /\ monitor' = [monitor EXCEPT !.pc = "listen", !.new = monitor.new + 1]
    BY <1>6 DEF Binds
  <2>2. /\ monitor'.pc = "listen" /\ monitor'.new = monitor.new + 1
        /\ monitor'.since = monitor.since /\ monitor'.lag = monitor.lag
    BY <1>3, <2>1 DEF MonitorRec
  <2>3. Clocked' /\ Waited' = Waited
    BY <1>3, <2>1, <2>2 DEF Clocked, Waited
  <2>4. ~Reachable'
    BY <2>1 DEF Reachable, Listening
  <2>5. Waiting' => Waiting
    <3>1. monitor.new \in Nat \ {0}
      BY <1>3, DaemonNumbers
    <3>. QED BY <2>2, <3>1 DEF Waiting, First, Owner
  <2>6. Waiting => ~Reachable
    BY <2>1 DEF Patient, Tried
  <2>7. Waiting => Tried'
    BY <2>1, <2>3, <2>4, <2>6 DEF Patient, Tried
  <2>. QED BY <1>2, <2>3, <2>5, <2>7 DEF Patient
<1>7. CASE RestartFails \/ Listens \/ Opens \/ StartFails \/ Spawns \/ RemovesHeld
  <2>1. /\ monitor'.since = monitor.since /\ monitor'.new = monitor.new
        /\ monitor'.pc \in {"sleep", "open", "spawn", "remove"}
        /\ monitor'.lag \in {0, monitor.lag} /\ (monitor'.pc = "sleep" => monitor'.lag = 0)
    <3>1. CASE RestartFails \/ Listens \/ Opens \/ StartFails
      <4>1. PICK from, to \in {"sleep", "bind", "listen", "open", "spawn"} :
               MonitorGoes(from, to) /\ to \in {"sleep", "open", "spawn"}
        BY <3>1 DEF RestartFails, Listens, Opens, StartFails
      <4>2. monitor' = [monitor EXCEPT !.pc = to, !.lag = IF to = "sleep" THEN 0 ELSE @]
        BY <4>1 DEF MonitorGoes
      <4>. QED BY <1>3, <4>1, <4>2 DEF MonitorRec
    <3>2. CASE Spawns \/ RemovesHeld
      <4>1. \/ monitor' = [monitor EXCEPT !.pc = "sleep", !.lag = 0, !.held = monitor.new]
            \/ monitor' = [monitor EXCEPT !.pc = "remove"]
        BY <3>2 DEF Spawns, RemovesHeld
      <4>. QED BY <1>3, <4>1 DEF MonitorRec
    <3>. QED BY <1>7, <3>1, <3>2
  <2>2. Clocked'
    BY <1>3, <2>1, TimesAssumption DEF Clocked
  <2>3. monitor.new # Owner
    <3>1. CASE RestartFails
      BY <3>1, DaemonsAssumption DEF RestartFails, Owner
    <3>2. CASE ~RestartFails
      <4>1. monitor.pc \in {"listen", "open", "spawn", "remove"}
        BY <1>7, <3>2 DEF Listens, Opens, StartFails, Spawns, RemovesHeld, MonitorGoes
      <4>. QED BY <4>1 DEF Started
    <3>. QED BY <3>1, <3>2
  <2>4. ~Waiting'
    BY <2>1, <2>3 DEF Waiting
  <2>. QED BY <1>2, <2>2, <2>4 DEF Patient
<1>. QED BY <1>4, <1>5, <1>6, <1>7 DEF MonitorStep

\* While the monitor waits, no git of its process keeps it from running.
LEMMA MonitorIsFree ==
  ASSUME Inv, Waiting
  PROVE  MonitorRuns
<1>1. {c \in Clients : conn[c].pc = "git" /\ SameProcess(conn[c].daemon, MaxDaemons)} = {}
  <2>. SUFFICES ASSUME NEW c \in Clients, conn[c].pc = "git", SameProcess(conn[c].daemon, MaxDaemons)
                PROVE  FALSE
    OBVIOUS
  <2>1. PICK d \in Daemons : d = conn[c].daemon
    BY DEF Inv, Types, ConnRec
  <2>2. d # Owner /\ d \in Nat \ {0}
    BY <2>1, DaemonNumbers, DaemonsAssumption DEF SameProcess, Owner
  <2>3. loop[d] \notin {"none", "bound"}
    BY <2>1 DEF Inv, Carried
  <2>4. d <= monitor.new /\ monitor.new \in Nat
    <3>1. monitor.new \in Nat
      BY DaemonNumbers DEF Inv, Types, MonitorRec
    <3>2. loop[d] = "none" <=> d > monitor.new
      BY DEF Inv, Started
    <3>. QED BY <2>2, <2>3, <3>1, <3>2
  <2>5. monitor.new = First /\ monitor.pc = "listen" /\ d = First
    BY <2>2, <2>4 DEF Waiting, First, Owner
  <2>. QED BY <2>3, <2>5 DEF Inv, Started
<1>2. Cardinality({c \in Clients : conn[c].pc = "git" /\ SameProcess(conn[c].daemon, MaxDaemons)}) = 0
  BY <1>1, FS_EmptySet
<1>. QED BY <1>2, PermitsAssumption DEF MonitorRuns, Runs

LEMMA TickPatient ==
  ASSUME Inv, Patient, CommandsAnswered, Onward, Tick
  PROVE  Patient' /\ CommandsAnswered'
<1>1. /\ \A c \in Clients : client[c].pc # "connect"
      /\ ~MonitorDue
  BY DEF Tick, Due
<1>2. \A c \in Clients :
         \/ client[c].pc = "sleep" /\ client'[c] = [client[c] EXCEPT !.pc = "connect"]
         \/ client[c].pc = "done" /\ client'[c] = NoClient
         \/ client[c].pc \notin {"connect", "sleep", "done"} /\ client'[c] = client[c]
  BY <1>1 DEF Tick
<1>3. \A c \in Clients :
         /\ client'[c].tries \in {client[c].tries, 0}
         /\ client'[c].result \in {client[c].result, "none"}
         /\ client'[c].pc = "connect" => client[c].pc = "sleep"
         /\ client'[c].pc # "sleep"
  <2>. SUFFICES ASSUME NEW c \in Clients
                PROVE  /\ client'[c].tries \in {client[c].tries, 0}
                       /\ client'[c].result \in {client[c].result, "none"}
                       /\ client'[c].pc = "connect" => client[c].pc = "sleep"
                       /\ client'[c].pc # "sleep"
    OBVIOUS
  <2>1. client[c] \in ClientRec
    BY DEF Inv, Types
  <2>2. CASE client[c].pc = "sleep" /\ client'[c] = [client[c] EXCEPT !.pc = "connect"]
    BY <2>1, <2>2 DEF ClientRec
  <2>3. CASE client'[c] = NoClient
    BY <2>3 DEF NoClient
  <2>4. CASE client[c].pc \notin {"connect", "sleep", "done"} /\ client'[c] = client[c]
    BY <2>4
  <2>. QED BY <1>2, <2>2, <2>3, <2>4
<1>4. path' = path /\ loop' = loop
  BY DEF Tick
<1>5. Reachable' = Reachable
  BY <1>4 DEF Reachable, Listening
<1>6. CommandsAnswered'
  BY <1>3, LostGrows DEF CommandsAnswered, Clients
<1>7. /\ monitor'.pc = monitor.pc /\ monitor'.new = monitor.new
      /\ monitor'.since = IF monitor.since < MonitorInterval THEN monitor.since + 1
                                                             ELSE monitor.since
      /\ monitor'.lag = IF monitor.pc # "sleep" /\ monitor.lag < MonitorLag
                        THEN monitor.lag + 1 ELSE monitor.lag
  BY TickClocks DEF Inv
<1>8. Clocked
  BY DEF Patient
<1>9. Clocked' /\ Waiting' = Waiting
  BY <1>7, <1>8, TimesAssumption DEF Clocked, Waiting
<1>10. ASSUME Waiting PROVE Tried'
  <2>1. MonitorRuns
    BY <1>10, MonitorIsFree
  <2>2. Waited' = Waited + 1 /\ Waited \in Nat
    <3>1. CASE monitor.pc = "sleep"
      <4>1. monitor.since # MonitorInterval
        BY <1>1, <2>1, <3>1 DEF MonitorDue
      <4>. QED BY <1>7, <1>8, <3>1, <4>1, TimesAssumption DEF Clocked, Waited
    <3>2. CASE monitor.pc # "sleep"
      <4>1. monitor.pc # "remove"
        BY <1>10, DaemonNumbers DEF Waiting, Inv, Started
      <4>2. monitor.lag # MonitorLag
        BY <1>1, <2>1, <3>2, <4>1 DEF MonitorDue
      <4>. QED BY <1>7, <1>8, <3>2, <4>2, TimesAssumption DEF Clocked, Waited
    <3>. QED BY <3>1, <3>2
  <2>3. Tried
    BY <1>10 DEF Patient
  <2>4. ASSUME NEW c \in Clients
        PROVE  /\ Reachable' => client'[c].tries = 0
               /\ client'[c].pc = "connect" => client'[c].tries <= Waited'
               /\ client'[c].pc = "sleep" => client'[c].tries <= Waited' + 1
    <3>1. client[c].tries \in Nat
      BY DEF Inv, Types, ClientRec
    <3>. QED BY <1>3, <1>5, <2>2, <2>3, <3>1 DEF Tried
  <2>. QED BY <1>5, <1>7, <2>3, <2>4 DEF Tried
<1>. QED BY <1>6, <1>9, <1>10 DEF Patient

LEMMA NextPatient ==
  ASSUME Inv, Patient, CommandsAnswered, [Next]_vars
  PROVE  Patient' /\ CommandsAnswered'
<1>0. Onward
  BY NextOnward
<1>1. ASSUME NEW c \in Clients, ClientStep(c)
      PROVE  Patient' /\ CommandsAnswered'
  <2>1. CASE FindsNobody(c)
    BY <1>0, <2>1, FindsNobodyPatient
  <2>2. CASE ~FindsNobody(c)
    <3>1. Calm /\ UNCHANGED <<loop, path, monitor>>
      BY <1>1, <2>2, ClientCalm
    <3>2. Reachable' => Reachable
      BY <3>1 DEF Reachable, Listening
    <3>. QED BY <1>0, <3>1, <3>2, QuietKeeps
  <2>. QED BY <2>1, <2>2
<1>2. ASSUME NEW d \in Daemons, DaemonStep(d)
      PROVE  Patient' /\ CommandsAnswered'
  <2>1. /\ Calm /\ UNCHANGED <<path, monitor>>
        /\ \A e \in Daemons : Listening(e)' => Listening(e)
    BY <1>2, DaemonCalm
  <2>2. Reachable' => Reachable
    BY <2>1 DEF Reachable, Inv, Types
  <2>. QED BY <1>0, <2>1, <2>2, QuietKeeps
<1>3. CASE OwnerEnds \/ OwnerRemoves
  BY <1>0, <1>3, OwnerPatient
<1>4. CASE MonitorStep
  BY <1>0, <1>4, MonitorPatient
<1>5. CASE Tick
  BY <1>0, <1>5, TickPatient
<1>6. CASE UNCHANGED vars
  <2>1. Calm /\ monitor' = monitor
    BY <1>6 DEF vars, Calm, Clients
  <2>2. Reachable' => Reachable
    BY <1>6 DEF vars, Reachable, Listening
  <2>. QED BY <1>0, <2>1, <2>2, QuietKeeps
<1>. QED BY <1>1, <1>2, <1>3, <1>4, <1>5, <1>6 DEF Next

\* As long as only the owner's daemon has gone, a command finds one before its
\* retries are used up, and no timeout of a daemon cuts it off
\* (connect_with_retry against monitor_reused_host_daemon).
THEOREM CommandsFindADaemon == Spec => []CommandsAnswered
<1>1. Init => Patient /\ CommandsAnswered
  <2>. SUFFICES ASSUME Init
                PROVE  Patient /\ CommandsAnswered
    OBVIOUS
  <2>1. PICK n \in 0 .. MonitorInterval :
           monitor = [pc |-> "sleep", since |-> n, lag |-> 0, new |-> Owner, held |-> NoPath]
    BY DEF Init
  <2>2. \A c \in Clients : client[c].tries = 0 /\ client[c].result = "none"
    BY DEF Init, NoClient
  <2>3. Waited = n /\ Clocked
    BY <2>1, TimesAssumption DEF Waited, Clocked
  <2>. QED BY <2>1, <2>2, <2>3 DEF Patient, Tried, CommandsAnswered, Clients
<1>2. (Inv /\ Patient /\ CommandsAnswered) /\ [Next]_vars
         => (Inv /\ Patient /\ CommandsAnswered)'
  BY NextInv, NextPatient
<1>. QED BY <1>1, <1>2, InitInv, PTL DEF Spec

=============================================================================
